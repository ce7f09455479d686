----------------------- MODULE StatementParsing_proofs -----------------------
(***************************************************************************)
(* Theorems about the import pipeline, for every set of statements and     *)
(* workers, every number of deliveries and every file whose readings share *)
(* a row number.                                                           *)
(***************************************************************************)
EXTENDS StatementParsing, FiniteSetTheorems, TLAPS

-----------------------------------------------------------------------------
(* Lemmas about sessions.                                                  *)

LEMMA RowCountType == \A R \in Reading : Cardinality(R) \in Int
  <1> SUFFICES ASSUME NEW R \in Reading PROVE Cardinality(R) \in Int
    OBVIOUS
  <1>1. R \subseteq RowNo /\ IsFiniteSet(RowNo)
    BY ReadingAssumption, RowNoAssumption
  <1>2. IsFiniteSet(R)
    BY <1>1, FS_Subset
  <1> QED
    BY <1>2, FS_CardinalityType

LEMMA BlankType == Blank \in Columns
  <1>1. NoLlm \in LlmJob
    BY DEF NoLlm, LlmJob
  <1> QED
    BY <1>1 DEF Blank, Columns, FileType, Status, ParseJob, NoCount

(* So is the record of an enrichment.                                      *)
LEMMA LlmType == \A j \in Nat : Done(j) \in LlmJob /\ Loading(j) \in LlmJob
  BY DEF Done, Loading, LlmJob

(* A flush writes a well-typed row.                                        *)
LEMMA FlushedType ==
  ASSUME NEW w \in Worker, NEW new \in Columns, TypeOK, pc[w] # "idle"
  PROVE  Flushed(w, new) \in Columns
  <1>1. task[w] \in Statement /\ stmt[task[w]] \in Columns /\ snap[w] \in Columns
    BY DEF TypeOK
  <1> DEFINE meta == IF <<new.parse, new.llm, new.count>>
                          = <<snap[w].parse, snap[w].llm, snap[w].count>>
                     THEN stmt[task[w]] ELSE new
  <1>2. meta \in Columns
    BY <1>1
  <1>3. stmt[task[w]].type \in FileType /\ stmt[task[w]].status \in Status
        /\ new.status \in Status
    BY <1>1 DEF Columns
  <1> QED
    BY <1>2, <1>3 DEF Flushed, Columns

LEMMA CommitType ==
  ASSUME NEW w \in Worker, NEW new \in Columns, TypeOK, pc[w] # "idle",
         Commit(w, new)
  PROVE  stmt' \in [Statement -> Columns]
  <1>1. Flushed(w, new) \in Columns
    BY FlushedType
  <1> QED
    BY <1>1 DEF Commit, TypeOK

LEMMA StopType ==
  ASSUME NEW w \in Worker, TypeOK, Stop(w)
  PROVE  /\ pc' \in [Worker -> WorkerState]
         /\ task' \in [Worker -> Statement \cup {NoStatement}]
         /\ \A v \in Worker : pc'[v] # "idle" => task'[v] \in Statement
         /\ job' \in [Worker -> Nat] /\ run' \in [Worker -> Nat]
         /\ snap' \in [Worker -> Columns]
         /\ reading' \in [Worker -> SUBSET RowNo]
  BY BlankType, NoStatementAssumption DEF Stop, TypeOK, WorkerState

LEMMA GoOnType ==
  ASSUME NEW w \in Worker, NEW next \in WorkerState, NEW new \in Columns,
         TypeOK, pc[w] # "idle", GoOn(w, next, new)
  PROVE  /\ pc' \in [Worker -> WorkerState]
         /\ task' \in [Worker -> Statement \cup {NoStatement}]
         /\ \A v \in Worker : pc'[v] # "idle" => task'[v] \in Statement
         /\ job' \in [Worker -> Nat] /\ run' \in [Worker -> Nat]
         /\ snap' \in [Worker -> Columns]
  BY DEF GoOn, TypeOK

(* What a job writes into its copy of the row is well typed.               *)
LEMMA CopyType ==
  ASSUME NEW old \in Columns
  PROVE  /\ \A st \in Status, p \in ParseJob, c \in Int :
              [old EXCEPT !.status = st, !.parse = p, !.count = c] \in Columns
         /\ \A st \in Status, p \in ParseJob :
              [old EXCEPT !.status = st, !.parse = p] \in Columns
         /\ \A p \in ParseJob : [old EXCEPT !.parse = p] \in Columns
         /\ \A l \in LlmJob : [old EXCEPT !.llm = l] \in Columns
  BY DEF Columns

(* So is the row of an accepted upload.                                    *)
LEMMA AcceptedType ==
  ASSUME NEW old \in Columns, NEW t \in FileType
  PROVE  [old EXCEPT !.type = t, !.status = "PARSING"] \in Columns
  <1>1. "PARSING" \in Status
    BY DEF Status
  <1> QED
    BY <1>1 DEF Columns
-----------------------------------------------------------------------------
(* Type correctness.                                                       *)

LEMMA TypeInit == Init => TypeOK
  BY BlankType, BoundAssumption, NoStatementAssumption
  DEF Init, TypeOK, HandlerState, WorkerState

LEMMA TypeUpload ==
  ASSUME TypeOK, NEW s \in Statement,
         UploadStep(s) \/ UploadFails(s) \/ Redeliver(s) \/ RedeliverEnrichment(s)
  PROVE  TypeOK'
  <1> USE DEF TypeOK, diskVars, brokerVars, workerVars, historyVars
  <1>1. ASSUME NEW t \in FileType, UploadBegin(s, t) PROVE TypeOK'
    <2>1. stmt[s] \in Columns
      OBVIOUS
    <2>2. [stmt[s] EXCEPT !.type = t, !.status = "PARSING"] \in Columns
      BY <2>1, AcceptedType
    <2> QED
      BY <1>1, <2>2 DEF UploadBegin, HandlerState
  <1>2. CASE UploadReject(s)
    BY <1>2, BlankType DEF UploadReject, HandlerState
  <1>3. CASE UploadCommit(s)
    BY <1>3 DEF UploadCommit, HandlerState
  <1>5. CASE UploadEnqueue(s)
    BY <1>5 DEF UploadEnqueue, HandlerState
  <1>6. CASE UploadFails(s)
    BY <1>6, BlankType DEF UploadFails, HandlerState
  <1>7. CASE Redeliver(s)
    BY <1>7 DEF Redeliver
  <1>8. CASE RedeliverEnrichment(s)
    BY <1>8 DEF RedeliverEnrichment
  <1> QED
    BY <1>1, <1>2, <1>3, <1>5, <1>6, <1>7, <1>8 DEF UploadStep

LEMMA TypeUser ==
  ASSUME TypeOK, NEW s \in Statement,
         UserStep(s) \/ Unlink(s) \/ UnlinkFails(s)
  PROVE  TypeOK'
  <1> USE DEF TypeOK, diskVars, brokerVars, workerVars, historyVars
  <1>1. ASSUME NEW c \in PatchChoice, PatchStatus(s, c) PROVE TypeOK'
    <2>1. [stmt[s] EXCEPT !.status = c] \in Columns
      BY PatchAssumption DEF Columns
    <2>2. raced' \in [Statement -> BOOLEAN] /\ stmt' \in [Statement -> Columns]
      BY <1>1, <2>1 DEF PatchStatus
    <2> QED
      BY <1>1, <2>2 DEF PatchStatus
  <1>2. CASE DeleteStatement(s)
    BY <1>2, BlankType DEF DeleteStatement
  <1>3. CASE Unlink(s) \/ UnlinkFails(s)
    BY <1>3 DEF Unlink, UnlinkFails
  <1>4. CASE RequestEnrichment(s)
    <2>1. PICK i \in 1..MaxEnrichments :
              /\ asked' = [asked EXCEPT ![s] = @ \cup {i}]
              /\ waiting' = [waiting EXCEPT ![s] = @ \cup {i}]
      BY <1>4 DEF RequestEnrichment
    <2>2. i \in Nat \ {0}
      BY BoundAssumption
    <2> QED
      BY <1>4, <2>1, <2>2 DEF RequestEnrichment
  <1> QED
    BY <1>1, <1>2, <1>3, <1>4 DEF UserStep

LEMMA TypeReceive ==
  ASSUME TypeOK, NEW w \in Worker, NEW s \in Statement, Receive(w, s)
  PROVE  TypeOK'
  <1> USE DEF TypeOK, Receive, diskVars
  <1>1. queue' \in [Statement -> Nat] /\ runs' \in [Statement -> Nat]
    OBVIOUS
  <1>2. raced' \in [Statement -> BOOLEAN]
    OBVIOUS
  <1>3. /\ pc' \in [Worker -> WorkerState]
        /\ task' \in [Worker -> Statement \cup {NoStatement}]
        /\ job' \in [Worker -> Nat]
        /\ run' \in [Worker -> Nat]
        /\ snap' \in [Worker -> Columns]
    <2>1. CASE s \in live
      <3>1. /\ pc' = [pc EXCEPT ![w] = "loaded"]
            /\ task' = [task EXCEPT ![w] = s]
            /\ job' = [job EXCEPT ![w] = 0]
            /\ run' = [run EXCEPT ![w] = runs[s] + 1]
            /\ snap' = [snap EXCEPT ![w] = stmt[s]]
        BY <2>1
      <3>2. "loaded" \in WorkerState /\ runs[s] + 1 \in Nat /\ stmt[s] \in Columns
        BY DEF WorkerState
      <3> QED
        BY <3>1, <3>2
    <2>2. CASE s \notin live
      BY <2>2
    <2> QED
      BY <2>1, <2>2
  <1>4. \A v \in Worker : pc'[v] # "idle" => task'[v] \in Statement
    OBVIOUS
  <1> QED
    BY <1>1, <1>2, <1>3, <1>4

LEMMA TypeReceiveEnrichment ==
  ASSUME TypeOK, NEW w \in Worker, NEW s \in Statement, ReceiveEnrichment(w, s)
  PROVE  TypeOK'
  <1> USE DEF TypeOK, diskVars
  <1>1. PICK i \in waiting[s] :
          /\ waiting' = [waiting EXCEPT ![s] = @ \ {i}]
          /\ IF s \in live
             THEN /\ pc' = [pc EXCEPT ![w] = "enrich"]
                  /\ task' = [task EXCEPT ![w] = s]
                  /\ job' = [job EXCEPT ![w] = i]
                  /\ snap' = [snap EXCEPT ![w] = stmt[s]]
                  /\ raced' = [raced EXCEPT ![s] = @ \/ \E v \in Worker : WorksOn(v, s)]
             ELSE UNCHANGED <<pc, task, job, snap, raced>>
    BY DEF ReceiveEnrichment
  <1>2. UNCHANGED <<live, stmt, rows, diskVars, handler, queue, sent, runs, asked,
                    run, reading, patched>>
    BY DEF ReceiveEnrichment
  <1>3. i \in Nat /\ "enrich" \in WorkerState /\ stmt[s] \in Columns
    BY DEF WorkerState
  <1>4. waiting' \in [Statement -> SUBSET (Nat \ {0})] /\ raced' \in [Statement -> BOOLEAN]
    BY <1>1
  <1>5. /\ pc' \in [Worker -> WorkerState]
        /\ task' \in [Worker -> Statement \cup {NoStatement}]
        /\ job' \in [Worker -> Nat]
        /\ snap' \in [Worker -> Columns]
        /\ \A v \in Worker : pc'[v] # "idle" => task'[v] \in Statement
    <2>1. CASE s \in live
      <3>1. /\ pc' = [pc EXCEPT ![w] = "enrich"]
            /\ task' = [task EXCEPT ![w] = s]
            /\ job' = [job EXCEPT ![w] = i]
            /\ snap' = [snap EXCEPT ![w] = stmt[s]]
        BY <1>1, <2>1
      <3> QED
        BY <1>3, <3>1
    <2>2. CASE s \notin live
      BY <1>1, <2>2
    <2> QED
      BY <2>1, <2>2
  <1> QED
    BY <1>2, <1>4, <1>5

LEMMA TypeJob ==
  ASSUME TypeOK, NEW w \in Worker, JobStep(w) \/ WorkerCrash(w)
  PROVE  TypeOK'
  <1> USE DEF diskVars, brokerVars, historyVars
  <1>1. pc[w] # "idle" /\ snap[w] \in Columns /\ task[w] \in Statement
        /\ snap[w].status \in Status
    BY DEF TypeOK, JobStep, WorkerCrash, FindRows, Reuse, StartParse, ParseFails,
           ParseFindsNothing, ParseByOcr, SaveRows, SaveConflicts, WriteFindsNoRow,
           EnrichSkip, EnrichStart, EnrichLock, EnrichCommit, EnrichFails, Columns
  <1>2. CASE FindRows(w)
    BY <1>1, <1>2 DEF FindRows, TypeOK, WorkerState
  <1>3. CASE Reuse(w)
    <2> DEFINE st == IF snap[w].status \in InFlight THEN "READY_FOR_REVIEW"
                     ELSE snap[w].status
               new == [snap[w] EXCEPT !.status = st, !.parse = "reused"]
    <2>1. st \in Status /\ "reused" \in ParseJob
      BY <1>1 DEF Status, ParseJob
    <2>2. new \in Columns
      BY <1>1, <2>1, CopyType
    <2>3. Commit(w, new) /\ GoOn(w, "enrich", new)
      BY <1>1, <1>3 DEF Reuse
    <2>4. "enrich" \in WorkerState
      BY DEF WorkerState
    <2> HIDE DEF new, st
    <2> QED
      BY <1>1, <1>3, <2>2, <2>3, <2>4, CommitType, GoOnType DEF Reuse, TypeOK
  <1>4. CASE StartParse(w)
    <2> DEFINE new == [snap[w] EXCEPT !.parse = "parser"]
    <2>1. new \in Columns
      BY <1>1, CopyType DEF ParseJob
    <2>2. Commit(w, new) /\ GoOn(w, "parsing", new)
      BY <1>4 DEF StartParse
    <2>3. "parsing" \in WorkerState
      BY DEF WorkerState
    <2> HIDE DEF new
    <2> QED
      BY <1>1, <1>4, <2>1, <2>2, <2>3, CommitType, GoOnType DEF StartParse, TypeOK
  <1>5. CASE ParseFails(w)
    <2> DEFINE new == [snap[w] EXCEPT !.status = "FAILED", !.parse = "failed"]
    <2>1. new \in Columns
      BY <1>1, CopyType DEF ParseJob, Status
    <2>2. Commit(w, new) /\ Stop(w)
      BY <1>5 DEF ParseFails
    <2> HIDE DEF new
    <2> QED
      BY <1>1, <1>5, <2>1, <2>2, CommitType, StopType DEF ParseFails, TypeOK
  <1>6. CASE ParseFindsNothing(w)
    <2> DEFINE pdf == snap[w].type = "pdf"
               st == IF pdf THEN "READY_FOR_REVIEW" ELSE "FAILED"
               p == IF pdf THEN "warned" ELSE "failed"
               new == [snap[w] EXCEPT !.status = st, !.parse = p, !.count = 0]
    <2>1. st \in Status /\ p \in ParseJob /\ 0 \in Int
      BY DEF Status, ParseJob
    <2>2. new \in Columns
      <3> HIDE DEF st, p, pdf
      <3> QED
        BY <1>1, <2>1, CopyType
    <2>3. Commit(w, new) /\ Stop(w)
      BY <1>6 DEF ParseFindsNothing
    <2> HIDE DEF new, st, p, pdf
    <2> QED
      BY <1>1, <1>6, <2>2, <2>3, CommitType, StopType DEF ParseFindsNothing, TypeOK
  <1>7. CASE ParseByOcr(w)
    <2> DEFINE new == [snap[w] EXCEPT !.status = "OCR", !.parse = "ocr"]
    <2>1. new \in Columns
      BY <1>1, CopyType DEF ParseJob, Status
    <2>2. Commit(w, new) /\ GoOn(w, "ocr", new)
      BY <1>7 DEF ParseByOcr
    <2>3. "ocr" \in WorkerState
      BY DEF WorkerState
    <2>4. reading' \in [Worker -> SUBSET RowNo]
      BY <1>7, ReadingAssumption DEF ParseByOcr, TypeOK
    <2> HIDE DEF new
    <2> QED
      BY <1>1, <1>7, <2>1, <2>2, <2>3, <2>4, CommitType, GoOnType DEF ParseByOcr, TypeOK
  <1>8. ASSUME NEW R \in Reading, SaveRows(w, R) PROVE TypeOK'
    <2> DEFINE c == Cardinality(R)
               new == [snap[w] EXCEPT !.status = "READY_FOR_REVIEW", !.parse = "ready",
                                      !.count = c]
    <2>1. c \in Int
      BY RowCountType
    <2>2. new \in Columns
      BY <1>1, <2>1, CopyType DEF ParseJob, Status
    <2>3. Commit(w, new) /\ GoOn(w, "enrich", new)
      BY <1>8 DEF SaveRows
    <2>4. "enrich" \in WorkerState
      BY DEF WorkerState
    <2>5. rows' \in [Statement -> [RowNo -> Nat]]
      BY <1>1, <1>8 DEF SaveRows, TypeOK
    <2>6. reading' \in [Worker -> SUBSET RowNo]
      BY <1>8 DEF SaveRows, TypeOK
    <2> HIDE DEF new
    <2> QED
      BY <1>1, <1>8, <2>2, <2>3, <2>4, <2>5, <2>6, CommitType, GoOnType DEF SaveRows, TypeOK
  <1>9. CASE \/ WriteFindsNoRow(w) \/ EnrichSkip(w) \/ EnrichFails(w) \/ WorkerCrash(w)
             \/ \E R \in Reading : SaveConflicts(w, R)
    <2>1. Stop(w)
      BY <1>9 DEF WriteFindsNoRow, EnrichSkip, EnrichFails, WorkerCrash, SaveConflicts
    <2>2. UNCHANGED <<live, stmt, rows, diskVars, handler, brokerVars, historyVars>>
      BY <1>9 DEF WriteFindsNoRow, EnrichSkip, EnrichFails, WorkerCrash, SaveConflicts
    <2> QED
      BY <2>1, <2>2, StopType DEF TypeOK
  <1>10. CASE EnrichStart(w)
    <2> DEFINE new == [snap[w] EXCEPT !.llm = Loading(job[w])]
    <2>1. new \in Columns
      <3>1. Loading(job[w]) \in LlmJob
        BY LlmType DEF TypeOK
      <3> QED
        BY <1>1, <3>1, CopyType
    <2>2. Commit(w, new) /\ GoOn(w, "select", new)
      BY <1>10 DEF EnrichStart
    <2>3. "select" \in WorkerState
      BY DEF WorkerState
    <2> HIDE DEF new
    <2> QED
      BY <1>1, <1>10, <2>1, <2>2, <2>3, CommitType, GoOnType DEF EnrichStart, TypeOK
  <1>11. CASE EnrichLock(w)
    BY <1>1, <1>11 DEF EnrichLock, TypeOK, WorkerState
  <1>12. CASE EnrichCommit(w)
    <2> DEFINE new == [snap[w] EXCEPT !.llm = Done(job[w])]
    <2>1. new \in Columns
      <3>1. Done(job[w]) \in LlmJob
        BY LlmType DEF TypeOK
      <3> QED
        BY <1>1, <3>1, CopyType
    <2> HIDE DEF new
    <2>2. Flushed(w, new) \in Columns
      BY <1>1, <2>1, FlushedType
    <2>3. stmt' \in [Statement -> Columns]
      BY <1>1, <1>12, <2>2 DEF EnrichCommit, TypeOK, new
    <2>4. Stop(w)
      BY <1>12 DEF EnrichCommit
    <2> QED
      BY <1>12, <2>3, <2>4, StopType DEF EnrichCommit, TypeOK
  <1> QED
    BY <1>2, <1>3, <1>4, <1>5, <1>6, <1>7, <1>8, <1>9, <1>10, <1>11, <1>12 DEF JobStep

LEMMA TypeStep == TypeOK /\ [Next]_vars => TypeOK'
  <1> SUFFICES ASSUME TypeOK, [Next]_vars PROVE TypeOK'
    OBVIOUS
  <1>1. CASE UNCHANGED vars
    BY <1>1 DEF vars, TypeOK, diskVars, brokerVars, workerVars, historyVars
  <1> QED
    BY <1>1, TypeUpload, TypeUser, TypeReceive, TypeReceiveEnrichment, TypeJob DEF Next

(* Every variable keeps its type: in particular no job and no request      *)
(* stores a status outside ALLOWED_STATUSES.                               *)
THEOREM TypeCorrect == Spec => []TypeOK
  BY TypeInit, TypeStep, PTL DEF Spec
-----------------------------------------------------------------------------
(* What a step of a worker may touch: its own session, and the row and the *)
(* transactions of the statement it works on.                              *)

LEMMA CommitFrame ==
  ASSUME NEW w \in Worker, NEW new, TypeOK, Commit(w, new)
  PROVE  /\ stmt' = stmt \/ Writable(task[w])
         /\ \A s \in Statement : s # task[w] => stmt'[s] = stmt[s]
  BY DEF Commit, TypeOK

LEMMA StopFrame ==
  ASSUME NEW w \in Worker, TypeOK, Stop(w)
  PROVE  /\ pc'[w] = "idle"
         /\ \A v \in Worker \ {w} : /\ pc'[v] = pc[v]
                                   /\ task'[v] = task[v]
                                   /\ job'[v] = job[v]
                                   /\ run'[v] = run[v]
                                   /\ snap'[v] = snap[v]
                                   /\ reading'[v] = reading[v]
  BY DEF Stop, TypeOK

LEMMA GoOnFrame ==
  ASSUME NEW w \in Worker, NEW next, NEW new, TypeOK, GoOn(w, next, new)
  PROVE  /\ pc'[w] = next /\ task'[w] = task[w] /\ snap'[w] = new
         /\ job'[w] = job[w] /\ run'[w] = run[w]
         /\ \A v \in Worker \ {w} : /\ pc'[v] = pc[v]
                                   /\ task'[v] = task[v]
                                   /\ job'[v] = job[v]
                                   /\ run'[v] = run[v]
                                   /\ snap'[v] = snap[v]
  BY DEF GoOn, TypeOK

LEMMA JobActive ==
  ASSUME TypeOK, NEW w \in Worker, JobStep(w) \/ WorkerCrash(w)
  PROVE  pc[w] # "idle" /\ task[w] \in Statement /\ snap[w] \in Columns
  BY DEF TypeOK, JobStep, WorkerCrash, FindRows, Reuse, StartParse, ParseFails,
         ParseFindsNothing, ParseByOcr, SaveRows, SaveConflicts, WriteFindsNoRow,
         EnrichSkip, EnrichStart, EnrichLock, EnrichCommit, EnrichFails

JobFrame(w) ==
    /\ UNCHANGED <<live, diskVars, handler, brokerVars, historyVars>>
    /\ \A v \in Worker \ {w} : /\ pc'[v] = pc[v]
                              /\ task'[v] = task[v]
                              /\ job'[v] = job[v]
                              /\ run'[v] = run[v]
                              /\ snap'[v] = snap[v]
                              /\ reading'[v] = reading[v]
    /\ pc'[w] # "idle" => task'[w] = task[w] /\ job'[w] = job[w] /\ run'[w] = run[w]
    /\ \A s \in Statement : s # task[w] => stmt'[s] = stmt[s] /\ rows'[s] = rows[s]
    /\ stmt' = stmt \/ Writable(task[w]) \/ pc[w] = "enriching"

LEMMA JobStepFrame ==
  ASSUME TypeOK, NEW w \in Worker, JobStep(w) \/ WorkerCrash(w)
  PROVE  JobFrame(w)
  <1>0. task[w] \in Statement /\ pc[w] # "idle"
    BY JobActive
  <1>1. ASSUME Stop(w), UNCHANGED <<live, stmt, rows, diskVars, handler, brokerVars, historyVars>>
        PROVE  JobFrame(w)
    BY <1>1, StopFrame DEF JobFrame
  <1>2. ASSUME NEW new, Commit(w, new), Stop(w),
               UNCHANGED <<live, rows, diskVars, handler, brokerVars, historyVars>>
        PROVE  JobFrame(w)
    BY <1>2, StopFrame, CommitFrame DEF JobFrame
  <1>3. ASSUME NEW next, NEW new, Commit(w, new), GoOn(w, next, new),
               UNCHANGED <<live, rows, diskVars, handler, brokerVars, reading, historyVars>>
        PROVE  JobFrame(w)
    BY <1>3, GoOnFrame, CommitFrame DEF JobFrame
  <1>4. ASSUME NEW next, pc' = [pc EXCEPT ![w] = next],
               UNCHANGED <<live, stmt, rows, diskVars, handler, brokerVars,
                           task, job, run, snap, reading, historyVars>>
        PROVE  JobFrame(w)
    BY <1>4 DEF JobFrame, TypeOK
  <1>5. CASE FindRows(w) \/ EnrichLock(w)
    BY <1>4, <1>5 DEF FindRows, EnrichLock
  <1>6. CASE Reuse(w) \/ StartParse(w) \/ EnrichStart(w)
    BY <1>3, <1>6 DEF Reuse, StartParse, EnrichStart
  <1>7. CASE ParseFails(w) \/ ParseFindsNothing(w)
    BY <1>2, <1>7 DEF ParseFails, ParseFindsNothing
  <1>8. CASE ParseByOcr(w)
    <2>1. PICK new : Commit(w, new) /\ GoOn(w, "ocr", new)
      BY <1>8 DEF ParseByOcr
    <2>2. \A v \in Worker \ {w} : reading'[v] = reading[v]
      BY <1>8 DEF ParseByOcr, TypeOK
    <2> QED
      BY <1>8, <2>1, <2>2, GoOnFrame, CommitFrame DEF JobFrame, ParseByOcr
  <1>9. ASSUME NEW R \in Reading, SaveRows(w, R) PROVE JobFrame(w)
    <2>1. PICK new : Commit(w, new) /\ GoOn(w, "enrich", new)
      BY <1>9 DEF SaveRows
    <2>2. \A v \in Worker \ {w} : reading'[v] = reading[v]
      BY <1>9 DEF SaveRows, TypeOK
    <2>3. \A s \in Statement : s # task[w] => rows'[s] = rows[s]
      BY <1>9 DEF SaveRows, TypeOK
    <2> QED
      BY <1>9, <2>1, <2>2, <2>3, GoOnFrame, CommitFrame DEF JobFrame, SaveRows
  <1>10. CASE EnrichCommit(w)
    <2>1. \A s \in Statement : s # task[w] => stmt'[s] = stmt[s]
      BY <1>10 DEF EnrichCommit, TypeOK
    <2> QED
      BY <1>10, <2>1, StopFrame DEF JobFrame, EnrichCommit
  <1>11. CASE \/ WriteFindsNoRow(w) \/ EnrichSkip(w) \/ EnrichFails(w) \/ WorkerCrash(w)
              \/ \E R \in Reading : SaveConflicts(w, R)
    BY <1>1, <1>11 DEF WriteFindsNoRow, EnrichSkip, EnrichFails, WorkerCrash, SaveConflicts
  <1> QED
    BY <1>5, <1>6, <1>7, <1>8, <1>9, <1>10, <1>11 DEF JobStep
-----------------------------------------------------------------------------
(* The files and the row lock.                                             *)

LEMMA UploadInvStep ==
  ASSUME TypeOK, UploadInv, LockInv, [Next]_vars
  PROVE  UploadInv'
  <1> USE DEF UploadInv, TypeOK, diskVars, Blank, NoCount
  <1>1. CASE UNCHANGED vars
    BY <1>1 DEF vars
  <1>2. ASSUME NEW s \in Statement, NEW t \in FileType, UploadBegin(s, t) PROVE UploadInv'
    <2>1. /\ stmt'[s].parse = stmt[s].parse /\ stmt'[s].llm = stmt[s].llm
          /\ stmt'[s].count = stmt[s].count
      BY <1>2 DEF UploadBegin, Columns
    <2>2. \A r \in Statement \ {s} : stmt'[r] = stmt[r]
      BY <1>2 DEF UploadBegin
    <2> QED
      BY <1>2, <2>1, <2>2 DEF UploadBegin
  <1>3. ASSUME NEW s \in Statement, UploadReject(s) PROVE UploadInv'
    BY <1>3 DEF UploadReject
  <1>4. ASSUME NEW s \in Statement, UploadCommit(s) PROVE UploadInv'
    BY <1>4 DEF UploadCommit
  <1>5. ASSUME NEW s \in Statement, UploadEnqueue(s) PROVE UploadInv'
    BY <1>5 DEF UploadEnqueue
  <1>6. ASSUME NEW s \in Statement, UploadFails(s) PROVE UploadInv'
    BY <1>6 DEF UploadFails
  <1>7. ASSUME NEW s \in Statement, Redeliver(s) PROVE UploadInv'
    BY <1>7 DEF Redeliver
  <1>13. ASSUME NEW s \in Statement, RedeliverEnrichment(s) \/ RequestEnrichment(s)
         PROVE  UploadInv'
    BY <1>13 DEF RedeliverEnrichment, RequestEnrichment
  <1>14. ASSUME NEW w \in Worker, NEW s \in Statement, ReceiveEnrichment(w, s)
         PROVE  UploadInv'
    BY <1>14 DEF ReceiveEnrichment
  <1>8. ASSUME NEW s \in Statement, NEW c \in PatchChoice, PatchStatus(s, c) PROVE UploadInv'
    <2>1. s \in live
      BY <1>8 DEF PatchStatus, Writable
    <2>2. \A r \in Statement \ {s} : stmt'[r] = stmt[r]
      BY <1>8 DEF PatchStatus
    <2> QED
      BY <1>8, <2>1, <2>2 DEF PatchStatus
  <1>9. ASSUME NEW s \in Statement, DeleteStatement(s) PROVE UploadInv'
    BY <1>9 DEF DeleteStatement, Writable
  <1>10. ASSUME NEW s \in Statement, Unlink(s) \/ UnlinkFails(s) PROVE UploadInv'
    BY <1>10 DEF Unlink, UnlinkFails
  <1>11. ASSUME NEW w \in Worker, NEW s \in Statement, Receive(w, s) PROVE UploadInv'
    BY <1>11 DEF Receive
  <1>12. ASSUME NEW w \in Worker, JobStep(w) \/ WorkerCrash(w) PROVE UploadInv'
    <2>1. JobFrame(w)
      BY <1>12, JobStepFrame
    <2>2. \A s \in Statement : stmt'[s] = stmt[s] \/ s \in live
      BY <2>1 DEF JobFrame, Writable, LockInv
    <2> QED
      BY <2>1, <2>2 DEF JobFrame
  <1> QED
    BY <1>1, <1>2, <1>3, <1>4, <1>5, <1>6, <1>7, <1>8, <1>9, <1>10, <1>11, <1>12, <1>13,
       <1>14
    DEF Next, UploadStep, UserStep

LEMMA LockInvStep ==
  ASSUME TypeOK, LockInv, [Next]_vars
  PROVE  LockInv'
  <1> USE DEF LockInv, TypeOK, workerVars
  <1>1. CASE UNCHANGED vars
    BY <1>1 DEF vars
  <1>2. ASSUME NEW s \in Statement,
               \/ UploadStep(s) \/ UploadFails(s) \/ Redeliver(s) \/ RedeliverEnrichment(s)
               \/ Unlink(s) \/ UnlinkFails(s)
        PROVE  LockInv'
    BY <1>2 DEF UploadStep, UploadBegin, UploadReject, UploadCommit, UploadEnqueue,
                UploadFails, Redeliver, RedeliverEnrichment, Unlink, UnlinkFails
  <1>3. ASSUME NEW s \in Statement, UserStep(s) PROVE LockInv'
    BY <1>3 DEF UserStep, PatchStatus, RequestEnrichment, DeleteStatement, Writable, Locked
  <1>4. ASSUME NEW w \in Worker, NEW s \in Statement, Receive(w, s) PROVE LockInv'
    BY <1>4 DEF Receive
  <1>6. ASSUME NEW w \in Worker, NEW s \in Statement, ReceiveEnrichment(w, s) PROVE LockInv'
    <2>1. /\ live' = live
          /\ \A v \in Worker : pc'[v] = "enriching" => pc[v] = "enriching" /\ task'[v] = task[v]
      <3>1. pc[w] = "idle" /\ live' = live
        BY <1>6 DEF ReceiveEnrichment
      <3>2. CASE s \in live
        <4>1. pc' = [pc EXCEPT ![w] = "enrich"] /\ task' = [task EXCEPT ![w] = s]
          BY <1>6, <3>2 DEF ReceiveEnrichment
        <4> QED
          BY <3>1, <4>1
      <3>3. CASE s \notin live
        BY <1>6, <3>1, <3>3 DEF ReceiveEnrichment
      <3> QED
        BY <3>1, <3>2, <3>3
    <2> QED
      BY <2>1
  <1>5. ASSUME NEW w \in Worker, JobStep(w) \/ WorkerCrash(w) PROVE LockInv'
    <2>1. JobFrame(w)
      BY <1>5, JobStepFrame
    <2>2. pc'[w] = "enriching" => Writable(task[w])
      BY <1>5 DEF JobStep, WorkerCrash, FindRows, Reuse, StartParse, ParseFails,
           ParseFindsNothing, ParseByOcr, SaveRows, SaveConflicts, WriteFindsNoRow,
           EnrichSkip, EnrichStart, EnrichLock, EnrichCommit, EnrichFails, Stop, GoOn
    <2> QED
      BY <2>1, <2>2 DEF JobFrame, Writable
  <1> QED
    BY <1>1, <1>2, <1>3, <1>4, <1>5, <1>6 DEF Next
-----------------------------------------------------------------------------
(* The rows: what the sessions know, and what they save.                   *)

LEMMA EmptyCount == Cardinality({}) = 0
  BY FS_EmptySet

(* A commit leaves the row's count alone or writes the copy's.             *)
LEMMA CommitCount ==
  ASSUME TypeOK, NEW w \in Worker, NEW new \in Columns, pc[w] # "idle", Commit(w, new)
  PROVE  \/ stmt'[task[w]].count = stmt[task[w]].count
         \/ stmt'[task[w]].count = new.count
  <1>1. task[w] \in Statement /\ stmt[task[w]] \in Columns /\ snap[w] \in Columns
    BY DEF TypeOK
  <1>2. CASE new = snap[w]
    BY <1>2 DEF Commit
  <1>3. CASE new # snap[w]
    <2>1. stmt' = [stmt EXCEPT ![task[w]] = Flushed(w, new)]
      BY <1>3 DEF Commit
    <2>2. stmt'[task[w]] = Flushed(w, new)
      BY <1>1, <2>1 DEF TypeOK
    <2>3. Flushed(w, new).count \in {stmt[task[w]].count, new.count}
      BY <1>1 DEF Flushed, Columns
    <2> QED
      BY <2>2, <2>3
  <1> QED
    BY <1>2, <1>3

(* Two readings share a row, so a save happens only where there is no row, *)
(* and only for a stored statement.                                        *)
LEMMA SaveEffect ==
  ASSUME TypeOK, RowsAreOneReading, SessionInv,
         NEW w \in Worker, NEW R \in Reading, SaveRows(w, R),
         NEW s \in Statement, s = task[w]
  PROVE  /\ s \in live
         /\ Saved(s) = {}
         /\ Saved(s)' = R
         /\ \A n \in R : rows'[s][n] = run[w]
         /\ \A r \in Statement : r # s => rows'[r] = rows[r] /\ Saved(r)' = Saved(r)
  <1> DEFINE new == [snap[w] EXCEPT !.status = "READY_FOR_REVIEW", !.parse = "ready",
                                    !.count = Cardinality(R)]
  <1>1. pc[w] # "idle" /\ snap[w] \in Columns
    BY DEF SaveRows, TypeOK
  <1>2. R \subseteq RowNo /\ \A Q \in Reading : R \cap Q # {}
    BY ReadingAssumption
  <1>3. Saved(s) = {}
    BY <1>1, <1>2 DEF SaveRows, RowsAreOneReading
  <1>4. s \in live
    <2>1. snap[w].parse # "ready"
      BY <1>1 DEF SaveRows, SessionInv
    <2>2. new # snap[w]
      <3>1. new.parse = "ready"
        BY <1>1 DEF Columns
      <3> HIDE DEF new
      <3> QED
        BY <2>1, <3>1
    <2>3. Commit(w, new)
      BY DEF SaveRows
    <2> QED
      BY <2>2, <2>3 DEF Commit, Writable
  <1>5. rows' = [rows EXCEPT ![s] = [n \in RowNo |-> IF n \in R THEN run[w] ELSE rows[s][n]]]
    BY DEF SaveRows
  <1>6. rows'[s] = [n \in RowNo |-> IF n \in R THEN run[w] ELSE rows[s][n]]
    BY <1>5 DEF TypeOK
  <1>7. run[w] # 0 /\ \A n \in RowNo : rows[s][n] = 0
    <2>1. job[w] = 0
      BY <1>1 DEF SaveRows, SessionInv
    <2> QED
      BY <1>1, <1>3, <2>1 DEF SessionInv, Saved
  <1>8. Saved(s)' = R
    BY <1>2, <1>6, <1>7 DEF Saved
  <1>9. \A r \in Statement : r # s => rows'[r] = rows[r]
    BY <1>5 DEF TypeOK
  <1>10. \A r \in Statement : rows'[r] = rows[r] => Saved(r)' = Saved(r)
    BY DEF Saved
  <1> QED
    BY <1>2, <1>3, <1>4, <1>6, <1>8, <1>9, <1>10

(* Other steps of a job leave the transactions alone.                      *)
LEMMA JobKeepsRows ==
  ASSUME TypeOK, NEW w \in Worker, JobStep(w) \/ WorkerCrash(w),
         ~ \E R \in Reading : SaveRows(w, R)
  PROVE  rows' = rows
  BY DEF JobStep, WorkerCrash, FindRows, Reuse, StartParse, ParseFails,
         ParseFindsNothing, ParseByOcr, SaveConflicts, WriteFindsNoRow,
         EnrichSkip, EnrichStart, EnrichLock, EnrichCommit, EnrichFails

(* The copy a job goes on with counts the rows as the copy before it did,  *)
(* or counts none, or counts the rows it has just saved; and so does the   *)
(* row it writes.                                                          *)
LEMMA JobCounts ==
  ASSUME TypeOK, NEW w \in Worker, JobStep(w) \/ WorkerCrash(w)
  PROVE  \E c \in Int :
           /\ \/ c = snap[w].count
              \/ c = 0
              \/ \E R \in Reading : SaveRows(w, R) /\ c = Cardinality(R)
           /\ pc'[w] # "idle" => snap'[w].count = c
           /\ stmt'[task[w]].count \in {stmt[task[w]].count, c}
  <1>1. pc[w] # "idle" /\ task[w] \in Statement /\ snap[w] \in Columns
        /\ snap[w].count \in Int
    BY JobActive DEF Columns
  <1>2. CASE FindRows(w) \/ EnrichLock(w)
    BY <1>1, <1>2 DEF FindRows, EnrichLock
  <1>3. CASE \/ WriteFindsNoRow(w) \/ EnrichSkip(w) \/ EnrichFails(w) \/ WorkerCrash(w)
             \/ \E R \in Reading : SaveConflicts(w, R)
    <2>1. Stop(w) /\ stmt' = stmt
      BY <1>3 DEF WriteFindsNoRow, EnrichSkip, EnrichFails, WorkerCrash, SaveConflicts
    <2> QED
      BY <1>1, <2>1, StopFrame
  <1>4. ASSUME NEW new \in Columns, new.count = snap[w].count \/ new.count = 0, Commit(w, new),
               Stop(w) \/ \E next : GoOn(w, next, new)
        PROVE  \E c \in Int :
                 /\ c = snap[w].count \/ c = 0
                 /\ pc'[w] # "idle" => snap'[w].count = c
                 /\ stmt'[task[w]].count \in {stmt[task[w]].count, c}
    <2>1. new.count \in Int
      BY <1>4 DEF Columns
    <2>2. stmt'[task[w]].count \in {stmt[task[w]].count, new.count}
      BY <1>1, <1>4, CommitCount
    <2>3. pc'[w] # "idle" => snap'[w].count = new.count
      <3>1. CASE Stop(w)
        BY <3>1, StopFrame
      <3>2. CASE \E next : GoOn(w, next, new)
        BY <3>2, GoOnFrame
      <3> QED
        BY <1>4, <3>1, <3>2
    <2> QED
      BY <1>4, <2>1, <2>2, <2>3
  <1>5. CASE Reuse(w)
    <2> DEFINE st == IF snap[w].status \in InFlight THEN "READY_FOR_REVIEW"
                     ELSE snap[w].status
               new == [snap[w] EXCEPT !.status = st, !.parse = "reused"]
    <2>1. new \in Columns /\ new.count = snap[w].count
      BY <1>1 DEF Columns, Status, ParseJob
    <2>2. Commit(w, new) /\ GoOn(w, "enrich", new)
      BY <1>5 DEF Reuse
    <2> HIDE DEF new
    <2> QED
      BY <1>4, <2>1, <2>2
  <1>6. CASE StartParse(w)
    <2> DEFINE new == [snap[w] EXCEPT !.parse = "parser"]
    <2>1. new \in Columns /\ new.count = snap[w].count
      BY <1>1 DEF Columns, ParseJob
    <2>2. Commit(w, new) /\ GoOn(w, "parsing", new)
      BY <1>6 DEF StartParse
    <2> HIDE DEF new
    <2> QED
      BY <1>4, <2>1, <2>2
  <1>7. CASE ParseFails(w)
    <2> DEFINE new == [snap[w] EXCEPT !.status = "FAILED", !.parse = "failed"]
    <2>1. new \in Columns /\ new.count = snap[w].count
      BY <1>1 DEF Columns, Status, ParseJob
    <2>2. Commit(w, new) /\ Stop(w)
      BY <1>7 DEF ParseFails
    <2> HIDE DEF new
    <2> QED
      BY <1>4, <2>1, <2>2
  <1>8. CASE ParseFindsNothing(w)
    <2> DEFINE pdf == snap[w].type = "pdf"
               st == IF pdf THEN "READY_FOR_REVIEW" ELSE "FAILED"
               p == IF pdf THEN "warned" ELSE "failed"
               new == [snap[w] EXCEPT !.status = st, !.parse = p, !.count = 0]
    <2>1. new \in Columns /\ new.count = 0
      <3>1. st \in Status /\ p \in ParseJob
        BY DEF Status, ParseJob
      <3> HIDE DEF st, p, pdf
      <3>2. 0 \in Int
        OBVIOUS
      <3>3. new \in Columns
        BY <1>1, <3>1, <3>2, CopyType
      <3>4. new.count = 0
        BY <1>1 DEF Columns
      <3> QED
        BY <3>3, <3>4
    <2>2. Commit(w, new) /\ Stop(w)
      BY <1>8 DEF ParseFindsNothing
    <2> HIDE DEF new
    <2> QED
      BY <1>4, <2>1, <2>2
  <1>9. CASE ParseByOcr(w)
    <2> DEFINE new == [snap[w] EXCEPT !.status = "OCR", !.parse = "ocr"]
    <2>1. new \in Columns /\ new.count = snap[w].count
      BY <1>1 DEF Columns, Status, ParseJob
    <2>2. Commit(w, new) /\ GoOn(w, "ocr", new)
      BY <1>9 DEF ParseByOcr
    <2> HIDE DEF new
    <2> QED
      BY <1>4, <2>1, <2>2
  <1>10. ASSUME NEW R \in Reading, SaveRows(w, R)
         PROVE  /\ Cardinality(R) \in Int
                /\ snap'[w].count = Cardinality(R)
                /\ stmt'[task[w]].count \in {stmt[task[w]].count, Cardinality(R)}
    <2> DEFINE c == Cardinality(R)
               new == [snap[w] EXCEPT !.status = "READY_FOR_REVIEW", !.parse = "ready",
                                      !.count = c]
    <2>1. c \in Int
      BY RowCountType
    <2>2. new \in Columns /\ new.count = c
      <3> HIDE DEF c
      <3>1. "READY_FOR_REVIEW" \in Status /\ "ready" \in ParseJob
        BY DEF Status, ParseJob
      <3>2. new \in Columns
        BY <1>1, <2>1, <3>1, CopyType
      <3>3. new.count = c
        BY <1>1 DEF Columns
      <3> QED
        BY <3>2, <3>3
    <2>3. Commit(w, new) /\ GoOn(w, "enrich", new)
      BY <1>10 DEF SaveRows
    <2> HIDE DEF new
    <2> QED
      BY <1>1, <2>1, <2>2, <2>3, CommitCount, GoOnFrame
  <1>11. CASE EnrichStart(w)
    <2> DEFINE new == [snap[w] EXCEPT !.llm = Loading(job[w])]
    <2>1. new \in Columns /\ new.count = snap[w].count
      <3>1. Loading(job[w]) \in LlmJob
        BY LlmType DEF TypeOK
      <3> QED
        BY <1>1, <3>1 DEF Columns
    <2>2. Commit(w, new) /\ GoOn(w, "select", new)
      BY <1>11 DEF EnrichStart
    <2> HIDE DEF new
    <2> QED
      BY <1>4, <2>1, <2>2
  <1>12. CASE EnrichCommit(w)
    <2> DEFINE new == [snap[w] EXCEPT !.llm = Done(job[w])]
    <2>1. new \in Columns /\ new.count = snap[w].count
      <3>1. Done(job[w]) \in LlmJob
        BY LlmType DEF TypeOK
      <3> QED
        BY <1>1, <3>1 DEF Columns
    <2>2. stmt' = [stmt EXCEPT ![task[w]] = Flushed(w, new)] /\ Stop(w)
      BY <1>12 DEF EnrichCommit
    <2> HIDE DEF new
    <2>3. Flushed(w, new).count \in {stmt[task[w]].count, new.count}
      BY <1>1, <2>1 DEF Flushed, Columns, TypeOK
    <2> QED
      BY <1>1, <2>1, <2>2, <2>3, StopFrame DEF TypeOK
  <1> QED
    BY <1>2, <1>3, <1>5, <1>6, <1>7, <1>8, <1>9, <1>10, <1>11, <1>12 DEF JobStep
-----------------------------------------------------------------------------
(* What the sessions know is kept by every step.                           *)

(* A step that touches neither the rows nor the sessions, and takes no     *)
(* upload request back before its commit, keeps the sessions' knowledge.   *)
LEMMA SessionFrame ==
  ASSUME TypeOK, SessionInv, UNCHANGED <<rows, workerVars>>,
         live' \subseteq live \cup {s \in Statement : handler[s] = "checking"},
         \A s \in Statement : handler[s] \in {"enqueue", "done"}
                                => handler'[s] \in {"enqueue", "done"}
  PROVE  SessionInv'
  <1> SUFFICES ASSUME NEW w \in Worker, pc'[w] # "idle"
               PROVE  /\ handler'[task'[w]] \in {"enqueue", "done"}
                      /\ job'[w] = 0 => run'[w] # 0
                      /\ job'[w] # 0 => pc'[w] \in {"enrich", "select", "enriching"}
                      /\ pc'[w] = "parsing" => snap'[w].parse = "parser"
                      /\ pc'[w] = "ocr" => snap'[w].parse = "ocr" /\ reading'[w] \in Reading
                      /\ pc'[w] \in {"select", "enriching"} => snap'[w].llm = Loading(job[w])'
                      /\ task'[w] \in live' =>
                            snap'[w].count \in {NoCount, 0, Cardinality(Saved(task[w])')}
    BY DEF SessionInv, Saved, workerVars
  <1>1. /\ pc[w] # "idle" /\ task[w] \in Statement
        /\ task'[w] = task[w] /\ snap'[w] = snap[w] /\ pc'[w] = pc[w]
        /\ job'[w] = job[w] /\ run'[w] = run[w] /\ reading'[w] = reading[w]
    BY DEF workerVars, TypeOK
  <1>3. Loading(job[w])' = Loading(job[w])
    BY <1>1 DEF Loading
  <1>2. task[w] \in live' => task[w] \in live
    BY <1>1 DEF SessionInv
  <1> QED
    BY <1>1, <1>2, <1>3 DEF SessionInv, Saved

(* Where a job is in its parse shows in its copy of the row.               *)
LEMMA JobStage ==
  ASSUME TypeOK, SessionInv, NEW w \in Worker, JobStep(w) \/ WorkerCrash(w)
  PROVE  /\ pc'[w] = "parsing" => snap'[w].parse = "parser"
         /\ pc'[w] = "ocr" => snap'[w].parse = "ocr" /\ reading'[w] \in Reading
         /\ pc'[w] \in {"select", "enriching"} => snap'[w].llm = Loading(job[w])
         /\ job[w] # 0 => pc'[w] \in {"idle", "enrich", "select", "enriching"}
  <1>1. pc[w] # "idle" /\ task[w] \in Statement /\ snap[w] \in Columns
    BY JobActive
  <1>2. CASE StartParse(w)
    <2>1. /\ pc'[w] = "parsing" /\ snap'[w] = [snap[w] EXCEPT !.parse = "parser"]
          /\ pc[w] = "fresh"
      BY <1>2, GoOnFrame DEF StartParse
    <2>2. job[w] = 0
      BY <1>1, <2>1 DEF SessionInv
    <2>3. snap'[w].parse = "parser"
      BY <1>1, <2>1 DEF Columns
    <2> QED
      BY <2>1, <2>2, <2>3
  <1>3. CASE ParseByOcr(w)
    <2>1. /\ pc'[w] = "ocr" /\ snap'[w] = [snap[w] EXCEPT !.status = "OCR", !.parse = "ocr"]
          /\ pc[w] = "parsing"
      BY <1>3, GoOnFrame DEF ParseByOcr
    <2>2. reading'[w] \in Reading
      BY <1>3 DEF ParseByOcr, TypeOK
    <2>3. job[w] = 0
      BY <1>1, <2>1 DEF SessionInv
    <2>4. snap'[w].parse = "ocr"
      BY <1>1, <2>1 DEF Columns
    <2> QED
      BY <2>1, <2>2, <2>3, <2>4
  <1>4. ASSUME JobStep(w) \/ WorkerCrash(w), ~StartParse(w), ~ParseByOcr(w)
        PROVE  pc'[w] \notin {"parsing", "ocr"}
    BY <1>4, <1>1 DEF JobStep, WorkerCrash, FindRows, Reuse, ParseFails,
         ParseFindsNothing, SaveRows, SaveConflicts, WriteFindsNoRow,
         EnrichSkip, EnrichStart, EnrichLock, EnrichCommit, EnrichFails, Stop, GoOn, TypeOK
  <1>5. pc'[w] \in {"select", "enriching"} => snap'[w].llm = Loading(job[w])
    <2>1. CASE EnrichStart(w)
      <3>1. snap'[w] = [snap[w] EXCEPT !.llm = Loading(job[w])]
        BY <2>1, GoOnFrame DEF EnrichStart
      <3> QED
        BY <1>1, <3>1 DEF Columns
    <2>2. CASE EnrichLock(w)
      BY <1>1, <2>2 DEF EnrichLock, SessionInv
    <2>3. ASSUME JobStep(w) \/ WorkerCrash(w), ~EnrichStart(w), ~EnrichLock(w)
          PROVE  pc'[w] \notin {"select", "enriching"}
      BY <2>3, <1>1 DEF JobStep, WorkerCrash, FindRows, Reuse, StartParse, ParseFails,
         ParseFindsNothing, ParseByOcr, SaveRows, SaveConflicts, WriteFindsNoRow,
         EnrichSkip, EnrichCommit, EnrichFails, Stop, GoOn, TypeOK
    <2> QED
      BY <2>1, <2>2, <2>3
  <1>6. ASSUME job[w] # 0 PROVE pc'[w] \in {"idle", "enrich", "select", "enriching"}
    <2>1. pc[w] \in {"enrich", "select", "enriching"}
      BY <1>1, <1>6 DEF SessionInv
    <2> QED
      BY <1>1, <2>1 DEF JobStep, WorkerCrash, FindRows, Reuse, StartParse, ParseFails,
         ParseFindsNothing, ParseByOcr, SaveRows, SaveConflicts, WriteFindsNoRow,
         EnrichSkip, EnrichStart, EnrichLock, EnrichCommit, EnrichFails, Stop, GoOn, TypeOK
  <1> QED
    BY <1>2, <1>3, <1>4, <1>5, <1>6

LEMMA SessionInvJob ==
  ASSUME TypeOK, RowsAreOneReading, SessionInv,
         NEW w \in Worker, JobStep(w) \/ WorkerCrash(w)
  PROVE  SessionInv'
  <1>1. pc[w] # "idle" /\ task[w] \in Statement /\ JobFrame(w)
    BY JobActive, JobStepFrame
  <1> SUFFICES ASSUME NEW v \in Worker, pc'[v] # "idle", NEW s \in Statement, s = task'[v]
               PROVE  /\ handler'[s] \in {"enqueue", "done"}
                      /\ job'[v] = 0 => run'[v] # 0
                      /\ job'[v] # 0 => pc'[v] \in {"enrich", "select", "enriching"}
                      /\ pc'[v] = "parsing" => snap'[v].parse = "parser"
                      /\ pc'[v] = "ocr" => snap'[v].parse = "ocr" /\ reading'[v] \in Reading
                      /\ pc'[v] \in {"select", "enriching"} => snap'[v].llm = Loading(job[v])'
                      /\ s \in live' => snap'[v].count \in {NoCount, 0, Cardinality(Saved(s)')}
    <2>1. \A v \in Worker : pc'[v] # "idle" => task'[v] \in Statement
      BY <1>1 DEF JobFrame, TypeOK
    <2> QED
      BY <2>1 DEF SessionInv, Saved
  <1>2. /\ pc[v] # "idle" /\ task[v] = s /\ job'[v] = job[v] /\ run'[v] = run[v]
        /\ handler' = handler /\ live' = live
    BY <1>1 DEF JobFrame
  <1>3. /\ job'[v] # 0 => pc'[v] \in {"enrich", "select", "enriching"}
        /\ pc'[v] = "parsing" => snap'[v].parse = "parser"
        /\ pc'[v] = "ocr" => snap'[v].parse = "ocr" /\ reading'[v] \in Reading
        /\ pc'[v] \in {"select", "enriching"} => snap'[v].llm = Loading(job[v])'
    <2>1. Loading(job[v])' = Loading(job[v])
      BY <1>2 DEF Loading
    <2>2. CASE v = w
      BY <1>1, <1>2, <2>1, <2>2, JobStage
    <2>3. CASE v # w
      BY <1>1, <1>2, <2>1, <2>3 DEF JobFrame, SessionInv
    <2> QED
      BY <2>2, <2>3
  <1>4. CASE rows' = rows
    <2>1. Saved(s)' = Saved(s)
      BY <1>4 DEF Saved
    <2>2. ASSUME s \in live PROVE snap'[v].count \in {NoCount, 0, Cardinality(Saved(s)')}
      <3>1. snap[v].count \in {NoCount, 0, Cardinality(Saved(s)')}
        BY <1>2, <2>1, <2>2 DEF SessionInv
      <3>2. CASE v # w
        BY <1>1, <3>1, <3>2 DEF JobFrame
      <3>3. CASE v = w
        <4>1. PICK c \in Int :
                 /\ \/ c = snap[w].count
                    \/ c = 0
                    \/ \E R \in Reading : SaveRows(w, R) /\ c = Cardinality(R)
                 /\ pc'[w] # "idle" => snap'[w].count = c
          BY JobCounts
        <4>2. ASSUME NEW R \in Reading, SaveRows(w, R) PROVE Saved(s)' = R
          BY <1>2, <3>3, <4>2, SaveEffect
        <4> QED
          BY <3>1, <3>3, <4>1, <4>2
      <3> QED
        BY <3>2, <3>3
    <2> QED
      BY <1>2, <1>3, <2>2 DEF SessionInv
  <1>5. CASE rows' # rows
    <2>1. PICK R \in Reading : SaveRows(w, R)
      BY <1>5, JobKeepsRows
    <2>2. PICK q \in Statement : q = task[w]
      BY <1>1
    <2>3. /\ Saved(q) = {} /\ Saved(q)' = R
          /\ \A r \in Statement : r # q => Saved(r)' = Saved(r)
      BY <2>1, <2>2, SaveEffect
    <2>4. ASSUME s \in live PROVE snap'[v].count \in {NoCount, 0, Cardinality(Saved(s)')}
      <3>1. snap[v].count \in {NoCount, 0, Cardinality(Saved(s))}
        BY <1>2, <2>4 DEF SessionInv
      <3>2. CASE v = w
        <4>1. snap'[w].count \in {snap[w].count, 0} \/ \E Q \in Reading :
                                  SaveRows(w, Q) /\ snap'[w].count = Cardinality(Q)
          BY <3>2, JobCounts
        <4>2. ASSUME NEW Q \in Reading, SaveRows(w, Q) PROVE Saved(q)' = Q
          BY <2>2, <4>2, SaveEffect
        <4> QED
          BY <1>2, <2>2, <2>3, <3>1, <3>2, <4>1, <4>2, EmptyCount
      <3>3. CASE v # w /\ s = q
        BY <1>1, <2>3, <3>1, <3>3, EmptyCount DEF JobFrame
      <3>4. CASE v # w /\ s # q
        BY <1>1, <2>3, <3>1, <3>4 DEF JobFrame
      <3> QED
        BY <3>2, <3>3, <3>4
    <2> QED
      BY <1>2, <1>3, <2>4 DEF SessionInv
  <1> QED
    BY <1>4, <1>5

LEMMA SessionInvStep ==
  ASSUME TypeOK, UploadInv, RowsInv, SessionInv, [Next]_vars
  PROVE  SessionInv'
  <1>1. CASE UNCHANGED vars
    BY <1>1, SessionFrame DEF vars
  <1>2. ASSUME NEW s \in Statement,
               \/ UploadStep(s) \/ UploadFails(s) \/ Redeliver(s) \/ RedeliverEnrichment(s)
               \/ RequestEnrichment(s) \/ Unlink(s) \/ UnlinkFails(s)
               \/ \E c \in PatchChoice : PatchStatus(s, c)
        PROVE  SessionInv'
    <2>1. UNCHANGED <<rows, workerVars>>
      BY <1>2 DEF UploadStep, UploadBegin, UploadReject, UploadCommit, UploadEnqueue,
                  UploadFails, Redeliver, RedeliverEnrichment, RequestEnrichment,
                  Unlink, UnlinkFails, PatchStatus
    <2>2. live' \subseteq live \cup {r \in Statement : handler[r] = "checking"}
      BY <1>2 DEF UploadStep, UploadBegin, UploadReject, UploadCommit, UploadEnqueue,
                  UploadFails, Redeliver, RedeliverEnrichment, RequestEnrichment,
                  Unlink, UnlinkFails, PatchStatus
    <2>3. \A r \in Statement : handler[r] \in {"enqueue", "done"}
                                  => handler'[r] \in {"enqueue", "done"}
      BY <1>2 DEF UploadStep, UploadBegin, UploadReject, UploadCommit, UploadEnqueue,
                  UploadFails, Redeliver, RedeliverEnrichment, RequestEnrichment,
                  Unlink, UnlinkFails, PatchStatus, TypeOK
    <2> QED
      BY <2>1, <2>2, <2>3, SessionFrame
  <1>3. ASSUME NEW s \in Statement, DeleteStatement(s) PROVE SessionInv'
    <2>1. /\ live' = live \ {s} /\ UNCHANGED <<handler, pc, task, job, run, snap, reading>>
          /\ \A r \in Statement : r # s => rows'[r] = rows[r]
      BY <1>3 DEF DeleteStatement, workerVars, TypeOK
    <2>2. \A r \in Statement : r # s => Saved(r)' = Saved(r)
      BY <2>1 DEF Saved
    <2>3. ASSUME NEW v \in Worker, pc[v] # "idle", task[v] \in live'
          PROVE  snap[v].count \in {NoCount, 0, Cardinality(Saved(task[v])')}
      <3>1. task[v] \in Statement /\ task[v] # s /\ task[v] \in live /\ task'[v] = task[v]
        BY <2>1, <2>3 DEF TypeOK
      <3>2. Saved(task[v])' = Saved(task[v])
        BY <2>1, <3>1 DEF Saved
      <3> QED
        BY <2>3, <3>1, <3>2 DEF SessionInv
    <2> QED
      BY <2>1, <2>3 DEF SessionInv, Saved
  <1>4. ASSUME NEW w \in Worker, NEW s \in Statement, Receive(w, s) PROVE SessionInv'
    <2>1. CASE s \in live
      <3>1. /\ UNCHANGED <<live, rows, handler, reading, stmt>>
            /\ pc' = [pc EXCEPT ![w] = "loaded"]
            /\ task' = [task EXCEPT ![w] = s]
            /\ job' = [job EXCEPT ![w] = 0]
            /\ run' = [run EXCEPT ![w] = runs[s] + 1]
            /\ snap' = [snap EXCEPT ![w] = stmt[s]]
        BY <1>4, <2>1 DEF Receive
      <3>2. \A r \in Statement : Saved(r)' = Saved(r)
        BY <3>1 DEF Saved
      <3>3. /\ pc'[w] = "loaded" /\ task'[w] = s /\ run'[w] = runs[s] + 1
            /\ snap'[w] = stmt[s] /\ runs[s] + 1 # 0
            /\ job'[w] = 0
        BY <3>1 DEF TypeOK
      <3>4. handler[s] \in {"enqueue", "done"}
            /\ stmt[s].count \in {NoCount, 0, Cardinality(Saved(s))}
        BY <2>1 DEF UploadInv, RowsInv, CountNeverOverclaims
      <3>5. \A v \in Worker : v # w => /\ pc'[v] = pc[v] /\ task'[v] = task[v]
                                      /\ run'[v] = run[v] /\ snap'[v] = snap[v]
                                      /\ job'[v] = job[v]
                                      /\ Loading(job[v])' = Loading(job[v])
        BY <3>1 DEF TypeOK, Loading
      <3>6. \A v \in Worker : pc'[v] # "idle" => task'[v] \in Statement
        BY <3>3, <3>5 DEF TypeOK
      <3> SUFFICES ASSUME NEW v \in Worker, pc'[v] # "idle", NEW r \in Statement, r = task'[v]
                   PROVE  /\ handler'[r] \in {"enqueue", "done"}
                          /\ job'[v] = 0 => run'[v] # 0
                          /\ job'[v] # 0 => pc'[v] \in {"enrich", "select", "enriching"}
                          /\ pc'[v] = "parsing" => snap'[v].parse = "parser"
                          /\ pc'[v] = "ocr" => snap'[v].parse = "ocr" /\ reading'[v] \in Reading
                          /\ pc'[v] \in {"select", "enriching"}
                             => snap'[v].llm = Loading(job[v])'
                          /\ r \in live' => snap'[v].count \in {NoCount, 0, Cardinality(Saved(r)')}
        BY <3>6 DEF SessionInv, Saved
      <3>7. CASE v = w
        BY <3>1, <3>2, <3>3, <3>4, <3>7
      <3>8. CASE v # w
        BY <3>1, <3>2, <3>5, <3>8 DEF SessionInv
      <3> QED
        BY <3>7, <3>8
    <2>2. CASE s \notin live
      <3>1. UNCHANGED <<rows, workerVars, live, handler>>
        BY <1>4, <2>2 DEF Receive, workerVars
      <3> QED
        BY <3>1, SessionFrame
    <2> QED
      BY <2>1, <2>2
  <1>6. ASSUME NEW w \in Worker, NEW s \in Statement, ReceiveEnrichment(w, s)
        PROVE  SessionInv'
    <2>1. CASE s \in live
      <3>1. PICK i \in waiting[s] :
            /\ UNCHANGED <<live, rows, handler, reading, stmt, run>>
            /\ pc' = [pc EXCEPT ![w] = "enrich"]
            /\ task' = [task EXCEPT ![w] = s]
            /\ job' = [job EXCEPT ![w] = i]
            /\ snap' = [snap EXCEPT ![w] = stmt[s]]
        BY <1>6, <2>1 DEF ReceiveEnrichment
      <3>2. \A r \in Statement : Saved(r)' = Saved(r)
        BY <3>1 DEF Saved
      <3>3. /\ pc'[w] = "enrich" /\ task'[w] = s /\ job'[w] # 0
            /\ snap'[w] = stmt[s]
        BY <3>1 DEF TypeOK
      <3>4. handler[s] \in {"enqueue", "done"}
            /\ stmt[s].count \in {NoCount, 0, Cardinality(Saved(s))}
        BY <2>1 DEF UploadInv, RowsInv, CountNeverOverclaims
      <3>5. \A v \in Worker : v # w => /\ pc'[v] = pc[v] /\ task'[v] = task[v]
                                      /\ run'[v] = run[v] /\ snap'[v] = snap[v]
                                      /\ job'[v] = job[v]
                                      /\ Loading(job[v])' = Loading(job[v])
        BY <3>1 DEF TypeOK, Loading
      <3>6. \A v \in Worker : pc'[v] # "idle" => task'[v] \in Statement
        BY <3>3, <3>5 DEF TypeOK
      <3> SUFFICES ASSUME NEW v \in Worker, pc'[v] # "idle", NEW r \in Statement, r = task'[v]
                   PROVE  /\ handler'[r] \in {"enqueue", "done"}
                          /\ job'[v] = 0 => run'[v] # 0
                          /\ job'[v] # 0 => pc'[v] \in {"enrich", "select", "enriching"}
                          /\ pc'[v] = "parsing" => snap'[v].parse = "parser"
                          /\ pc'[v] = "ocr" => snap'[v].parse = "ocr" /\ reading'[v] \in Reading
                          /\ pc'[v] \in {"select", "enriching"}
                             => snap'[v].llm = Loading(job[v])'
                          /\ r \in live' => snap'[v].count \in {NoCount, 0, Cardinality(Saved(r)')}
        BY <3>6 DEF SessionInv, Saved
      <3>7. CASE v = w
        BY <3>1, <3>2, <3>3, <3>4, <3>7
      <3>8. CASE v # w
        BY <3>1, <3>2, <3>5, <3>8 DEF SessionInv
      <3> QED
        BY <3>7, <3>8
    <2>2. CASE s \notin live
      <3>1. UNCHANGED <<rows, workerVars, live, handler>>
        BY <1>6, <2>2 DEF ReceiveEnrichment, workerVars
      <3> QED
        BY <3>1, SessionFrame
    <2> QED
      BY <2>1, <2>2
  <1>5. ASSUME NEW w \in Worker, JobStep(w) \/ WorkerCrash(w) PROVE SessionInv'
    BY <1>5, SessionInvJob DEF RowsInv
  <1> QED
    BY <1>1, <1>2, <1>3, <1>4, <1>5, <1>6 DEF Next, UserStep
-----------------------------------------------------------------------------
(* The rows of a statement.                                                *)

LEMMA RowsFrame ==
  ASSUME RowsInv, live \subseteq live', UNCHANGED rows,
         \A s \in Statement : s \in live' =>
            \/ s \in live /\ stmt'[s].count = stmt[s].count
            \/ stmt'[s].count = NoCount,
         TypeOK, TypeOK'
  PROVE  RowsInv'
  <1>1. \A s \in Statement : Saved(s)' = Saved(s) /\ rows'[s] = rows[s]
    BY DEF Saved
  <1>2. RowsAreOneReading'
    BY <1>1 DEF RowsInv, RowsAreOneReading
  <1>3. NoOrphanRows'
    BY <1>1 DEF RowsInv, NoOrphanRows
  <1>4. CountNeverOverclaims'
    BY <1>1 DEF RowsInv, CountNeverOverclaims, TypeOK
  <1> QED
    BY <1>2, <1>3, <1>4 DEF RowsInv

LEMMA RowsInvJob ==
  ASSUME TypeOK, LockInv, SessionInv, RowsInv, NEW w \in Worker, JobStep(w) \/ WorkerCrash(w)
  PROVE  RowsInv'
  <1>0. PICK q \in Statement : q = task[w]
    BY JobActive
  <1>1. pc[w] # "idle" /\ JobFrame(w)
    BY JobActive, JobStepFrame
  <1>2. \A s \in Statement : s # q => stmt'[s] = stmt[s] /\ rows'[s] = rows[s]
    BY <1>0, <1>1 DEF JobFrame
  <1>3. live' = live
    BY <1>1 DEF JobFrame
  <1>4. PICK c \in Int :
           /\ \/ c = snap[w].count
              \/ c = 0
              \/ \E R \in Reading : SaveRows(w, R) /\ c = Cardinality(R)
           /\ stmt'[q].count \in {stmt[q].count, c}
    BY <1>0, JobCounts
  <1>5. ASSUME NEW R \in Reading, SaveRows(w, R)
        PROVE  /\ q \in live /\ Saved(q) = {} /\ Saved(q)' = R
               /\ \A n \in R : rows'[q][n] = run[w]
    BY <1>0, <1>5, SaveEffect DEF RowsInv
  <1>6. \A s \in Statement : s # q => Saved(s)' = Saved(s)
    BY <1>2 DEF Saved
  <1>7. q \in live => /\ snap[w].count \in {NoCount, 0, Cardinality(Saved(q))}
                      /\ stmt[q].count \in {NoCount, 0, Cardinality(Saved(q))}
    BY <1>0, <1>1 DEF SessionInv, RowsInv, CountNeverOverclaims
  <1>8. CASE \E R \in Reading : SaveRows(w, R)
    <2>1. PICK R \in Reading : SaveRows(w, R)
      BY <1>8
    <2>2. q \in live /\ Saved(q) = {} /\ Saved(q)' = R /\ \A n \in R : rows'[q][n] = run[w]
      BY <1>5, <2>1
    <2>3. RowsAreOneReading'
      BY <1>2, <1>6, <2>2 DEF RowsInv, RowsAreOneReading
    <2>4. NoOrphanRows'
      BY <1>3, <1>6, <2>2 DEF RowsInv, NoOrphanRows
    <2>5. stmt'[q].count \in {NoCount, 0, Cardinality(Saved(q)')}
      <3>1. c \in {NoCount, 0, Cardinality(Saved(q)')}
        BY <1>4, <1>5, <1>7, <2>2, EmptyCount
      <3> QED
        BY <1>4, <1>7, <2>2, <3>1, EmptyCount
    <2>6. ASSUME NEW s \in Statement, s \in live, s # q
          PROVE  stmt'[s].count \in {NoCount, 0, Cardinality(Saved(s)')}
      BY <1>2, <1>6, <2>6 DEF RowsInv, CountNeverOverclaims
    <2>7. CountNeverOverclaims'
      BY <1>3, <2>5, <2>6 DEF CountNeverOverclaims, TypeOK
    <2> QED
      BY <2>3, <2>4, <2>7 DEF RowsInv
  <1>9. CASE ~ \E R \in Reading : SaveRows(w, R)
    <2>1. rows' = rows
      BY <1>9, JobKeepsRows
    <2>2. \A s \in Statement : Saved(s)' = Saved(s)
      BY <2>1 DEF Saved
    <2>3. RowsAreOneReading' /\ NoOrphanRows'
      BY <1>3, <2>1, <2>2 DEF RowsInv, RowsAreOneReading, NoOrphanRows
    <2>4. ASSUME NEW s \in Statement, s \in live
          PROVE  stmt'[s].count \in {NoCount, 0, Cardinality(Saved(s)')}
      <3>1. CASE s # q
        BY <1>2, <2>2, <2>4, <3>1 DEF RowsInv, CountNeverOverclaims
      <3>2. CASE s = q
        BY <1>4, <1>7, <1>9, <2>2, <2>4, <3>2
      <3> QED
        BY <3>1, <3>2
    <2>5. CountNeverOverclaims'
      BY <1>3, <2>4 DEF CountNeverOverclaims, TypeOK
    <2> QED
      BY <2>3, <2>5 DEF RowsInv
  <1> QED
    BY <1>8, <1>9

LEMMA RowsInvStep ==
  ASSUME TypeOK, UploadInv, LockInv, SessionInv, RowsInv, [Next]_vars
  PROVE  RowsInv'
  <1>0. TypeOK'
    BY TypeStep
  <1>1. CASE UNCHANGED vars
    BY <1>0, <1>1, RowsFrame DEF vars, TypeOK
  <1>2. ASSUME NEW s \in Statement, NEW t \in FileType, UploadBegin(s, t) PROVE RowsInv'
    <2>1. live' = live /\ rows' = rows /\ \A r \in Statement : r # s => stmt'[r] = stmt[r]
      BY <1>2 DEF UploadBegin, TypeOK
    <2>2. stmt'[s].count = stmt[s].count
      BY <1>2 DEF UploadBegin, TypeOK, Columns
    <2> QED
      BY <1>0, <2>1, <2>2, RowsFrame DEF TypeOK
  <1>3. ASSUME NEW s \in Statement, UploadReject(s) \/ UploadFails(s) PROVE RowsInv'
    <2>1. live' = live /\ rows' = rows
          /\ \A r \in Statement : r \in live => stmt'[r] = stmt[r]
      BY <1>3 DEF UploadReject, UploadFails, UploadInv, TypeOK
    <2> QED
      BY <1>0, <2>1, RowsFrame
  <1>4. ASSUME NEW s \in Statement, UploadCommit(s) PROVE RowsInv'
    <2>1. live \subseteq live' /\ live' \subseteq live \cup {s} /\ rows' = rows /\ stmt' = stmt
      BY <1>4 DEF UploadCommit
    <2>2. s \notin live => stmt[s].count = NoCount
      BY DEF UploadInv
    <2> QED
      BY <1>0, <2>1, <2>2, RowsFrame
  <1>5. ASSUME NEW s \in Statement,
               \/ UploadEnqueue(s) \/ Redeliver(s) \/ RedeliverEnrichment(s)
               \/ RequestEnrichment(s) \/ Unlink(s) \/ UnlinkFails(s)
        PROVE  RowsInv'
    <2>1. live' = live /\ rows' = rows /\ stmt' = stmt
      BY <1>5 DEF UploadEnqueue, Redeliver, RedeliverEnrichment, RequestEnrichment,
                  Unlink, UnlinkFails
    <2> QED
      BY <1>0, <2>1, RowsFrame
  <1>6. ASSUME NEW s \in Statement, NEW c \in PatchChoice, PatchStatus(s, c) PROVE RowsInv'
    <2>1. live' = live /\ rows' = rows /\ \A r \in Statement : r # s => stmt'[r] = stmt[r]
      BY <1>6 DEF PatchStatus, TypeOK
    <2>2. stmt'[s].count = stmt[s].count
      BY <1>6 DEF PatchStatus, TypeOK, Columns
    <2> QED
      BY <1>0, <2>1, <2>2, RowsFrame DEF TypeOK
  <1>7. ASSUME NEW s \in Statement, DeleteStatement(s) PROVE RowsInv'
    <2>1. /\ live' = live \ {s}
          /\ \A r \in Statement : r # s => stmt'[r] = stmt[r] /\ rows'[r] = rows[r]
          /\ rows'[s] = [n \in RowNo |-> 0]
      BY <1>7 DEF DeleteStatement, TypeOK
    <2>2. Saved(s)' = {} /\ \A r \in Statement : r # s => Saved(r)' = Saved(r)
      BY <2>1 DEF Saved
    <2>3. RowsAreOneReading' /\ NoOrphanRows'
      BY <2>1, <2>2 DEF RowsInv, RowsAreOneReading, NoOrphanRows
    <2>4. CountNeverOverclaims'
      BY <2>1, <2>2 DEF RowsInv, CountNeverOverclaims, TypeOK
    <2> QED
      BY <2>3, <2>4 DEF RowsInv
  <1>8. ASSUME NEW w \in Worker, NEW s \in Statement,
               Receive(w, s) \/ ReceiveEnrichment(w, s)
        PROVE  RowsInv'
    <2>1. live' = live /\ rows' = rows /\ stmt' = stmt
      BY <1>8 DEF Receive, ReceiveEnrichment
    <2> QED
      BY <1>0, <2>1, RowsFrame
  <1>9. ASSUME NEW w \in Worker, JobStep(w) \/ WorkerCrash(w) PROVE RowsInv'
    BY <1>9, RowsInvJob
  <1> QED
    BY <1>1, <1>2, <1>3, <1>4, <1>5, <1>6, <1>7, <1>8, <1>9 DEF Next, UploadStep, UserStep

(* The part of the inductive invariant that needs no history.              *)
SafeInv == TypeOK /\ UploadInv /\ LockInv /\ SessionInv /\ RowsInv

LEMMA SafeInit == Init => SafeInv
  <1> SUFFICES ASSUME Init PROVE SafeInv
    OBVIOUS
  <1>1. TypeOK
    BY TypeInit
  <1>2. UploadInv /\ LockInv /\ SessionInv
    BY DEF Init, UploadInv, LockInv, SessionInv, Blank
  <1>3. \A s \in Statement : Saved(s) = {}
    BY DEF Init, Saved
  <1>4. RowsInv
    BY <1>3 DEF Init, RowsInv, RowsAreOneReading, NoOrphanRows, CountNeverOverclaims
  <1> QED
    BY <1>1, <1>2, <1>4 DEF SafeInv

LEMMA SafeStep == SafeInv /\ [Next]_vars => SafeInv'
  BY TypeStep, UploadInvStep, LockInvStep, SessionInvStep, RowsInvStep DEF SafeInv

LEMMA SafeCorrect == Spec => []SafeInv
  BY SafeInit, SafeStep, PTL DEF Spec

(* The rows of a statement are always one whole reading, inserted by one   *)
(* run of the parse task, whatever is delivered twice, overlaps or dies.   *)
THEOREM RowsCorrect == Spec => []RowsAreOneReading
  <1>1. SafeInv => RowsAreOneReading
    BY DEF SafeInv, RowsInv
  <1> QED
    BY <1>1, SafeCorrect, PTL

(* No transaction row outlives its statement.                              *)
THEOREM OrphansCorrect == Spec => []NoOrphanRows
  <1>1. SafeInv => NoOrphanRows
    BY DEF SafeInv, RowsInv
  <1> QED
    BY <1>1, SafeCorrect, PTL

(* Every stored statement has its file.                                    *)
THEOREM FileCorrect == Spec => []FileOutlivesRow
  <1>1. SafeInv => FileOutlivesRow
    BY DEF SafeInv, UploadInv, FileOutlivesRow, TypeOK
  <1> QED
    BY <1>1, SafeCorrect, PTL

(* The row count of the metadata never counts rows that are not there.     *)
THEOREM CountCorrect == Spec => []CountNeverOverclaims
  <1>1. SafeInv => CountNeverOverclaims
    BY DEF SafeInv, RowsInv
  <1> QED
    BY <1>1, SafeCorrect, PTL
-----------------------------------------------------------------------------
(* The outcome of runs that do not overlap.                                *)

SerialAt(s) ==
    ~raced[s] =>
        \A w \in Worker :
            WorksOn(w, s) =>
                /\ \A v \in Worker : WorksOn(v, s) => v = w
                /\ snap[w] = stmt[s]
                /\ pc[w] \in {"fresh", "parsing", "ocr"} => Saved(s) = {}
                /\ pc[w] \in {"reuse", "enrich", "select", "enriching"} /\ job[w] = 0
                   => Saved(s) # {}

ReadyAt(s) ==
    Saved(s) # {} /\ ~raced[s] /\ ~patched[s] =>
        /\ stmt[s].status = "READY_FOR_REVIEW"
        /\ stmt[s].parse \in {"ready", "reused"}
        /\ stmt[s].count = Cardinality(Saved(s))

LEMMA ColumnsEqual ==
  ASSUME NEW a \in Columns, NEW b \in Columns, a.type = b.type, a.status = b.status,
         a.parse = b.parse, a.llm = b.llm, a.count = b.count
  PROVE  a = b
  BY DEF Columns

(* A session whose copy is the row writes exactly its new copy.            *)
LEMMA CommitExact ==
  ASSUME TypeOK, NEW w \in Worker, NEW s \in Statement, s = task[w], pc[w] # "idle",
         snap[w] = stmt[s], NEW new \in Columns, new.type = snap[w].type
  PROVE  /\ Flushed(w, new) = new
         /\ Commit(w, new) => stmt'[s] = new
  <1>1. stmt[s] \in Columns /\ snap[w] \in Columns /\ Flushed(w, new) \in Columns
    BY FlushedType DEF TypeOK
  <1>2. /\ Flushed(w, new).type = new.type
        /\ Flushed(w, new).status = new.status
    BY <1>1 DEF Flushed, Columns
  <1>3. /\ Flushed(w, new).parse = new.parse
        /\ Flushed(w, new).llm = new.llm
        /\ Flushed(w, new).count = new.count
    BY <1>1 DEF Flushed, Columns
  <1>4. Flushed(w, new) = new
    BY <1>1, <1>2, <1>3, ColumnsEqual
  <1> QED
    BY <1>4 DEF Commit, TypeOK

(* A statement that a step does not touch.                                 *)
LEMMA OutcomeFrame ==
  ASSUME NEW s \in Statement, SerialAt(s), ReadyAt(s),
         raced'[s] = raced[s], patched'[s] = patched[s], stmt'[s] = stmt[s],
         rows'[s] = rows[s],
         \A v \in Worker : WorksOn(v, s)' => /\ WorksOn(v, s)
                                            /\ pc'[v] = pc[v] /\ snap'[v] = snap[v]
                                            /\ job'[v] = job[v]
  PROVE  SerialAt(s)' /\ ReadyAt(s)'
  <1>1. Saved(s)' = Saved(s)
    BY DEF Saved
  <1>2. SerialAt(s)'
    BY <1>1 DEF SerialAt
  <1>3. ReadyAt(s)'
    BY <1>1 DEF ReadyAt
  <1> QED
    BY <1>2, <1>3

(* A job that ends.                                                        *)
LEMMA OutcomeStop ==
  ASSUME TypeOK, NEW w \in Worker, NEW s \in Statement, s = task[w], pc[w] # "idle",
         ~raced[s], SerialAt(s), JobFrame(w), Stop(w)
  PROVE  SerialAt(s)'
  <1>1. \A v \in Worker : ~WorksOn(v, s)'
    BY StopFrame DEF JobFrame, SerialAt, WorksOn
  <1> QED
    BY <1>1 DEF SerialAt

(* A job that goes on with a copy that is the row.                         *)
LEMMA OutcomeGoOn ==
  ASSUME TypeOK, NEW w \in Worker, NEW s \in Statement, s = task[w], pc[w] # "idle",
         ~raced[s], SerialAt(s), JobFrame(w), snap'[w] = stmt'[s],
         pc'[w] \in {"fresh", "parsing", "ocr"} => Saved(s)' = {},
         pc'[w] \in {"reuse", "enrich", "select", "enriching"} /\ job'[w] = 0
         => Saved(s)' # {}
  PROVE  SerialAt(s)'
  <1>1. \A v \in Worker : WorksOn(v, s)' => v = w
    BY DEF JobFrame, SerialAt, WorksOn
  <1> QED
    BY <1>1 DEF SerialAt

(* Every step of a job that has the statement for itself keeps the outcome.*)
LEMMA OutcomeJob ==
  ASSUME TypeOK, SafeInv, NEW w \in Worker, NEW s \in Statement, s = task[w], s \in live,
         SerialAt(s), ReadyAt(s), JobStep(w) \/ WorkerCrash(w), ~raced[s]
  PROVE  SerialAt(s)' /\ ReadyAt(s)'
  <1>1. /\ pc[w] # "idle" /\ snap[w] \in Columns /\ JobFrame(w) /\ WorksOn(w, s)
        /\ raced'[s] = raced[s] /\ patched'[s] = patched[s]
        /\ snap[w].status \in Status /\ (pc'[w] # "idle" => job'[w] = job[w])
    BY JobActive, JobStepFrame DEF JobFrame, WorksOn, historyVars, Columns
  <1>2. /\ snap[w] = stmt[s]
        /\ pc[w] \in {"fresh", "parsing", "ocr"} => Saved(s) = {}
        /\ pc[w] \in {"reuse", "enrich", "select", "enriching"} /\ job[w] = 0 => Saved(s) # {}
    BY <1>1 DEF SerialAt
  <1>3. ASSUME rows' = rows PROVE Saved(s)' = Saved(s)
    BY <1>3 DEF Saved
  <1>4. ASSUME Saved(s)' = {} PROVE ReadyAt(s)'
    BY <1>4 DEF ReadyAt
  <1>5. ASSUME rows' = rows, stmt'[s].status = stmt[s].status,
               stmt'[s].parse = stmt[s].parse, stmt'[s].count = stmt[s].count
        PROVE  ReadyAt(s)'
    BY <1>1, <1>3, <1>5 DEF ReadyAt
  <1>6. ASSUME NEW new \in Columns, new.type = snap[w].type, Commit(w, new)
        PROVE  stmt'[s] = new
    BY <1>1, <1>2, <1>6, CommitExact
  <1>7. CASE FindRows(w) \/ EnrichLock(w)
    <2>1. rows' = rows /\ stmt' = stmt /\ snap' = snap
          /\ pc'[w] = (IF EnrichLock(w) /\ pc[w] = "select" THEN "enriching"
                       ELSE IF Saved(s) = {} THEN "fresh" ELSE "reuse")
      BY <1>1, <1>7 DEF FindRows, EnrichLock, TypeOK
    <2>2. ReadyAt(s)'
      BY <1>5, <2>1
    <2>3. SerialAt(s)'
      BY <1>1, <1>2, <1>3, <2>1, OutcomeGoOn
    <2> QED
      BY <2>2, <2>3
  <1>8. CASE \/ WriteFindsNoRow(w) \/ EnrichSkip(w) \/ EnrichFails(w) \/ WorkerCrash(w)
             \/ \E R \in Reading : SaveConflicts(w, R)
    <2>1. Stop(w) /\ stmt' = stmt /\ rows' = rows
      BY <1>8 DEF WriteFindsNoRow, EnrichSkip, EnrichFails, WorkerCrash, SaveConflicts
    <2> QED
      BY <1>1, <1>5, <2>1, OutcomeStop
  <1>9. CASE ParseFails(w) \/ ParseFindsNothing(w)
    <2>1. Stop(w) /\ rows' = rows /\ pc[w] = "parsing"
      BY <1>9 DEF ParseFails, ParseFindsNothing
    <2> QED
      BY <1>1, <1>2, <1>3, <1>4, <2>1, OutcomeStop
  <1>10. CASE Reuse(w)
    <2> DEFINE st == IF snap[w].status \in InFlight THEN "READY_FOR_REVIEW"
                     ELSE snap[w].status
               new == [snap[w] EXCEPT !.status = st, !.parse = "reused"]
    <2>1. st \in Status /\ "reused" \in ParseJob
      BY <1>1 DEF Status, ParseJob
    <2>2. new \in Columns /\ new.type = snap[w].type /\ new.status = st
          /\ new.parse = "reused" /\ new.count = snap[w].count
      <3> HIDE DEF st
      <3> QED
        BY <1>1, <2>1, CopyType DEF Columns
    <2>3. Commit(w, new) /\ GoOn(w, "enrich", new) /\ rows' = rows /\ pc[w] = "reuse"
      BY <1>10 DEF Reuse
    <2>4. stmt[s].status = "READY_FOR_REVIEW" => st = "READY_FOR_REVIEW"
      BY <1>2
    <2> HIDE DEF new, st
    <2>5. stmt'[s] = new
      BY <1>6, <2>2, <2>3
    <2>6. snap'[w] = new /\ pc'[w] = "enrich"
      BY <2>3, GoOnFrame
    <2>7. SerialAt(s)'
      BY <1>1, <1>2, <1>3, <2>3, <2>5, <2>6, OutcomeGoOn
    <2>8. ReadyAt(s)'
      BY <1>1, <1>2, <1>3, <2>2, <2>3, <2>4, <2>5 DEF ReadyAt
    <2> QED
      BY <2>7, <2>8
  <1>11. CASE StartParse(w)
    <2> DEFINE new == [snap[w] EXCEPT !.parse = "parser"]
    <2>1. new \in Columns /\ new.type = snap[w].type
      BY <1>1 DEF Columns, ParseJob
    <2>2. Commit(w, new) /\ GoOn(w, "parsing", new) /\ rows' = rows /\ pc[w] = "fresh"
      BY <1>11 DEF StartParse
    <2> HIDE DEF new
    <2>3. stmt'[s] = new /\ snap'[w] = new /\ pc'[w] = "parsing"
      BY <1>6, <2>1, <2>2, GoOnFrame
    <2> QED
      BY <1>1, <1>2, <1>3, <1>4, <2>2, <2>3, OutcomeGoOn
  <1>12. CASE ParseByOcr(w)
    <2> DEFINE new == [snap[w] EXCEPT !.status = "OCR", !.parse = "ocr"]
    <2>1. new \in Columns /\ new.type = snap[w].type
      BY <1>1 DEF Columns, ParseJob, Status
    <2>2. Commit(w, new) /\ GoOn(w, "ocr", new) /\ rows' = rows /\ pc[w] = "parsing"
      BY <1>12 DEF ParseByOcr
    <2> HIDE DEF new
    <2>3. stmt'[s] = new /\ snap'[w] = new /\ pc'[w] = "ocr"
      BY <1>6, <2>1, <2>2, GoOnFrame
    <2> QED
      BY <1>1, <1>2, <1>3, <1>4, <2>2, <2>3, OutcomeGoOn
  <1>13. ASSUME NEW R \in Reading, SaveRows(w, R) PROVE SerialAt(s)' /\ ReadyAt(s)'
    <2> DEFINE c == Cardinality(R)
               new == [snap[w] EXCEPT !.status = "READY_FOR_REVIEW", !.parse = "ready",
                                      !.count = c]
    <2>1. c \in Int /\ "READY_FOR_REVIEW" \in Status /\ "ready" \in ParseJob
      BY RowCountType DEF Status, ParseJob
    <2>2. Saved(s)' = R
      BY <1>13, SaveEffect DEF SafeInv, RowsInv
    <2>3. R # {}
      BY ReadingAssumption
    <2>4. Commit(w, new) /\ GoOn(w, "enrich", new)
      BY <1>13 DEF SaveRows
    <2>5. new \in Columns /\ new.type = snap[w].type
          /\ new.status = "READY_FOR_REVIEW" /\ new.parse = "ready" /\ new.count = c
      <3> HIDE DEF c
      <3>1. new \in Columns
        BY <1>1, <2>1, CopyType
      <3> QED
        BY <1>1, <3>1 DEF Columns
    <2> HIDE DEF new
    <2>6. stmt'[s] = new /\ snap'[w] = new /\ pc'[w] = "enrich"
      BY <1>6, <2>4, <2>5, GoOnFrame
    <2>7. SerialAt(s)'
      BY <1>1, <2>2, <2>3, <2>6, OutcomeGoOn
    <2>8. ReadyAt(s)'
      BY <2>2, <2>5, <2>6 DEF ReadyAt
    <2> QED
      BY <2>7, <2>8
  <1>14. CASE EnrichStart(w)
    <2> DEFINE new == [snap[w] EXCEPT !.llm = Loading(job[w])]
    <2>1. /\ new \in Columns /\ new.type = snap[w].type /\ new.status = snap[w].status
          /\ new.parse = snap[w].parse /\ new.count = snap[w].count
      <3>1. Loading(job[w]) \in LlmJob
        BY LlmType DEF TypeOK
      <3> QED
        BY <1>1, <3>1 DEF Columns
    <2>2. Commit(w, new) /\ GoOn(w, "select", new) /\ rows' = rows /\ pc[w] = "enrich"
      BY <1>14 DEF EnrichStart
    <2> HIDE DEF new
    <2>3. stmt'[s] = new /\ snap'[w] = new /\ pc'[w] = "select"
      BY <1>6, <2>1, <2>2, GoOnFrame
    <2>4. SerialAt(s)'
      BY <1>1, <1>2, <1>3, <2>2, <2>3, OutcomeGoOn
    <2>5. ReadyAt(s)'
      BY <1>2, <1>5, <2>1, <2>2, <2>3
    <2> QED
      BY <2>4, <2>5
  <1>15. CASE EnrichCommit(w)
    <2> DEFINE new == [snap[w] EXCEPT !.llm = Done(job[w])]
    <2>1. /\ new \in Columns /\ new.type = snap[w].type /\ new.status = snap[w].status
          /\ new.parse = snap[w].parse /\ new.count = snap[w].count
      <3>1. Done(job[w]) \in LlmJob
        BY LlmType DEF TypeOK
      <3> QED
        BY <1>1, <3>1 DEF Columns
    <2>2. stmt' = [stmt EXCEPT ![s] = Flushed(w, new)] /\ Stop(w) /\ rows' = rows
      BY <1>15 DEF EnrichCommit
    <2> HIDE DEF new
    <2>3. stmt'[s] = new
      BY <1>1, <1>2, <2>1, <2>2, CommitExact DEF TypeOK
    <2>4. SerialAt(s)'
      BY <1>1, <2>2, OutcomeStop
    <2>5. ReadyAt(s)'
      BY <1>2, <1>5, <2>1, <2>2, <2>3
    <2> QED
      BY <2>4, <2>5
  <1> QED
    BY <1>7, <1>8, <1>9, <1>10, <1>11, <1>12, <1>13, <1>14, <1>15 DEF JobStep

(* An idle worker stays idle unless it receives a task.                    *)
LEMMA WorkerFrame ==
  ASSUME TypeOK, UNCHANGED workerVars
  PROVE  \A s \in Statement, v \in Worker :
            WorksOn(v, s)' => /\ WorksOn(v, s) /\ pc'[v] = pc[v] /\ snap'[v] = snap[v]
                              /\ job'[v] = job[v]
  BY DEF workerVars, WorksOn

OutcomeInv == \A s \in live : SerialAt(s) /\ ReadyAt(s)

LEMMA OutcomeStep ==
  ASSUME SafeInv, OutcomeInv, [Next]_vars
  PROVE  OutcomeInv'
  <1> USE DEF diskVars, brokerVars, historyVars
  <1>0. TypeOK /\ UploadInv /\ TypeOK'
    BY TypeStep DEF SafeInv
  <1> SUFFICES ASSUME NEW s \in Statement, s \in live' PROVE SerialAt(s)' /\ ReadyAt(s)'
    BY <1>0 DEF OutcomeInv, TypeOK
  <1>1. CASE UNCHANGED vars
    <2>1. s \in live /\ UNCHANGED workerVars /\ UNCHANGED <<stmt, rows, raced, patched>>
      BY <1>1 DEF vars
    <2> QED
      BY <1>0, <2>1, WorkerFrame, OutcomeFrame DEF OutcomeInv
  <1>2. ASSUME NEW r \in Statement, \E t \in FileType : UploadBegin(r, t) PROVE SerialAt(s)' /\ ReadyAt(s)'
    <2>1. /\ live' = live /\ UNCHANGED workerVars /\ UNCHANGED <<rows, raced, patched>>
          /\ handler[r] = "new" /\ \A q \in Statement : q # r => stmt'[q] = stmt[q]
      BY <1>0, <1>2 DEF UploadBegin, TypeOK
    <2>2. s # r
      BY <1>0, <2>1 DEF UploadInv
    <2> QED
      BY <1>0, <2>1, <2>2, WorkerFrame, OutcomeFrame DEF OutcomeInv
  <1>3. ASSUME NEW r \in Statement, UploadReject(r) \/ UploadFails(r)
        PROVE  SerialAt(s)' /\ ReadyAt(s)'
    <2>1. /\ live' = live /\ UNCHANGED workerVars /\ UNCHANGED <<rows, raced, patched>>
          /\ \A q \in Statement : q \in live => stmt'[q] = stmt[q]
      BY <1>0, <1>3 DEF UploadReject, UploadFails, UploadInv, TypeOK
    <2> QED
      BY <1>0, <2>1, WorkerFrame, OutcomeFrame DEF OutcomeInv
  <1>4. ASSUME NEW r \in Statement, UploadCommit(r) PROVE SerialAt(s)' /\ ReadyAt(s)'
    <2>1. /\ UNCHANGED workerVars /\ UNCHANGED <<stmt, rows, raced, patched>>
          /\ live' = live \cup {r} /\ handler[r] = "checking"
      BY <1>4 DEF UploadCommit
    <2>2. CASE s \in live
      BY <1>0, <2>1, <2>2, WorkerFrame, OutcomeFrame DEF OutcomeInv
    <2>3. CASE s \notin live
      <3>1. Saved(s)' = {}
        BY <2>1, <2>3 DEF SafeInv, RowsInv, NoOrphanRows, Saved
      <3>2. \A v \in Worker : ~WorksOn(v, s)'
        BY <2>1, <2>3 DEF SafeInv, SessionInv, WorksOn, workerVars
      <3> QED
        BY <3>1, <3>2 DEF SerialAt, ReadyAt
    <2> QED
      BY <2>2, <2>3
  <1>5. ASSUME NEW r \in Statement,
               \/ UploadEnqueue(r) \/ Redeliver(r) \/ RedeliverEnrichment(r)
               \/ RequestEnrichment(r) \/ Unlink(r) \/ UnlinkFails(r)
        PROVE  SerialAt(s)' /\ ReadyAt(s)'
    <2>1. live' = live /\ UNCHANGED workerVars /\ UNCHANGED <<stmt, rows, raced, patched>>
      BY <1>5 DEF UploadEnqueue, Redeliver, RedeliverEnrichment, RequestEnrichment,
                  Unlink, UnlinkFails
    <2> QED
      BY <1>0, <2>1, WorkerFrame, OutcomeFrame DEF OutcomeInv
  <1>6. ASSUME NEW r \in Statement, NEW c \in PatchChoice, PatchStatus(r, c)
        PROVE  SerialAt(s)' /\ ReadyAt(s)'
    <2>1. /\ live' = live /\ UNCHANGED workerVars /\ rows' = rows
          /\ \A q \in Statement : q # r => stmt'[q] = stmt[q] /\ raced'[q] = raced[q]
                                          /\ patched'[q] = patched[q]
          /\ patched'[r] = TRUE
          /\ ~raced'[r] => \A v \in Worker : ~WorksOn(v, r)
      BY <1>0, <1>6 DEF PatchStatus, TypeOK
    <2>2. CASE s # r
      BY <1>0, <2>1, <2>2, WorkerFrame, OutcomeFrame DEF OutcomeInv
    <2>3. CASE s = r
      <3>1. ReadyAt(s)'
        BY <2>1, <2>3 DEF ReadyAt
      <3>2. ~raced'[s] => \A v \in Worker : ~WorksOn(v, s)'
        BY <1>0, <2>1, <2>3, WorkerFrame
      <3> QED
        BY <3>1, <3>2 DEF SerialAt
    <2> QED
      BY <2>2, <2>3
  <1>7. ASSUME NEW r \in Statement, DeleteStatement(r) PROVE SerialAt(s)' /\ ReadyAt(s)'
    <2>1. /\ live' = live \ {r} /\ UNCHANGED workerVars /\ UNCHANGED <<raced, patched>>
          /\ \A q \in Statement : q # r => stmt'[q] = stmt[q] /\ rows'[q] = rows[q]
      BY <1>0, <1>7 DEF DeleteStatement, TypeOK
    <2> QED
      BY <1>0, <2>1, WorkerFrame, OutcomeFrame DEF OutcomeInv
  <1>8. ASSUME NEW w \in Worker, NEW r \in Statement, Receive(w, r)
        PROVE  SerialAt(s)' /\ ReadyAt(s)'
    <2>1. /\ live' = live /\ UNCHANGED <<stmt, rows, patched>>
          /\ Saved(s)' = Saved(s)
      BY <1>8 DEF Receive, Saved
    <2>2. CASE r \notin live
      <3>1. UNCHANGED workerVars /\ raced' = raced
        BY <1>8, <2>2 DEF Receive, workerVars
      <3> QED
        BY <1>0, <2>1, <3>1, WorkerFrame, OutcomeFrame DEF OutcomeInv
    <2>3. CASE r \in live
      <3>1. /\ pc' = [pc EXCEPT ![w] = "loaded"]
            /\ task' = [task EXCEPT ![w] = r]
            /\ job' = [job EXCEPT ![w] = 0]
            /\ snap' = [snap EXCEPT ![w] = stmt[r]]
            /\ raced' = [raced EXCEPT ![r] = @ \/ \E v \in Worker : WorksOn(v, r)]
        BY <1>8, <2>3 DEF Receive
      <3>2. /\ pc'[w] = "loaded" /\ task'[w] = r /\ snap'[w] = stmt[r]
            /\ \A v \in Worker : v # w => /\ pc'[v] = pc[v] /\ task'[v] = task[v]
                                          /\ snap'[v] = snap[v] /\ job'[v] = job[v]
            /\ \A q \in Statement : q # r => raced'[q] = raced[q]
        BY <1>0, <3>1 DEF TypeOK
      <3>3. CASE s # r
        <4>1. \A v \in Worker : WorksOn(v, s)' => /\ WorksOn(v, s)
                                                  /\ pc'[v] = pc[v] /\ snap'[v] = snap[v]
                                                  /\ job'[v] = job[v]
          BY <3>2, <3>3 DEF WorksOn
        <4> QED
          BY <2>1, <3>2, <3>3, <4>1, OutcomeFrame DEF OutcomeInv
      <3>4. CASE s = r
        <4>1. ~raced'[s] => ~raced[s] /\ \A v \in Worker : ~WorksOn(v, s)
          BY <1>0, <3>1, <3>4 DEF TypeOK
        <4>2. SerialAt(s)'
          <5> SUFFICES ASSUME ~raced'[s], NEW v \in Worker, WorksOn(v, s)'
                       PROVE  /\ \A u \in Worker : WorksOn(u, s)' => u = v
                              /\ snap'[v] = stmt'[s]
                              /\ pc'[v] = "loaded"
            BY DEF SerialAt
          <5>1. \A u \in Worker : WorksOn(u, s)' => u = w
            BY <3>2, <4>1 DEF WorksOn
          <5> QED
            BY <2>1, <3>2, <3>4, <5>1
        <4>3. ReadyAt(s)'
          BY <2>1, <4>1 DEF ReadyAt, OutcomeInv
        <4> QED
          BY <4>2, <4>3
      <3> QED
        BY <3>3, <3>4
    <2> QED
      BY <2>2, <2>3
  <1>10. ASSUME NEW w \in Worker, NEW r \in Statement, ReceiveEnrichment(w, r)
        PROVE  SerialAt(s)' /\ ReadyAt(s)'
    <2>1. /\ live' = live /\ UNCHANGED <<stmt, rows, patched>>
          /\ Saved(s)' = Saved(s)
      BY <1>10 DEF ReceiveEnrichment, Saved
    <2>2. CASE r \notin live
      <3>1. UNCHANGED workerVars /\ raced' = raced
        BY <1>10, <2>2 DEF ReceiveEnrichment, workerVars
      <3> QED
        BY <1>0, <2>1, <3>1, WorkerFrame, OutcomeFrame DEF OutcomeInv
    <2>3. CASE r \in live
      <3>1. PICK i \in waiting[r] :
            /\ pc' = [pc EXCEPT ![w] = "enrich"]
            /\ task' = [task EXCEPT ![w] = r]
            /\ job' = [job EXCEPT ![w] = i]
            /\ snap' = [snap EXCEPT ![w] = stmt[r]]
            /\ raced' = [raced EXCEPT ![r] = @ \/ \E v \in Worker : WorksOn(v, r)]
        BY <1>10, <2>3 DEF ReceiveEnrichment
      <3>2. /\ pc'[w] = "enrich" /\ task'[w] = r /\ snap'[w] = stmt[r] /\ job'[w] # 0
            /\ \A v \in Worker : v # w => /\ pc'[v] = pc[v] /\ task'[v] = task[v]
                                          /\ snap'[v] = snap[v] /\ job'[v] = job[v]
            /\ \A q \in Statement : q # r => raced'[q] = raced[q]
        BY <1>0, <3>1 DEF TypeOK
      <3>3. CASE s # r
        <4>1. \A v \in Worker : WorksOn(v, s)' => /\ WorksOn(v, s)
                                                  /\ pc'[v] = pc[v] /\ snap'[v] = snap[v]
                                                  /\ job'[v] = job[v]
          BY <3>2, <3>3 DEF WorksOn
        <4> QED
          BY <2>1, <3>2, <3>3, <4>1, OutcomeFrame DEF OutcomeInv
      <3>4. CASE s = r
        <4>1. ~raced'[s] => ~raced[s] /\ \A v \in Worker : ~WorksOn(v, s)
          BY <1>0, <3>1, <3>4 DEF TypeOK
        <4>2. SerialAt(s)'
          <5> SUFFICES ASSUME ~raced'[s], NEW v \in Worker, WorksOn(v, s)'
                       PROVE  /\ \A u \in Worker : WorksOn(u, s)' => u = v
                              /\ snap'[v] = stmt'[s]
                              /\ pc'[v] = "enrich" /\ job'[v] # 0
            BY DEF SerialAt
          <5>1. \A u \in Worker : WorksOn(u, s)' => u = w
            BY <3>2, <4>1 DEF WorksOn
          <5> QED
            BY <2>1, <3>2, <3>4, <5>1
        <4>3. ReadyAt(s)'
          BY <2>1, <4>1 DEF ReadyAt, OutcomeInv
        <4> QED
          BY <4>2, <4>3
      <3> QED
        BY <3>3, <3>4
    <2> QED
      BY <2>2, <2>3
  <1>9. ASSUME NEW w \in Worker, JobStep(w) \/ WorkerCrash(w) PROVE SerialAt(s)' /\ ReadyAt(s)'
    <2>1. JobFrame(w) /\ pc[w] # "idle"
      BY <1>0, <1>9, JobStepFrame, JobActive
    <2>2. s \in live /\ raced' = raced /\ patched' = patched
      BY <2>1 DEF JobFrame
    <2>3. CASE s = task[w] /\ ~raced[s]
      BY <1>0, <1>9, <2>2, <2>3, OutcomeJob DEF OutcomeInv
    <2>4. CASE raced[s]
      BY <2>2, <2>4 DEF SerialAt, ReadyAt
    <2>5. CASE s # task[w]
      <3>1. \A v \in Worker : WorksOn(v, s)' => /\ WorksOn(v, s)
                                                /\ pc'[v] = pc[v] /\ snap'[v] = snap[v]
                                                /\ job'[v] = job[v]
        BY <2>1, <2>5 DEF JobFrame, WorksOn
      <3> QED
        BY <2>1, <2>2, <2>5, <3>1, OutcomeFrame DEF JobFrame, OutcomeInv
    <2> QED
      BY <2>3, <2>4, <2>5
  <1> QED
    BY <1>1, <1>2, <1>3, <1>4, <1>5, <1>6, <1>7, <1>8, <1>9, <1>10
    DEF Next, UploadStep, UserStep

LEMMA OutcomeCorrect == Spec => [](SafeInv /\ OutcomeInv)
  <1>1. Init => OutcomeInv
    BY DEF Init, OutcomeInv
  <1> QED
    BY <1>1, SafeInit, SafeStep, OutcomeStep, PTL DEF Spec

(* A statement with rows that had its runs one after the other, crashes    *)
(* and repeated deliveries included, and whose status the user did not     *)
(* set, is ready for review with the right row count.                      *)
THEOREM SavedIsReadyCorrect == Spec => []SavedIsReady
  <1>1. SafeInv /\ OutcomeInv => SavedIsReady
    BY DEF OutcomeInv, ReadyAt, SavedIsReady
  <1> QED
    BY <1>1, OutcomeCorrect, PTL

-----------------------------------------------------------------------------
(* What is left of the two liveness properties when one takes for granted  *)
(* that processes go on: nothing that is unfinished is forgotten.          *)

(* A run of the parse task that has its statement for itself does not end  *)
(* before it settled the statement.                                        *)
LEMMA JobSettles ==
  ASSUME SafeInv, NEW w \in Worker, NEW s \in Statement, s = task[w], s \in live,
         ~raced[s], ~patched[s], SerialAt(s), ReadyAt(s), JobStep(w), job[w] = 0
  PROVE  pc'[w] # "idle" \/ Settled(s)'
  <1>1. /\ TypeOK /\ pc[w] # "idle" /\ snap[w] \in Columns /\ WorksOn(w, s)
        /\ live' = live
    BY JobActive, JobStepFrame DEF SafeInv, JobFrame, WorksOn
  <1>2. /\ snap[w] = stmt[s]
        /\ pc[w] \in {"parsing", "ocr"} => Saved(s) = {}
        /\ pc[w] \in {"reuse", "enrich", "select", "enriching"} /\ job[w] = 0 => Saved(s) # {}
    BY <1>1 DEF SerialAt
  <1>3. ASSUME stmt'[s].status \in {"READY_FOR_REVIEW", "FAILED"},
               stmt'[s].parse \in {"ready", "reused", "warned", "failed"}
        PROVE  Settled(s)'
    BY <1>3 DEF Settled, InFlight
  <1>4. CASE ParseFails(w)
    <2> DEFINE new == [snap[w] EXCEPT !.status = "FAILED", !.parse = "failed"]
    <2>1. /\ new \in Columns /\ new.type = snap[w].type
          /\ new.status = "FAILED" /\ new.parse = "failed"
      BY <1>1 DEF Columns, ParseJob, Status
    <2>2. Commit(w, new)
      BY <1>4 DEF ParseFails
    <2> HIDE DEF new
    <2>3. stmt'[s] = new
      BY <1>1, <1>2, <2>1, <2>2, CommitExact
    <2> QED
      BY <1>3, <2>1, <2>3
  <1>5. CASE ParseFindsNothing(w)
    <2> DEFINE pdf == snap[w].type = "pdf"
               st == IF pdf THEN "READY_FOR_REVIEW" ELSE "FAILED"
               p == IF pdf THEN "warned" ELSE "failed"
               new == [snap[w] EXCEPT !.status = st, !.parse = p, !.count = 0]
    <2>1. /\ st \in Status /\ p \in ParseJob /\ 0 \in Int
          /\ st \in {"READY_FOR_REVIEW", "FAILED"} /\ p \in {"warned", "failed"}
      BY DEF Status, ParseJob
    <2>2. new \in Columns /\ new.type = snap[w].type /\ new.status = st /\ new.parse = p
      <3> HIDE DEF st, p, pdf
      <3>1. new \in Columns
        BY <1>1, <2>1, CopyType
      <3> QED
        BY <1>1, <3>1 DEF Columns
    <2>3. Commit(w, new)
      BY <1>5 DEF ParseFindsNothing
    <2> HIDE DEF new, st, p
    <2>4. stmt'[s] = new
      BY <1>1, <1>2, <2>2, <2>3, CommitExact
    <2> QED
      BY <1>3, <2>1, <2>2, <2>4
  <1>6. CASE EnrichSkip(w) \/ EnrichFails(w)
    <2>1. stmt' = stmt /\ Saved(s) # {}
      BY <1>2, <1>6 DEF EnrichSkip, EnrichFails
    <2> QED
      BY <1>3, <2>1 DEF ReadyAt
  <1>7. CASE EnrichCommit(w)
    <2> DEFINE new == [snap[w] EXCEPT !.llm = Done(job[w])]
    <2>1. /\ new \in Columns /\ new.type = snap[w].type
          /\ new.status = stmt[s].status /\ new.parse = stmt[s].parse
      <3>1. Done(job[w]) \in LlmJob
        BY <1>1, LlmType DEF TypeOK
      <3> QED
        BY <1>1, <1>2, <3>1 DEF Columns
    <2>2. stmt' = [stmt EXCEPT ![s] = Flushed(w, new)] /\ Saved(s) # {}
      BY <1>2, <1>7 DEF EnrichCommit
    <2> HIDE DEF new
    <2>3. stmt'[s] = new
      BY <1>1, <1>2, <2>1, <2>2, CommitExact DEF TypeOK
    <2> QED
      BY <1>3, <2>1, <2>2, <2>3 DEF ReadyAt
  <1>8. ASSUME NEW R \in Reading, SaveConflicts(w, R) PROVE FALSE
    BY <1>2, <1>8 DEF SaveConflicts
  <1>9. ~WriteFindsNoRow(w)
    BY DEF WriteFindsNoRow
  <1>10. CASE FindRows(w)
    BY <1>1, <1>10 DEF FindRows, TypeOK
  <1>11. ASSUME NEW next, NEW new, GoOn(w, next, new), next # "idle" PROVE pc'[w] # "idle"
    BY <1>1, <1>11, GoOnFrame
  <1>12. CASE \/ Reuse(w) \/ StartParse(w) \/ ParseByOcr(w) \/ EnrichStart(w)
              \/ \E R \in Reading : SaveRows(w, R)
    BY <1>11, <1>12 DEF Reuse, StartParse, ParseByOcr, EnrichStart, SaveRows
  <1>13. CASE EnrichLock(w)
    BY <1>1, <1>13 DEF EnrichLock, TypeOK
  <1> QED
    BY <1>4, <1>5, <1>6, <1>7, <1>8, <1>9, <1>10, <1>12, <1>13 DEF JobStep

(* A step of an enrichment job of the user leaves status and parse job as  *)
(* they were, if it has the statement for itself.                          *)
LEMMA EnrichmentKeeps ==
  ASSUME SafeInv, NEW w \in Worker, NEW s \in Statement, s = task[w],
         ~raced[s], SerialAt(s), JobStep(w), job[w] # 0
  PROVE  stmt'[s].status = stmt[s].status /\ stmt'[s].parse = stmt[s].parse
  <1>1. /\ TypeOK /\ pc[w] # "idle" /\ snap[w] \in Columns /\ WorksOn(w, s)
        /\ pc[w] \in {"enrich", "select", "enriching"}
        /\ Done(job[w]) \in LlmJob /\ Loading(job[w]) \in LlmJob
    BY JobActive, LlmType DEF SafeInv, SessionInv, WorksOn, TypeOK
  <1>2. snap[w] = stmt[s]
    BY <1>1 DEF SerialAt
  <1>3. CASE WriteFindsNoRow(w) \/ EnrichSkip(w) \/ EnrichLock(w) \/ EnrichFails(w)
    BY <1>3 DEF WriteFindsNoRow, EnrichSkip, EnrichLock, EnrichFails
  <1>4. CASE EnrichStart(w)
    <2> DEFINE new == [snap[w] EXCEPT !.llm = Loading(job[w])]
    <2>1. /\ new \in Columns /\ new.type = snap[w].type
          /\ new.status = stmt[s].status /\ new.parse = stmt[s].parse
      BY <1>1, <1>2 DEF Columns
    <2>2. Commit(w, new)
      BY <1>4 DEF EnrichStart
    <2> HIDE DEF new
    <2>3. stmt'[s] = new
      BY <1>1, <1>2, <2>1, <2>2, CommitExact
    <2> QED
      BY <2>1, <2>3
  <1>5. CASE EnrichCommit(w)
    <2> DEFINE new == [snap[w] EXCEPT !.llm = Done(job[w])]
    <2>1. /\ new \in Columns /\ new.type = snap[w].type
          /\ new.status = stmt[s].status /\ new.parse = stmt[s].parse
      BY <1>1, <1>2 DEF Columns
    <2>2. stmt' = [stmt EXCEPT ![s] = Flushed(w, new)]
      BY <1>5 DEF EnrichCommit
    <2> HIDE DEF new
    <2>3. stmt'[s] = new
      BY <1>1, <1>2, <2>1, <2>2, CommitExact DEF TypeOK
    <2> QED
      BY <2>1, <2>3
  <1> QED
    BY <1>1, <1>3, <1>4, <1>5 DEF JobStep, FindRows, Reuse, StartParse, ParseFails,
       ParseFindsNothing, ParseByOcr, SaveRows, SaveConflicts

Driven(s) == Settled(s) \/ handler[s] = "enqueue" \/ ~AtRest(s)

(* A row and a session that a step does not touch, and no message less.    *)
LEMMA DrivenFrame ==
  ASSUME TypeOK, NEW s \in Statement, s \in live, ~raced[s], Driven(s), stmt'[s] = stmt[s],
         \A v \in Worker : WorksOn(v, s) => WorksOn(v, s)' /\ job'[v] = job[v],
         queue'[s] \in Nat, queue[s] <= queue'[s],
         handler'[s] = handler[s] \/ (handler[s] = "enqueue" /\ queue'[s] > 0)
  PROVE  Driven(s)'
  <1>1. queue[s] \in Nat
    BY DEF TypeOK
  <1>2. ~AtRest(s) => ~AtRest(s)'
    BY <1>1 DEF AtRest
  <1>3. Settled(s) => Settled(s)'
    BY DEF Settled
  <1> QED
    BY <1>2, <1>3 DEF Driven, AtRest

DrivenInv == UnsettledIsDriven /\ FilesAreClaimed

LEMMA DrivenStep ==
  ASSUME SafeInv, OutcomeInv, UnsettledIsDriven, [Next]_vars
  PROVE  UnsettledIsDriven'
  <1> USE DEF diskVars, brokerVars, historyVars
  <1>0. TypeOK /\ UploadInv /\ TypeOK'
    BY TypeStep DEF SafeInv
  <1> SUFFICES ASSUME ~MayFail, NEW s \in Statement, s \in live', ~raced'[s], ~patched'[s]
               PROVE  Driven(s)'
    BY <1>0 DEF UnsettledIsDriven, Driven, TypeOK
  <1>1. ASSUME s \in live, ~raced[s], ~patched[s] PROVE Driven(s)
    BY <1>1 DEF UnsettledIsDriven, Driven
  <1>2. ASSUME UNCHANGED workerVars
        PROVE  \A v \in Worker : WorksOn(v, s) => WorksOn(v, s)' /\ job'[v] = job[v]
    BY <1>2 DEF WorksOn, workerVars
  <1>q. queue[s] \in Nat /\ queue[s] <= queue[s]
    BY <1>0 DEF TypeOK
  <1>3. CASE UNCHANGED vars
    <2>1. s \in live /\ UNCHANGED workerVars /\ UNCHANGED <<stmt, raced, patched, handler, queue>>
      BY <1>3 DEF vars
    <2> QED
      BY <1>0, <1>q, <1>1, <1>2, <2>1, DrivenFrame
  <1>4. ASSUME NEW r \in Statement, UploadCommit(r) PROVE Driven(s)'
    <2>1. /\ UNCHANGED workerVars /\ UNCHANGED <<stmt, raced, patched, queue>>
          /\ live' = live \cup {r} /\ handler[r] = "checking"
          /\ handler' = [handler EXCEPT ![r] = "enqueue"]
      BY <1>4 DEF UploadCommit
    <2>2. CASE s = r
      BY <1>0, <2>1, <2>2 DEF Driven, TypeOK
    <2>3. CASE s # r
      BY <1>0, <1>q, <1>1, <1>2, <2>1, <2>3, DrivenFrame
    <2> QED
      BY <2>2, <2>3
  <1>5. ASSUME NEW r \in Statement, (\E t \in FileType : UploadBegin(r, t)) \/ UploadReject(r)
        PROVE  Driven(s)'
    <2>1. /\ live' = live /\ UNCHANGED workerVars /\ UNCHANGED <<raced, patched, queue>>
          /\ \A q \in Statement : q # r => stmt'[q] = stmt[q] /\ handler'[q] = handler[q]
          /\ handler[r] \in {"new", "checking"}
      BY <1>0, <1>5 DEF UploadBegin, UploadReject, TypeOK
    <2>2. s # r
      BY <1>0, <2>1 DEF UploadInv
    <2> QED
      BY <1>0, <1>q, <1>1, <1>2, <2>1, <2>2, DrivenFrame
  <1>6. ASSUME NEW r \in Statement, UploadEnqueue(r) \/ Redeliver(r) PROVE Driven(s)'
    <2>1. /\ live' = live /\ UNCHANGED workerVars /\ UNCHANGED <<stmt, raced, patched>>
          /\ queue' = [queue EXCEPT ![r] = @ + 1]
          /\ \/ handler' = handler
             \/ handler[r] = "enqueue" /\ handler' = [handler EXCEPT ![r] = "done"]
      BY <1>6 DEF UploadEnqueue, Redeliver
    <2>2. /\ queue'[s] \in Nat /\ queue[s] <= queue'[s]
          /\ handler'[s] = handler[s] \/ (handler[s] = "enqueue" /\ queue'[s] > 0)
      BY <1>0, <2>1 DEF TypeOK
    <2> QED
      BY <1>0, <1>1, <1>2, <2>1, <2>2, DrivenFrame
  <1>7. ASSUME NEW r \in Statement, Unlink(r) PROVE Driven(s)'
    <2>1. /\ live' = live /\ UNCHANGED workerVars
          /\ UNCHANGED <<stmt, raced, patched, queue, handler>>
      BY <1>7 DEF Unlink
    <2> QED
      BY <1>0, <1>q, <1>1, <1>2, <2>1, DrivenFrame
  <1>8. ASSUME NEW r \in Statement, UserStep(r) PROVE Driven(s)'
    <2>q. CASE RequestEnrichment(r)
      <3>1. /\ live' = live /\ UNCHANGED workerVars
            /\ UNCHANGED <<stmt, raced, patched, queue, handler>>
        BY <2>q DEF RequestEnrichment
      <3> QED
        BY <1>0, <1>q, <1>1, <1>2, <3>1, DrivenFrame
    <2> SUFFICES ASSUME ~RequestEnrichment(r) PROVE Driven(s)'
      BY <2>q
    <2>0. (\E c \in PatchChoice : PatchStatus(r, c)) \/ DeleteStatement(r)
      BY <1>8 DEF UserStep
    <2>1. /\ live' \subseteq live /\ UNCHANGED workerVars /\ UNCHANGED <<queue, handler>>
          /\ \A q \in Statement : q # r => /\ stmt'[q] = stmt[q] /\ raced'[q] = raced[q]
                                           /\ patched'[q] = patched[q]
          /\ patched'[r] \/ r \notin live'
      BY <1>0, <1>8, <2>0 DEF UserStep, PatchStatus, DeleteStatement, TypeOK
    <2>2. s # r
      BY <2>1
    <2>3. s \in live /\ stmt'[s] = stmt[s] /\ ~raced[s] /\ ~patched[s]
      BY <2>1, <2>2
    <2> QED
      BY <1>0, <1>q, <1>1, <1>2, <2>1, <2>3, DrivenFrame
  <1>9. ASSUME NEW w \in Worker, NEW r \in Statement, Receive(w, r) PROVE Driven(s)'
    <2>1. /\ live' = live /\ UNCHANGED <<stmt, patched, handler>> /\ pc[w] = "idle"
          /\ queue' = [queue EXCEPT ![r] = @ - 1]
      BY <1>9 DEF Receive
    <2>2. CASE s = r
      <3>1. pc'[w] = "loaded" /\ task'[w] = s /\ job'[w] = 0
        BY <1>0, <1>9, <2>1, <2>2 DEF Receive, TypeOK
      <3> QED
        BY <3>1 DEF Driven, AtRest, WorksOn
    <2>3. CASE s # r
      <3>1. queue'[s] = queue[s] /\ raced'[s] = raced[s]
        BY <1>0, <1>9, <2>1, <2>3 DEF Receive, TypeOK
      <3>2. \A v \in Worker : WorksOn(v, s) => WorksOn(v, s)' /\ job'[v] = job[v]
        BY <1>0, <1>9, <2>1 DEF Receive, WorksOn, TypeOK
      <3> QED
        BY <1>0, <1>q, <1>1, <2>1, <3>1, <3>2, DrivenFrame
    <2> QED
      BY <2>2, <2>3
  <1>10. ASSUME NEW w \in Worker, JobStep(w) PROVE Driven(s)'
    <2>1. JobFrame(w) /\ pc[w] # "idle"
      BY <1>0, <1>10, JobStepFrame, JobActive
    <2>2. s \in live /\ UNCHANGED <<raced, patched, handler, queue>>
      BY <2>1 DEF JobFrame
    <2>3. CASE s = task[w] /\ job[w] = 0
      <3>1. pc'[w] # "idle" \/ Settled(s)'
        BY <1>10, <2>2, <2>3, JobSettles DEF OutcomeInv
      <3> QED
        BY <2>1, <2>3, <3>1 DEF Driven, AtRest, WorksOn, JobFrame
    <2>5. CASE s = task[w] /\ job[w] # 0
      <3>1. SerialAt(s) /\ ~raced[s] /\ ~patched[s]
        BY <2>2 DEF OutcomeInv
      <3>2. stmt'[s].status = stmt[s].status /\ stmt'[s].parse = stmt[s].parse
        BY <1>10, <2>5, <3>1, EnrichmentKeeps
      <3>3. Settled(s) => Settled(s)'
        BY <2>2, <3>1, <3>2 DEF Settled
      <3>4. WorksOn(w, s) /\ \A v \in Worker : WorksOn(v, s) => v = w
        BY <2>1, <2>5, <3>1 DEF SerialAt, WorksOn
      <3>5. AtRest(s) <=> queue[s] = 0
        BY <2>5, <3>4 DEF AtRest
      <3> QED
        BY <1>1, <2>2, <3>1, <3>3, <3>5 DEF Driven, AtRest
    <2>4. CASE s # task[w]
      <3>1. stmt'[s] = stmt[s]
            /\ \A v \in Worker : WorksOn(v, s) => WorksOn(v, s)' /\ job'[v] = job[v]
        BY <2>1, <2>4 DEF JobFrame, WorksOn
      <3> QED
        BY <1>0, <1>q, <1>1, <2>2, <3>1, DrivenFrame
    <2> QED
      BY <2>3, <2>4, <2>5
  <1>11. ASSUME NEW r \in Statement, UploadFails(r) \/ UnlinkFails(r) PROVE FALSE
    BY <1>11 DEF UploadFails, UnlinkFails
  <1>12. ASSUME NEW w \in Worker, WorkerCrash(w) PROVE FALSE
    BY <1>12 DEF WorkerCrash
  <1>13. ASSUME NEW r \in Statement, RedeliverEnrichment(r) PROVE Driven(s)'
    <2>1. /\ live' = live /\ UNCHANGED workerVars
          /\ UNCHANGED <<stmt, raced, patched, queue, handler>>
      BY <1>13 DEF RedeliverEnrichment
    <2> QED
      BY <1>0, <1>q, <1>1, <1>2, <2>1, DrivenFrame
  <1>14. ASSUME NEW w \in Worker, NEW r \in Statement, ReceiveEnrichment(w, r)
         PROVE  Driven(s)'
    <2>1. /\ live' = live /\ UNCHANGED <<stmt, patched, handler, queue>> /\ pc[w] = "idle"
      BY <1>14 DEF ReceiveEnrichment
    <2>2. \A v \in Worker : WorksOn(v, s) => WorksOn(v, s)' /\ job'[v] = job[v]
      BY <1>0, <1>14, <2>1 DEF ReceiveEnrichment, WorksOn, TypeOK
    <2>3. ~raced[s]
      BY <1>0, <1>14 DEF ReceiveEnrichment, TypeOK
    <2> QED
      BY <1>0, <1>q, <1>1, <2>1, <2>2, <2>3, DrivenFrame
  <1> QED
    BY <1>3, <1>4, <1>5, <1>6, <1>7, <1>8, <1>9, <1>10, <1>11, <1>12, <1>13, <1>14
    DEF Next, UploadStep

LEMMA ClaimedStep ==
  ASSUME TypeOK, FilesAreClaimed, [Next]_vars
  PROVE  FilesAreClaimed'
  <1> USE DEF FilesAreClaimed, diskVars
  <1>1. CASE UNCHANGED vars
    BY <1>1 DEF vars
  <1>2. ASSUME NEW r \in Statement, UploadStep(r) PROVE FilesAreClaimed'
    <2>1. CASE \E t \in FileType : UploadBegin(r, t)
      <3>1. /\ UNCHANGED <<live, unlinking>> /\ file' = file \cup {r}
            /\ handler'[r] = "checking" /\ handler[r] = "new"
            /\ \A q \in Statement : q # r => handler'[q] = handler[q]
        BY <2>1 DEF UploadBegin, TypeOK
      <3> QED
        BY <3>1 DEF TypeOK
    <2>2. CASE UploadReject(r) \/ UploadCommit(r)
      <3>1. /\ live \subseteq live' /\ unlinking \subseteq unlinking' /\ file' = file
            /\ r \in live' \cup unlinking'
            /\ \A q \in Statement : q # r => handler'[q] = handler[q]
        BY <2>2 DEF UploadReject, UploadCommit, TypeOK
      <3> QED
        BY <3>1 DEF TypeOK
    <2>3. CASE UploadEnqueue(r)
      <3>1. /\ UNCHANGED <<live, file, unlinking>> /\ handler[r] = "enqueue"
            /\ \A q \in Statement : q # r => handler'[q] = handler[q]
        BY <2>3 DEF UploadEnqueue, TypeOK
      <3> QED
        BY <3>1 DEF TypeOK
    <2> QED
      BY <1>2, <2>1, <2>2, <2>3 DEF UploadStep
  <1>3. ASSUME NEW r \in Statement, UploadFails(r) \/ UnlinkFails(r) PROVE FilesAreClaimed'
    BY <1>3 DEF UploadFails, UnlinkFails
  <1>4. ASSUME NEW r \in Statement,
               Redeliver(r) \/ RedeliverEnrichment(r) \/ UserStep(r) \/ Unlink(r)
        PROVE  FilesAreClaimed'
    BY <1>4 DEF Redeliver, RedeliverEnrichment, UserStep, PatchStatus, RequestEnrichment,
                DeleteStatement, Unlink, TypeOK
  <1>5. ASSUME NEW w \in Worker, NEW r \in Statement,
               Receive(w, r) \/ ReceiveEnrichment(w, r)
        PROVE  FilesAreClaimed'
    BY <1>5 DEF Receive, ReceiveEnrichment
  <1>6. ASSUME NEW w \in Worker, JobStep(w) \/ WorkerCrash(w) PROVE FilesAreClaimed'
    BY <1>6, JobStepFrame DEF JobFrame
  <1> QED
    BY <1>1, <1>2, <1>3, <1>4, <1>5, <1>6 DEF Next

LEMMA DrivenCorrect == Spec => [](SafeInv /\ OutcomeInv /\ DrivenInv)
  <1>1. Init => DrivenInv
    BY DEF Init, DrivenInv, UnsettledIsDriven, FilesAreClaimed
  <1>2. SafeInv /\ OutcomeInv /\ DrivenInv /\ [Next]_vars => DrivenInv'
    BY DrivenStep, ClaimedStep DEF DrivenInv, SafeInv
  <1> QED
    BY <1>1, <1>2, OutcomeCorrect, PTL DEF Spec

(* Without crashes a statement whose runs did not overlap and whose status *)
(* the user left alone is never left unsettled with no handler, message or *)
(* run that will settle it.                                                *)
THEOREM UnsettledIsDrivenCorrect == Spec => []UnsettledIsDriven
  <1>1. DrivenInv => UnsettledIsDriven
    BY DEF DrivenInv
  <1> QED
    BY <1>1, DrivenCorrect, PTL

(* Without crashes a file on disk is never left without a statement, or a  *)
(* request, that owns it.                                                  *)
THEOREM FilesAreClaimedCorrect == Spec => []FilesAreClaimed
  <1>1. DrivenInv => FilesAreClaimed
    BY DEF DrivenInv
  <1> QED
    BY <1>1, DrivenCorrect, PTL

(* The inductive invariant, as the model checker sees it.                  *)
THEOREM InductiveCorrect == Spec => []IInv
  <1>1. SafeInv /\ OutcomeInv /\ DrivenInv => IInv
    BY DEF SafeInv, OutcomeInv, DrivenInv, SerialAt, ReadyAt, IInv, SerialInv, SavedIsReady
  <1> QED
    BY <1>1, DrivenCorrect, PTL

-----------------------------------------------------------------------------
(* What a step of the import pipeline may do: the two action properties,   *)
(* and the refinement of StatementLifecycle, from the invariants above.    *)

(* What a job writes over the row it has a copy of: outside the parse it   *)
(* keeps a status that is not in flight, and it takes back that an         *)
(* enrichment job was done only for a job with another id.                 *)
JobWrite(w, new) ==
    /\ new.type = snap[w].type
    /\ \/ new.llm = snap[w].llm
       \/ snap[w].llm.status # "done"
       \/ EnrichStart(w) /\ job[w] # snap[w].llm.job
    /\ pc[w] \notin {"parsing", "ocr"} /\ snap[w].status \notin InFlight
         => new.status = snap[w].status
    /\ Commit(w, new) \/ stmt' = [stmt EXCEPT ![task[w]] = Flushed(w, new)]

LEMMA JobWrites ==
  ASSUME TypeOK, SessionInv, NEW w \in Worker, JobStep(w) \/ WorkerCrash(w)
  PROVE  stmt' = stmt \/ \E new \in Columns : JobWrite(w, new)
  <1>1. /\ snap[w] \in Columns /\ snap[w].status \in Status /\ snap[w].llm \in LlmJob
        /\ Done(job[w]) \in LlmJob /\ Loading(job[w]) \in LlmJob
    BY JobActive, LlmType DEF Columns, TypeOK
  <1>2. CASE \/ FindRows(w) \/ EnrichLock(w)
             \/ WriteFindsNoRow(w) \/ EnrichSkip(w) \/ EnrichFails(w) \/ WorkerCrash(w)
             \/ \E R \in Reading : SaveConflicts(w, R)
    BY <1>2 DEF FindRows, EnrichLock, WriteFindsNoRow, EnrichSkip, EnrichFails,
                WorkerCrash, SaveConflicts
  <1>3. CASE Reuse(w)
    <2> DEFINE st == IF snap[w].status \in InFlight THEN "READY_FOR_REVIEW"
                     ELSE snap[w].status
               new == [snap[w] EXCEPT !.status = st, !.parse = "reused"]
    <2>1. st \in Status /\ "reused" \in ParseJob
      BY <1>1 DEF Status, ParseJob
    <2>2. new \in Columns /\ new.type = snap[w].type /\ new.status = st /\ new.llm = snap[w].llm
      <3> HIDE DEF st
      <3> QED
        BY <1>1, <2>1, CopyType DEF Columns
    <2>3. Commit(w, new)
      BY <1>3 DEF Reuse
    <2>4. snap[w].status \notin InFlight => st = snap[w].status
      OBVIOUS
    <2> HIDE DEF new, st
    <2> QED
      BY <2>2, <2>3, <2>4 DEF JobWrite
  <1>4. CASE StartParse(w)
    <2> DEFINE new == [snap[w] EXCEPT !.parse = "parser"]
    <2>1. /\ new \in Columns /\ new.type = snap[w].type /\ new.status = snap[w].status
          /\ new.llm = snap[w].llm
      BY <1>1 DEF Columns, ParseJob
    <2>2. Commit(w, new)
      BY <1>4 DEF StartParse
    <2> HIDE DEF new
    <2> QED
      BY <2>1, <2>2 DEF JobWrite
  <1>5. CASE ParseFails(w)
    <2> DEFINE new == [snap[w] EXCEPT !.status = "FAILED", !.parse = "failed"]
    <2>1. new \in Columns /\ new.type = snap[w].type /\ new.llm = snap[w].llm
      BY <1>1 DEF Columns, ParseJob, Status
    <2>2. Commit(w, new) /\ pc[w] = "parsing"
      BY <1>5 DEF ParseFails
    <2> HIDE DEF new
    <2> QED
      BY <2>1, <2>2 DEF JobWrite
  <1>6. CASE ParseFindsNothing(w)
    <2> DEFINE pdf == snap[w].type = "pdf"
               st == IF pdf THEN "READY_FOR_REVIEW" ELSE "FAILED"
               p == IF pdf THEN "warned" ELSE "failed"
               new == [snap[w] EXCEPT !.status = st, !.parse = p, !.count = 0]
    <2>1. st \in Status /\ p \in ParseJob /\ 0 \in Int
      BY DEF Status, ParseJob
    <2>2. new \in Columns /\ new.type = snap[w].type /\ new.llm = snap[w].llm
      <3> HIDE DEF st, p, pdf
      <3>1. new \in Columns
        BY <1>1, <2>1, CopyType
      <3> QED
        BY <1>1, <3>1 DEF Columns
    <2>3. Commit(w, new) /\ pc[w] = "parsing"
      BY <1>6 DEF ParseFindsNothing
    <2> HIDE DEF new
    <2> QED
      BY <2>2, <2>3 DEF JobWrite
  <1>7. CASE ParseByOcr(w)
    <2> DEFINE new == [snap[w] EXCEPT !.status = "OCR", !.parse = "ocr"]
    <2>1. new \in Columns /\ new.type = snap[w].type /\ new.llm = snap[w].llm
      BY <1>1 DEF Columns, ParseJob, Status
    <2>2. Commit(w, new) /\ pc[w] = "parsing"
      BY <1>7 DEF ParseByOcr
    <2> HIDE DEF new
    <2> QED
      BY <2>1, <2>2 DEF JobWrite
  <1>8. ASSUME NEW R \in Reading, SaveRows(w, R) PROVE \E new \in Columns : JobWrite(w, new)
    <2> DEFINE c == Cardinality(R)
               new == [snap[w] EXCEPT !.status = "READY_FOR_REVIEW", !.parse = "ready",
                                      !.count = c]
    <2>1. c \in Int /\ "READY_FOR_REVIEW" \in Status /\ "ready" \in ParseJob
      BY RowCountType DEF Status, ParseJob
    <2>2. new \in Columns /\ new.type = snap[w].type /\ new.llm = snap[w].llm
      <3> HIDE DEF c
      <3>1. new \in Columns
        BY <1>1, <2>1, CopyType
      <3> QED
        BY <1>1, <3>1 DEF Columns
    <2>3. Commit(w, new) /\ pc[w] \in {"parsing", "ocr"}
      BY <1>8 DEF SaveRows
    <2> HIDE DEF new
    <2> QED
      BY <2>2, <2>3 DEF JobWrite
  <1>9. CASE EnrichStart(w)
    <2> DEFINE new == [snap[w] EXCEPT !.llm = Loading(job[w])]
    <2>1. new \in Columns /\ new.type = snap[w].type /\ new.status = snap[w].status
      BY <1>1 DEF Columns
    <2>2. Commit(w, new) /\ snap[w].llm # Done(job[w])
      BY <1>9 DEF EnrichStart
    <2>3. snap[w].llm.status # "done" \/ job[w] # snap[w].llm.job
      BY <1>1, <2>2 DEF LlmJob, Done
    <2> HIDE DEF new
    <2> QED
      BY <1>9, <2>1, <2>2, <2>3 DEF JobWrite
  <1>10. CASE EnrichCommit(w)
    <2> DEFINE new == [snap[w] EXCEPT !.llm = Done(job[w])]
    <2>1. new \in Columns /\ new.type = snap[w].type /\ new.status = snap[w].status
      BY <1>1 DEF Columns
    <2>2. stmt' = [stmt EXCEPT ![task[w]] = Flushed(w, new)]
      BY <1>10 DEF EnrichCommit
    <2>3. snap[w].llm.status # "done"
      <3>1. snap[w].llm = Loading(job[w])
        BY <1>10 DEF EnrichCommit, SessionInv
      <3> QED
        BY <3>1 DEF Loading
    <2> HIDE DEF new
    <2> QED
      BY <2>1, <2>2, <2>3 DEF JobWrite
  <1> QED
    BY <1>2, <1>3, <1>4, <1>5, <1>6, <1>7, <1>8, <1>9, <1>10 DEF JobStep

(* A step of anyone but its job and its user leaves a stored row alone.    *)
LEMMA StoredFrame ==
  ASSUME SafeInv, [Next]_vars, NEW s \in Statement, s \in live
  PROVE  \/ s \notin live'
         \/ stmt'[s] = stmt[s]
         \/ \E c \in PatchChoice : PatchStatus(s, c)
         \/ \E w \in Worker : task[w] = s /\ (JobStep(w) \/ WorkerCrash(w))
  <1>0. TypeOK /\ UploadInv
    BY DEF SafeInv
  <1>1. CASE UNCHANGED vars
    BY <1>1 DEF vars
  <1>2. ASSUME NEW r \in Statement, UploadStep(r) \/ UploadFails(r) PROVE stmt'[s] = stmt[s]
    BY <1>0, <1>2 DEF UploadStep, UploadFails, UploadBegin, UploadReject, UploadCommit,
                      UploadEnqueue, UploadInv, TypeOK
  <1>3. ASSUME NEW r \in Statement,
               \/ Redeliver(r) \/ RedeliverEnrichment(r) \/ RequestEnrichment(r)
               \/ Unlink(r) \/ UnlinkFails(r)
        PROVE  stmt'[s] = stmt[s]
    BY <1>3 DEF Redeliver, RedeliverEnrichment, RequestEnrichment, Unlink, UnlinkFails
  <1>4. ASSUME NEW r \in Statement, NEW c \in PatchChoice, PatchStatus(r, c)
        PROVE  stmt'[s] = stmt[s] \/ PatchStatus(s, c)
    BY <1>0, <1>4 DEF PatchStatus, TypeOK
  <1>5. ASSUME NEW r \in Statement, DeleteStatement(r) PROVE stmt'[s] = stmt[s] \/ s \notin live'
    BY <1>0, <1>5 DEF DeleteStatement, TypeOK
  <1>6. ASSUME NEW r \in Statement, NEW w \in Worker,
               Receive(w, r) \/ ReceiveEnrichment(w, r)
        PROVE  stmt'[s] = stmt[s]
    BY <1>6 DEF Receive, ReceiveEnrichment
  <1>7. ASSUME NEW w \in Worker, JobStep(w) \/ WorkerCrash(w), task[w] # s
        PROVE  stmt'[s] = stmt[s]
    BY <1>0, <1>7, JobStepFrame DEF JobFrame
  <1> QED
    BY <1>1, <1>2, <1>3, <1>4, <1>5, <1>6, <1>7 DEF Next, UserStep

(* A job that has the statement for itself writes over the row what it     *)
(* writes over its copy.                                                   *)
LEMMA SerialWrite ==
  ASSUME SafeInv, OutcomeInv, NEW s \in Statement, s \in live, ~raced[s],
         NEW w \in Worker, task[w] = s, JobStep(w) \/ WorkerCrash(w)
  PROVE  /\ stmt[s].llm.status = "done"
            => \/ stmt'[s].llm = stmt[s].llm
               \/ EnrichStart(w) /\ job[w] # stmt[s].llm.job
         /\ Saved(s) # {} /\ stmt[s].status \notin InFlight => stmt'[s].status = stmt[s].status
  <1>1. TypeOK /\ pc[w] # "idle" /\ SerialAt(s)
    BY JobActive DEF SafeInv, OutcomeInv
  <1>2. /\ snap[w] = stmt[s]
        /\ Saved(s) # {} => pc[w] \notin {"parsing", "ocr"}
    BY <1>1 DEF SerialAt, WorksOn
  <1>3. CASE stmt' = stmt
    BY <1>3
  <1>4. ASSUME NEW new \in Columns, JobWrite(w, new) PROVE stmt'[s] = new
    BY <1>1, <1>2, <1>4, CommitExact DEF JobWrite, TypeOK
  <1>5. SessionInv
    BY DEF SafeInv
  <1> QED
    BY <1>1, <1>2, <1>3, <1>4, <1>5, JobWrites DEF JobWrite

(* A statement with rows that left the pipeline keeps its status through   *)
(* any later delivery of its parse task.                                   *)
THEOREM ReviewKeptCorrect == Spec => ReviewKept
  <1> DEFINE A == \A s \in Statement :
          s \in live /\ Saved(s) # {} /\ ~raced[s] /\ stmt[s].status \notin InFlight
          => \/ s \notin live'
             \/ stmt'[s].status = stmt[s].status
             \/ \E c \in PatchChoice : PatchStatus(s, c)
  <1>1. SafeInv /\ OutcomeInv /\ [Next]_vars => A
    BY StoredFrame, SerialWrite
  <1>2. SafeInv /\ OutcomeInv /\ [Next]_vars => [A]_vars
    BY <1>1
  <1> HIDE DEF A
  <1>3. Spec => [][A]_vars
    BY <1>2, OutcomeCorrect, PTL DEF Spec
  <1> QED
    BY <1>3 DEF ReviewKept, A

(* As long as no two jobs overlap, a write of the metadata takes back that *)
(* an enrichment job was done only when another job takes the slot over.   *)
THEOREM EnrichmentRememberedCorrect == Spec => EnrichmentRemembered
  <1> DEFINE A == \A s \in Statement :
          s \in live /\ ~raced[s] /\ stmt[s].llm.status = "done"
          => \/ s \notin live'
             \/ stmt'[s].llm = stmt[s].llm
             \/ \E w \in Worker : /\ EnrichStart(w) /\ task[w] = s
                                  /\ job[w] # stmt[s].llm.job
  <1>0. ASSUME TypeOK, NEW s \in Statement, NEW c \in PatchChoice, PatchStatus(s, c)
        PROVE  stmt'[s].llm = stmt[s].llm
    BY <1>0 DEF PatchStatus, TypeOK, Columns
  <1>1. SafeInv /\ OutcomeInv /\ [Next]_vars => A
    BY <1>0, StoredFrame, SerialWrite DEF SafeInv
  <1>2. SafeInv /\ OutcomeInv /\ [Next]_vars => [A]_vars
    BY <1>1
  <1> HIDE DEF A
  <1>3. Spec => [][A]_vars
    BY <1>2, OutcomeCorrect, PTL DEF Spec
  <1> QED
    BY <1>3 DEF EnrichmentRemembered, A
-----------------------------------------------------------------------------
(* Refinement.                                                             *)

LEMMA LifecycleInit == Init => Lifecycle!Init
  BY DEF Init, Lifecycle!Init, Phase, Saved

LEMMA LifecycleStutter ==
  ASSUME \A s \in Statement : Phase(s)' = Phase(s) /\ Saved(s)' = Saved(s)
  PROVE  UNCHANGED Lifecycle!vars
  BY DEF Lifecycle!vars

LEMMA LifecycleStep ==
  ASSUME SafeInv, [Next]_vars
  PROVE  [Lifecycle!Next]_(Lifecycle!vars)
  <1> USE DEF diskVars, brokerVars, workerVars, historyVars
  <1>0. TypeOK /\ UploadInv
    BY DEF SafeInv
  <1>1. ASSUME rows' = rows PROVE \A s \in Statement : Saved(s)' = Saved(s)
    BY <1>1 DEF Saved
  <1>2. ASSUME live' = live, handler' = handler PROVE \A s \in Statement : Phase(s)' = Phase(s)
    BY <1>2 DEF Phase
  <1>3. CASE UNCHANGED vars
    BY <1>1, <1>2, <1>3, LifecycleStutter DEF vars
  <1>4. ASSUME NEW s \in Statement,
               \/ \E t \in FileType : UploadBegin(s, t)
               \/ UploadReject(s) \/ UploadEnqueue(s) \/ UploadFails(s)
        PROVE  UNCHANGED Lifecycle!vars
    <2>1. live' = live /\ rows' = rows
      BY <1>4 DEF UploadBegin, UploadReject, UploadEnqueue, UploadFails
    <2>2. \A r \in Statement :
             handler'[r] \in {"enqueue", "done"} <=> handler[r] \in {"enqueue", "done"}
      BY <1>0, <1>4 DEF UploadBegin, UploadReject, UploadEnqueue, UploadFails, TypeOK
    <2>3. \A r \in Statement : Phase(r)' = Phase(r)
      BY <2>1, <2>2 DEF Phase
    <2> QED
      BY <1>1, <2>1, <2>3, LifecycleStutter
  <1>5. ASSUME NEW s \in Statement, UploadCommit(s) PROVE Lifecycle!Next
    <2>1. /\ handler[s] = "checking" /\ handler' = [handler EXCEPT ![s] = "enqueue"]
          /\ live' = live \cup {s} /\ rows' = rows
      BY <1>5 DEF UploadCommit
    <2>2. s \notin live
      BY <1>0, <2>1 DEF UploadInv
    <2>3. Phase(s) = "absent" /\ Phase(s)' = "stored"
      BY <2>1, <2>2 DEF Phase
    <2>4. \A r \in Statement : r # s => Phase(r)' = Phase(r)
      BY <1>0, <2>1 DEF Phase, TypeOK
    <2>5. [r \in Statement |-> Phase(r)]'
             = [[r \in Statement |-> Phase(r)] EXCEPT ![s] = "stored"]
      BY <2>3, <2>4
    <2>6. [r \in Statement |-> Saved(r)]' = [r \in Statement |-> Saved(r)]
      BY <1>1, <2>1
    <2>7. Lifecycle!Store(s)
      BY <2>3, <2>5, <2>6 DEF Lifecycle!Store
    <2> QED
      BY <2>7 DEF Lifecycle!Next
  <1>6. ASSUME NEW s \in Statement,
               \/ Redeliver(s) \/ RedeliverEnrichment(s) \/ RequestEnrichment(s)
               \/ Unlink(s) \/ UnlinkFails(s)
               \/ \E c \in PatchChoice : PatchStatus(s, c)
               \/ \E w \in Worker : Receive(w, s) \/ ReceiveEnrichment(w, s)
        PROVE  UNCHANGED Lifecycle!vars
    <2>1. live' = live /\ handler' = handler /\ rows' = rows
      BY <1>6 DEF Redeliver, RedeliverEnrichment, RequestEnrichment, Unlink, UnlinkFails,
                  PatchStatus, Receive, ReceiveEnrichment
    <2> QED
      BY <1>1, <1>2, <2>1, LifecycleStutter
  <1>7. ASSUME NEW s \in Statement, DeleteStatement(s) PROVE Lifecycle!Next
    <2>1. /\ s \in live /\ live' = live \ {s} /\ handler' = handler
          /\ rows'[s] = [n \in RowNo |-> 0]
          /\ \A r \in Statement : r # s => rows'[r] = rows[r]
      BY <1>0, <1>7 DEF DeleteStatement, Writable, TypeOK
    <2>2. handler[s] \in {"enqueue", "done"}
      BY <1>0, <2>1 DEF UploadInv
    <2>3. Phase(s) = "stored" /\ Phase(s)' = "removed"
      BY <2>1, <2>2 DEF Phase
    <2>4. \A r \in Statement : r # s => Phase(r)' = Phase(r) /\ Saved(r)' = Saved(r)
      BY <2>1 DEF Phase, Saved
    <2>5. Saved(s)' = {}
      BY <2>1 DEF Saved
    <2>6. [r \in Statement |-> Phase(r)]'
             = [[r \in Statement |-> Phase(r)] EXCEPT ![s] = "removed"]
      BY <2>3, <2>4
    <2>7. [r \in Statement |-> Saved(r)]'
             = [[r \in Statement |-> Saved(r)] EXCEPT ![s] = {}]
      BY <2>4, <2>5
    <2>8. Lifecycle!Remove(s)
      BY <2>3, <2>6, <2>7 DEF Lifecycle!Remove
    <2> QED
      BY <2>8 DEF Lifecycle!Next
  <1>8. ASSUME NEW w \in Worker, NEW R \in Reading, SaveRows(w, R) PROVE Lifecycle!Next
    <2>1. PICK s \in Statement : s = task[w]
      BY <1>8, JobActive, <1>0 DEF JobStep
    <2>2. /\ s \in live /\ Saved(s) = {} /\ Saved(s)' = R
          /\ \A r \in Statement : r # s => Saved(r)' = Saved(r)
      BY <1>0, <1>8, <2>1, SaveEffect DEF SafeInv, RowsInv
    <2>3. \A r \in Statement : Phase(r)' = Phase(r)
      BY <1>2, <1>8 DEF SaveRows
    <2>4. [r \in Statement |-> Phase(r)]' = [r \in Statement |-> Phase(r)]
      BY <2>3
    <2>5. [r \in Statement |-> Saved(r)]'
             = [[r \in Statement |-> Saved(r)] EXCEPT ![s] = R]
      BY <2>2
    <2>6. Phase(s) = "stored"
      BY <2>2 DEF Phase
    <2>7. Lifecycle!Import(s)
      BY <2>2, <2>4, <2>5, <2>6 DEF Lifecycle!Import
    <2> QED
      BY <2>7 DEF Lifecycle!Next
  <1>9. ASSUME NEW w \in Worker, JobStep(w) \/ WorkerCrash(w),
               ~ \E R \in Reading : SaveRows(w, R)
        PROVE  UNCHANGED Lifecycle!vars
    <2>1. rows' = rows
      BY <1>0, <1>9, JobKeepsRows
    <2>2. live' = live /\ handler' = handler
      BY <1>0, <1>9, JobStepFrame DEF JobFrame
    <2> QED
      BY <1>1, <1>2, <2>1, <2>2, LifecycleStutter
  <1> QED
    BY <1>3, <1>4, <1>5, <1>6, <1>7, <1>8, <1>9 DEF Next, UploadStep, UserStep

(* The pipeline implements the abstract life of a statement: one commit    *)
(* stores it, one commit imports one whole reading, one commit removes     *)
(* both for good.                                                          *)
THEOREM LifecycleImplemented == Spec => ImplementsLifecycle
  <1>1. Spec => Lifecycle!Init /\ [][Lifecycle!Next]_(Lifecycle!vars)
    BY LifecycleInit, LifecycleStep, SafeCorrect, PTL DEF Spec
  <1> QED
    BY <1>1 DEF ImplementsLifecycle, Lifecycle!Spec
=============================================================================
