----------------------- MODULE ResumableImport_proofs -----------------------
(***************************************************************************)
(* The resumable import keeps its invariant: the steps of the upload as    *)
(* TusUpload_proofs shows, with the job and the status of each statement;  *)
(* and what follows for what users are told and what is stored.            *)
(***************************************************************************)
EXTENDS ResumableImport, TusUpload_proofs

(* The same system with connections, changes of status and Redis failures  *)
(* at any time, and any number of these: without the model's bounds.       *)
FollowsAnyTime ==
    /\ \/ \E p \in Patch : W!JobStep(p) \/ W!Delete(p)
       \/ \E w \in Watcher : W!ConnStep(w)
       \/ \E e \in Edit : W!EditStep(e)
    /\ UNCHANGED tusVars
NextAnyTime == Uploads \/ FollowsAnyTime \/ \E p \in Patch : Commits(p) \/ Submits(p) \/ Finishes(p)
SpecAnyTime == Init /\ [][NextAnyTime]_vars

-----------------------------------------------------------------------------
(* What a step leaves alone.                                               *)

SameRow(q) ==
    /\ q \in queued' <=> q \in queued
    /\ stored'[q].row = "committed" <=> stored[q].row = "committed"
SameJob(q) == job'[q] = job[q] /\ status'[q] = status[q] /\ progress'[q] = progress[q]

LEMMA SameKeeps ==
  ASSUME NEW q \in Patch, JobInv(q), SameRow(q), SameJob(q)
  PROVE  JobInv(q)'
  BY DEF JobInv, SameRow, SameJob, W!Ends, W!Outcome

LEMMA OneJob ==
  ASSUME ImportInv, NEW s \in Patch, status' \in [Patch -> Statuses],
         DOMAIN job' = Patch, DOMAIN progress' = Patch,
         \A q \in Patch \ {s} : SameRow(q) /\ SameJob(q), JobInv(s)'
  PROVE  ImportInv'
  <1>1. \A q \in Patch \ {s} : JobInv(q)'
    BY SameKeeps DEF ImportInv
  <1> QED
    BY <1>1 DEF ImportInv

LEMMA NoJob ==
  ASSUME ImportInv, UNCHANGED <<status, job, progress>>, \A q \in Patch : SameRow(q)
  PROVE  ImportInv'
  <1>1. \A q \in Patch : JobInv(q)'
    BY SameKeeps DEF ImportInv, SameJob
  <1> QED
    BY <1>1 DEF ImportInv, Statuses

(* A request with a task has committed its statement.                      *)
LEMMA TaskCommitted ==
  ASSUME IInv, NEW s \in Patch, job[s].pc # "none"
  PROVE  stored[s].row = "committed" /\ status[s] # None
  <1>1. JobInv(s) /\ Sound(s)
    BY DEF IInv, ImportInv, TusInv
  <1> QED
    BY <1>1 DEF JobInv, Sound

-----------------------------------------------------------------------------
(* The job.                                                                *)

LEMMA JobSteps ==
  ASSUME IInv, NEW s \in Patch, W!JobStep(s) \/ W!Delete(s), UNCHANGED tusVars
  PROVE  ImportInv'
  <1>1. /\ ImportInv /\ JobInv(s) /\ UNCHANGED <<queued, stored>>
        /\ job[s].pc # "none" => stored[s].row = "committed" /\ status[s] # None
    BY TaskCommitted DEF IInv, ImportInv, tusVars
  <1>2. \A q \in Patch : SameRow(q)
    BY <1>1 DEF SameRow
  <1>3. ASSUME NEW pc, NEW end, W!Job(s, pc, end)
        PROVE  /\ DOMAIN job' = Patch /\ job'[s].pc = pc /\ job'[s].end = end
               /\ \A q \in Patch \ {s} : job'[q] = job[q]
    BY <1>1, <1>3 DEF ImportInv, W!Job
  <1>4. ASSUME NEW new, W!Progress(s, new)
        PROVE  /\ DOMAIN progress' = Patch /\ progress'[s] \in {new, progress[s]}
               /\ \A q \in Patch \ {s} : progress'[q] = progress[q]
    BY <1>1, <1>4 DEF ImportInv, W!Progress
  <1>5. ASSUME NEW new \in Statuses, W!WorkerCommits(s, new)
        PROVE  /\ status' \in [Patch -> Statuses] /\ status'[s] = new
               /\ \A q \in Patch \ {s} : status'[q] = status[q]
    BY <1>1, <1>5 DEF ImportInv, W!WorkerCommits
  <1>6. CASE W!JobStarts(s)
    <2>1. job[s].pc = "queued" /\ W!Job(s, "parser", None) /\ W!Progress(s, "STARTED") /\ status' = status
      BY <1>6 DEF W!JobStarts
    <2>2. JobInv(s)'
      BY <1>1, <1>2, <1>3, <1>4, <2>1 DEF JobInv, SameRow, W!Ends, W!Outcome
    <2> QED
      BY <1>1, <1>2, <1>3, <1>4, <2>1, <2>2, OneJob DEF SameJob, ImportInv
  <1>7. CASE W!JobOcr(s)
    <2>1. /\ job[s].pc = "parser" /\ W!Job(s, "ocr", None) /\ W!Progress(s, "STARTED")
          /\ W!WorkerCommits(s, "OCR") /\ "OCR" \in Statuses
      BY <1>7 DEF W!JobOcr, Statuses
    <2>2. JobInv(s)'
      BY <1>1, <1>2, <1>3, <1>4, <1>5, <2>1, NamesAssumption DEF JobInv, SameRow, W!Ends, W!Outcome
    <2> QED
      BY <1>1, <1>2, <1>3, <1>4, <1>5, <2>1, <2>2, OneJob DEF SameJob
  <1>8. CASE W!JobCommits(s)
    <2>1. PICK end \in W!Ends :
            /\ job[s].pc \in {"parser", "ocr"} /\ W!Job(s, "parsed", end)
            /\ W!WorkerCommits(s, W!Outcome(end)) /\ progress' = progress
      BY <1>8 DEF W!JobCommits
    <2>2. PICK new \in {"FAILED", "READY_FOR_REVIEW"} : new = W!Outcome(end) /\ W!WorkerCommits(s, new)
      BY <2>1 DEF W!Outcome
    <2>3. new \in Statuses
      BY <2>2 DEF Statuses
    <2>4. JobInv(s)'
      BY <1>1, <1>2, <1>3, <1>5, <2>1, <2>2, <2>3, NamesAssumption DEF JobInv, SameRow, W!Ends, W!Outcome
    <2> QED
      BY <1>1, <1>2, <1>3, <1>5, <2>1, <2>2, <2>3, <2>4, OneJob DEF SameJob, ImportInv
  <1>9. CASE W!JobRecords(s)
    <2>1. PICK pc \in {"enrich", "SUCCESS"} :
            /\ job[s].pc = "parsed" /\ W!Job(s, pc, job[s].end) /\ W!Progress(s, job[s].end)
            /\ status' = status
      BY <1>9 DEF W!JobRecords
    <2>2. JobInv(s)'
      BY <1>1, <1>2, <1>3, <1>4, <2>1 DEF JobInv, SameRow, W!Ends, W!Outcome
    <2> QED
      BY <1>1, <1>2, <1>3, <1>4, <2>1, <2>2, OneJob DEF SameJob, ImportInv
  <1>10. CASE W!JobReturns(s)
    <2>1. job[s].pc = "enrich" /\ W!Job(s, "SUCCESS", job[s].end) /\ UNCHANGED <<status, progress>>
      BY <1>10 DEF W!JobReturns
    <2>2. JobInv(s)'
      BY <1>1, <1>2, <1>3, <2>1 DEF JobInv, SameRow, W!Ends, W!Outcome
    <2> QED
      BY <1>1, <1>2, <1>3, <2>1, <2>2, OneJob DEF SameJob, ImportInv
  <1>11. CASE W!JobRaises(s)
    <2>1. /\ job[s].pc \in {"queued", "parser", "ocr", "parsed", "enrich"}
          /\ W!Job(s, "FAILURE", job[s].end)
          /\ UNCHANGED <<status, progress>>
      BY <1>11 DEF W!JobRaises, W!Working
    <2>2. JobInv(s)'
      BY <1>1, <1>2, <1>3, <2>1 DEF JobInv, SameRow, W!Ends, W!Outcome
    <2> QED
      BY <1>1, <1>2, <1>3, <2>1, <2>2, OneJob DEF SameJob, ImportInv
  <1>12. CASE W!JobMissing(s)
    <2>1. /\ job[s].pc = "queued" /\ ~W!Exists(s) /\ W!Job(s, "SUCCESS", "missing")
          /\ W!Progress(s, "missing") /\ status' = status
      BY <1>12 DEF W!JobMissing
    <2>2. status[s] = "deleted"
      BY <1>1, <2>1 DEF W!Exists
    <2>3. JobInv(s)'
      BY <1>1, <1>2, <1>3, <1>4, <2>1, <2>2 DEF JobInv, SameRow, W!Ends, W!Outcome
    <2> QED
      BY <1>1, <1>2, <1>3, <1>4, <2>1, <2>3, OneJob DEF SameJob, ImportInv
  <1>13. CASE W!Delete(s)
    <2>1. /\ status[s] # None /\ status' = [status EXCEPT ![s] = "deleted"]
          /\ UNCHANGED <<job, progress>>
      BY <1>13 DEF W!Delete, W!Exists, W!JobIdle
    <2>2. /\ status' \in [Patch -> Statuses] /\ status'[s] = "deleted"
          /\ \A q \in Patch \ {s} : status'[q] = status[q]
      BY <1>1, <2>1 DEF ImportInv, Statuses
    <2>3. JobInv(s)'
      BY <1>1, <1>2, <2>1, <2>2, NamesAssumption DEF JobInv, SameRow, W!Ends, W!Outcome
    <2> QED
      BY <1>1, <1>2, <2>1, <2>2, <2>3, OneJob DEF SameJob, ImportInv
  <1> QED
    BY <1>6, <1>7, <1>8, <1>9, <1>10, <1>11, <1>12, <1>13 DEF W!JobStep

-----------------------------------------------------------------------------
(* The watchers and the changes of status.                                 *)

LEMMA ConnSteps ==
  ASSUME IInv, NEW w \in Watcher, W!ConnStep(w), UNCHANGED tusVars
  PROVE  ImportInv'
  <1>1. UNCHANGED <<status, job, progress, queued, stored>>
    BY DEF W!ConnStep, W!Connect, W!NothingToRead, W!ReadInitial, W!SendInitial, W!Disconnect, W!JobIdle, tusVars
  <1> QED
    BY <1>1, NoJob DEF IInv, SameRow

LEMMA EditSteps ==
  ASSUME IInv, NEW e \in Edit, W!EditStep(e), UNCHANGED tusVars
  PROVE  ImportInv'
  <1>1. UNCHANGED <<job, progress, queued, stored>> /\ ImportInv
    BY DEF W!EditStep, W!ChangeStatus, W!Broadcast, W!SendTo, W!BroadcastEnds, W!BroadcastRaises,
           W!JobIdle, tusVars, IInv
  <1>2. CASE W!ChangeStatus(e)
    <2>1. PICK s \in Patch, new \in UserStatus :
            status[s] # None /\ status' = [status EXCEPT ![s] = new]
      BY <1>2 DEF W!ChangeStatus, W!Exists
    <2>2. new # None
      BY NamesAssumption
    <2>3. /\ status' \in [Patch -> Statuses] /\ status'[s] = new
          /\ \A q \in Patch \ {s} : status'[q] = status[q]
      BY <1>1, <2>1 DEF ImportInv, Statuses
    <2>4. JobInv(s)'
      BY <1>1, <2>1, <2>2, <2>3 DEF ImportInv, JobInv, W!Ends, W!Outcome
    <2> QED
      BY <1>1, <2>3, <2>4, OneJob DEF SameRow, SameJob, ImportInv
  <1>3. CASE ~W!ChangeStatus(e)
    <2>1. status' = status
      BY <1>3 DEF W!EditStep, W!Broadcast, W!SendTo, W!BroadcastEnds, W!BroadcastRaises
    <2> QED
      BY <1>1, <2>1, NoJob DEF SameRow
  <1> QED
    BY <1>2, <1>3

-----------------------------------------------------------------------------
(* The upload.                                                             *)

LEMMA StoredRow ==
  ASSUME TusType, NEW p \in Patch, NEW row, NEW file, Row(p, row, file)
  PROVE  stored'[p].row = row /\ \A q \in Patch \ {p} : stored'[q] = stored[q]
  BY DEF TusType, Row

LEMMA CommitsKeeps ==
  ASSUME IInv, NEW p \in Patch, Commits(p)
  PROVE  ImportInv'
  <1>1. /\ patch[p].pc = "check" /\ Row(p, "committed", stored[p].file)
        /\ status' = [status EXCEPT ![p] = "PARSING"] /\ UNCHANGED <<job, progress, queued>>
        /\ ImportInv /\ TusType /\ Sound(p) /\ JobInv(p)
    BY DEF Commits, CommitStatement, At, IInv, TusInv, ImportInv
  <1>2. stored'[p].row = "committed" /\ \A q \in Patch \ {p} : stored'[q] = stored[q]
    BY <1>1, StoredRow
  <1>3. /\ status' \in [Patch -> Statuses] /\ status'[p] = "PARSING"
        /\ \A q \in Patch \ {p} : status'[q] = status[q]
    BY <1>1 DEF ImportInv, Statuses
  <1>4. job[p].pc = "none"
    BY <1>1 DEF Sound, JobInv
  <1>5. JobInv(p)'
    BY <1>1, <1>2, <1>3, <1>4, NamesAssumption DEF JobInv, W!Ends, W!Outcome
  <1> QED
    BY <1>1, <1>2, <1>3, <1>5, OneJob DEF SameRow, SameJob, ImportInv

LEMMA SubmitsKeeps ==
  ASSUME IInv, NEW p \in Patch, Submits(p)
  PROVE  ImportInv'
  <1>1. /\ job[p].pc = "none" /\ job' = [job EXCEPT ![p] = [pc |-> "queued", end |-> None]]
        /\ queued' = queued \cup {p} /\ UNCHANGED <<status, progress, stored>>
        /\ ImportInv /\ JobInv(p)
    BY DEF Submits, Enqueue, W!Submit, W!Job, IInv, ImportInv
  <1>2. /\ DOMAIN job' = Patch /\ job'[p].pc = "queued" /\ \A q \in Patch \ {p} : job'[q] = job[q]
    BY <1>1 DEF ImportInv
  <1>3. JobInv(p)'
    BY <1>1, <1>2 DEF JobInv, W!Ends, W!Outcome
  <1> QED
    BY <1>1, <1>2, <1>3, OneJob DEF SameRow, SameJob, ImportInv

LEMMA FinishesKeeps ==
  ASSUME IInv, NEW p \in Patch, Finishes(p)
  PROVE  ImportInv'
  <1>1. /\ \/ progress' = [progress EXCEPT ![p] = "PENDING"]
           \/ progress' = progress
        /\ UNCHANGED <<status, job, queued, stored>> /\ ImportInv /\ JobInv(p)
    BY DEF Finishes, Finish, W!WritePending, W!Progress, IInv, ImportInv
  <1>2. /\ DOMAIN progress' = Patch /\ progress'[p] \in {"PENDING", progress[p]}
        /\ \A q \in Patch \ {p} : progress'[q] = progress[q]
    BY <1>1 DEF ImportInv
  <1>3. JobInv(p)'
    BY <1>1, <1>2 DEF JobInv, W!Ends, W!Outcome
  <1> QED
    BY <1>1, <1>2, <1>3, OneJob DEF SameRow, SameJob, ImportInv

LEMMA UploadsKeeps ==
  ASSUME IInv, Uploads
  PROVE  ImportInv'
  <1>1. UNCHANGED <<status, job, progress>> /\ ImportInv /\ TusType
    BY DEF Uploads, IInv, TusInv
  <1>2. \A q \in Patch : SameRow(q)
    <2>1. CASE UserStep
      BY <2>1 DEF UserStep, Create, Send, Receive, GiveUp, ConnectionLost, HeadOffset, Cancel,
                  ServerIdle, SameRow
    <2>2. CASE Crash
      BY <1>1, <2>2 DEF Crash, SameRow, TusType
    <2>3. ASSUME NEW p \in Patch,
                 \/ CheckOffset(p) \/ Disconnect(p) \/ AppendChunk(p) \/ WriteOffset(p)
                 \/ FindClient(p) \/ TwoClients(p) \/ Scan(p) \/ ScanRefuses(p) \/ FileMissing(p)
                 \/ BrokerDown(p)
          PROVE  \A q \in Patch : SameRow(q)
      BY <2>3 DEF CheckOffset, Disconnect, AppendChunk, WriteOffset, FindClient, TwoClients, Scan,
                  ScanRefuses, FileMissing, BrokerDown, SameRow
    <2>4. ASSUME NEW p \in Patch, Rename(p) \/ PasswordRefused(p) \/ CommitFails(p)
          PROVE  \A q \in Patch : SameRow(q)
      <3>1. /\ patch[p].pc \in {"row", "check"} /\ Sound(p) /\ queued' = queued
            /\ \E row \in {"none", "flushed"} : \E file : Row(p, row, file)
        BY <2>4 DEF Rename, PasswordRefused, CommitFails, At, IInv, TusInv
      <3>2. stored'[p].row # "committed" /\ \A q \in Patch \ {p} : stored'[q] = stored[q]
        BY <1>1, <3>1, StoredRow
      <3>3. stored[p].row # "committed"
        BY <3>1 DEF Sound
      <3> QED
        BY <3>1, <3>2, <3>3 DEF SameRow
    <2> QED
      BY <2>1, <2>2, <2>3, <2>4 DEF Uploads
  <1> QED
    BY <1>1, <1>2, NoJob

LEMMA UploadStepKeeps ==
  ASSUME IInv, Uploads \/ \E p \in Patch : Commits(p) \/ Submits(p) \/ Finishes(p)
  PROVE  TusInv'
  <1> USE DEF IInv
  <1>1. CASE UserStep \/ Crash
    BY <1>1, UserStepKeeps, KeepsCrash
  <1>2. ASSUME NEW p \in Patch,
               \/ CheckOffset(p) \/ Disconnect(p) \/ AppendChunk(p) \/ WriteOffset(p)
               \/ FindClient(p) \/ TwoClients(p) \/ Scan(p) \/ ScanRefuses(p) \/ FileMissing(p)
               \/ Rename(p) \/ PasswordRefused(p) \/ CommitFails(p) \/ BrokerDown(p)
        PROVE  TusInv'
    BY <1>2, KeepsCheckOffset, KeepsDisconnect, KeepsAppendChunk, KeepsWriteOffset, KeepsFindClient,
       KeepsTwoClients, KeepsScan, KeepsScanRefuses, KeepsFileMissing, KeepsRename,
       KeepsPasswordRefused, KeepsCommitFails, KeepsBrokerDown
  <1>3. ASSUME NEW p \in Patch, Commits(p) \/ Submits(p) \/ Finishes(p)
        PROVE  TusInv'
    BY <1>3, KeepsCommitStatement, KeepsEnqueue, KeepsFinish DEF Commits, Submits, Finishes
  <1> QED
    BY <1>1, <1>2, <1>3 DEF Uploads

-----------------------------------------------------------------------------
(* What the watchers are told.                                             *)

LEMMA WatchKept ==
  ASSUME WatchInv, UNCHANGED <<status, conn, edit, excused>>
  PROVE  WatchInv'
  BY DEF WatchInv, Current, Reaches, W!Exists, W!Registered, W!Informed, W!Pending

LEMMA WatcherIs ==
  ASSUME WatchInv, NEW w \in W!Informed
  PROVE  /\ w \in Watcher /\ w \in W!Registered /\ conn[w].on \in Patch
         /\ conn[w].at \in Process /\ conn[w].at # None /\ Current(w)
  BY NamesAssumption DEF WatchInv, W!Informed, W!Registered

(* A change of status no broadcast is made of reaches nobody.              *)
LEMMA WorkerTells ==
  ASSUME WatchInv, status \in [Patch -> Statuses], NEW s \in Patch, NEW new \in Statuses \ {None},
         W!WorkerCommits(s, new), UNCHANGED <<conn, edit>>
  PROVE  WatchInv'
  <1>1. /\ W!Registered' = W!Registered /\ W!Informed' = W!Informed
        /\ status'[s] = new /\ \A q \in Patch \ {s} : status'[q] = status[q]
        /\ excused' = excused \cup W!Missed(s, None)
    BY DEF W!WorkerCommits, W!Registered, W!Informed
  <1>2. ASSUME NEW w \in W!Informed PROVE Current(w)'
    <2>1. /\ w \in Watcher /\ w \in W!Registered /\ conn[w].on \in Patch
          /\ conn[w].at # None /\ Current(w)
      BY WatcherIs
    <2>2. CASE conn[w].on = s
      <3>1. w \in W!Missed(s, None)
        BY <2>1, <2>2 DEF W!Missed, W!WatchersOf
      <3> QED
        BY <1>1, <3>1 DEF Current
    <2>3. CASE conn[w].on # s
      BY <1>1, <2>1, <2>3 DEF Current, Reaches, W!Exists, W!Pending
    <2> QED
      BY <2>2, <2>3
  <1>3. \A w \in W!Registered : status'[conn[w].on] # None
    BY <1>1 DEF WatchInv
  <1> QED
    BY <1>1, <1>2, <1>3 DEF WatchInv

(* The upload commits a statement nobody could watch yet.                  *)
LEMMA CommitsTell ==
  ASSUME IInv, NEW p \in Patch, Commits(p)
  PROVE  WatchInv'
  <1>1. /\ patch[p].pc = "check" /\ status' = [status EXCEPT ![p] = "PARSING"]
        /\ UNCHANGED <<conn, edit, excused>> /\ WatchInv
        /\ status \in [Patch -> Statuses] /\ Sound(p) /\ JobInv(p)
    BY DEF Commits, CommitStatement, At, IInv, TusInv, ImportInv
  <1>2. status[p] = None
    BY <1>1 DEF Sound, JobInv
  <1>3. \A q \in Patch : status[q] # None => status'[q] = status[q]
    BY <1>1, <1>2
  <1>4. W!Registered' = W!Registered /\ W!Informed' = W!Informed
    BY <1>1 DEF W!Registered, W!Informed
  <1>5. \A w \in W!Registered : status'[conn[w].on] = status[conn[w].on]
    BY <1>1, <1>3 DEF WatchInv
  <1>6. ASSUME NEW w \in W!Informed PROVE Current(w)'
    <2>1. w \in W!Registered /\ Current(w)
      BY <1>1, WatcherIs
    <2> QED
      BY <1>1, <1>5, <2>1 DEF Current, Reaches, W!Exists, W!Pending
  <1> QED
    BY <1>1, <1>4, <1>5, <1>6 DEF WatchInv

(* A deletion is not told either, and there is nothing to show any more.   *)
LEMMA DeleteTells ==
  ASSUME WatchInv, status \in [Patch -> Statuses], NEW s \in Patch, W!Delete(s)
  PROVE  WatchInv'
  <1>1. /\ W!Registered' = W!Registered /\ W!Informed' = W!Informed
        /\ status'[s] = "deleted" /\ \A q \in Patch \ {s} : status'[q] = status[q]
        /\ UNCHANGED <<conn, edit, excused>>
    BY DEF W!Delete, W!Registered, W!Informed
  <1>2. ASSUME NEW w \in W!Informed PROVE Current(w)'
    <2>1. w \in Watcher /\ w \in W!Registered /\ conn[w].on \in Patch /\ Current(w)
      BY WatcherIs
    <2>2. CASE conn[w].on = s
      BY <1>1, <2>2 DEF Current, W!Exists
    <2>3. CASE conn[w].on # s
      BY <1>1, <2>1, <2>3 DEF Current, Reaches, W!Exists, W!Pending
    <2> QED
      BY <2>2, <2>3
  <1>3. \A w \in W!Registered : status'[conn[w].on] # None
    BY <1>1, NamesAssumption DEF WatchInv
  <1> QED
    BY <1>1, <1>2, <1>3 DEF WatchInv

LEMMA JobsTell ==
  ASSUME IInv, NEW s \in Patch, W!JobStep(s) \/ W!Delete(s)
  PROVE  WatchInv'
  <1>1. WatchInv /\ status \in [Patch -> Statuses]
    BY DEF IInv, ImportInv
  <1>2. CASE W!JobOcr(s)
    <2>1. PICK new \in Statuses \ {None} : W!WorkerCommits(s, new)
      BY <1>2, NamesAssumption DEF W!JobOcr, Statuses
    <2>2. UNCHANGED <<conn, edit>>
      BY <1>2 DEF W!JobOcr, W!Following
    <2> QED
      BY <1>1, <2>1, <2>2, WorkerTells
  <1>3. CASE W!JobCommits(s)
    <2>1. PICK new \in {"FAILED", "READY_FOR_REVIEW"} : W!WorkerCommits(s, new)
      BY <1>3 DEF W!JobCommits, W!Outcome
    <2>2. new \in Statuses \ {None}
      BY NamesAssumption DEF Statuses
    <2>3. UNCHANGED <<conn, edit>>
      BY <1>3 DEF W!JobCommits, W!Following
    <2> QED
      BY <1>1, <2>1, <2>2, <2>3, WorkerTells
  <1>4. CASE W!JobStarts(s) \/ W!JobMissing(s) \/ W!JobRecords(s) \/ W!JobReturns(s) \/ W!JobRaises(s)
    <2>1. UNCHANGED <<status, conn, edit, excused>>
      BY <1>4 DEF W!JobStarts, W!JobMissing, W!JobRecords, W!JobReturns, W!JobRaises, W!Following
    <2> QED
      BY <1>1, <2>1, WatchKept
  <1>5. CASE W!Delete(s)
    BY <1>1, <1>5, DeleteTells
  <1> QED
    BY <1>2, <1>3, <1>4, <1>5 DEF W!JobStep

LEMMA OneConn ==
  ASSUME WatchInv, NEW w \in Watcher, NEW c \in Conns, conn' = [conn EXCEPT ![w] = c],
         UNCHANGED <<status, edit>>, \A v \in excused : v # w => v \in excused',
         c.pc \in {"read", "send", "on"} =>
           c.on \in Patch /\ c.at \in Process /\ status[c.on] # None,
         c.pc \in {"send", "on"} => Current(w)'
  PROVE  WatchInv'
  <1>1. /\ conn' \in [Watcher -> Conns] /\ conn'[w] = c
        /\ \A v \in Watcher \ {w} : conn'[v] = conn[v]
    BY DEF WatchInv
  <1>2. ASSUME NEW v \in W!Informed' PROVE Current(v)'
    <2>1. v \in Watcher
      BY DEF W!Informed
    <2>2. CASE v = w
      BY <1>1, <2>2 DEF W!Informed
    <2>3. CASE v # w
      <3>1. v \in W!Informed /\ conn'[v] = conn[v]
        BY <1>1, <2>1, <2>3 DEF W!Informed
      <3>2. Current(v)
        BY <3>1, WatcherIs
      <3> QED
        BY <2>3, <3>1, <3>2 DEF Current, Reaches, W!Exists, W!Pending
    <2> QED
      BY <2>2, <2>3
  <1>3. ASSUME NEW v \in W!Registered'
        PROVE  conn'[v].on \in Patch /\ conn'[v].at \in Process /\ status'[conn'[v].on] # None
    <2>1. v \in Watcher
      BY DEF W!Registered
    <2>2. CASE v = w
      BY <1>1, <2>2 DEF W!Registered
    <2>3. CASE v # w
      <3>1. v \in W!Registered /\ conn'[v] = conn[v]
        BY <1>1, <2>1, <2>3 DEF W!Registered
      <3> QED
        BY <3>1 DEF WatchInv
    <2> QED
      BY <2>2, <2>3
  <1> QED
    BY <1>1, <1>2, <1>3 DEF WatchInv

LEMMA ConnsTell ==
  ASSUME IInv, NEW w \in Watcher, W!ConnStep(w)
  PROVE  WatchInv'
  <1>1. WatchInv /\ status \in [Patch -> Statuses] /\ conn \in [Watcher -> Conns]
    BY DEF IInv, ImportInv, WatchInv
  <1>2. PICK q \in Conns : q = conn[w]
    BY <1>1
  <1>3. CASE W!Connect(w)
    <2>1. PICK s \in Patch : \E x \in Process :
            /\ status[s] # None
            /\ conn' = [conn EXCEPT ![w].pc = "read", ![w].on = s, ![w].at = x]
            /\ UNCHANGED <<status, edit, excused>>
      BY <1>3 DEF W!Connect
    <2>2. PICK x \in Process :
            /\ status[s] # None
            /\ conn' = [conn EXCEPT ![w].pc = "read", ![w].on = s, ![w].at = x]
            /\ UNCHANGED <<status, edit, excused>>
      BY <2>1
    <2>3. PICK c \in Conns : c = [q EXCEPT !.pc = "read", !.on = s, !.at = x]
      BY DEF Conns
    <2>4. conn' = [conn EXCEPT ![w] = c]
      BY <1>1, <1>2, <2>2, <2>3
    <2>5. c.pc = "read" /\ c.on = s /\ c.at = x
      BY <2>3 DEF Conns
    <2> QED
      BY <1>1, <2>2, <2>4, <2>5, OneConn
  <1>4. CASE W!ReadInitial(w)
    <2>1. /\ q.pc = "read" /\ UNCHANGED <<status, edit, excused>>
          /\ conn' = [conn EXCEPT ![w].pc = "send", ![w].shown = status[conn[w].on]]
      BY <1>2, <1>4 DEF W!ReadInitial
    <2>2. w \in W!Registered
      BY <1>2, <2>1 DEF W!Registered
    <2>3. q.on \in Patch /\ q.at \in Process /\ status[q.on] # None /\ status[q.on] \in Statuses
      BY <1>1, <1>2, <2>2 DEF WatchInv
    <2>4. PICK c \in Conns : c = [q EXCEPT !.pc = "send", !.shown = status[q.on]]
      BY <2>3 DEF Conns
    <2>5. conn' = [conn EXCEPT ![w] = c]
      BY <1>1, <1>2, <2>1, <2>4
    <2>6. c.pc = "send" /\ c.on = q.on /\ c.at = q.at /\ c.shown = status[q.on]
      BY <2>4 DEF Conns
    <2>7. Current(w)'
      BY <1>1, <2>1, <2>5, <2>6 DEF Current
    <2>8. /\ UNCHANGED <<status, edit>> /\ \A v \in excused : v # w => v \in excused'
          /\ c.on \in Patch /\ c.at \in Process /\ status[c.on] # None
      BY <2>1, <2>3, <2>6
    <2> QED
      BY <1>1, <2>5, <2>7, <2>8, OneConn
  <1>5. CASE W!SendInitial(w)
    <2>1. /\ q.pc = "send" /\ UNCHANGED <<status, edit, excused>>
          /\ conn' = [conn EXCEPT ![w].pc = "on"]
      BY <1>2, <1>5 DEF W!SendInitial
    <2>2. w \in W!Registered /\ w \in W!Informed
      BY <1>2, <2>1 DEF W!Registered, W!Informed
    <2>3. q.on \in Patch /\ q.at \in Process /\ status[q.on] # None /\ Current(w)
      BY <1>1, <1>2, <2>2 DEF WatchInv
    <2>4. PICK c \in Conns : c = [q EXCEPT !.pc = "on"]
      BY DEF Conns
    <2>5. conn' = [conn EXCEPT ![w] = c]
      BY <1>1, <1>2, <2>1, <2>4
    <2>6. c.pc = "on" /\ c.on = q.on /\ c.at = q.at /\ c.shown = q.shown
      BY <2>4 DEF Conns
    <2>7. Current(w)'
      BY <1>1, <1>2, <2>1, <2>3, <2>5, <2>6 DEF Current, Reaches, W!Exists, W!Pending
    <2> QED
      BY <1>1, <2>1, <2>3, <2>5, <2>6, <2>7, OneConn
  <1>6. CASE W!Disconnect(w)
    <2>1. PICK c \in Conns : c = [pc |-> "closed", on |-> None, at |-> None, shown |-> None]
      BY DEF Conns, Statuses
    <2>2. /\ conn' = [conn EXCEPT ![w] = c] /\ UNCHANGED <<status, edit>>
          /\ excused' = excused \ {w}
      BY <1>6, <2>1 DEF W!Disconnect
    <2>3. c.pc = "closed"
      BY <2>1
    <2> QED
      BY <1>1, <2>2, <2>3, OneConn
  <1>7. CASE W!NothingToRead(w)
    <2>1. /\ q.pc = "read" /\ UNCHANGED <<status, edit, excused>> /\ ~W!Exists(q.on)
          /\ conn' = [conn EXCEPT ![w].pc = "on"]
      BY <1>2, <1>7 DEF W!NothingToRead
    <2>2. w \in W!Registered
      BY <1>2, <2>1 DEF W!Registered
    <2>3. q.on \in Patch /\ q.at \in Process /\ status[q.on] # None
      BY <1>1, <1>2, <2>2 DEF WatchInv
    <2>4. PICK c \in Conns : c = [q EXCEPT !.pc = "on"]
      BY DEF Conns
    <2>5. conn' = [conn EXCEPT ![w] = c]
      BY <1>1, <1>2, <2>1, <2>4
    <2>6. c.pc = "on" /\ c.on = q.on /\ c.at = q.at
      BY <2>4 DEF Conns
    <2>7. Current(w)'
      BY <1>1, <2>1, <2>5, <2>6 DEF Current, W!Exists
    <2> QED
      BY <1>1, <2>1, <2>3, <2>5, <2>6, <2>7, OneConn
  <1> QED
    BY <1>3, <1>4, <1>5, <1>6, <1>7 DEF W!ConnStep

LEMMA OneEdit ==
  ASSUME WatchInv, NEW e \in Edit, NEW r \in Edits, edit' = [edit EXCEPT ![e] = r],
         conn' \in [Watcher -> Conns],
         \A w \in Watcher : conn'[w].pc = conn[w].pc /\ conn'[w].on = conn[w].on
                            /\ conn'[w].at = conn[w].at,
         \A s \in Patch : status[s] # None => status'[s] # None,
         r.pc \in {"unused", "notify"} => r.sent = {},
         \A w \in W!Informed : Current(w)'
  PROVE  WatchInv'
  <1>1. W!Registered' = W!Registered /\ W!Informed' = W!Informed
    BY DEF W!Registered, W!Informed
  <1>2. /\ edit' \in [Edit -> Edits] /\ edit'[e] = r
        /\ \A f \in Edit \ {e} : edit'[f] = edit[f]
    BY DEF WatchInv
  <1>3. \A w \in W!Registered : w \in Watcher
    BY DEF W!Registered
  <1>4. \A w \in W!Registered :
          conn'[w].on \in Patch /\ conn'[w].at \in Process /\ status'[conn'[w].on] # None
    BY <1>3 DEF WatchInv
  <1>5. \A f \in Edit : edit'[f].pc \in {"unused", "notify"} => edit'[f].sent = {}
    BY <1>2 DEF WatchInv
  <1> QED
    BY <1>1, <1>2, <1>4, <1>5 DEF WatchInv

(* The end of a broadcast: those it has not told are excused.              *)
LEMMA EditOver ==
  ASSUME WatchInv, NEW e \in Edit, edit' = W!Over(e), UNCHANGED <<status, conn>>,
         excused \subseteq excused', \A w \in W!Informed : Reaches(e, w) => w \in excused'
  PROVE  WatchInv'
  <1>1. PICK r \in Edits : r = [W!Unused EXCEPT !.pc = "over"]
    BY DEF Edits, W!Unused
  <1>2. r.pc = "over"
    BY <1>1 DEF W!Unused
  <1>3. edit' = [edit EXCEPT ![e] = r] /\ \A f \in Edit \ {e} : edit'[f] = edit[f]
    BY <1>1 DEF W!Over, WatchInv
  <1>4. ASSUME NEW w \in W!Informed PROVE Current(w)'
    <2>1. Current(w)
      BY WatcherIs
    <2> QED
      BY <1>3, <2>1 DEF Current, Reaches, W!Exists, W!Pending
  <1> QED
    BY <1>2, <1>3, <1>4, OneEdit DEF WatchInv

LEMMA EditsTell ==
  ASSUME IInv, NEW e \in Edit, W!EditStep(e)
  PROVE  WatchInv'
  <1>1. WatchInv /\ status \in [Patch -> Statuses] /\ conn \in [Watcher -> Conns]
        /\ edit \in [Edit -> Edits]
    BY DEF IInv, ImportInv, WatchInv
  <1>2. PICK q \in Edits : q = edit[e]
    BY <1>1
  <1>3. /\ q.on \in Patch \cup {None} /\ q.at \in Process \cup {None}
        /\ q.new \in UserStatus \cup {None} /\ q.members \subseteq Watcher /\ q.sent \subseteq Watcher
        /\ q.pc \in {"unused", "notify"} => q.sent = {}
    BY <1>1, <1>2 DEF Edits, WatchInv
  <1>4. ASSUME NEW w \in W!Informed, Reaches(e, w) PROVE w \in W!Local(e) /\ w \notin q.sent
    BY <1>1, <1>2, <1>4, WatcherIs DEF Reaches, W!Local, W!WatchersOf
  <1>5. CASE W!ChangeStatus(e)
    <2>1. PICK s \in Patch : \E x \in Process, new \in UserStatus :
            /\ q.pc = "unused" /\ status' = [status EXCEPT ![s] = new]
            /\ edit' = [edit EXCEPT ![e].pc = "notify", ![e].on = s, ![e].at = x, ![e].new = new]
            /\ excused' = excused \cup W!Missed(s, x) /\ conn' = conn
      BY <1>2, <1>5 DEF W!ChangeStatus
    <2>2. PICK x \in Process : \E new \in UserStatus :
            /\ q.pc = "unused" /\ status' = [status EXCEPT ![s] = new]
            /\ edit' = [edit EXCEPT ![e].pc = "notify", ![e].on = s, ![e].at = x, ![e].new = new]
            /\ excused' = excused \cup W!Missed(s, x) /\ conn' = conn
      BY <2>1
    <2>3. PICK new \in UserStatus :
            /\ q.pc = "unused" /\ status' = [status EXCEPT ![s] = new]
            /\ edit' = [edit EXCEPT ![e].pc = "notify", ![e].on = s, ![e].at = x, ![e].new = new]
            /\ excused' = excused \cup W!Missed(s, x) /\ conn' = conn
      BY <2>2
    <2>4. PICK r \in Edits : r = [q EXCEPT !.pc = "notify", !.on = s, !.at = x, !.new = new]
      BY DEF Edits
    <2>5. r.pc = "notify" /\ r.on = s /\ r.at = x /\ r.sent = {}
      BY <1>3, <2>3, <2>4 DEF Edits
    <2>6. edit' = [edit EXCEPT ![e] = r]
      BY <1>1, <1>2, <2>3, <2>4
    <2>7. edit'[e] = r /\ \A f \in Edit \ {e} : edit'[f] = edit[f]
      BY <1>1, <2>6
    <2>8. /\ status'[s] = new /\ new # None /\ \A p \in Patch \ {s} : status'[p] = status[p]
      BY <1>1, <2>3, NamesAssumption
    <2>9. ASSUME NEW w \in W!Informed PROVE Current(w)'
      <3>1. /\ w \in Watcher /\ w \in W!Registered /\ conn[w].on \in Patch
            /\ conn'[w] = conn[w] /\ Current(w)
        BY <1>1, <2>3, WatcherIs
      <3>2. CASE conn[w].on = s /\ conn[w].at # x
        <4>1. w \in W!Missed(s, x)
          BY <3>1, <3>2 DEF W!Missed, W!WatchersOf
        <4> QED
          BY <2>3, <4>1 DEF Current
      <3>3. CASE conn[w].on = s /\ conn[w].at = x
        <4>1. Reaches(e, w)'
          BY <2>5, <2>7, <3>1, <3>3 DEF Reaches, W!Pending
        <4> QED
          BY <4>1 DEF Current
      <3>4. CASE conn[w].on # s
        <4>1. ~Reaches(e, w)
          BY <1>2, <2>3 DEF Reaches, W!Pending
        <4> QED
          BY <2>3, <2>7, <2>8, <3>1, <3>4, <4>1 DEF Current, Reaches, W!Exists, W!Pending
      <3> QED
        BY <3>2, <3>3, <3>4
    <2>10. /\ \A p \in Patch : status[p] # None => status'[p] # None
           /\ conn' \in [Watcher -> Conns]
           /\ \A w \in Watcher : conn'[w].pc = conn[w].pc /\ conn'[w].on = conn[w].on
                                  /\ conn'[w].at = conn[w].at
      BY <1>1, <2>3, <2>8
    <2> QED
      BY <1>1, <2>5, <2>6, <2>9, <2>10, OneEdit
  <1>6. CASE W!Broadcast(e)
    <2>1. q.pc = "notify" /\ UNCHANGED <<status, conn, excused>>
      BY <1>2, <1>6 DEF W!Broadcast
    <2>2. CASE W!Local(e) = {}
      <3>1. edit' = W!Over(e)
        BY <1>6, <2>2 DEF W!Broadcast
      <3> QED
        BY <1>1, <1>4, <2>1, <2>2, <3>1, EditOver
    <2>3. CASE W!Local(e) # {}
      <3>1. PICK local \in SUBSET Watcher : local = W!Local(e)
        BY DEF W!Local, W!WatchersOf, W!Registered
      <3>2. edit' = [edit EXCEPT ![e].pc = "send", ![e].members = local]
        BY <1>6, <2>3, <3>1 DEF W!Broadcast
      <3>3. PICK r \in Edits : r = [q EXCEPT !.pc = "send", !.members = local]
        BY DEF Edits
      <3>4. r.pc = "send" /\ r.on = q.on /\ r.at = q.at /\ r.sent = q.sent
        BY <3>3 DEF Edits
      <3>5. edit' = [edit EXCEPT ![e] = r]
        BY <1>1, <1>2, <3>2, <3>3
      <3>6. edit'[e] = r /\ \A f \in Edit \ {e} : edit'[f] = edit[f]
        BY <1>1, <3>5
      <3>7. ASSUME NEW w \in W!Informed PROVE Current(w)'
        <4>1. Current(w)
          BY <1>1, WatcherIs
        <4> QED
          BY <1>2, <2>1, <3>4, <3>6, <4>1 DEF Current, Reaches, W!Exists, W!Pending
      <3> QED
        BY <1>1, <2>1, <3>4, <3>5, <3>7, OneEdit
    <2> QED
      BY <2>2, <2>3
  <1>7. CASE W!SendTo(e)
    <2>1. PICK v \in W!Local(e) \ q.sent :
            /\ q.pc = "send" /\ edit' = [edit EXCEPT ![e].sent = @ \cup {v}] /\ status' = status
            /\ conn' = IF conn[v].pc = "on" THEN [conn EXCEPT ![v].shown = q.new] ELSE conn
            /\ excused' = IF conn[v].pc = "on" /\ q.new = status[q.on]
                          THEN excused \ {v} ELSE excused \cup ({v} \cap W!Informed)
      BY <1>2, <1>7 DEF W!SendTo
    <2>2. v \in Watcher /\ v \in W!Registered /\ conn[v].on = q.on
      BY <1>2, <2>1 DEF W!Local, W!WatchersOf, W!Registered
    <2>3. PICK r \in Edits : r = [q EXCEPT !.sent = @ \cup {v}]
      BY <1>3, <2>2 DEF Edits
    <2>4. r.pc = "send" /\ r.on = q.on /\ r.at = q.at /\ r.sent = q.sent \cup {v}
      BY <2>1, <2>3 DEF Edits
    <2>5. edit' = [edit EXCEPT ![e] = r]
      BY <1>1, <1>2, <2>1, <2>3
    <2>6. edit'[e] = r /\ \A f \in Edit \ {e} : edit'[f] = edit[f]
      BY <1>1, <2>5
    <2>7. /\ conn' \in [Watcher -> Conns] /\ \A w \in Watcher \ {v} : conn'[w] = conn[w]
          /\ conn'[v].pc = conn[v].pc /\ conn'[v].on = conn[v].on /\ conn'[v].at = conn[v].at
          /\ conn[v].pc = "on" => conn'[v].shown = q.new
      <3>1. q.new \in Statuses
        BY <1>3 DEF Statuses
      <3>2. PICK c \in Conns : c = conn[v]
        BY <1>1, <2>2
      <3>3. PICK d \in Conns : d = [c EXCEPT !.shown = q.new]
        BY <3>1 DEF Conns
      <3>4. d.pc = c.pc /\ d.on = c.on /\ d.at = c.at /\ d.shown = q.new
        BY <3>3 DEF Conns
      <3>5. CASE conn[v].pc = "on"
        <4>1. conn' = [conn EXCEPT ![v] = d]
          BY <1>1, <2>1, <3>2, <3>3, <3>5
        <4> QED
          BY <1>1, <2>2, <3>2, <3>4, <4>1
      <3>6. CASE conn[v].pc # "on"
        BY <1>1, <2>1, <3>6
      <3> QED
        BY <3>5, <3>6
    <2>8. ASSUME NEW w \in W!Informed PROVE Current(w)'
      <3>1. w \in Watcher /\ Current(w)
        BY <1>1, WatcherIs
      <3>2. CASE w # v
        <4>1. conn'[w] = conn[w] /\ (w \in excused => w \in excused')
          BY <2>1, <2>7, <3>1, <3>2
        <4>2. \A f \in Edit : Reaches(f, w) => Reaches(f, w)'
          BY <1>2, <2>1, <2>4, <2>6, <3>2, <4>1 DEF Reaches, W!Pending
        <4> QED
          BY <2>1, <3>1, <4>1, <4>2 DEF Current, W!Exists
      <3>3. CASE w = v /\ conn[v].pc = "on" /\ q.new = status[q.on]
        BY <2>1, <2>2, <2>7, <3>3 DEF Current
      <3>4. CASE w = v /\ ~(conn[v].pc = "on" /\ q.new = status[q.on])
        BY <2>1, <3>4 DEF Current
      <3> QED
        BY <3>2, <3>3, <3>4
    <2>9. /\ \A p \in Patch : status[p] # None => status'[p] # None
          /\ \A w \in Watcher : conn'[w].pc = conn[w].pc /\ conn'[w].on = conn[w].on
                                 /\ conn'[w].at = conn[w].at
      BY <2>1, <2>7
    <2>10. r.pc \in {"unused", "notify"} => r.sent = {}
      BY <2>4
    <2> QED
      BY <1>1, <2>5, <2>7, <2>8, <2>9, <2>10, OneEdit
  <1>8. CASE W!BroadcastEnds(e)
    <2>1. edit' = W!Over(e) /\ UNCHANGED <<status, conn, excused>> /\ W!Local(e) \subseteq q.sent
      BY <1>2, <1>8 DEF W!BroadcastEnds
    <2> QED
      BY <1>1, <1>4, <2>1, EditOver
  <1>9. CASE W!BroadcastRaises(e)
    <2>1. /\ edit' = W!Over(e) /\ UNCHANGED <<status, conn>>
          /\ excused' = excused \cup ((W!Local(e) \ q.sent) \cap W!Informed)
      BY <1>2, <1>9 DEF W!BroadcastRaises
    <2> QED
      BY <1>1, <1>4, <2>1, EditOver
  <1> QED
    BY <1>5, <1>6, <1>7, <1>8, <1>9 DEF W!EditStep

-----------------------------------------------------------------------------
LEMMA ImportStarts ==
  ASSUME Init
  PROVE  IInv
  <1>1. TusInv
    BY TusStarts DEF Init
  <1>2. /\ status = [p \in Patch |-> None] /\ progress = [p \in Patch |-> None]
        /\ job = [p \in Patch |-> [pc |-> "none", end |-> None]]
        /\ queued = {} /\ \A p \in Patch : stored[p].row = "none"
    BY DEF Init, W!WatchInit, TusInit, NoRow
  <1>3. \A p \in Patch : JobInv(p)
    BY <1>2, NamesAssumption DEF JobInv, W!Ends, W!Outcome
  <1>4. WatchInv
    <2>1. /\ conn \in [Watcher -> Conns] /\ edit \in [Edit -> Edits]
          /\ \A w \in Watcher : conn[w].pc = "off"
          /\ \A e \in Edit : edit[e].sent = {}
      BY DEF Init, W!WatchInit, W!Unused, Conns, Edits, Statuses
    <2> QED
      BY <2>1 DEF WatchInv, W!Registered, W!Informed
  <1> QED
    BY <1>1, <1>2, <1>3, <1>4 DEF IInv, ImportInv, Statuses

LEMMA ImportKeeps ==
  ASSUME IInv, [NextAnyTime]_vars
  PROVE  IInv'
  <1>1. CASE Uploads
    <2>1. WatchInv'
      BY <1>1, WatchKept DEF Uploads, IInv
    <2> QED
      BY <1>1, <2>1, UploadsKeeps, UploadStepKeeps DEF IInv
  <1>2. ASSUME NEW p \in Patch, Commits(p) \/ Submits(p) \/ Finishes(p)
        PROVE  IInv'
    <2>1. CASE Commits(p)
      BY <2>1, CommitsKeeps, CommitsTell, UploadStepKeeps DEF IInv
    <2>2. CASE Submits(p) \/ Finishes(p)
      <3>1. UNCHANGED <<status, conn, edit, excused>> /\ WatchInv
        BY <2>2 DEF Submits, Finishes, IInv
      <3>2. WatchInv'
        BY <3>1, WatchKept
      <3> QED
        BY <2>2, <3>2, SubmitsKeeps, FinishesKeeps, UploadStepKeeps DEF IInv
    <2> QED
      BY <1>2, <2>1, <2>2
  <1>3. CASE FollowsAnyTime
    <2>1. TusInv'
      BY <1>3, TusStutters DEF FollowsAnyTime, IInv
    <2>2. ImportInv'
      BY <1>3, JobSteps, ConnSteps, EditSteps DEF FollowsAnyTime
    <2>3. WatchInv'
      BY <1>3, JobsTell, ConnsTell, EditsTell DEF FollowsAnyTime
    <2> QED
      BY <2>1, <2>2, <2>3 DEF IInv
  <1>4. CASE UNCHANGED vars
    <2>1. UNCHANGED tusVars /\ UNCHANGED <<status, job, progress, queued, stored>>
      BY <1>4 DEF vars, tusVars
    <2>2. WatchInv'
      BY <1>4, WatchKept DEF vars, IInv
    <2> QED
      BY <2>1, <2>2, TusStutters, NoJob DEF IInv, SameRow
  <1> QED
    BY <1>1, <1>2, <1>3, <1>4 DEF NextAnyTime

LEMMA BoundsAreSteps ==
  ASSUME [Next]_vars
  PROVE  [NextAnyTime]_vars
  BY DEF Next, NextAnyTime, Follows, FollowsAnyTime

(* The invariant holds, with or without the bounds of the model.           *)
THEOREM InductiveCorrect == (Spec => []IInv) /\ (SpecAnyTime => []IInv)
  <1>1. Init => IInv
    BY ImportStarts
  <1>2. IInv /\ [NextAnyTime]_vars => IInv'
    BY ImportKeeps
  <1>3. [Next]_vars => [NextAnyTime]_vars
    BY BoundsAreSteps
  <1> QED
    BY <1>1, <1>2, <1>3, PTL DEF Spec, SpecAnyTime

-----------------------------------------------------------------------------
(* What the invariant says.                                                *)

LEMMA InvIsExact ==
  ASSUME IInv
  PROVE  ExactFile
  <1> SUFFICES ASSUME NEW p \in Patch, stored[p].row = "committed",
                      patch[p].up \notin overlap,
                      \A q \in Patch : ~(patch[q].up = patch[p].up /\ patch[q].pc = "torn")
               PROVE  stored[p].file = File
    BY DEF ExactFile
  <1>1. patch[p].pc # "unused"
    BY DEF IInv, TusInv, Sound
  <1>2. patch[p].up \in Upload
    BY <1>1, OpenUpload DEF IInv
  <1>3. Exact(patch[p].up)
    BY <1>2 DEF IInv, TusInv, FilesInv, Intact, Working
  <1> QED
    BY <1>3 DEF Exact

LEMMA InvIsOnce ==
  ASSUME IInv
  PROVE  SerialClientDuplicatesNothing
  <1> SUFFICES ASSUME impatient = {}, ~LastAnswerLost PROVE Cardinality(queued) <= 1
    BY DEF SerialClientDuplicatesNothing, IInv, TusInv, OnceInv
  <1>1. queued \subseteq {user.on}
    BY DEF IInv, TusInv, OnceInv, Once
  <1>2. IsFiniteSet({user.on}) /\ Cardinality({user.on}) = 1
    BY FS_Singleton
  <1>3. Cardinality(queued) <= Cardinality({user.on})
    BY <1>1, <1>2, FS_Subset
  <1> QED
    BY <1>1, <1>2, <1>3

LEMMA InvIsDone ==
  ASSUME IInv
  PROVE  DoneMeansStored
  <1> SUFFICES ASSUME user.state = "done", user.up \notin impatient
               PROVE  \/ \E p \in queued : patch[p].up = user.up
                      \/ \E q \in Patch : patch[q].up = user.up /\ patch[q].pc = "lost"
    BY DEF DoneMeansStored
  <1>1. user.up \in Upload
    BY DEF IInv, TusInv, TusType
  <1>2. Serial(user.up)
    BY <1>1 DEF IInv, TusInv, SerialInv
  <1> QED
    BY <1>2 DEF Serial

LEMMA InvIsFinal ==
  ASSUME IInv
  PROVE  AnswerIsFinal
  <1> SUFFICES ASSUME NEW p \in Patch, W!Result(p) \in {"SUCCESS", "FAILURE"}
               PROVE  \/ W!Answer(p) \in {"COMPLETED", "READY", "FAILED"}
                      \/ W!Answer(p) = "404" /\ status[p] = "deleted"
    BY DEF AnswerIsFinal
  <1>1. \A recorded : W!Overrule(W!Result(p), recorded) \in {"COMPLETED", "READY", "FAILED"}
    BY DEF W!Overrule
  <1>2. job[p].pc # "none" /\ W!Result(p) # "PENDING"
    BY DEF W!Result
  <1>3. status[p] # None
    BY <1>2, TaskCommitted
  <1> QED
    BY <1>1, <1>2, <1>3 DEF W!Answer, W!Exists

LEMMA InvIsVisible ==
  ASSUME IInv
  PROVE  CompletedIsVisible
  <1> SUFFICES ASSUME NEW p \in Patch, W!Answer(p) = "COMPLETED"
               PROVE  status[p] \in {W!Outcome(job[p].end), "deleted"} \cup UserStatus
    BY DEF CompletedIsVisible
  <1>1. JobInv(p)
    BY DEF IInv, ImportInv
  <1>2. W!Result(p) # "FAILURE" /\ (W!Result(p) = "SUCCESS" \/ progress[p] = "COMPLETED")
    <2>1. ASSUME NEW result, NEW recorded, W!Overrule(result, recorded) = "COMPLETED"
          PROVE  result # "FAILURE" /\ (result = "SUCCESS" \/ recorded = "COMPLETED")
      BY <2>1 DEF W!Overrule
    <2>2. W!Result(p) # "COMPLETED"
      BY <1>1 DEF JobInv, W!Result, W!Working
    <2>3. W!Overrule(W!Result(p), W!Recorded(p)) = "COMPLETED"
      BY DEF W!Answer
    <2>4. W!Recorded(p) = "COMPLETED" => progress[p] = "COMPLETED"
      BY <2>2 DEF W!Recorded
    <2> QED
      BY <2>1, <2>3, <2>4
  <1>3. job[p].pc \in {"parsed", "enrich", "SUCCESS"}
    BY <1>1, <1>2, NamesAssumption DEF JobInv, W!Ends, W!Result, W!Working
  <1> QED
    BY <1>1, <1>3 DEF JobInv

LEMMA InvIsTyped ==
  ASSUME IInv
  PROVE  TypeOK
  <1>1. TusType /\ ImportInv
    BY DEF IInv, TusInv
  <1>2. ASSUME NEW p \in Patch
        PROVE  /\ stored[p].row = "flushed" <=> patch[p].pc = "check"
               /\ stored[p].row = "committed" => stored[p].file # None
               /\ p \in queued => stored[p].row = "committed" /\ job[p].pc # "none"
               /\ status[p] # None <=> stored[p].row = "committed"
    <2>1. Sound(p) /\ JobInv(p)
      BY DEF IInv, TusInv, ImportInv
    <2> QED
      BY <2>1 DEF Sound, JobInv
  <1>3. \A u \in Upload : bin[u] # None => bin[u] \in Seq(1..Length)
    BY <1>1 DEF TusType, Content
  <1>4. stored \in [Patch -> [row : {"none", "flushed", "committed"}, file : {None} \cup Seq(1..Length)]]
    <2>1. Content = {None} \cup Seq(1..Length)
      BY DEF Content
    <2> QED
      BY <1>1, <2>1 DEF TusType
  <1>5. /\ user.up \in 0..Cardinality(Upload) /\ user.on \in 0..Cardinality(Patch)
        /\ user.off \in 0..Length
    BY <1>1 DEF TusType
  <1> QED
    BY <1>1, <1>2, <1>3, <1>4, <1>5 DEF TusType, ImportInv, TypeOK

(* What the uploads, the stored rows and the statuses hold (tus_router,    *)
(* _finalize_tus_upload): requests store a statement only while finalising *)
(* it or after, and a status is that of a stored one.                      *)
THEOREM TypeCorrect == (Spec => []TypeOK) /\ (SpecAnyTime => []TypeOK)
  BY InvIsTyped, InductiveCorrect, PTL

(* tus_patch: whatever is interrupted, repeated and resumed, the stored    *)
(* file is the user's, but for overlapping requests and a crash between    *)
(* the append and the offset, for a file and chunks of any size.           *)
THEOREM ExactFileCorrect == (Spec => []ExactFile) /\ (SpecAnyTime => []ExactFile)
  BY InvIsExact, InductiveCorrect, PTL

(* A client that waits for its answers makes one default client of the     *)
(* firm and, unless a crash kept the last answer from it, one parse task,  *)
(* through any crashes, refusals and retries.                              *)
THEOREM SerialClientCorrect ==
  /\ Spec => []SerialClientDuplicatesNothing
  /\ SpecAnyTime => []SerialClientDuplicatesNothing
  BY InvIsOnce, InductiveCorrect, PTL

(* An upload that looks complete to the client is a statement with a task, *)
(* unless the client gave up a request or a finalisation was lost.         *)
THEOREM DoneMeansStoredCorrect == (Spec => []DoneMeansStored) /\ (SpecAnyTime => []DoneMeansStored)
  BY InvIsDone, InductiveCorrect, PTL

(* GET /jobs: the Celery result overrules a record that came too late or   *)
(* was not taken.                                                          *)
THEOREM AnswerIsFinalCorrect == (Spec => []AnswerIsFinal) /\ (SpecAnyTime => []AnswerIsFinal)
  BY InvIsFinal, InductiveCorrect, PTL

(* GET /jobs: COMPLETED is answered only once what the parse came to, be   *)
(* it FAILED, is committed or the statement is deleted; whenever the user  *)
(* changes the status or deletes, and whatever Redis loses.                *)
THEOREM CompletedIsVisibleCorrect ==
  (Spec => []CompletedIsVisible) /\ (SpecAnyTime => []CompletedIsVisible)
  BY InvIsVisible, InductiveCorrect, PTL

(* A connected watcher shows the committed status, but for the changes     *)
(* websocket.py cannot bring it: whenever connections come and go, for any *)
(* number of connections, API processes and changes of status.             *)
THEOREM WatchersAreCurrentCorrect ==
  (Spec => []WatchersAreCurrent) /\ (SpecAnyTime => []WatchersAreCurrent)
  <1>1. IInv => WatchersAreCurrent
    BY DEF IInv, WatchInv, WatchersAreCurrent, W!Informed
  <1> QED
    BY <1>1, InductiveCorrect, PTL
=============================================================================
