--------------------------- MODULE ResumableImport --------------------------
(***************************************************************************)
(* A file uploaded in chunks (TusUpload), the parse job of the statement   *)
(* each finalised request makes, and the user who follows it               *)
(* (StatementWatch).  A statement is named by the request that stores it;  *)
(* "stored" is what it stored, also of a statement that was deleted since. *)
(***************************************************************************)
EXTENDS TusUpload

CONSTANTS Process, Watcher, Edit, UserStatus, MaxLost

ASSUME NamesAssumption ==
    None \notin Process \cup UserStatus \cup {"PARSING", "OCR", "READY_FOR_REVIEW", "FAILED",
                                              "PENDING", "STARTED", "COMPLETED", "deleted",
                                              "missing"}
ASSUME StatusAssumption == "deleted" \notin UserStatus

VARIABLES status, job, progress, lost, conn, edit, excused

W == INSTANCE StatementWatch WITH Statement <- Patch, Nil <- None

vars == <<info, bin, patch, stored, queued, clients, user, impatient, overlap,
          crashes, timeouts, failures, status, job, progress, lost, conn, edit, excused>>

Init == TusInit /\ W!WatchInit

(* The steps of the upload that the job and its followers can see.         *)
Commits(p) ==
    /\ CommitStatement(p)
    /\ status' = [status EXCEPT ![p] = "PARSING"]
    /\ UNCHANGED <<job, progress, lost, conn, edit, excused>>
Submits(p) ==
    /\ Enqueue(p) /\ W!Submit(p)
    /\ UNCHANGED <<status, progress, lost, conn, edit, excused>>
Finishes(p) ==
    /\ Finish(p) /\ W!WritePending(p)
    /\ UNCHANGED <<status, job, conn, edit, excused>>
Uploads ==
    /\ \/ UserStep \/ Crash
       \/ \E p \in Patch :
            \/ CheckOffset(p) \/ Disconnect(p) \/ AppendChunk(p) \/ WriteOffset(p)
            \/ FindClient(p) \/ TwoClients(p) \/ Scan(p) \/ ScanRefuses(p) \/ FileMissing(p)
            \/ Rename(p) \/ PasswordRefused(p) \/ CommitFails(p) \/ BrokerDown(p)
    /\ UNCHANGED <<status, job, progress, lost, conn, edit, excused>>

(* Bounds: connections and PATCH /status requests share nothing with the    *)
(* upload but the statement; they come after an upload without incident,   *)
(* and Redis takes every record while they are there.  Statements are      *)
(* deleted where no upload crashed, failed or was given up.                *)
Uneventful == user.state = "done" /\ crashes + timeouts + failures + lost = 0
                /\ \A p \in Patch : patch[p].pc \notin Open
Unwatched == /\ \A w \in Watcher : conn[w].pc = "off"
             /\ \A e \in Edit : edit[e].pc = "unused"
Follows ==
    /\ \/ /\ \E p \in Patch : W!JobStep(p)
          /\ lost' = lost \/ Unwatched
       \/ crashes + timeouts + failures = 0 /\ \E p \in Patch : W!Delete(p)
       \/ Uneventful /\ \E w \in Watcher : W!ConnStep(w)
       \/ Uneventful /\ \E e \in Edit : W!EditStep(e)
    /\ UNCHANGED tusVars

Next == Uploads \/ Follows \/ \E p \in Patch : Commits(p) \/ Submits(p) \/ Finishes(p)
Spec == Init /\ [][Next]_vars

-----------------------------------------------------------------------------
Statuses == {None, "PARSING", "OCR", "READY_FOR_REVIEW", "FAILED", "deleted"} \cup UserStatus
(* Types: offsets within the file, a user on an upload and a request it    *)
(* created, requests that store a statement only while they finalise it or *)
(* after.                                                                  *)
TypeOK ==
    /\ info \in [Upload -> 0..Length \cup {None}]
    /\ \A u \in Upload : bin[u] # None => bin[u] \in Seq(1..Length)
    /\ stored \in [Patch -> [row : {"none", "flushed", "committed"}, file : {None} \cup Seq(1..Length)]]
    /\ \A p \in Patch :
        /\ stored[p].row = "flushed" <=> patch[p].pc = "check"
        /\ stored[p].row = "committed" => stored[p].file # None
        /\ p \in queued => stored[p].row = "committed" /\ job[p].pc # "none"
    /\ user.up \in 0..Cardinality(Upload) /\ user.on \in 0..Cardinality(Patch)
    /\ user.off \in 0..Length
    /\ status \in [Patch -> Statuses]
    /\ \A p \in Patch : status[p] # None <=> stored[p].row = "committed"

(* The file of a stored statement is the file the user has, however its    *)
(* chunks were interrupted, repeated and resumed, unless two requests were *)
(* changing the upload at once, or a crash came between the append of a    *)
(* chunk and the write of the new offset.                                  *)
ExactFile ==
    \A p \in Patch : stored[p].row = "committed" =>
        \/ stored[p].file = File \/ patch[p].up \in overlap
        \/ \E q \in Patch : patch[q].up = patch[p].up /\ patch[q].pc = "torn"

(* A file is parsed once and the firm gets one default client, whatever    *)
(* was refused, retried or restarted, as long as the client waited for     *)
(* every answer; but the file is parsed again when a crash kept the last   *)
(* answer from the client, which finds no upload and sends it once more.   *)
(* (Two default clients would fail every later upload.)                    *)
SerialClientDuplicatesNothing ==
    impatient = {} => clients <= 1 /\ (LastAnswerLost \/ Cardinality(queued) <= 1)

(* What tus-js-client reports as uploaded is a stored statement with a     *)
(* parse task, unless it gave a request up or a crash stopped the          *)
(* finalisation, which leaves an upload that looks complete.               *)
DoneMeansStored ==
    user.state = "done" =>
        \/ \E p \in queued : patch[p].up = user.up
        \/ user.up \in impatient
        \/ \E q \in Patch : patch[q].up = user.up /\ patch[q].pc = "lost"

(* GET /jobs ends with a final answer as soon as Celery has the result,    *)
(* though the API may write its PENDING record over the worker's last one  *)
(* and Redis may lose any of them; 404 only of a deleted statement.        *)
AnswerIsFinal ==
    \A p \in Patch : W!Result(p) \in {"SUCCESS", "FAILURE"} =>
        \/ W!Answer(p) \in {"COMPLETED", "READY", "FAILED"}
        \/ W!Answer(p) = "404" /\ status[p] = "deleted"

(* A poller told COMPLETED finds what the parse came to committed, or the  *)
(* status a user has set since, or no statement any more; never the status *)
(* of the upload or of a parse that goes on.  What it came to may be       *)
(* FAILED: a parse that fails returns as well as one that succeeds, and so *)
(* does one that finds no statement.                                       *)
CompletedIsVisible ==
    \A p \in Patch : W!Answer(p) = "COMPLETED" =>
        status[p] \in {W!Outcome(job[p].end), "deleted"} \cup UserStatus

(* A connected watcher shows the committed status of a statement that is   *)
(* not deleted, unless a broadcast of its own process has it still to      *)
(* tell, or the last change was a worker's or another process's, a later   *)
(* change overtook the broadcast, a connection that came or went stopped   *)
(* it, or it overtook the initial status.                                  *)
Reaches(e, w) ==
    /\ W!Pending(e) /\ edit[e].on = conn[w].on /\ edit[e].at = conn[w].at
    /\ w \notin edit[e].sent
Current(w) ==
    \/ w \in excused \/ conn[w].shown = status[conn[w].on] \/ ~W!Exists(conn[w].on)
    \/ \E e \in Edit : Reaches(e, w)
WatchersAreCurrent == \A w \in Watcher : conn[w].pc = "on" => Current(w)

-----------------------------------------------------------------------------
(* The inductive invariant: that of the upload; a task for each request    *)
(* that queued one; and what its progress and its record say of a status.  *)
JobInv(p) ==
    /\ job[p].pc \in {"none", "queued", "parser", "ocr", "parsed", "enrich", "SUCCESS", "FAILURE"}
    /\ job[p].pc # "none" <=> p \in queued
    /\ job[p].pc = "parsed" => job[p].end \in W!Ends
    /\ status[p] # None <=> stored[p].row = "committed"
    /\ progress[p] \in {None, "PENDING", "STARTED", "missing"} \cup W!Ends
    /\ progress[p] \in W!Ends => job[p].pc \in {"enrich", "SUCCESS", "FAILURE"}
    /\ progress[p] = "COMPLETED" => job[p].end = "COMPLETED"
    /\ job[p].pc \in {"parsed", "enrich", "SUCCESS"} =>
        status[p] \in {W!Outcome(job[p].end), "deleted"} \cup UserStatus
ImportInv ==
    /\ status \in [Patch -> Statuses] /\ DOMAIN job = Patch /\ DOMAIN progress = Patch
    /\ \A p \in Patch : JobInv(p)
(* WatchersAreCurrent, from the moment a watcher's initial status is read. *)
Conns == [pc : {"off", "read", "send", "on", "closed"}, on : Patch \cup {None},
          at : Process \cup {None}, shown : Statuses]
Edits == [pc : {"unused", "notify", "send", "over"}, on : Patch \cup {None},
          at : Process \cup {None}, new : UserStatus \cup {None},
          members : SUBSET Watcher, sent : SUBSET Watcher]
WatchInv ==
    /\ conn \in [Watcher -> Conns] /\ edit \in [Edit -> Edits]
    /\ \A e \in Edit : edit[e].pc \in {"unused", "notify"} => edit[e].sent = {}
    /\ \A w \in W!Registered : /\ conn[w].on \in Patch /\ conn[w].at \in Process
                               /\ status[conn[w].on] # None
    /\ \A w \in W!Informed : Current(w)
IInv == TusInv /\ ImportInv /\ WatchInv
=============================================================================
