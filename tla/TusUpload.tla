----------------------------- MODULE TusUpload -----------------------------
(***************************************************************************)
(* Resumable uploads (statements/tus_router.py): a client in the manner of *)
(* tus-js-client sends one file in chunks; the handlers of two API         *)
(* processes append them to a temporary file beside an offset file and     *)
(* turn the complete file into a statement with a parse task.              *)
(*                                                                         *)
(* A step of a request ends at an await, at a change of a file, or at a    *)
(* commit: requests interleave there, and a crash of the API may come      *)
(* between any two.  Content is the sequence of the positions it holds.    *)
(***************************************************************************)
EXTENDS Integers, Sequences, FiniteSets

CONSTANTS
    Upload,         \* uploads the client may create, in turn: 1..n
    Patch,          \* PATCH requests the client may send, in turn: 1..n
    Length,         \* Upload-Length of the file
    ChunkSize,      \* size of the client's chunks
    None,           \* no file, no row, nothing
    MaxTimeouts,    \* bound: requests the client gives up
    MaxCrashes,     \* bound: crashes of the API
    MaxFailures     \* bound: refusals and failures while finalising

ASSUME SizesAssumption == Length \in Nat \ {0} /\ ChunkSize \in Nat \ {0}
ASSUME TurnsAssumption ==
    /\ IsFiniteSet(Upload) /\ Upload = 1..Cardinality(Upload)
    /\ IsFiniteSet(Patch) /\ Patch = 1..Cardinality(Patch)
ASSUME NoneAssumption == None \notin Nat /\ None \notin Seq(Nat)
ASSUME LimitsAssumption == {MaxTimeouts, MaxCrashes, MaxFailures} \subseteq Nat

File == [i \in 1..Length |-> i]

VARIABLES
    info,       \* offset in the .info file of each upload
    bin,        \* content of its .bin file
    patch,      \* each PATCH request
    stored,     \* the statement each request stores: row and file
    queued,     \* requests that put a parse task in the broker
    clients,    \* default clients of the user's firm
    user,       \* the uploading client
    impatient,  \* history: uploads of which the client gave up a request
    overlap,    \* history: uploads changed by two requests at once
    crashes, timeouts, failures

tusVars == <<info, bin, patch, stored, queued, clients, user, impatient, overlap,
             crashes, timeouts, failures>>

Blank == [pc |-> "unused", up |-> None, off |-> 0, chunk |-> << >>, creates |-> FALSE]
Finalising == {"client", "scan", "row", "check", "enqueue", "queued"}
Writing == {"body", "offset"}
Open == {"sent"} \cup Writing \cup Finalising
(* Requests whose connection broke: before they changed a file, between    *)
(* the append and the offset, while finalising, and before their answer.   *)
Gone == {"gone", "torn", "lost", "unsent"}
NoRow == [row |-> "none", file |-> None]

TusInit ==
    /\ info = [u \in Upload |-> None] /\ bin = [u \in Upload |-> None]
    /\ patch = [p \in Patch |-> Blank]
    /\ stored = [p \in Patch |-> NoRow]
    /\ queued = {} /\ clients = 0
    /\ user = [state |-> "new", up |-> 0, off |-> 0, on |-> 0]
    /\ impatient = {} /\ overlap = {}
    /\ crashes = 0 /\ timeouts = 0 /\ failures = 0

-----------------------------------------------------------------------------
(* The client.                                                             *)
ServerIdle == UNCHANGED <<info, bin, patch, stored, queued, clients, overlap, crashes, failures>>
Turn(new) == user' = [user EXCEPT !.state = new]

(* A request is already changing the files of upload u.                    *)
Mark(u) ==
    overlap' = IF \E p \in Patch : patch[p].up = u /\ patch[p].pc \in Writing
               THEN overlap \cup {u} ELSE overlap

(* POST: the .info file with offset 0 and an empty .bin file.              *)
Create ==
    LET u == user.up + 1
    IN  /\ user.state = "new" /\ u \in Upload
        /\ info' = [info EXCEPT ![u] = 0]
        /\ bin' = [bin EXCEPT ![u] = << >>]
        /\ user' = [user EXCEPT !.state = "send", !.up = u, !.off = 0]
        /\ UNCHANGED <<patch, stored, queued, clients, impatient, overlap, crashes, timeouts, failures>>

Send ==
    LET p   == user.on + 1
        end == IF user.off + ChunkSize > Length THEN Length ELSE user.off + ChunkSize
    IN  /\ user.state = "send" /\ p \in Patch
        /\ patch' = [patch EXCEPT ![p] = [Blank EXCEPT !.pc = "sent", !.up = user.up,
                       !.off = user.off, !.chunk = SubSeq(File, user.off + 1, end)]]
        /\ user' = [user EXCEPT !.state = "wait", !.on = p]
        /\ UNCHANGED <<info, bin, stored, queued, clients, impatient, overlap, crashes, timeouts, failures>>

Receive ==
    LET p == patch[user.on]
        off == user.off + Len(p.chunk)
    IN  /\ user.state = "wait" /\ p.pc \in {"ok", "error"}
        /\ user' = IF p.pc = "error" THEN [user EXCEPT !.state = "head"]
                   ELSE [user EXCEPT !.state = IF off = Length THEN "done" ELSE "send", !.off = off]
        /\ UNCHANGED <<impatient, timeouts>> /\ ServerIdle

(* The answer is late or lost: the client gives the request up.            *)
GiveUp ==
    /\ user.state = "wait" /\ patch[user.on].pc \notin Gone /\ timeouts < MaxTimeouts
    /\ timeouts' = timeouts + 1
    /\ impatient' = impatient \cup {user.up}
    /\ Turn("head") /\ ServerIdle
ConnectionLost ==
    /\ user.state = "wait" /\ patch[user.on].pc \in Gone
    /\ Turn("head") /\ UNCHANGED <<impatient, timeouts>> /\ ServerIdle

(* HEAD: resume at the server's offset, or start again on 404.             *)
HeadOffset ==
    LET off == info[user.up]
    IN  /\ user.state = "head"
        /\ user' = IF off = None THEN [user EXCEPT !.state = "new"]
                   ELSE [user EXCEPT !.state = IF off = Length THEN "done" ELSE "send", !.off = off]
        /\ UNCHANGED <<impatient, timeouts>> /\ ServerIdle

(* DELETE: both files go, whatever requests are in progress.               *)
Cancel ==
    /\ user.state \in {"send", "head"}
    /\ info' = [info EXCEPT ![user.up] = None] /\ bin' = [bin EXCEPT ![user.up] = None]
    /\ Turn("cancelled") /\ Mark(user.up)
    /\ UNCHANGED <<patch, stored, queued, clients, impatient, crashes, timeouts, failures>>

-----------------------------------------------------------------------------
(* A PATCH request.                                                        *)
Go(p, pc) == patch' = [patch EXCEPT ![p].pc = pc]
UserIdle == UNCHANGED <<user, impatient, timeouts>>
At(p, pc) == patch[p].pc = pc

AnyOffset(p) == info[patch[p].up] # None      \* mutant
OffsetMatches(p) == info[patch[p].up] = patch[p].off
CheckOffset(p) ==
    /\ At(p, "sent")
    /\ Go(p, IF OffsetMatches(p) THEN "body" ELSE "error")
    /\ IF OffsetMatches(p) THEN Mark(patch[p].up) ELSE UNCHANGED overlap
    /\ UserIdle /\ UNCHANGED <<info, bin, stored, queued, clients, crashes, failures>>

(* The body of a request the client gave up may never arrive.              *)
Disconnect(p) ==
    /\ At(p, "body") /\ (user.state # "wait" \/ user.on # p)
    /\ Go(p, "gone")
    /\ UserIdle /\ UNCHANGED <<info, bin, stored, queued, clients, overlap, crashes, failures>>

AppendChunk(p) ==
    /\ At(p, "body")
    /\ LET old == bin[patch[p].up]
       IN  bin' = [bin EXCEPT ![patch[p].up] =
                     (IF old = None THEN << >> ELSE old) \o patch[p].chunk]
    /\ Go(p, "offset")
    /\ UserIdle /\ UNCHANGED <<info, stored, queued, clients, overlap, crashes, failures>>

(* The offset is computed from the one that was checked.                   *)
WholeChunk(p) == patch[p].off + ChunkSize     \* mutant
NewOffset(p) == patch[p].off + Len(patch[p].chunk)
WriteOffset(p) ==
    /\ At(p, "offset")
    /\ info' = [info EXCEPT ![patch[p].up] = NewOffset(p)]
    /\ Go(p, IF NewOffset(p) = Length THEN "client" ELSE "ok")
    /\ UserIdle /\ UNCHANGED <<bin, stored, queued, clients, overlap, crashes, failures>>

-----------------------------------------------------------------------------
(* _finalize_tus_upload.                                                   *)
Row(p, row, file) == stored' = [stored EXCEPT ![p] = [row |-> row, file |-> file]]

CleanFile(p) ==                               \* mutant: the offset stays
    /\ bin' = [bin EXCEPT ![patch[p].up] = None] /\ UNCHANGED info
    /\ Go(p, "error")
(* Any failure removes what is left of the upload and rolls back.          *)
Clean(p) ==
    /\ info' = [info EXCEPT ![patch[p].up] = None]
    /\ bin' = [bin EXCEPT ![patch[p].up] = None]
    /\ Go(p, "error")
Fails(p) == failures < MaxFailures /\ failures' = failures + 1

(* get_or_create_firm_client: two default clients fail the SELECT.         *)
FindClient(p) ==
    /\ At(p, "client") /\ clients < 2
    /\ patch' = [patch EXCEPT ![p].pc = "scan", ![p].creates = (clients = 0)]
    /\ UserIdle /\ UNCHANGED <<info, bin, stored, queued, clients, overlap, crashes, failures>>
TwoClients(p) ==
    /\ At(p, "client") /\ clients >= 2
    /\ Clean(p)
    /\ UserIdle /\ UNCHANGED <<stored, queued, clients, overlap, crashes, failures>>

Scan(p) ==
    /\ At(p, "scan") /\ bin[patch[p].up] # None
    /\ Go(p, "row")
    /\ UserIdle /\ UNCHANGED <<info, bin, stored, queued, clients, overlap, crashes, failures>>

(* The row is flushed and the temporary file becomes the statement's.      *)
Rename(p) ==
    /\ At(p, "row") /\ bin[patch[p].up] # None
    /\ Row(p, "flushed", bin[patch[p].up])
    /\ bin' = [bin EXCEPT ![patch[p].up] = None]
    /\ Go(p, "check")
    /\ UserIdle /\ UNCHANGED <<info, queued, clients, overlap, crashes, failures>>
FileMissing(p) ==
    /\ patch[p].pc \in {"scan", "row"} /\ bin[patch[p].up] = None
    /\ Clean(p)
    /\ UserIdle /\ UNCHANGED <<stored, queued, clients, overlap, crashes, failures>>
ScanRefuses(p) ==
    /\ At(p, "scan") /\ bin[patch[p].up] # None /\ Fails(p)
    /\ Clean(p)
    /\ UserIdle /\ UNCHANGED <<stored, queued, clients, overlap, crashes>>

(* After the password check: the commit, of a client it created too.       *)
CommitClient(p) == clients' = IF patch[p].creates THEN clients + 1 ELSE clients
CommitStatement(p) ==
    /\ At(p, "check")
    /\ Row(p, "committed", stored[p].file) /\ CommitClient(p)
    /\ Go(p, "enqueue")
    /\ UserIdle /\ UNCHANGED <<info, bin, queued, overlap, crashes, failures>>
(* A wrong password: the row is deleted and the file unlinked.             *)
PasswordRefused(p) ==
    /\ At(p, "check") /\ Fails(p)
    /\ Row(p, "none", None) /\ CommitClient(p) /\ Clean(p)
    /\ UserIdle /\ UNCHANGED <<queued, overlap, crashes>>
CommitFailsQueued(p) ==                       \* mutant: delay() before the commit
    /\ At(p, "check") /\ Fails(p) /\ queued' = queued \cup {p}
    /\ Row(p, "none", stored[p].file) /\ Clean(p)
    /\ UserIdle /\ UNCHANGED <<clients, overlap, crashes>>
(* The commit fails: the row is rolled back, the renamed file stays.       *)
CommitFails(p) ==
    /\ At(p, "check") /\ Fails(p)
    /\ Row(p, "none", stored[p].file) /\ Clean(p)
    /\ UserIdle /\ UNCHANGED <<queued, clients, overlap, crashes>>

Enqueue(p) ==
    /\ At(p, "enqueue")
    /\ queued' = queued \cup {p}
    /\ Go(p, "queued")
    /\ UserIdle /\ UNCHANGED <<info, bin, stored, clients, overlap, crashes, failures>>
BrokerDown(p) ==
    /\ At(p, "enqueue") /\ Fails(p)
    /\ Clean(p)
    /\ UserIdle /\ UNCHANGED <<stored, queued, clients, overlap, crashes>>
(* The progress record is written and the .info file unlinked.             *)
Finish(p) ==
    /\ At(p, "queued")
    /\ info' = [info EXCEPT ![patch[p].up] = None]
    /\ Go(p, "ok")
    /\ UserIdle /\ UNCHANGED <<bin, stored, queued, clients, overlap, crashes, failures>>

(* The API stops: open requests are gone, an answer is not sent any more,  *)
(* flushed rows are rolled back.                                           *)
Unsent(p) == patch[p].pc = "ok" /\ user.state = "wait" /\ user.on = p
Crash ==
    /\ crashes < MaxCrashes /\ \E p \in Patch : patch[p].pc \in Open \/ Unsent(p)
    /\ crashes' = crashes + 1
    /\ patch' = [p \in Patch |-> [patch[p] EXCEPT !.pc =
                    CASE @ = "offset" -> "torn" [] @ \in Finalising -> "lost"
                      [] @ \in {"sent", "body"} -> "gone" [] Unsent(p) -> "unsent" [] OTHER -> @]]
    /\ stored' = [p \in Patch |-> IF stored[p].row = "flushed" THEN [stored[p] EXCEPT !.row = "none"] ELSE stored[p]]
    /\ UserIdle /\ UNCHANGED <<info, bin, queued, clients, overlap, failures>>

UserStep == Create \/ Send \/ Receive \/ GiveUp \/ ConnectionLost \/ HeadOffset \/ Cancel

-----------------------------------------------------------------------------
(* The inductive invariant.  Types; what the state of a request says of    *)
(* its chunk, its row and its task.                                        *)
Prefix(k) == [i \in 1..k |-> i]
PatchRow == [pc : {"unused", "ok", "error"} \cup Open \cup Gone, up : Upload \cup {None},
             off : 0..Length, chunk : Seq(1..Length), creates : BOOLEAN]
Content == Seq(1..Length) \cup {None}
TusType ==
    /\ info \in [Upload -> 0..Length \cup {None}] /\ bin \in [Upload -> Content]
    /\ patch \in [Patch -> PatchRow]
    /\ stored \in [Patch -> [row : {"none", "flushed", "committed"}, file : Content]]
    /\ queued \subseteq Patch /\ clients \in Nat
    /\ user \in [state : {"new", "send", "wait", "head", "done", "cancelled"},
                 up : 0..Cardinality(Upload), off : 0..Length, on : 0..Cardinality(Patch)]
    /\ user.state # "new" => user.up \in Upload
    /\ user.state = "send" => user.off < Length
    /\ user.state \in {"wait", "head"} =>
        user.on \in Patch /\ patch[user.on].pc # "unused" /\ patch[user.on].up = user.up
    /\ user.state = "wait" => patch[user.on].off = user.off
    /\ impatient \subseteq Upload /\ overlap \subseteq Upload

Working(p, u, pcs) == patch[p].up = u /\ patch[p].pc \in pcs
Sound(p) ==
    /\ patch[p].pc # "unused" =>
        /\ p <= user.on /\ patch[p].up \in 1..user.up
        /\ patch[p].off < Length /\ NewOffset(p) <= Length
        /\ patch[p].chunk = [i \in 1..Len(patch[p].chunk) |-> patch[p].off + i]
    /\ stored[p].row = "flushed" <=> patch[p].pc = "check"
    /\ stored[p].row = "committed" => patch[p].pc \in {"enqueue", "queued", "ok", "error", "lost", "unsent"}
    /\ stored[p].row # "none" => stored[p].file # None
    /\ patch[p].pc \in {"enqueue", "queued"} => stored[p].row = "committed"
    /\ patch[p].pc \in Finalising \/ p \in queued => NewOffset(p) = Length
    /\ p \in queued => stored[p].row = "committed" /\ patch[p].pc \in {"queued", "ok", "lost", "unsent"}
    /\ patch[p].pc = "queued" \/ (patch[p].pc \in {"ok", "unsent"} /\ NewOffset(p) = Length) => p \in queued

(* An upload whose requests neither overlapped nor were torn holds as much *)
(* of the file as its offset says, and all of it when it is finalised.     *)
Intact(u) == u \notin overlap /\ \A p \in Patch : ~Working(p, u, {"torn"})
Exact(u) ==
    /\ \A p, q \in Patch : Working(p, u, Writing) /\ Working(q, u, Writing) => p = q
    /\ \A p \in Patch :
        /\ Working(p, u, Writing) => info[u] = patch[p].off
        /\ Working(p, u, {"body"}) => bin[u] = Prefix(patch[p].off)
        /\ Working(p, u, {"offset"}) => bin[u] = Prefix(NewOffset(p))
        /\ Working(p, u, Finalising) => info[u] \in {None, Length}
        /\ Working(p, u, {"check", "enqueue", "queued"}) => bin[u] = None
        /\ patch[p].up = u /\ stored[p].row # "none" => stored[p].file = File
    /\ (\A p \in Patch : ~Working(p, u, Writing)) =>
        /\ info[u] = None => bin[u] = None
        /\ info[u] = Length => bin[u] \in {None, File}
        /\ info[u] \notin {None, Length} => bin[u] = Prefix(info[u])
FilesInv == \A u \in Upload : Intact(u) => Exact(u)

(* A client that gave up no request of an upload has at most one open, the *)
(* last; what looks complete is finalised by it, or was when it was lost.  *)
Serial(u) ==
    /\ \A p \in Patch : Working(p, u, Open) => p = user.on /\ user.state = "wait" /\ user.up = u
    /\ info[u] = Length => \E p \in Patch : Working(p, u, Finalising \cup {"lost"})
    /\ user.up = u /\ user.state \in {"wait", "head"}
         /\ patch[user.on].pc \in Finalising \cup {"lost"} => info[u] = Length
    /\ user.up = u /\ user.state = "done" =>
        \E p \in Patch : patch[p].up = u /\ (p \in queued \/ patch[p].pc = "lost")
SerialInv == \A u \in Upload \ impatient : Serial(u)
(* A client that gave up none at all sends nothing after what it stored,   *)
(* unless a crash kept the last answer from it.                            *)
LastAnswerLost == \E p \in queued : patch[p].pc = "unsent"
Once ==
    /\ \A p \in queued : p = user.on
    /\ queued # {} =>
        \/ user.state \in {"wait", "done", "cancelled"}
        \/ user.state = "head" /\ patch[user.on].pc = "lost"
OnceInv ==
    impatient = {} =>
        /\ Once \/ LastAnswerLost
        /\ clients <= 1
        /\ \A p \in Patch : patch[p].pc \in {"scan", "row", "check"} /\ patch[p].creates => clients = 0
TusInv == TusType /\ (\A p \in Patch : Sound(p)) /\ FilesInv /\ SerialInv /\ OnceInv
=============================================================================
