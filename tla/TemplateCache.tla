---------------------------- MODULE TemplateCache ---------------------------
(***************************************************************************)
(* Bank templates: YAML files and their database rows, changed by the      *)
(* admin API (statements/admin_router.py, core/bank_loader.py), and the    *)
(* cache each API process keeps of the files (core/template_watcher.py).   *)
(* A process has two threads at the cache: the watcher and the request     *)
(* handlers.  A file is written in two moves, the truncation and the text, *)
(* and either may fail; the text, below the size of a write buffer, is     *)
(* written whole or not at all.                                            *)
(***************************************************************************)
EXTENDS Naturals, FiniteSets

CONSTANTS
    Process,        \* API processes
    Bank,           \* bank codes
    Admin,          \* bound: admin requests; a template is named by its request
    Shipped,        \* the template of a file that was there before
    Empty,          \* what a truncated file holds: no template
    None,
    MaxReloads,     \* bound: forced reloads and clearings of a cache
    MaxRestarts,    \* bound: restarts of a process
    MaxFailures     \* bound: commits, saves and removals that fail

ASSUME NamesAssumption == Admin \cap {Shipped, Empty, None} = {} /\ Shipped \notin {Empty, None}
ASSUME EmptyAssumption == Empty # None
ASSUME TimeAssumption == None \notin Nat
ASSUME FileAssumption == None \notin [data : Admin \cup {Shipped, Empty}, mtime : Nat]
ASSUME BoundsAssumption == {MaxReloads, MaxRestarts, MaxFailures} \subseteq Nat

VARIABLES
    file,       \* of each bank: its file, None when there is none
    row,        \* of each bank: the template its database row was made from
    admin,      \* each admin request
    cache,      \* of each process and bank: the cached template
    mtimes,     \* _file_mtimes of each process
    watch,      \* the watcher thread of each process
    load,       \* its handler thread: a reload, or the loading at the start
    loading,    \* the banks each process has still to load before it serves
    clock,      \* the last modification time
    apart,      \* history: banks whose file and row a request left apart
    raced,      \* history: <<p, b>> where p's cache raced with a change of b
    reloads, restarts, failures

dirVars == <<file, row, admin, clock, apart, failures>>
cacheVars == <<cache, mtimes, watch, load, loading, reloads, restarts>>
vars == <<dirVars, cacheVars, raced>>

Idle == [pc |-> "idle", bank |-> None, data |-> None, mtime |-> None, by |-> "name"]
Fresh == [pc |-> "unused", kind |-> None, bank |-> None, process |-> None]
(* A request that was answered, or is lost.                                *)
Done == [Fresh EXCEPT !.pc = "over"]

Init ==
    /\ file \in [Bank -> {None, [data |-> Shipped, mtime |-> 0]}]
    /\ row \in [Bank -> {None, Shipped}] /\ \A b \in Bank : file[b] = None => row[b] = None
    /\ admin = [a \in Admin |-> Fresh]
    /\ cache = [p \in Process |-> [b \in Bank |-> None]]
    /\ mtimes = [p \in Process |-> [b \in Bank |-> None]]
    /\ watch = [p \in Process |-> Idle] /\ load = [p \in Process |-> Idle]
    /\ loading = [p \in Process |-> Bank]
    /\ clock = 0 /\ apart = {} /\ raced = {}
    /\ reloads = 0 /\ restarts = 0 /\ failures = 0

Data(b) == IF file[b] = None THEN None ELSE file[b].data
Mtime(b) == IF file[b] = None THEN None ELSE file[b].mtime
(* load_template_file: the cached template, else the file.                 *)
Lookup(p, b) == IF cache[p][b] # None THEN cache[p][b] ELSE Data(b)

-----------------------------------------------------------------------------
(* The admin requests, each served by one process.                         *)
Serves(p) == loading[p] = {}
Go(a, pc) == admin' = [admin EXCEPT ![a].pc = pc]
End(a) == admin' = [admin EXCEPT ![a] = Done]
InProgress(a) == admin[a].pc \in {"save", "text", "unlink", "commit"}
WorksOn(a, b) == InProgress(a) /\ admin[a].bank = b
Busy(b) == \E a \in Admin : WorksOn(a, b)

(* create_bank needs no row; update_bank and delete_bank read theirs.      *)
Request(a, kind, b, p) ==
    /\ Serves(p) /\ admin[a].pc = "unused" /\ (kind = "create" \/ row[b] # None)
    /\ admin' = [admin EXCEPT ![a] = [pc |-> IF kind = "delete" THEN "unlink" ELSE "save",
                                      kind |-> kind, bank |-> b, process |-> p]]
    /\ apart' = IF Busy(b) THEN apart \cup {b} ELSE apart
    /\ UNCHANGED <<file, row, clock, failures, raced, cacheVars>>

(* save_template_file.  Both moves may fall into one tick of the clock;    *)
(* the text of a file deleted in between is lost with it.                  *)
Truncate(a) ==
    LET b == admin[a].bank
    IN  /\ admin[a].pc = "save" /\ Go(a, "text")
        /\ clock' = clock + 1
        /\ file' = [file EXCEPT ![b] = [data |-> Empty, mtime |-> clock + 1]]
        /\ raced' = raced \ (Process \X {b})
        /\ UNCHANGED <<row, apart, failures, cacheVars>>
WriteText(a) ==
    LET b == admin[a].bank
    IN  /\ admin[a].pc = "text" /\ Go(a, "commit")
        /\ clock' \in {clock, clock + 1}
        /\ file' = IF file[b] = None THEN file
                   ELSE [file EXCEPT ![b] = [data |-> a, mtime |-> clock']]
        /\ raced' = IF file[b] = None THEN raced ELSE IF clock' = clock THEN raced \cup (Process \X {b}) ELSE raced \ (Process \X {b})
        /\ UNCHANGED <<row, apart, failures, cacheVars>>
(* A save that fails answers 500; past the truncation the file stays empty.*)
Fails == failures < MaxFailures /\ failures' = failures + 1
SaveFails(a) ==
    /\ admin[a].pc \in {"save", "text"} /\ Fails /\ End(a)
    /\ apart' = IF admin[a].pc = "save" THEN apart ELSE apart \cup {admin[a].bank}
    /\ UNCHANGED <<file, row, clock, raced, cacheVars>>
(* Cached by a reload of all banks before the watcher saw the file.        *)
Unseen(p, b) == cache[p][b] # None /\ mtimes[p][b] = None
DeleteFile(a) ==
    /\ admin[a].pc = "unlink" /\ Go(a, "commit")
    /\ LET b == admin[a].bank
       IN  /\ file' = [file EXCEPT ![b] = None]
           /\ raced' = raced \cup ({p \in Process : Unseen(p, b)} \X {b})
    /\ UNCHANGED <<row, clock, apart, failures, cacheVars>>
(* A removal that fails is logged, and the row is deleted all the same.    *)
UnlinkFails(a) ==
    /\ admin[a].pc = "unlink" /\ Fails /\ Go(a, "commit")
    /\ apart' = apart \cup {admin[a].bank}
    /\ UNCHANGED <<file, row, clock, raced, cacheVars>>

(* The commit: a second row of a code is refused, and an update of a row   *)
(* that is gone.                                                           *)
Accepted(a) == CASE admin[a].kind = "create" -> row[admin[a].bank] = None
                 [] admin[a].kind = "update" -> row[admin[a].bank] # None
                 [] OTHER -> TRUE
RowKept(a) ==                       \* mutant: an update keeps the fingerprint
    CASE admin[a].kind = "create" -> a [] admin[a].kind = "update" -> row[admin[a].bank]
      [] OTHER -> None
NewRow(a) == IF admin[a].kind = "delete" THEN None ELSE a
CommitRow(a) ==
    /\ admin[a].pc = "commit" /\ Accepted(a) /\ End(a)
    /\ row' = [row EXCEPT ![admin[a].bank] = NewRow(a)]
    /\ UNCHANGED <<file, clock, apart, failures, raced, cacheVars>>
CommitRefused(a) ==
    /\ admin[a].pc = "commit" /\ End(a)
    /\ \/ ~Accepted(a) /\ UNCHANGED failures
       \/ Fails
    /\ apart' = apart \cup {admin[a].bank}
    /\ UNCHANGED <<file, row, clock, raced, cacheVars>>
Proceeds(a) == \/ Truncate(a) \/ WriteText(a) \/ SaveFails(a)
               \/ DeleteFile(a) \/ UnlinkFails(a) \/ CommitRow(a) \/ CommitRefused(a)

-----------------------------------------------------------------------------
(* The watcher: the time of a change is recorded before the file is read.  *)
DirIdle == UNCHANGED <<dirVars, reloads, restarts, loading>>
Watch(p, new) == watch' = [watch EXCEPT ![p] = new]
Remember(p, b, mtime) == mtimes' = [mtimes EXCEPT ![p][b] = mtime]
Reading(b) == [Idle EXCEPT !.pc = "read", !.bank = b]

NewFile(p, b) == mtimes[p][b] = None        \* mutant: modifications are not looked for
Changed(p, b) == mtimes[p][b] # Mtime(b)
Notice(p, b) ==
    /\ Serves(p) /\ watch[p] = Idle /\ file[b] # None /\ Changed(p, b)
    /\ Remember(p, b, Mtime(b)) /\ Watch(p, Reading(b))
    /\ DirIdle /\ UNCHANGED <<cache, load, raced>>
(* An empty or missing file leaves the cache as it is.                     *)
ReadAny(t) ==                       \* mutant: an empty file is cached
    IF Data(t.bank) = None THEN Idle
    ELSE [t EXCEPT !.pc = "set", !.data = Data(t.bank), !.mtime = Mtime(t.bank)]
ReadFile(t) ==
    IF Data(t.bank) \in {None, Empty} THEN Idle
    ELSE [t EXCEPT !.pc = "set", !.data = Data(t.bank), !.mtime = Mtime(t.bank)]
WatchReads(p) ==
    /\ watch[p].pc = "read" /\ Watch(p, ReadFile(watch[p]))
    /\ DirIdle /\ UNCHANGED <<cache, mtimes, load, raced>>
WatchSets(p) ==
    LET b == watch[p].bank
    IN  /\ watch[p].pc = "set" /\ Watch(p, Idle)
        /\ cache' = [cache EXCEPT ![p][b] = watch[p].data]
        /\ raced' = IF mtimes[p][b] \in 0..(watch[p].mtime) THEN raced ELSE raced \cup {<<p, b>>}
        /\ DirIdle /\ UNCHANGED <<mtimes, load>>
Forget(p, b) ==
    /\ Serves(p) /\ watch[p] = Idle /\ file[b] = None /\ mtimes[p][b] # None
    /\ Remember(p, b, None) /\ cache' = [cache EXCEPT ![p][b] = None]
    /\ DirIdle /\ UNCHANGED <<watch, load, raced>>
WatchStep(p) == WatchReads(p) \/ WatchSets(p) \/ \E b \in Bank : Notice(p, b) \/ Forget(p, b)

-----------------------------------------------------------------------------
(* The loading at the start and a forced reload read first, and record the *)
(* time last; a reload of all banks records none.  A reload of one bank    *)
(* caches under the code as it was spelled, and records the time under the *)
(* lower-case one: spelled otherwise, it leaves the entry lookups use.     *)
Load(p, new) == load' = [load EXCEPT ![p] = new]
StartsLoad(p, b) ==
    /\ ~Serves(p) /\ load[p] = Idle /\ b \in loading[p]
    /\ Load(p, Reading(b)) /\ loading' = [loading EXCEPT ![p] = IF Data(b) \in {None, Empty} THEN @ \ {b} ELSE @]
    /\ UNCHANGED <<dirVars, cache, mtimes, watch, reloads, restarts, raced>>
ForceReload(p, b, by) ==
    /\ Serves(p) /\ load[p] = Idle /\ reloads < MaxReloads /\ reloads' = reloads + 1
    /\ Load(p, [Reading(b) EXCEPT !.by = by])
    /\ UNCHANGED <<dirVars, cache, mtimes, watch, loading, restarts, raced>>
LoadReads(p) ==
    /\ load[p].pc = "read" /\ Load(p, ReadFile(load[p]))
    /\ loading' = [loading EXCEPT ![p] = IF ReadFile(load[p]) = Idle THEN @ \ {load[p].bank} ELSE @]
    /\ UNCHANGED <<dirVars, cache, mtimes, watch, reloads, restarts, raced>>
Stale(p) == IF load[p].mtime = Mtime(load[p].bank) THEN {} ELSE {<<p, load[p].bank>>}
LoadSets(p) ==
    /\ load[p].pc = "set"
    /\ cache' = IF load[p].by = "spelled" THEN cache ELSE [cache EXCEPT ![p][load[p].bank] = load[p].data]
    /\ Load(p, IF load[p].by = "all" THEN Idle ELSE [load[p] EXCEPT !.pc = "stat"])
    /\ raced' = IF load[p].by = "spelled" THEN raced ELSE raced \cup Stale(p)
    /\ DirIdle /\ UNCHANGED <<mtimes, watch>>
LoadStats(p) ==
    LET b == load[p].bank
    IN  /\ load[p].pc = "stat" /\ Load(p, Idle)
        /\ IF file[b] = None THEN UNCHANGED mtimes ELSE Remember(p, b, Mtime(b))
        /\ loading' = [loading EXCEPT ![p] = @ \ {b}]
        /\ raced' = raced \cup Stale(p) \cup (IF cache[p][b] \in {None, load[p].data} THEN {} ELSE {<<p, b>>})
        /\ UNCHANGED <<dirVars, cache, watch, reloads, restarts>>
LoadStep(p) == LoadReads(p) \/ LoadSets(p) \/ LoadStats(p) \/ \E b \in Bank : StartsLoad(p, b)

(* DELETE /cache/clear; the times stay, and lookups read the files.        *)
ClearCache(p) ==
    /\ Serves(p) /\ load[p] = Idle /\ reloads < MaxReloads /\ reloads' = reloads + 1
    /\ cache' = [cache EXCEPT ![p] = [b \in Bank |-> None]]
    /\ UNCHANGED <<dirVars, mtimes, watch, load, loading, restarts, raced>>
(* A restart ends the requests the process serves, wherever they stand.    *)
Cut(p) == {a \in Admin : InProgress(a) /\ admin[a].process = p}
Restart(p) ==
    /\ restarts < MaxRestarts /\ restarts' = restarts + 1
    /\ cache' = [cache EXCEPT ![p] = [b \in Bank |-> None]]
    /\ mtimes' = [mtimes EXCEPT ![p] = [b \in Bank |-> None]]
    /\ Watch(p, Idle) /\ Load(p, Idle) /\ loading' = [loading EXCEPT ![p] = Bank]
    /\ raced' = raced \ ({p} \X Bank)
    /\ admin' = [a \in Admin |-> IF a \in Cut(p) THEN Done ELSE admin[a]]
    /\ apart' = apart \cup {admin[a].bank : a \in {c \in Cut(p) : admin[c].pc \notin {"save", "unlink"}}}
    /\ UNCHANGED <<file, row, clock, failures, reloads>>

Next ==
    \/ \E a \in Admin : \/ Proceeds(a)
                        \/ \E kind \in {"create", "update", "delete"}, b \in Bank, p \in Process :
                               Request(a, kind, b, p)
    \/ \E p \in Process : \/ WatchStep(p) \/ LoadStep(p) \/ ClearCache(p) \/ Restart(p)
                          \/ \E b \in Bank, by \in {"all", "name", "spelled"} : ForceReload(p, b, by)
(* A request that began is served, the watcher wakes every second and a    *)
(* starting process loads its templates; nobody has to send a request.     *)
Fairness ==
    /\ \A a \in Admin : WF_vars(Proceeds(a))
    /\ \A p \in Process : WF_vars(WatchStep(p)) /\ WF_vars(LoadStep(p))
Spec == Init /\ [][Next]_vars /\ Fairness

-----------------------------------------------------------------------------
Template == Admin \cup {Shipped}
(* Types: a cache holds templates, never an empty file; times do not       *)
(* run ahead of the clock; only a process that serves has watched.         *)
TypeOK ==
    /\ file \in [Bank -> {None} \cup [data : Template \cup {Empty}, mtime : 0..clock]]
    /\ row \in [Bank -> Admin \cup {Shipped, None}]
    /\ cache \in [Process -> [Bank -> Template \cup {None}]]
    /\ mtimes \in [Process -> [Bank -> 0..clock \cup {None}]]
    /\ \A p \in Process : ~Serves(p) => watch[p] = Idle /\ load[p].by = "name"

(* Every process comes to answer each lookup with the present file, when   *)
(* the requests are over.  Not so where a failed save left the file empty, *)
(* which no cache takes over, nor where the cache raced with the last      *)
(* change of the bank: a reload that read before the change and cached or  *)
(* recorded after it, or crossed the watcher; a reload by a code that is   *)
(* not spelled in lower case, which records a change it did not cache; a   *)
(* deletion before the watcher had seen the file; a write within one tick  *)
(* of the clock.                                                           *)
LookupsFollowFiles ==
    <>[](\A p \in Process, b \in Bank :
            Lookup(p, b) = Data(b) \/ Data(b) = Empty \/ <<p, b>> \in raced)

(* Thread t works on bank b.                                               *)
AtWork(t, b) == t.pc # "idle" /\ t.bank = b

(* The safety side of LookupsFollowFiles: when the watcher of a process is *)
(* not at work on a bank and sees nothing to do for it, and the file is    *)
(* not an empty one, a lookup is answered with the present file, unless  *)
(* the cache raced with the last change.                                   *)
QuietCachesAreCurrent ==
    \A p \in Process, b \in Bank :
        ~AtWork(watch[p], b) /\ mtimes[p][b] = Mtime(b) /\ Data(b) # Empty
        => Lookup(p, b) = Data(b) \/ <<p, b>> \in raced

(* With no request in progress the file of a bank is the one its row was   *)
(* made from, or the shipped one (or none) where there is no row: unless   *)
(* two requests for the bank overlapped, or one was left with half of its  *)
(* work: a commit refused after the file had changed, a save that failed   *)
(* past the truncation, a removal that failed while the row was deleted,   *)
(* a restart of the process between its file and its commit.               *)
RowsMatchFiles ==
    \A b \in Bank : ~Busy(b) /\ b \notin apart =>
        IF row[b] = None THEN Data(b) \in {None, Shipped} ELSE Data(b) = row[b]

-----------------------------------------------------------------------------
(* The inductive invariant: types; and where a request for a bank stands   *)
(* tells what its file and its row are, as long as it is alone.            *)
FileRow == [data : Template \cup {Empty}, mtime : Nat]
ThreadRow == [pc : {"idle", "read", "set", "stat"}, bank : Bank \cup {None},
              data : Template \cup {None}, mtime : Nat \cup {None},
              by : {"all", "name", "spelled"}]
Thread(t) ==
    /\ t \in ThreadRow
    /\ IF t.pc = "idle" THEN t = Idle ELSE t.bank \in Bank
    /\ t.pc \in {"set", "stat"} => t.data \in Template
TypeInv ==
    /\ TypeOK
    /\ clock \in Nat
    /\ DOMAIN admin = Admin
    /\ watch \in [Process -> ThreadRow] /\ load \in [Process -> ThreadRow]
    /\ loading \in [Process -> SUBSET Bank]
    /\ \A p \in Process : Thread(watch[p]) /\ Thread(load[p])
    /\ \A a \in Admin : InProgress(a) =>
        /\ admin[a].bank \in Bank /\ admin[a].kind \in {"create", "update", "delete"}
        /\ admin[a].pc \in {"save", "text"} => admin[a].kind # "delete"
        /\ admin[a].pc = "unlink" => admin[a].kind = "delete"
Agree(b) == IF row[b] = None THEN Data(b) \in {None, Shipped} ELSE Data(b) = row[b]
BankInv(b) ==
    /\ \A a, c \in Admin : WorksOn(a, b) /\ WorksOn(c, b) => a = c
    /\ ~Busy(b) => Agree(b)
    /\ \A a \in Admin : WorksOn(a, b) =>
        /\ admin[a].pc \in {"save", "unlink"} => Agree(b)
        /\ admin[a].pc = "text" => file[b] # None
        /\ admin[a].pc = "commit" =>
            Data(b) = IF admin[a].kind = "delete" THEN None ELSE a
FileInv == \A b \in Bank : b \notin apart => BankInv(b)

(* What a thread has read is no newer than the file, and is the file if it *)
(* is as new; the watcher has recorded the time of what it works on.       *)
ReadInv(t, b, race) ==
    AtWork(t, b) /\ t.pc # "read" =>
        /\ t.mtime \in 0..clock
        /\ file[b] # None => t.mtime <= Mtime(b)
        /\ t.mtime = Mtime(b) => t.data = Data(b) \/ race
CacheInv ==
    /\ \A p \in Process, b \in Bank :
          LET race == <<p, b>> \in raced
          IN  /\ ReadInv(watch[p], b, race) /\ ReadInv(load[p], b, race)
              /\ AtWork(watch[p], b) => mtimes[p][b] # None
    /\ QuietCachesAreCurrent
IInv == TypeInv /\ FileInv /\ CacheInv
=============================================================================
