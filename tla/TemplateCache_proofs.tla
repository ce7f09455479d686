------------------------ MODULE TemplateCache_proofs ------------------------
(***************************************************************************)
(* Theorems about the bank templates, for every set of banks, API          *)
(* processes and admin requests and every number of reloads, restarts and  *)
(* failures: types, the agreement of files and database rows, and   *)
(* that a cache the watcher is done with answers with the present files.   *)
(***************************************************************************)
EXTENDS TemplateCache, TLAPS

-----------------------------------------------------------------------------
(* The admin requests: what a step of one leaves alone.                    *)

LEMMA Going ==
  ASSUME TypeInv, NEW a \in Admin, NEW pc, Go(a, pc)
  PROVE  /\ \A c \in Admin \ {a} : admin'[c] = admin[c]
         /\ InProgress(a) => /\ admin'[a].pc = pc /\ admin'[a].bank = admin[a].bank
                             /\ admin'[a].kind = admin[a].kind
         /\ DOMAIN admin' = Admin
  BY DEF Go, TypeInv

LEMMA Ending ==
  ASSUME TypeInv, NEW a \in Admin, End(a)
  PROVE  /\ \A c \in Admin \ {a} : admin'[c] = admin[c]
         /\ ~InProgress(a)'
         /\ DOMAIN admin' = Admin
  BY DEF End, TypeInv, Done, Fresh, InProgress

(* Where a request works on one bank, the others are as before.            *)
Elsewhere(a, b) ==
  /\ \A c \in Admin \ {a} : admin'[c] = admin[c]
  /\ \A x \in Bank \ {b} : file'[x] = file[x] /\ row'[x] = row[x]
  /\ \A x \in Bank \ {b} : ~WorksOn(a, x) /\ ~WorksOn(a, x)'
  /\ apart \subseteq apart'
LEMMA OtherBanks ==
  ASSUME FileInv, NEW a \in Admin, NEW b \in Bank, Elsewhere(a, b)
  PROVE  \A x \in Bank \ {b} : x \notin apart' => BankInv(x)'
  <1> SUFFICES ASSUME NEW x \in Bank \ {b}, x \notin apart' PROVE BankInv(x)'
    OBVIOUS
  <1>1. \A c \in Admin : WorksOn(c, x)' <=> WorksOn(c, x)
    BY DEF Elsewhere, WorksOn, InProgress
  <1>2. \A c \in Admin : WorksOn(c, x) => admin'[c] = admin[c]
    BY DEF Elsewhere
  <1>3. Data(x)' = Data(x) /\ row'[x] = row[x] /\ file'[x] = file[x]
    BY DEF Elsewhere, Data
  <1>4. Agree(x)' <=> Agree(x)
    BY <1>3 DEF Agree
  <1>5. Busy(x)' <=> Busy(x)
    BY <1>1 DEF Busy
  <1>6. BankInv(x)
    BY DEF FileInv, Elsewhere
  <1> QED
    BY <1>1, <1>2, <1>3, <1>4, <1>5, <1>6 DEF BankInv

(* A step of request a on bank b: alone before, it is alone after.         *)
LEMMA OwnBank ==
  ASSUME TypeInv, FileInv, NEW a \in Admin, NEW b \in Bank, NEW pc,
         WorksOn(a, b), Go(a, pc), b \notin apart', apart \subseteq apart'
  PROVE  BankInv(b) /\ \A c \in Admin : WorksOn(c, b)' => c = a
  <1>1. BankInv(b)
    BY DEF FileInv
  <1> QED
    BY <1>1, Going DEF BankInv, WorksOn, InProgress

LEMMA FileRequest ==
  ASSUME TypeInv, FileInv, NEW a \in Admin,
         NEW kind \in {"create", "update", "delete"}, NEW b \in Bank, NEW q \in Process,
         Request(a, kind, b, q)
  PROVE  FileInv'
  <1>1. /\ admin[a].pc = "unused" /\ DOMAIN admin = Admin
        /\ admin' = [admin EXCEPT ![a] = [pc |-> IF kind = "delete" THEN "unlink" ELSE "save",
                                          kind |-> kind, bank |-> b, process |-> q]]
        /\ UNCHANGED <<file, row>>
        /\ apart' = IF Busy(b) THEN apart \cup {b} ELSE apart
    BY DEF Request, TypeInv
  <1>2. Elsewhere(a, b)
    BY <1>1 DEF Elsewhere, WorksOn, InProgress
  <1>3. ASSUME b \notin apart' PROVE BankInv(b)'
    <2>1. ~Busy(b) /\ BankInv(b)
      BY <1>1, <1>3 DEF FileInv
    <2>2. \A c \in Admin : WorksOn(c, b)' => c = a
      BY <1>1, <2>1 DEF WorksOn, InProgress, Busy
    <2>3. Agree(b)'
      BY <1>1, <2>1 DEF BankInv, Agree, Data
    <2>4. admin'[a].pc \in {"save", "unlink"}
      BY <1>1
    <2> QED
      BY <2>2, <2>3, <2>4 DEF BankInv
  <1> QED
    BY <1>2, <1>3, OtherBanks DEF FileInv

LEMMA FileProceeds ==
  ASSUME TypeInv, FileInv, NEW a \in Admin, NEW b \in Bank, WorksOn(a, b), Proceeds(a)
  PROVE  FileInv'
  <1>1. InProgress(a) /\ b = admin[a].bank
    BY DEF WorksOn
  <1>2. file \in [Bank -> {None} \cup FileRow] /\ row \in [Bank -> Template \cup {None}]
    BY DEF TypeInv, TypeOK, FileRow, Template
  <1>3. CASE Truncate(a)
    <2>1. /\ Go(a, "text") /\ UNCHANGED <<row, apart>>
          /\ file' = [file EXCEPT ![b] = [data |-> Empty, mtime |-> clock + 1]]
      BY <1>1, <1>3 DEF Truncate
    <2>2. Elsewhere(a, b)
      BY <1>1, <1>2, <2>1, Going DEF Elsewhere, WorksOn
    <2>3. ASSUME b \notin apart' PROVE BankInv(b)'
      <3>1. file'[b] # None
        BY <1>2, <2>1, FileAssumption DEF TypeInv
      <3>2. admin'[a].pc = "text" /\ WorksOn(a, b)'
        BY <1>1, <2>1, Going DEF WorksOn, InProgress
      <3>3. \A c \in Admin : WorksOn(c, b)' => c = a
        BY <2>1, <2>3, OwnBank
      <3> QED
        BY <3>1, <3>2, <3>3 DEF BankInv, Busy
    <2> QED
      BY <2>2, <2>3, OtherBanks DEF FileInv
  <1>4. CASE WriteText(a)
    <2>1. /\ Go(a, "commit") /\ UNCHANGED <<row, apart>> /\ admin[a].pc = "text"
          /\ file' = IF file[b] = None THEN file
                     ELSE [file EXCEPT ![b] = [data |-> a, mtime |-> clock']]
          /\ clock' \in Nat
      BY <1>1, <1>4 DEF WriteText, TypeInv
    <2>2. Elsewhere(a, b)
      BY <1>1, <1>2, <2>1, Going DEF Elsewhere, WorksOn
    <2>3. ASSUME b \notin apart' PROVE BankInv(b)'
      <3>1. BankInv(b) /\ \A c \in Admin : WorksOn(c, b)' => c = a
        BY <2>1, <2>3, OwnBank
      <3>2. file[b] # None
        BY <2>1, <3>1 DEF BankInv
      <3>3. Data(b)' = a
        BY <1>2, <2>1, <3>2, FileAssumption DEF Data
      <3>4. /\ admin'[a].pc = "commit" /\ WorksOn(a, b)'
            /\ admin'[a].kind # "delete"
        BY <1>1, <2>1, Going DEF WorksOn, InProgress, TypeInv
      <3> QED
        BY <3>1, <3>3, <3>4 DEF BankInv, Busy
    <2> QED
      BY <2>2, <2>3, OtherBanks DEF FileInv
  <1>5. CASE DeleteFile(a)
    <2>1. /\ Go(a, "commit") /\ UNCHANGED <<row, apart>> /\ admin[a].pc = "unlink"
          /\ file' = [file EXCEPT ![b] = None]
      BY <1>1, <1>5 DEF DeleteFile
    <2>2. Elsewhere(a, b)
      BY <1>1, <1>2, <2>1, Going DEF Elsewhere, WorksOn
    <2>3. ASSUME b \notin apart' PROVE BankInv(b)'
      <3>1. BankInv(b) /\ \A c \in Admin : WorksOn(c, b)' => c = a
        BY <2>1, <2>3, OwnBank
      <3>2. Data(b)' = None
        BY <1>2, <2>1 DEF Data
      <3>3. /\ admin'[a].pc = "commit" /\ WorksOn(a, b)'
            /\ admin'[a].kind = "delete"
        BY <1>1, <2>1, Going DEF WorksOn, InProgress, TypeInv
      <3> QED
        BY <3>1, <3>2, <3>3 DEF BankInv, Busy
    <2> QED
      BY <2>2, <2>3, OtherBanks DEF FileInv
  <1>6. CASE CommitRow(a)
    <2>1. /\ End(a) /\ UNCHANGED <<file, apart>> /\ admin[a].pc = "commit"
          /\ row' = [row EXCEPT ![b] = NewRow(a)]
      BY <1>1, <1>6 DEF CommitRow
    <2>2. Elsewhere(a, b)
      BY <1>1, <1>2, <2>1, Ending DEF Elsewhere, WorksOn
    <2>3. ASSUME b \notin apart' PROVE BankInv(b)'
      <3>1. BankInv(b)
        BY <2>1, <2>3 DEF FileInv
      <3>2. \A c \in Admin : ~WorksOn(c, b)'
        BY <2>1, <3>1, Ending DEF BankInv, WorksOn, InProgress
      <3>3. Data(b)' = NewRow(a)
        BY <2>1, <3>1 DEF BankInv, NewRow, Data
      <3>4. Agree(b)'
        BY <1>2, <2>1, <3>3 DEF Agree
      <3> QED
        BY <3>2, <3>4 DEF BankInv
    <2> QED
      BY <2>2, <2>3, OtherBanks DEF FileInv
  <1>7. CASE CommitRefused(a)
    <2>1. /\ End(a) /\ UNCHANGED <<file, row>> /\ apart' = apart \cup {b}
      BY <1>1, <1>7 DEF CommitRefused
    <2>2. Elsewhere(a, b)
      BY <1>1, <2>1, Ending DEF Elsewhere, WorksOn
    <2> QED
      BY <2>1, <2>2, OtherBanks DEF FileInv
  <1>8. CASE SaveFails(a)
    <2>1. /\ End(a) /\ UNCHANGED <<file, row>> /\ apart \subseteq apart'
          /\ admin[a].pc = "save" \/ b \in apart'
      BY <1>1, <1>8 DEF SaveFails
    <2>2. Elsewhere(a, b)
      BY <1>1, <2>1, Ending DEF Elsewhere, WorksOn
    <2>3. ASSUME b \notin apart' PROVE BankInv(b)'
      <3>1. BankInv(b) /\ admin[a].pc = "save"
        BY <2>1, <2>3 DEF FileInv
      <3>2. \A c \in Admin : ~WorksOn(c, b)'
        BY <2>1, <3>1, Ending DEF BankInv, WorksOn, InProgress
      <3>3. Agree(b)'
        BY <2>1, <3>1 DEF BankInv, Agree, Data
      <3> QED
        BY <3>2, <3>3 DEF BankInv
    <2> QED
      BY <2>2, <2>3, OtherBanks DEF FileInv
  <1>9. CASE UnlinkFails(a)
    <2>1. /\ Go(a, "commit") /\ UNCHANGED <<file, row>> /\ apart' = apart \cup {b}
      BY <1>1, <1>9 DEF UnlinkFails
    <2>2. Elsewhere(a, b)
      BY <1>1, <2>1, Going DEF Elsewhere, WorksOn
    <2> QED
      BY <2>1, <2>2, OtherBanks DEF FileInv
  <1> QED
    BY <1>3, <1>4, <1>5, <1>6, <1>7, <1>8, <1>9 DEF Proceeds

(* A restart ends requests, and sets apart the banks they leave half done. *)
LEMMA FileRestart ==
  ASSUME TypeInv, FileInv, NEW p \in Process, Restart(p)
  PROVE  FileInv'
  <1>1. /\ UNCHANGED <<file, row>> /\ apart \subseteq apart'
        /\ \A a \in Cut(p) : admin[a].pc \in {"save", "unlink"} \/ admin[a].bank \in apart'
        /\ \A a \in Admin : admin'[a] = IF a \in Cut(p) THEN Done ELSE admin[a]
    BY DEF Restart
  <1>2. \A a \in Admin : InProgress(a)' => a \notin Cut(p) /\ admin'[a] = admin[a]
    BY <1>1 DEF InProgress, Done, Fresh
  <1>3. ASSUME NEW b \in Bank, b \notin apart' PROVE BankInv(b)'
    <2>1. BankInv(b)
      BY <1>1, <1>3 DEF FileInv
    <2>2. \A a \in Admin : WorksOn(a, b)' => WorksOn(a, b) /\ admin'[a] = admin[a]
      BY <1>2 DEF WorksOn, InProgress
    <2>3. ASSUME ~Busy(b)' PROVE Agree(b)'
      <3>1. CASE Busy(b)
        <4>1. PICK a \in Admin : WorksOn(a, b)
          BY <3>1 DEF Busy
        <4>2. a \in Cut(p)
          BY <1>1, <2>3, <4>1 DEF Busy, WorksOn, InProgress
        <4>3. admin[a].pc \in {"save", "unlink"}
          BY <1>1, <1>3, <4>1, <4>2 DEF WorksOn
        <4>4. Agree(b)
          BY <2>1, <4>1, <4>3 DEF BankInv
        <4> QED
          BY <1>1, <4>4 DEF Agree, Data
      <3>2. CASE ~Busy(b)
        BY <1>1, <2>1, <3>2 DEF BankInv, Agree, Data
      <3> QED
        BY <3>1, <3>2
    <2> QED
      BY <1>1, <2>1, <2>2, <2>3 DEF BankInv, Agree, Data
  <1> QED
    BY <1>3 DEF FileInv

-----------------------------------------------------------------------------
(* The caches read the files and change neither files nor rows.            *)

CacheStep ==
  \E p \in Process : \/ WatchStep(p) \/ LoadStep(p) \/ ClearCache(p)
                     \/ \E b \in Bank, by \in {"all", "name", "spelled"} : ForceReload(p, b, by)
LEMMA CacheFrame == CacheStep => UNCHANGED dirVars
  BY DEF CacheStep, WatchStep, Notice, WatchReads, WatchSets, Forget, DirIdle,
         LoadStep, StartsLoad, LoadReads, LoadSets, LoadStats, ClearCache, ForceReload

LEMMA FileStill ==
  ASSUME FileInv, UNCHANGED dirVars
  PROVE  FileInv'
  BY DEF FileInv, BankInv, Busy, WorksOn, InProgress, Agree, Data, dirVars

-----------------------------------------------------------------------------
(* Types.                                                                  *)

LEMMA ClockGrows ==
  ASSUME TypeInv, clock' \in Nat, clock <= clock', UNCHANGED mtimes
  PROVE  /\ mtimes' \in [Process -> [Bank -> 0..clock' \cup {None}]]
         /\ \A f : f \in [data : Template \cup {Empty}, mtime : 0..clock]
                  => f \in [data : Template \cup {Empty}, mtime : 0..clock']
  <1>1. 0..clock \subseteq 0..clock'
    BY DEF TypeInv
  <1>2. mtimes \in [Process -> [Bank -> 0..clock' \cup {None}]]
    BY <1>1 DEF TypeInv, TypeOK
  <1> QED
    BY <1>1, <1>2

LEMMA TypeDir ==
  ASSUME TypeInv, UNCHANGED cacheVars,
         clock' \in Nat, clock <= clock',
         \A b \in Bank : file'[b] \in {None} \cup [data : Template \cup {Empty}, mtime : 0..clock'],
         DOMAIN file' = Bank, file' = [b \in Bank |-> file'[b]],
         row' \in [Bank -> Template \cup {None}],
         DOMAIN admin' = Admin,
         \A a \in Admin : InProgress(a)' =>
            /\ admin'[a].bank \in Bank /\ admin'[a].kind \in {"create", "update", "delete"}
            /\ admin'[a].pc \in {"save", "text"} => admin'[a].kind # "delete"
            /\ admin'[a].pc = "unlink" => admin'[a].kind = "delete"
  PROVE  TypeInv'
  <1>1. TypeOK'
    BY ClockGrows DEF cacheVars, TypeInv, TypeOK, Template, Serves
  <1> QED
    BY <1>1 DEF cacheVars, TypeInv, Thread

LEMMA TypeRequest ==
  ASSUME TypeInv, NEW a \in Admin,
         NEW kind \in {"create", "update", "delete"}, NEW b \in Bank, NEW q \in Process,
         Request(a, kind, b, q)
  PROVE  TypeInv'
  <1>1. /\ admin' = [admin EXCEPT ![a] = [pc |-> IF kind = "delete" THEN "unlink" ELSE "save",
                                          kind |-> kind, bank |-> b, process |-> q]]
        /\ UNCHANGED <<file, row, clock, cacheVars>>
    BY DEF Request
  <1>2. \A c \in Admin : InProgress(c)' =>
            /\ admin'[c].bank \in Bank /\ admin'[c].kind \in {"create", "update", "delete"}
            /\ admin'[c].pc \in {"save", "text"} => admin'[c].kind # "delete"
            /\ admin'[c].pc = "unlink" => admin'[c].kind = "delete"
    BY <1>1 DEF TypeInv, InProgress
  <1> QED
    BY <1>1, <1>2, TypeDir DEF TypeInv, TypeOK, Template

LEMMA TypeProceeds ==
  ASSUME TypeInv, NEW a \in Admin, Proceeds(a)
  PROVE  TypeInv'
  <1>1. \/ End(a)
        \/ \E pc \in {"text", "commit"} : Go(a, pc) /\ (pc = "text" => admin[a].pc = "save")
    BY DEF Proceeds, Truncate, WriteText, SaveFails, DeleteFile, UnlinkFails, CommitRow, CommitRefused
  <1>2. InProgress(a) /\ admin[a].bank \in Bank /\ UNCHANGED cacheVars
    BY DEF Proceeds, Truncate, WriteText, SaveFails, DeleteFile, UnlinkFails, CommitRow, CommitRefused, InProgress, TypeInv
  <1>3. /\ DOMAIN admin' = Admin
        /\ \A c \in Admin : InProgress(c)' =>
            /\ admin'[c].bank \in Bank /\ admin'[c].kind \in {"create", "update", "delete"}
            /\ admin'[c].pc \in {"save", "text"} => admin'[c].kind # "delete"
            /\ admin'[c].pc = "unlink" => admin'[c].kind = "delete"
    <2>1. CASE End(a)
      BY <2>1, Ending DEF TypeInv, InProgress
    <2>2. ASSUME NEW pc \in {"text", "commit"}, Go(a, pc), pc = "text" => admin[a].pc = "save"
          PROVE  /\ DOMAIN admin' = Admin
                 /\ \A c \in Admin : InProgress(c)' =>
                     /\ admin'[c].bank \in Bank /\ admin'[c].kind \in {"create", "update", "delete"}
                     /\ admin'[c].pc \in {"save", "text"} => admin'[c].kind # "delete"
                     /\ admin'[c].pc = "unlink" => admin'[c].kind = "delete"
      BY <1>2, <2>2, Going DEF TypeInv, InProgress
    <2> QED
      BY <1>1, <2>1, <2>2
  <1>4. clock' \in Nat /\ clock <= clock'
    BY DEF Proceeds, Truncate, WriteText, SaveFails, DeleteFile, UnlinkFails, CommitRow, CommitRefused, TypeInv
  <1>5. row' \in [Bank -> Template \cup {None}]
    <2>1. NewRow(a) \in Template \cup {None}
      BY DEF NewRow, Template
    <2>2. row' = row \/ row' = [row EXCEPT ![admin[a].bank] = NewRow(a)]
      BY DEF Proceeds, Truncate, WriteText, SaveFails, DeleteFile, UnlinkFails, CommitRow, CommitRefused
    <2> QED
      BY <1>2, <2>1, <2>2 DEF TypeInv, TypeOK, Template
  <1>6. \E new \in {None} \cup [data : Template \cup {Empty}, mtime : 0..clock'] :
           file' = file \/ file' = [file EXCEPT ![admin[a].bank] = new]
    <2>1. CASE Truncate(a)
      <3>1. [data |-> Empty, mtime |-> clock + 1] \in [data : Template \cup {Empty}, mtime : 0..clock']
        BY <2>1 DEF Truncate, TypeInv
      <3> QED
        BY <2>1, <3>1 DEF Truncate
    <2>2. CASE WriteText(a)
      <3>1. [data |-> a, mtime |-> clock'] \in [data : Template \cup {Empty}, mtime : 0..clock']
        BY <1>4 DEF Template
      <3> QED
        BY <2>2, <3>1 DEF WriteText
    <2>3. CASE DeleteFile(a)
      BY <2>3 DEF DeleteFile
    <2>4. CASE CommitRow(a) \/ CommitRefused(a) \/ SaveFails(a) \/ UnlinkFails(a)
      BY <2>4 DEF CommitRow, CommitRefused, SaveFails, UnlinkFails
    <2> QED
      BY <2>1, <2>2, <2>3, <2>4 DEF Proceeds
  <1>7. /\ DOMAIN file' = Bank /\ file' = [b \in Bank |-> file'[b]]
        /\ \A b \in Bank : file'[b] \in {None} \cup [data : Template \cup {Empty}, mtime : 0..clock']
    <2>1. /\ file \in [Bank -> {None} \cup [data : Template \cup {Empty}, mtime : 0..clock]]
          /\ 0..clock \subseteq 0..clock'
      BY <1>4 DEF TypeInv, TypeOK, Template
    <2>2. file \in [Bank -> {None} \cup [data : Template \cup {Empty}, mtime : 0..clock']]
      BY <2>1
    <2>3. file' \in [Bank -> {None} \cup [data : Template \cup {Empty}, mtime : 0..clock']]
      BY <1>6, <2>2
    <2> QED
      BY <2>3
  <1> QED
    BY <1>2, <1>3, <1>4, <1>5, <1>7, TypeDir

(* What a thread reads is a template, and the times are past.              *)
LEMMA MtimeType ==
  ASSUME TypeInv, NEW b \in Bank
  PROVE  Mtime(b) \in 0..clock \cup {None}
  BY DEF TypeInv, TypeOK, Mtime

LEMMA ThreadTypes ==
  /\ Thread(Idle) /\ Idle.by = "name"
  /\ \A b \in Bank : Thread(Reading(b)) /\ Reading(b).by = "name"
  /\ \A b \in Bank, by \in {"all", "name", "spelled"} : Thread([Reading(b) EXCEPT !.by = by])
  /\ \A t : Thread(t) /\ t.pc = "set" => Thread([t EXCEPT !.pc = "stat"])
  <1>1. Thread(Idle) /\ Idle.by = "name"
    BY DEF Thread, ThreadRow, Idle
  <1>2. ASSUME NEW b \in Bank, NEW by \in {"all", "name", "spelled"}
        PROVE  /\ Thread(Reading(b)) /\ Reading(b).by = "name"
               /\ Thread([Reading(b) EXCEPT !.by = by])
    BY DEF Thread, ThreadRow, Idle, Reading
  <1>3. ASSUME NEW t, Thread(t), t.pc = "set" PROVE Thread([t EXCEPT !.pc = "stat"])
    BY <1>3 DEF Thread, ThreadRow
  <1> QED
    BY <1>1, <1>2, <1>3

LEMMA ReadType ==
  ASSUME TypeInv, NEW t, Thread(t), t.pc = "read"
  PROVE  Thread(ReadFile(t)) /\ (t.by = "name" => ReadFile(t).by = "name")
  <1>1. t.bank \in Bank /\ t \in ThreadRow
    BY DEF Thread
  <1>2. CASE Data(t.bank) \in {None, Empty}
    BY <1>2, ThreadTypes DEF ReadFile
  <1>3. CASE Data(t.bank) \notin {None, Empty}
    <2>1. Data(t.bank) \in Template /\ Mtime(t.bank) \in Nat
      BY <1>1, <1>3 DEF TypeInv, TypeOK, Data, Mtime, Template
    <2> QED
      BY <1>1, <1>3, <2>1 DEF ReadFile, Thread, ThreadRow
  <1> QED
    BY <1>2, <1>3

LEMMA CacheType ==
  ASSUME TypeInv, NEW p \in Process, NEW b \in Bank, NEW new \in Template \cup {None}
  PROVE  /\ [cache EXCEPT ![p][b] = new] \in [Process -> [Bank -> Template \cup {None}]]
         /\ [cache EXCEPT ![p] = [x \in Bank |-> None]] \in [Process -> [Bank -> Template \cup {None}]]
  BY DEF TypeInv, TypeOK, Template

LEMMA MtimesType ==
  ASSUME TypeInv, NEW p \in Process, NEW b \in Bank, NEW new \in 0..clock \cup {None}
  PROVE  /\ [mtimes EXCEPT ![p][b] = new] \in [Process -> [Bank -> 0..clock \cup {None}]]
         /\ [mtimes EXCEPT ![p] = [x \in Bank |-> None]] \in [Process -> [Bank -> 0..clock \cup {None}]]
  BY DEF TypeInv, TypeOK

(* A step of process p keeps the types if its threads stay threads, the    *)
(* watcher rests and no reload of all banks runs until p serves.           *)
LEMMA TypeThreads ==
  ASSUME TypeInv, NEW p \in Process, UNCHANGED <<file, row, clock>>,
         DOMAIN admin' = Admin, \A a \in Admin : InProgress(a)' => admin'[a] = admin[a],
         NEW w, NEW l, NEW s \in SUBSET Bank,
         watch' = [watch EXCEPT ![p] = w], load' = [load EXCEPT ![p] = l],
         loading' = [loading EXCEPT ![p] = s],
         Thread(w), Thread(l), s # {} => w = Idle /\ l.by = "name",
         cache' \in [Process -> [Bank -> Template \cup {None}]],
         mtimes' \in [Process -> [Bank -> 0..clock \cup {None}]]
  PROVE  TypeInv'
  <1>1. /\ DOMAIN watch' = Process /\ DOMAIN load' = Process /\ DOMAIN loading' = Process
        /\ \A q \in Process : /\ watch'[q] = IF q = p THEN w ELSE watch[q]
                              /\ load'[q] = IF q = p THEN l ELSE load[q]
                              /\ loading'[q] = IF q = p THEN s ELSE loading[q]
    BY DEF TypeInv
  <1>2. \A q \in Process : ~Serves(q)' => watch'[q] = Idle /\ load'[q].by = "name"
    BY <1>1 DEF Serves, TypeInv, TypeOK
  <1>3. TypeOK'
    BY <1>2 DEF TypeInv, TypeOK, Template
  <1>4. \A a \in Admin : InProgress(a)' => InProgress(a)
    BY DEF InProgress
  <1>5. w \in ThreadRow /\ l \in ThreadRow
    BY DEF Thread
  <1>6. /\ watch' \in [Process -> ThreadRow] /\ load' \in [Process -> ThreadRow]
        /\ loading' \in [Process -> SUBSET Bank]
    BY <1>5 DEF TypeInv
  <1>7. \A q \in Process : Thread(watch'[q]) /\ Thread(load'[q])
    BY <1>1 DEF TypeInv
  <1>8. \A q \in Process : Thread(watch[q])' /\ Thread(load[q])'
    BY <1>7 DEF Thread
  <1>9. \A a \in Admin : InProgress(a)' =>
            /\ admin'[a].bank \in Bank /\ admin'[a].kind \in {"create", "update", "delete"}
            /\ admin'[a].pc \in {"save", "text"} => admin'[a].kind # "delete"
            /\ admin'[a].pc = "unlink" => admin'[a].kind = "delete"
    BY <1>4 DEF TypeInv
  <1> QED
    BY <1>3, <1>6, <1>8, <1>9 DEF TypeInv

LEMMA TypeCache ==
  ASSUME TypeInv, NEW p \in Process, UNCHANGED dirVars,
         NEW w, NEW l, NEW s \in SUBSET Bank,
         watch' = [watch EXCEPT ![p] = w], load' = [load EXCEPT ![p] = l],
         loading' = [loading EXCEPT ![p] = s],
         Thread(w), Thread(l), s # {} => w = Idle /\ l.by = "name",
         cache' \in [Process -> [Bank -> Template \cup {None}]],
         mtimes' \in [Process -> [Bank -> 0..clock \cup {None}]]
  PROVE  TypeInv'
  <1>1. /\ UNCHANGED <<file, row, clock>> /\ DOMAIN admin' = Admin
        /\ \A a \in Admin : InProgress(a)' => admin'[a] = admin[a]
    BY DEF dirVars, TypeInv
  <1> QED
    BY <1>1, TypeThreads

LEMMA TypeWatch ==
  ASSUME TypeInv, NEW p \in Process, WatchStep(p)
  PROVE  TypeInv'
  <1>1. /\ UNCHANGED <<dirVars, load, loading>> /\ Thread(load[p]) /\ Thread(watch[p])
        /\ load' = [load EXCEPT ![p] = load[p]] /\ loading' = [loading EXCEPT ![p] = loading[p]]
        /\ ~Serves(p) => watch[p] = Idle /\ load[p].by = "name"
        /\ loading[p] \in SUBSET Bank
        /\ cache \in [Process -> [Bank -> Template \cup {None}]]
        /\ mtimes \in [Process -> [Bank -> 0..clock \cup {None}]]
    BY DEF WatchStep, Notice, WatchReads, WatchSets, Forget, DirIdle, TypeInv, TypeOK, Template
  <1>2. watch[p] # Idle => Serves(p)
    BY <1>1
  <1>3. ASSUME NEW b \in Bank, Notice(p, b) PROVE TypeInv'
    <2>1. Thread(Reading(b))
      BY ThreadTypes
    <2>2. mtimes' \in [Process -> [Bank -> 0..clock \cup {None}]]
      BY <1>3, MtimeType, MtimesType DEF Notice, Remember
    <2>3. Serves(p) /\ watch' = [watch EXCEPT ![p] = Reading(b)] /\ UNCHANGED cache
      BY <1>3 DEF Notice, Watch
    <2> QED
      BY <1>1, <2>1, <2>2, <2>3, TypeCache DEF Serves
  <1>4. CASE WatchReads(p)
    <2>1. watch[p].pc = "read" /\ watch' = [watch EXCEPT ![p] = ReadFile(watch[p])]
          /\ UNCHANGED <<cache, mtimes>>
      BY <1>4 DEF WatchReads, Watch
    <2>2. Serves(p)
      BY <1>2, <2>1 DEF Idle
    <2>3. Thread(ReadFile(watch[p]))
      BY <1>1, <2>1, ReadType
    <2> QED
      BY <1>1, <2>1, <2>2, <2>3, TypeCache DEF Serves
  <1>5. CASE WatchSets(p)
    <2>1. /\ watch[p].pc = "set" /\ watch' = [watch EXCEPT ![p] = Idle] /\ UNCHANGED mtimes
          /\ cache' = [cache EXCEPT ![p][watch[p].bank] = watch[p].data]
      BY <1>5 DEF WatchSets, Watch
    <2>2. Serves(p)
      BY <1>2, <2>1 DEF Idle
    <2>3. watch[p].bank \in Bank /\ watch[p].data \in Template
      BY <1>1, <2>1 DEF Thread
    <2>4. cache' \in [Process -> [Bank -> Template \cup {None}]]
      BY <2>1, <2>3, CacheType
    <2> QED
      BY <1>1, <2>1, <2>2, <2>4, TypeCache, ThreadTypes DEF Serves
  <1>6. ASSUME NEW b \in Bank, Forget(p, b) PROVE TypeInv'
    <2>1. /\ Serves(p) /\ watch' = [watch EXCEPT ![p] = watch[p]]
          /\ mtimes' = [mtimes EXCEPT ![p][b] = None] /\ cache' = [cache EXCEPT ![p][b] = None]
      BY <1>6 DEF Forget, Remember, TypeInv
    <2>2. /\ cache' \in [Process -> [Bank -> Template \cup {None}]]
          /\ mtimes' \in [Process -> [Bank -> 0..clock \cup {None}]]
      BY <2>1, CacheType, MtimesType
    <2> QED
      BY <1>1, <2>1, <2>2, TypeCache DEF Serves
  <1> QED
    BY <1>3, <1>4, <1>5, <1>6 DEF WatchStep

LEMMA TypeLoad ==
  ASSUME TypeInv, NEW p \in Process, LoadStep(p)
  PROVE  TypeInv'
  <1>1. /\ UNCHANGED <<dirVars, watch>> /\ Thread(load[p]) /\ Thread(watch[p])
        /\ watch' = [watch EXCEPT ![p] = watch[p]]
        /\ loading[p] \in SUBSET Bank
        /\ ~Serves(p) => watch[p] = Idle /\ load[p].by = "name"
        /\ cache \in [Process -> [Bank -> Template \cup {None}]]
        /\ mtimes \in [Process -> [Bank -> 0..clock \cup {None}]]
    BY DEF LoadStep, StartsLoad, LoadReads, LoadSets, LoadStats, DirIdle, TypeInv, TypeOK, Template
  <1>2. ASSUME NEW b \in Bank, StartsLoad(p, b) PROVE TypeInv'
    <2>1. /\ ~Serves(p) /\ load' = [load EXCEPT ![p] = Reading(b)]
          /\ UNCHANGED <<cache, mtimes>>
      BY <1>2 DEF StartsLoad, Load
    <2>2. PICK s \in SUBSET Bank : loading' = [loading EXCEPT ![p] = s]
      <3>1. loading' = [loading EXCEPT ![p] = IF Data(b) \in {None, Empty}
                                              THEN loading[p] \ {b} ELSE loading[p]]
        BY <1>2 DEF StartsLoad
      <3>2. (IF Data(b) \in {None, Empty} THEN loading[p] \ {b} ELSE loading[p]) \in SUBSET Bank
        BY <1>1
      <3> QED
        BY <3>1, <3>2
    <2> QED
      BY <1>1, <2>1, <2>2, TypeCache, ThreadTypes
  <1>3. CASE LoadReads(p)
    <2>1. /\ load[p].pc = "read" /\ load' = [load EXCEPT ![p] = ReadFile(load[p])]
          /\ UNCHANGED <<cache, mtimes>>
      BY <1>3 DEF LoadReads, Load
    <2>2. PICK s \in SUBSET Bank : loading' = [loading EXCEPT ![p] = s] /\ s \subseteq loading[p]
      <3> DEFINE S == IF ReadFile(load[p]) = Idle THEN loading[p] \ {load[p].bank} ELSE loading[p]
      <3>1. loading' = [loading EXCEPT ![p] = S]
        BY <1>3 DEF LoadReads
      <3>2. S \in SUBSET Bank /\ S \subseteq loading[p]
        BY <1>1
      <3> QED
        BY <3>1, <3>2
    <2>3. Thread(ReadFile(load[p])) /\ (load[p].by = "name" => ReadFile(load[p]).by = "name")
      BY <1>1, <2>1, ReadType
    <2> HIDE DEF ReadFile
    <2>4. s # {} => ~Serves(p)
      BY <2>2 DEF Serves
    <2> QED
      BY <1>1, <2>1, <2>2, <2>3, <2>4, TypeCache
  <1>4. CASE LoadSets(p)
    <2>1. /\ load[p].pc = "set" /\ UNCHANGED <<mtimes, loading>>
          /\ cache' = cache \/ cache' = [cache EXCEPT ![p][load[p].bank] = load[p].data]
          /\ load' = [load EXCEPT ![p] = IF load[p].by = "all" THEN Idle ELSE [load[p] EXCEPT !.pc = "stat"]]
      BY <1>4 DEF LoadSets, Load, DirIdle
    <2>2. load[p].bank \in Bank /\ load[p].data \in Template /\ load[p] \in ThreadRow
      BY <1>1, <2>1 DEF Thread
    <2>3. cache' \in [Process -> [Bank -> Template \cup {None}]]
      <3>1. CASE cache' = cache
        BY <1>1, <3>1
      <3>2. CASE cache' = [cache EXCEPT ![p][load[p].bank] = load[p].data]
        BY <2>2, <3>2, CacheType
      <3> QED
        BY <2>1, <3>1, <3>2
    <2>4. PICK l : /\ load' = [load EXCEPT ![p] = l] /\ Thread(l)
                   /\ load[p].by = "name" => l.by = "name"
      <3>1. CASE load[p].by = "all"
        BY <2>1, <3>1, ThreadTypes
      <3>2. CASE load[p].by # "all"
        <4>1. [load[p] EXCEPT !.pc = "stat"].by = load[p].by
          BY <2>2 DEF ThreadRow
        <4> QED
          BY <1>1, <2>1, <3>2, <4>1, ThreadTypes
      <3> QED
        BY <3>1, <3>2
    <2>5. loading' = [loading EXCEPT ![p] = loading[p]]
      BY <2>1 DEF TypeInv
    <2>6. loading[p] # {} => watch[p] = Idle /\ load[p].by = "name"
      BY <1>1 DEF Serves
    <2> QED
      BY <1>1, <2>1, <2>3, <2>4, <2>5, <2>6, TypeCache
  <1>5. CASE LoadStats(p)
    <2>1. /\ load[p].pc = "stat" /\ load' = [load EXCEPT ![p] = Idle] /\ UNCHANGED cache
          /\ loading' = [loading EXCEPT ![p] = loading[p] \ {load[p].bank}]
          /\ UNCHANGED mtimes \/ Remember(p, load[p].bank, Mtime(load[p].bank))
      BY <1>5 DEF LoadStats, Load
    <2>2. load[p].bank \in Bank
      BY <1>1, <2>1 DEF Thread, Idle
    <2>3. mtimes' \in [Process -> [Bank -> 0..clock \cup {None}]]
      <3>1. CASE UNCHANGED mtimes
        BY <1>1, <3>1
      <3>2. CASE Remember(p, load[p].bank, Mtime(load[p].bank))
        <4>1. Mtime(load[p].bank) \in 0..clock \cup {None}
          BY <2>2, MtimeType
        <4>2. mtimes' = [mtimes EXCEPT ![p][load[p].bank] = Mtime(load[p].bank)]
          BY <3>2 DEF Remember
        <4> HIDE DEF Mtime
        <4> QED
          BY <2>2, <4>1, <4>2, MtimesType
      <3> QED
        BY <2>1, <3>1, <3>2
    <2>4. /\ loading[p] \ {load[p].bank} \in SUBSET Bank
          /\ loading[p] \ {load[p].bank} # {} => watch[p] = Idle
      BY <1>1 DEF Serves
    <2> QED
      BY <1>1, <2>1, <2>3, <2>4, TypeCache, ThreadTypes
  <1> QED
    BY <1>2, <1>3, <1>4, <1>5 DEF LoadStep

LEMMA TypeHandler ==
  ASSUME TypeInv, NEW p \in Process,
         \/ ClearCache(p) \/ Restart(p)
         \/ \E b \in Bank, by \in {"all", "name", "spelled"} : ForceReload(p, b, by)
  PROVE  TypeInv'
  <1>1. /\ Thread(load[p]) /\ Thread(watch[p])
        /\ cache \in [Process -> [Bank -> Template \cup {None}]]
        /\ mtimes \in [Process -> [Bank -> 0..clock \cup {None}]]
        /\ watch = [watch EXCEPT ![p] = watch[p]]
        /\ load = [load EXCEPT ![p] = load[p]]
        /\ loading = [loading EXCEPT ![p] = loading[p]]
    BY DEF TypeInv, TypeOK, Template
  <1>2. /\ [cache EXCEPT ![p] = [x \in Bank |-> None]] \in [Process -> [Bank -> Template \cup {None}]]
        /\ [mtimes EXCEPT ![p] = [x \in Bank |-> None]] \in [Process -> [Bank -> 0..clock \cup {None}]]
    BY <1>1
  <1>3. CASE ClearCache(p)
    <2>1. /\ UNCHANGED <<dirVars, mtimes, watch, load, loading>> /\ loading[p] = {}
          /\ cache' = [cache EXCEPT ![p] = [x \in Bank |-> None]]
      BY <1>3 DEF ClearCache, Serves
    <2> QED
      BY <1>1, <1>2, <2>1, TypeCache
  <1>4. CASE Restart(p)
    <2>1. /\ UNCHANGED <<file, row, clock>> /\ watch' = [watch EXCEPT ![p] = Idle]
          /\ DOMAIN admin' = Admin /\ \A a \in Admin : InProgress(a)' => admin'[a] = admin[a]
          /\ load' = [load EXCEPT ![p] = Idle] /\ loading' = [loading EXCEPT ![p] = Bank]
          /\ cache' = [cache EXCEPT ![p] = [x \in Bank |-> None]]
          /\ mtimes' = [mtimes EXCEPT ![p] = [x \in Bank |-> None]]
      BY <1>4 DEF Restart, Watch, Load, InProgress, Done, Fresh
    <2> QED
      BY <1>2, <2>1, TypeThreads, ThreadTypes
  <1>5. ASSUME NEW b \in Bank, NEW by \in {"all", "name", "spelled"}, ForceReload(p, b, by) PROVE TypeInv'
    <2>1. /\ UNCHANGED <<dirVars, cache, mtimes, watch, loading>> /\ loading[p] = {}
          /\ load' = [load EXCEPT ![p] = [Reading(b) EXCEPT !.by = by]]
      BY <1>5 DEF ForceReload, Serves, Load
    <2>2. Thread([Reading(b) EXCEPT !.by = by])
      BY ThreadTypes
    <2> QED
      BY <1>1, <2>1, <2>2, TypeCache
  <1> QED
    BY <1>3, <1>4, <1>5

-----------------------------------------------------------------------------
(* The caches: a bank that nobody works on is cached as its file is.       *)

CurrentAt(p, b) ==
    ~AtWork(watch[p], b) /\ mtimes[p][b] = Mtime(b) /\ Data(b) # Empty
    => cache[p][b] \in {None, Data(b)} \/ <<p, b>> \in raced
CacheAt(p, b) ==
    /\ ReadInv(watch[p], b, <<p, b>> \in raced)
    /\ ReadInv(load[p], b, <<p, b>> \in raced)
    /\ AtWork(watch[p], b) => mtimes[p][b] # None
    /\ CurrentAt(p, b)

LEMMA CacheParts == CacheInv <=> \A p \in Process, b \in Bank : CacheAt(p, b)
  BY DEF CacheInv, CacheAt, CurrentAt, QuietCachesAreCurrent, Lookup

(* What a file holds and when it was changed.                              *)
LEMMA FileFacts ==
  ASSUME TypeInv, NEW b \in Bank
  PROVE  /\ file[b] = None => Data(b) = None /\ Mtime(b) = None
         /\ file[b] # None => /\ Data(b) = file[b].data /\ Mtime(b) = file[b].mtime
                              /\ Mtime(b) \in 0..clock /\ Mtime(b) # None
                              /\ Data(b) # None /\ Data(b) \in Template \cup {Empty}
         /\ clock \in Nat
         /\ \A p \in Process : mtimes[p][b] \in 0..clock \cup {None}
  <1>1. file[b] \in {None} \cup [data : Template \cup {Empty}, mtime : 0..clock]
    BY DEF TypeInv, TypeOK, Template
  <1>2. clock \in Nat /\ \A p \in Process : mtimes[p][b] \in 0..clock \cup {None}
    BY DEF TypeInv, TypeOK
  <1>3. None \notin 0..clock
    BY <1>2, TimeAssumption
  <1>4. None \notin Template \cup {Empty}
    BY NamesAssumption, EmptyAssumption DEF Template
  <1>5. CASE file[b] = None
    BY <1>2, <1>5 DEF Data, Mtime
  <1>6. CASE file[b] # None
    BY <1>1, <1>2, <1>3, <1>4, <1>6 DEF Data, Mtime
  <1> QED
    BY <1>5, <1>6

(* A thread that a step leaves as it is, or away from the bank.            *)
Stays(t, u, b) == u = t \/ (~AtWork(t, b) /\ ~AtWork(u, b))

LEMMA CacheElsewhere ==
  ASSUME TypeInv, NEW p \in Process, NEW b \in Bank, CacheAt(p, b),
         clock' \in Nat, clock <= clock', file'[b] = file[b],
         cache'[p][b] = cache[p][b], mtimes'[p][b] = mtimes[p][b],
         <<p, b>> \in raced => <<p, b>> \in raced',
         Stays(watch[p], watch'[p], b), Stays(load[p], load'[p], b)
  PROVE  CacheAt(p, b)'
  <1>1. Data(b)' = Data(b) /\ Mtime(b)' = Mtime(b)
    BY DEF Data, Mtime
  <1>2. 0..clock \subseteq 0..clock'
    BY DEF TypeInv
  <1>3. ASSUME NEW t, NEW u, ReadInv(t, b, <<p, b>> \in raced), Stays(t, u, b)
        PROVE  AtWork(u, b) /\ u.pc # "read" =>
                 /\ u.mtime \in 0..clock'
                 /\ file'[b] # None => u.mtime <= Mtime(b)'
                 /\ u.mtime = Mtime(b)' => u.data = Data(b)' \/ <<p, b>> \in raced'
    BY <1>1, <1>2, <1>3 DEF ReadInv, Stays
  <1>4. ReadInv(watch[p], b, <<p, b>> \in raced)' /\ ReadInv(load[p], b, <<p, b>> \in raced)'
    BY <1>3 DEF CacheAt, ReadInv, AtWork
  <1>5. AtWork(watch[p], b)' <=> AtWork(watch[p], b)
    BY DEF Stays, AtWork
  <1> QED
    BY <1>1, <1>4, <1>5 DEF CacheAt, CurrentAt

(* The requests.                                                           *)
LEMMA CacheRequest ==
  ASSUME TypeInv, NEW p \in Process, NEW b \in Bank, CacheAt(p, b),
         \/ \E a \in Admin : Proceeds(a)
         \/ \E a \in Admin, kind \in {"create", "update", "delete"}, x \in Bank, q \in Process :
               Request(a, kind, x, q)
  PROVE  CacheAt(p, b)'
  <1>0. /\ UNCHANGED cacheVars /\ clock \in Nat
        /\ cache'[p][b] = cache[p][b] /\ mtimes'[p][b] = mtimes[p][b]
        /\ watch'[p] = watch[p] /\ load'[p] = load[p]
        /\ Stays(watch[p], watch'[p], b) /\ Stays(load[p], load'[p], b)
    BY DEF Proceeds, Truncate, WriteText, SaveFails, DeleteFile, UnlinkFails, CommitRow, CommitRefused, Request,
           cacheVars, TypeInv, Stays
  <1>1. ASSUME UNCHANGED <<file, clock, raced>> PROVE CacheAt(p, b)'
    <2>1. /\ file'[b] = file[b] /\ clock <= clock' /\ clock' \in Nat
          /\ <<p, b>> \in raced => <<p, b>> \in raced'
      BY <1>0, <1>1
    <2> QED
      BY <1>0, <2>1, CacheElsewhere
  <1>2. ASSUME NEW a \in Admin, CommitRow(a) \/ CommitRefused(a) \/ SaveFails(a) \/ UnlinkFails(a)
        PROVE  CacheAt(p, b)'
    BY <1>1, <1>2 DEF CommitRow, CommitRefused, SaveFails, UnlinkFails
  <1>3. ASSUME NEW a \in Admin, NEW kind \in {"create", "update", "delete"}, NEW x \in Bank,
               NEW q \in Process, Request(a, kind, x, q)
        PROVE  CacheAt(p, b)'
    BY <1>1, <1>3 DEF Request
  <1>4. ASSUME NEW a \in Admin, Truncate(a) PROVE CacheAt(p, b)'
    <2>1. /\ clock' = clock + 1
          /\ file' = [file EXCEPT ![admin[a].bank] = [data |-> Empty, mtime |-> clock + 1]]
          /\ raced' = raced \ (Process \X {admin[a].bank})
      BY <1>4 DEF Truncate
    <2>2. CASE admin[a].bank = b
      <3>1. file'[b] = [data |-> Empty, mtime |-> clock + 1] /\ file'[b] # None
        BY <1>0, <2>1, <2>2, FileAssumption DEF TypeInv, TypeOK
      <3>2. Data(b)' = Empty /\ Mtime(b)' = clock + 1
        BY <3>1 DEF Data, Mtime
      <3>3. \A t : ReadInv(t, b, <<p, b>> \in raced) =>
              (AtWork(t, b) /\ t.pc # "read" => t.mtime \in 0..clock' /\ t.mtime < clock + 1)
        BY <1>0, <2>1 DEF ReadInv
      <3>4. ReadInv(watch[p], b, <<p, b>> \in raced)' /\ ReadInv(load[p], b, <<p, b>> \in raced)'
        BY <1>0, <3>2, <3>3 DEF CacheAt, ReadInv, AtWork
      <3> QED
        BY <1>0, <3>2, <3>4 DEF CacheAt, CurrentAt, AtWork
    <2>3. CASE admin[a].bank # b
      <3>1. /\ file'[b] = file[b] /\ clock <= clock' /\ clock' \in Nat
            /\ <<p, b>> \in raced => <<p, b>> \in raced'
        BY <1>0, <2>1, <2>3 DEF TypeInv, TypeOK
      <3> QED
        BY <1>0, <3>1, CacheElsewhere
    <2> QED
      BY <2>2, <2>3
  <1>5. ASSUME NEW a \in Admin, WriteText(a) PROVE CacheAt(p, b)'
    <2> DEFINE x == admin[a].bank
    <2>1. /\ clock' \in {clock, clock + 1}
          /\ file' = IF file[x] = None THEN file
                     ELSE [file EXCEPT ![x] = [data |-> a, mtime |-> clock']]
          /\ raced' = IF file[x] = None THEN raced
                      ELSE IF clock' = clock THEN raced \cup (Process \X {x})
                      ELSE raced \ (Process \X {x})
      BY <1>5 DEF WriteText
    <2>2. CASE x = b /\ file[b] # None
      <3>1. file'[b] = [data |-> a, mtime |-> clock'] /\ file'[b] # None
        BY <1>0, <2>1, <2>2, FileAssumption DEF TypeInv, TypeOK
      <3>2. Data(b)' = a /\ Mtime(b)' = clock'
        BY <3>1 DEF Data, Mtime
      <3>3. CASE clock' = clock
        <4>1. <<p, b>> \in raced'
          BY <2>1, <2>2, <3>3
        <4>2. ReadInv(watch[p], b, <<p, b>> \in raced)' /\ ReadInv(load[p], b, <<p, b>> \in raced)'
          BY <1>0, <3>2, <3>3, <4>1 DEF CacheAt, ReadInv, AtWork
        <4> QED
          BY <1>0, <4>1, <4>2 DEF CacheAt, CurrentAt, AtWork
      <3>4. CASE clock' = clock + 1
        <4>1. mtimes[p][b] # clock + 1
          BY <1>0, FileFacts, TimeAssumption
        <4>2. ReadInv(watch[p], b, <<p, b>> \in raced)' /\ ReadInv(load[p], b, <<p, b>> \in raced)'
          <5>1. \A t : ReadInv(t, b, <<p, b>> \in raced) =>
                  (AtWork(t, b) /\ t.pc # "read" => t.mtime \in 0..clock' /\ t.mtime < clock + 1)
            BY <1>0, <3>4 DEF ReadInv
          <5> QED
            BY <1>0, <3>2, <3>4, <5>1 DEF CacheAt, ReadInv, AtWork
        <4> QED
          BY <1>0, <3>2, <3>4, <4>1, <4>2 DEF CacheAt, CurrentAt, AtWork
      <3> QED
        BY <2>1, <3>3, <3>4
    <2>3. CASE x # b \/ file[b] = None
      <3>1. file'[b] = file[b] /\ clock <= clock' /\ clock' \in Nat
            /\ (<<p, b>> \in raced => <<p, b>> \in raced')
        BY <1>0, <2>1, <2>3 DEF TypeInv, TypeOK
      <3> QED
        BY <1>0, <3>1, CacheElsewhere
    <2> QED
      BY <2>2, <2>3
  <1>6. ASSUME NEW a \in Admin, DeleteFile(a) PROVE CacheAt(p, b)'
    <2> DEFINE x == admin[a].bank
    <2>1. /\ clock' = clock /\ file' = [file EXCEPT ![x] = None]
          /\ raced' = raced \cup ({q \in Process : Unseen(q, x)} \X {x})
      BY <1>6 DEF DeleteFile
    <2>2. CASE x = b
      <3>1. file'[b] = None /\ Data(b)' = None /\ Mtime(b)' = None
        BY <2>1, <2>2 DEF TypeInv, TypeOK, Data, Mtime
      <3>2. ReadInv(watch[p], b, <<p, b>> \in raced)' /\ ReadInv(load[p], b, <<p, b>> \in raced)'
        <4>1. \A t : ReadInv(t, b, <<p, b>> \in raced) =>
                (AtWork(t, b) /\ t.pc # "read" => t.mtime \in 0..clock /\ t.mtime # None)
          BY <1>0, TimeAssumption DEF ReadInv
        <4> QED
          BY <1>0, <2>1, <3>1, <4>1 DEF CacheAt, ReadInv, AtWork
      <3>3. mtimes[p][b] = None /\ cache[p][b] # None => <<p, b>> \in raced'
        BY <2>1, <2>2 DEF Unseen
      <3> QED
        BY <1>0, <3>1, <3>2, <3>3 DEF CacheAt, CurrentAt, AtWork
    <2>3. CASE x # b
      <3>1. /\ file'[b] = file[b] /\ clock <= clock' /\ clock' \in Nat
            /\ <<p, b>> \in raced => <<p, b>> \in raced'
        BY <1>0, <2>1, <2>3 DEF TypeInv, TypeOK
      <3> QED
        BY <1>0, <3>1, CacheElsewhere
    <2> QED
      BY <2>2, <2>3
  <1> QED
    BY <1>2, <1>3, <1>4, <1>5, <1>6 DEF Proceeds

(* The threads of another process.                                         *)
LEMMA CacheOtherProcess ==
  ASSUME TypeInv, NEW p \in Process, NEW b \in Bank, CacheAt(p, b), NEW q \in Process, q # p,
         \/ WatchStep(q) \/ LoadStep(q) \/ ClearCache(q) \/ Restart(q)
         \/ \E x \in Bank, by \in {"all", "name", "spelled"} : ForceReload(q, x, by)
  PROVE  CacheAt(p, b)'
  <1>1. UNCHANGED <<file, clock>>
    <2>1. CASE Restart(q)
      BY <2>1 DEF Restart
    <2> QED
      BY <2>1, CacheFrame DEF CacheStep, dirVars
  <1>2. cache'[p] = cache[p] /\ mtimes'[p] = mtimes[p] /\ watch'[p] = watch[p] /\ load'[p] = load[p]
    BY DEF WatchStep, Notice, WatchReads, WatchSets, Forget, LoadStep, StartsLoad, LoadReads,
           LoadSets, LoadStats, ClearCache, Restart, ForceReload, DirIdle, Remember, Watch, Load,
           TypeInv, TypeOK
  <1>3. <<p, b>> \in raced => <<p, b>> \in raced'
    BY DEF WatchStep, Notice, WatchReads, WatchSets, Forget, LoadStep, StartsLoad, LoadReads,
           LoadSets, LoadStats, ClearCache, Restart, ForceReload
  <1> QED
    BY <1>1, <1>2, <1>3, CacheElsewhere DEF TypeInv, Stays

(* What a thread reads is the file it has just looked at.                  *)
LEMMA ReadFileInv ==
  ASSUME TypeInv, NEW t, Thread(t), t.pc = "read", NEW b \in Bank
  PROVE  /\ t.bank # b => ~AtWork(ReadFile(t), b)
         /\ t.bank = b /\ Data(b) \in {None, Empty} => ~AtWork(ReadFile(t), b)
         /\ t.bank = b /\ Data(b) \notin {None, Empty} =>
              /\ AtWork(ReadFile(t), b)
              /\ ReadFile(t).mtime = Mtime(b) /\ ReadFile(t).data = Data(b)
              /\ Mtime(b) \in 0..clock
  <1>1. t \in ThreadRow
    BY DEF Thread
  <1>2. ~AtWork(Idle, b)
    BY DEF AtWork, Idle
  <1>3. CASE Data(t.bank) \in {None, Empty}
    BY <1>2, <1>3 DEF ReadFile
  <1>4. CASE Data(t.bank) \notin {None, Empty}
    <2>1. /\ ReadFile(t).bank = t.bank /\ ReadFile(t).pc = "set"
          /\ ReadFile(t).mtime = Mtime(t.bank) /\ ReadFile(t).data = Data(t.bank)
      BY <1>1, <1>4 DEF ReadFile, ThreadRow
    <2> QED
      BY <1>4, <2>1, FileFacts DEF AtWork
  <1> QED
    BY <1>3, <1>4

LEMMA IdleWork ==
  ASSUME NEW b \in Bank
  PROVE  /\ ~AtWork(Idle, b)
         /\ \A x : /\ AtWork(Reading(x), b) <=> x = b
                  /\ Reading(x).pc = "read"
                  /\ \A by : [Reading(x) EXCEPT !.by = by].pc = "read"
  BY DEF AtWork, Idle, Reading

LEMMA CacheWatch ==
  ASSUME TypeInv, NEW p \in Process, NEW b \in Bank, CacheAt(p, b), WatchStep(p)
  PROVE  CacheAt(p, b)'
  <1> DEFINE t == watch[p]
  <1>0. /\ UNCHANGED <<file, clock, load>> /\ clock \in Nat /\ clock <= clock'
        /\ Thread(t) /\ Data(b)' = Data(b) /\ Mtime(b)' = Mtime(b)
        /\ <<p, b>> \in raced => <<p, b>> \in raced'
    BY DEF WatchStep, Notice, WatchReads, WatchSets, Forget, DirIdle, dirVars, TypeInv, Data, Mtime
  <1>1. ReadInv(load[p], b, <<p, b>> \in raced)'
    BY <1>0 DEF CacheAt, ReadInv, AtWork
  <1>2. ASSUME NEW x \in Bank, Notice(p, x) PROVE CacheAt(p, b)'
    <2>1. /\ t = Idle /\ watch'[p] = Reading(x) /\ file[x] # None
          /\ mtimes' = [mtimes EXCEPT ![p][x] = Mtime(x)] /\ UNCHANGED <<cache, raced>>
      BY <1>2 DEF Notice, Watch, Remember, TypeInv
    <2>2. CASE x = b
      <3>1. mtimes'[p][b] # None
        BY <2>1, <2>2, FileFacts DEF TypeInv, TypeOK
      <3>2. AtWork(watch'[p], b) /\ watch'[p].pc = "read"
        BY <2>1, <2>2, IdleWork
      <3>3. AtWork(watch[p], b)'
        BY <3>2 DEF AtWork
      <3> QED
        BY <1>1, <3>1, <3>2, <3>3 DEF CacheAt, CurrentAt, ReadInv
    <2>3. CASE x # b
      <3>1. mtimes'[p][b] = mtimes[p][b]
        BY <2>1, <2>3 DEF TypeInv, TypeOK
      <3>2. Stays(t, watch'[p], b)
        BY <2>1, <2>3, IdleWork DEF Stays
      <3> QED
        BY <1>0, <2>1, <3>1, <3>2, CacheElsewhere DEF Stays
    <2> QED
      BY <2>2, <2>3
  <1>3. CASE WatchReads(p)
    <2>1. /\ t.pc = "read" /\ watch'[p] = ReadFile(t) /\ UNCHANGED <<cache, mtimes, raced>>
      BY <1>3 DEF WatchReads, Watch, TypeInv
    <2>2. CASE t.bank # b
      <3>1. Stays(t, watch'[p], b)
        BY <1>0, <2>1, <2>2, ReadFileInv DEF Stays, AtWork
      <3> QED
        BY <1>0, <2>1, <3>1, CacheElsewhere DEF Stays
    <2>3. CASE t.bank = b
      <3>1. mtimes[p][b] # None
        BY <2>1, <2>3 DEF CacheAt, AtWork
      <3>2. CASE Data(b) \in {None, Empty}
        <4>1. ~AtWork(watch[p], b)'
          BY <1>0, <2>1, <2>3, <3>2, ReadFileInv DEF AtWork
        <4>2. Data(b) = None => Mtime(b) = None
          BY FileFacts
        <4> QED
          BY <1>0, <1>1, <2>1, <3>1, <3>2, <4>1, <4>2 DEF CacheAt, CurrentAt, ReadInv
      <3>3. CASE Data(b) \notin {None, Empty}
        <4>1. /\ AtWork(watch'[p], b) /\ watch'[p].mtime = Mtime(b)
              /\ watch'[p].data = Data(b) /\ Mtime(b) \in 0..clock
          BY <1>0, <2>1, <2>3, <3>3, ReadFileInv
        <4>2. AtWork(watch[p], b)'
          BY <4>1 DEF AtWork
        <4>3. ReadInv(watch[p], b, <<p, b>> \in raced)'
          BY <1>0, <4>1 DEF ReadInv
        <4> QED
          BY <1>1, <2>1, <3>1, <4>2, <4>3 DEF CacheAt, CurrentAt
      <3> QED
        BY <3>2, <3>3
    <2> QED
      BY <2>2, <2>3
  <1>4. CASE WatchSets(p)
    <2>1. /\ t.pc = "set" /\ watch'[p] = Idle /\ mtimes' = mtimes
          /\ cache' = [cache EXCEPT ![p][t.bank] = t.data]
          /\ mtimes[p][t.bank] \notin 0..(t.mtime) => <<p, t.bank>> \in raced'
      BY <1>4 DEF WatchSets, Watch, TypeInv
    <2>2. ~AtWork(watch'[p], b)
      BY <2>1, IdleWork
    <2>3. CASE t.bank # b
      <3>1. cache'[p][b] = cache[p][b]
        BY <2>1, <2>3 DEF TypeInv, TypeOK
      <3>2. Stays(t, watch'[p], b)
        BY <2>2, <2>3 DEF Stays, AtWork
      <3> QED
        BY <1>0, <2>1, <3>1, <3>2, CacheElsewhere DEF Stays
    <2>4. CASE t.bank = b
      <3>1. cache'[p][b] = t.data
        BY <2>1, <2>4 DEF TypeInv, TypeOK
      <3>2. /\ t.mtime \in 0..clock
            /\ file[b] # None => t.mtime <= Mtime(b)
            /\ t.mtime = Mtime(b) => t.data = Data(b) \/ <<p, b>> \in raced
        BY <2>1, <2>4 DEF CacheAt, ReadInv, AtWork
      <3>3. ASSUME <<p, b>> \notin raced', mtimes[p][b] = Mtime(b) PROVE t.data = Data(b)
        <4>1. Mtime(b) \in 0..(t.mtime)
          BY <2>1, <2>4, <3>3
        <4>2. file[b] # None
          BY <1>0, <3>2, <4>1, FileFacts, TimeAssumption
        <4> QED
          BY <1>0, <3>2, <3>3, <4>1, <4>2
      <3>4. CurrentAt(p, b)'
        BY <1>0, <2>1, <3>1, <3>3 DEF CurrentAt
      <3> QED
        BY <1>1, <2>2, <3>4 DEF CacheAt, ReadInv, AtWork
    <2> QED
      BY <2>3, <2>4
  <1>5. ASSUME NEW x \in Bank, Forget(p, x) PROVE CacheAt(p, b)'
    <2>1. /\ t = Idle /\ UNCHANGED <<watch, raced>>
          /\ mtimes' = [mtimes EXCEPT ![p][x] = None] /\ cache' = [cache EXCEPT ![p][x] = None]
      BY <1>5 DEF Forget, Remember
    <2>2. CASE x = b
      <3>1. cache'[p][b] = None /\ ~AtWork(watch'[p], b)
        BY <2>1, <2>2, IdleWork DEF TypeInv, TypeOK
      <3> QED
        BY <1>1, <3>1 DEF CacheAt, CurrentAt, ReadInv, AtWork
    <2>3. CASE x # b
      <3>1. mtimes'[p][b] = mtimes[p][b] /\ cache'[p][b] = cache[p][b]
        BY <2>1, <2>3 DEF TypeInv, TypeOK
      <3> QED
        BY <1>0, <2>1, <3>1, CacheElsewhere DEF Stays
    <2> QED
      BY <2>2, <2>3
  <1> QED
    BY <1>2, <1>3, <1>4, <1>5 DEF WatchStep

LEMMA CacheLoad ==
  ASSUME TypeInv, NEW p \in Process, NEW b \in Bank, CacheAt(p, b),
         LoadStep(p) \/ \E x \in Bank, by \in {"all", "name", "spelled"} : ForceReload(p, x, by)
  PROVE  CacheAt(p, b)'
  <1> DEFINE t == load[p]
  <1>a. UNCHANGED dirVars
    BY CacheFrame DEF CacheStep
  <1>b. UNCHANGED watch /\ (<<p, b>> \in raced => <<p, b>> \in raced')
    BY DEF LoadStep, StartsLoad, LoadReads, LoadSets, LoadStats, ForceReload
  <1>0. /\ UNCHANGED <<file, clock, watch>> /\ clock \in Nat /\ clock <= clock'
        /\ Thread(t) /\ Data(b)' = Data(b) /\ Mtime(b)' = Mtime(b)
        /\ <<p, b>> \in raced => <<p, b>> \in raced'
    BY <1>a, <1>b DEF dirVars, TypeInv, Data, Mtime
  <1>1. ReadInv(watch[p], b, <<p, b>> \in raced)' /\ (AtWork(watch[p], b)' <=> AtWork(watch[p], b))
    BY <1>0 DEF CacheAt, ReadInv, AtWork
  <1>2. ASSUME NEW x \in Bank, NEW by \in {"all", "name", "spelled"}, StartsLoad(p, x) \/ ForceReload(p, x, by)
        PROVE  CacheAt(p, b)'
    <2>1. /\ UNCHANGED <<cache, mtimes, raced>>
          /\ load'[p] = Reading(x) \/ load'[p] = [Reading(x) EXCEPT !.by = by]
      BY <1>2 DEF StartsLoad, ForceReload, Load, TypeInv
    <2>2. load'[p].pc = "read"
      <3>1. Reading(x).pc = "read" /\ [Reading(x) EXCEPT !.by = by].pc = "read"
        BY IdleWork
      <3> QED
        BY <2>1, <3>1
    <2> QED
      BY <1>0, <1>1, <2>1, <2>2 DEF CacheAt, CurrentAt, ReadInv
  <1>3. CASE LoadReads(p)
    <2>1. t.pc = "read" /\ load'[p] = ReadFile(t) /\ UNCHANGED <<cache, mtimes, raced>>
      BY <1>3 DEF LoadReads, Load, TypeInv
    <2>2. AtWork(load'[p], b) =>
              /\ load'[p].mtime = Mtime(b) /\ load'[p].data = Data(b) /\ Mtime(b) \in 0..clock
      BY <1>0, <2>1, ReadFileInv
    <2>3. ReadInv(load[p], b, <<p, b>> \in raced)'
      BY <1>0, <2>2 DEF ReadInv, AtWork
    <2> QED
      BY <1>0, <1>1, <2>1, <2>3 DEF CacheAt, CurrentAt
  <1>4. CASE LoadSets(p)
    <2>1. /\ t.pc = "set" /\ mtimes' = mtimes
          /\ \/ UNCHANGED <<cache, raced>>
             \/ /\ cache' = [cache EXCEPT ![p][t.bank] = t.data]
                /\ t.mtime # Mtime(t.bank) => <<p, t.bank>> \in raced'
          /\ load'[p] \in {Idle, [t EXCEPT !.pc = "stat"]}
      BY <1>4 DEF LoadSets, Load, Stale, TypeInv
    <2>2. AtWork(load'[p], b) => /\ t.bank = b /\ load'[p].mtime = t.mtime
                                 /\ load'[p].data = t.data
      BY <1>0, <2>1, IdleWork DEF AtWork, Thread, ThreadRow
    <2>3. CASE t.bank # b
      <3>1. cache'[p][b] = cache[p][b]
        BY <2>1, <2>3 DEF TypeInv, TypeOK
      <3>2. Stays(t, load'[p], b)
        BY <2>2, <2>3 DEF Stays, AtWork
      <3> QED
        BY <1>0, <2>1, <3>1, <3>2, CacheElsewhere DEF Stays
    <2>4. CASE t.bank = b
      <3>1. \/ UNCHANGED <<cache, raced>>
            \/ cache'[p][b] = t.data /\ (t.mtime # Mtime(b) => <<p, b>> \in raced')
        BY <2>1, <2>4 DEF TypeInv, TypeOK
      <3>2. /\ t.mtime \in 0..clock
            /\ file[b] # None => t.mtime <= Mtime(b)
            /\ t.mtime = Mtime(b) => t.data = Data(b) \/ <<p, b>> \in raced
        BY <2>1, <2>4 DEF CacheAt, ReadInv, AtWork
      <3>3. ReadInv(load[p], b, <<p, b>> \in raced)'
        BY <1>0, <2>2, <3>2 DEF ReadInv, AtWork
      <3>4. CurrentAt(p, b)'
        <4>1. CASE UNCHANGED <<cache, raced>>
          BY <1>0, <1>1, <2>1, <4>1 DEF CacheAt, CurrentAt
        <4>2. CASE cache'[p][b] = t.data /\ (t.mtime # Mtime(b) => <<p, b>> \in raced')
          BY <1>0, <3>2, <4>2 DEF CurrentAt
        <4> QED
          BY <3>1, <4>1, <4>2
      <3> QED
        BY <1>1, <2>1, <3>3, <3>4 DEF CacheAt
    <2> QED
      BY <2>3, <2>4
  <1>5. CASE LoadStats(p)
    <2>1. /\ t.pc = "stat" /\ cache' = cache /\ load'[p] = Idle
          /\ mtimes' = IF file[t.bank] = None THEN mtimes
                        ELSE [mtimes EXCEPT ![p][t.bank] = Mtime(t.bank)]
          /\ t.mtime # Mtime(t.bank) \/ cache[p][t.bank] \notin {None, t.data} => <<p, t.bank>> \in raced'
      BY <1>5 DEF LoadStats, Load, Stale, Remember, TypeInv
    <2>2. ~AtWork(load'[p], b)
      BY <2>1, IdleWork
    <2>3. CASE t.bank # b
      <3>1. mtimes'[p][b] = mtimes[p][b]
        BY <2>1, <2>3 DEF TypeInv, TypeOK
      <3>2. Stays(t, load'[p], b)
        BY <2>2, <2>3 DEF Stays, AtWork
      <3> QED
        BY <1>0, <2>1, <3>1, <3>2, CacheElsewhere DEF Stays
    <2>4. CASE t.bank = b
      <3>1. t.mtime = Mtime(b) => t.data = Data(b) \/ <<p, b>> \in raced
        BY <2>1, <2>4 DEF CacheAt, ReadInv, AtWork
      <3>2. CurrentAt(p, b)'
        BY <1>0, <2>1, <2>4, <3>1 DEF CurrentAt
      <3>3. mtimes[p][b] # None => mtimes'[p][b] # None
        BY <2>1, <2>4, FileFacts DEF TypeInv, TypeOK
      <3> QED
        BY <1>1, <2>2, <3>2, <3>3 DEF CacheAt, ReadInv, AtWork
    <2> QED
      BY <2>3, <2>4
  <1>6. ASSUME NEW x \in Bank, StartsLoad(p, x) PROVE CacheAt(p, b)'
    BY <1>2, <1>6
  <1> QED
    BY <1>2, <1>3, <1>4, <1>5, <1>6 DEF LoadStep

LEMMA CacheEmptied ==
  ASSUME TypeInv, NEW p \in Process, NEW b \in Bank, CacheAt(p, b), ClearCache(p) \/ Restart(p)
  PROVE  CacheAt(p, b)'
  <1>1. /\ UNCHANGED <<file, clock>> /\ cache'[p][b] = None
        /\ Data(b)' = Data(b) /\ Mtime(b)' = Mtime(b)
    BY DEF ClearCache, Restart, dirVars, TypeInv, TypeOK, Data, Mtime
  <1>2. CurrentAt(p, b)'
    BY <1>1 DEF CurrentAt
  <1>3. \/ UNCHANGED <<watch, load, mtimes, raced>>
        \/ watch'[p] = Idle /\ load'[p] = Idle
    BY DEF ClearCache, Restart, Watch, Load, TypeInv
  <1>4. CASE UNCHANGED <<watch, load, mtimes, raced>>
    BY <1>1, <1>2, <1>4 DEF CacheAt, ReadInv, AtWork
  <1>5. CASE watch'[p] = Idle /\ load'[p] = Idle
    <2>1. ~AtWork(watch[p], b)' /\ ~AtWork(load[p], b)'
      BY <1>5, IdleWork DEF AtWork
    <2> QED
      BY <1>2, <2>1 DEF CacheAt, ReadInv
  <1> QED
    BY <1>3, <1>4, <1>5

LEMMA CacheInit == Init => CacheInv
  <1> SUFFICES ASSUME Init, NEW p \in Process, NEW b \in Bank PROVE CacheAt(p, b)
    BY CacheParts
  <1>1. watch[p] = Idle /\ load[p] = Idle /\ cache[p][b] = None
    BY DEF Init
  <1> QED
    BY <1>1, IdleWork DEF CacheAt, CurrentAt, ReadInv

LEMMA CacheInvStep ==
  ASSUME TypeInv, CacheInv, [Next]_vars
  PROVE  CacheInv'
  <1>0. \A p \in Process, b \in Bank : CacheAt(p, b)
    BY CacheParts
  <1>1. ASSUME NEW p \in Process, NEW b \in Bank PROVE CacheAt(p, b)'
    <2>0. CacheAt(p, b)
      BY <1>0
    <2>1. CASE \/ \E a \in Admin : Proceeds(a)
               \/ \E a \in Admin, kind \in {"create", "update", "delete"}, x \in Bank,
                  q \in Process : Request(a, kind, x, q)
      BY <2>0, <2>1, CacheRequest
    <2>2. ASSUME NEW q \in Process,
                 \/ WatchStep(q) \/ LoadStep(q) \/ ClearCache(q) \/ Restart(q)
                 \/ \E x \in Bank, by \in {"all", "name", "spelled"} : ForceReload(q, x, by)
          PROVE  CacheAt(p, b)'
      <3>1. CASE q # p
        BY <2>0, <2>2, <3>1, CacheOtherProcess
      <3>2. CASE q = p
        BY <2>0, <2>2, <3>2, CacheWatch, CacheLoad, CacheEmptied
      <3> QED
        BY <3>1, <3>2
    <2>3. CASE UNCHANGED vars
      <3>1. /\ file'[b] = file[b] /\ clock <= clock' /\ clock' \in Nat
            /\ cache'[p][b] = cache[p][b] /\ mtimes'[p][b] = mtimes[p][b]
            /\ <<p, b>> \in raced => <<p, b>> \in raced'
            /\ Stays(watch[p], watch'[p], b) /\ Stays(load[p], load'[p], b)
        BY <2>3 DEF vars, dirVars, cacheVars, Stays, TypeInv
      <3> QED
        BY <2>0, <3>1, CacheElsewhere
    <2> QED
      BY <2>1, <2>2, <2>3 DEF Next
  <1>2. (\A p \in Process, b \in Bank : CacheAt(p, b))'
    BY <1>1
  <1> QED
    BY <1>2, CacheParts, PTL

-----------------------------------------------------------------------------
(* The invariant, and what it gives.                                       *)

DirInv == TypeInv /\ FileInv

LEMMA InitInv == Init => DirInv
  <1> SUFFICES ASSUME Init PROVE DirInv
    OBVIOUS
  <1>1. \A a \in Admin : ~InProgress(a)
    BY DEF Init, Fresh, InProgress
  <1>2. FileInv
    <2>1. \A b \in Bank : Agree(b)
      <3> SUFFICES ASSUME NEW b \in Bank PROVE Agree(b)
        OBVIOUS
      <3>1. /\ file[b] \in {None, [data |-> Shipped, mtime |-> 0]}
            /\ row[b] \in {None, Shipped} /\ (file[b] = None => row[b] = None)
        BY DEF Init
      <3>2. file[b] # None => Data(b) = Shipped
        BY <3>1 DEF Data
      <3> QED
        BY <3>1, <3>2 DEF Agree, Data
    <2> QED
      BY <1>1, <2>1 DEF FileInv, BankInv, Busy, WorksOn
  <1>3. TypeOK
    <2>1. file \in [Bank -> {None} \cup [data : Admin \cup {Shipped, Empty}, mtime : 0..clock]]
      BY DEF Init
    <2>2. row \in [Bank -> Admin \cup {Shipped, None}]
      BY DEF Init
    <2>3. /\ cache \in [Process -> [Bank -> Admin \cup {Shipped, None}]]
          /\ mtimes \in [Process -> [Bank -> 0..clock \cup {None}]]
      BY DEF Init
    <2>4. \A p \in Process : ~Serves(p) => watch[p] = Idle /\ load[p].by = "name"
      BY ThreadTypes DEF Init
    <2> QED
      BY <2>1, <2>2, <2>3, <2>4 DEF TypeOK, Template
  <1>4. /\ clock \in Nat /\ DOMAIN admin = Admin
        /\ watch \in [Process -> ThreadRow] /\ load \in [Process -> ThreadRow]
        /\ loading \in [Process -> SUBSET Bank]
        /\ \A p \in Process : Thread(watch[p]) /\ Thread(load[p])
    BY ThreadTypes DEF Init, Thread
  <1> QED
    BY <1>1, <1>2, <1>3, <1>4 DEF DirInv, TypeInv

LEMMA StepInv == DirInv /\ [Next]_vars => DirInv'
  <1> SUFFICES ASSUME DirInv, [Next]_vars PROVE DirInv'
    OBVIOUS
  <1>0. TypeInv /\ FileInv
    BY DEF DirInv
  <1>1. ASSUME NEW a \in Admin, NEW kind \in {"create", "update", "delete"}, NEW b \in Bank,
               NEW q \in Process, Request(a, kind, b, q)
        PROVE  DirInv'
    BY <1>0, <1>1, FileRequest, TypeRequest DEF DirInv
  <1>2. ASSUME NEW a \in Admin, Proceeds(a) PROVE DirInv'
    <2>1. InProgress(a)
      BY <1>2 DEF Proceeds, Truncate, WriteText, SaveFails, DeleteFile, UnlinkFails, CommitRow, CommitRefused, InProgress
    <2>2. PICK b \in Bank : WorksOn(a, b)
      BY <1>0, <2>1 DEF TypeInv, WorksOn
    <2> QED
      BY <1>0, <1>2, <2>2, FileProceeds, TypeProceeds DEF DirInv
  <1>3. CASE CacheStep
    <2>1. TypeInv'
      BY <1>0, <1>3, TypeWatch, TypeLoad, TypeHandler DEF CacheStep
    <2> QED
      BY <1>0, <1>3, <2>1, CacheFrame, FileStill DEF DirInv
  <1>5. ASSUME NEW p \in Process, Restart(p) PROVE DirInv'
    BY <1>0, <1>5, TypeHandler, FileRestart DEF DirInv
  <1>4. CASE UNCHANGED vars
    <2>1. UNCHANGED <<dirVars, cacheVars>>
      BY <1>4 DEF vars
    <2>2. FileInv'
      BY <1>0, <2>1, FileStill
    <2>3. TypeInv'
      BY <1>0, <2>1 DEF TypeInv, TypeOK, Thread, InProgress, Serves, dirVars, cacheVars
    <2> QED
      BY <2>2, <2>3 DEF DirInv
  <1> QED
    BY <1>1, <1>2, <1>3, <1>4, <1>5 DEF Next, CacheStep

(* The inductive invariant holds in every state: where a request stands    *)
(* tells what the file and the row of its bank are, while it is alone, and *)
(* what a thread of a process has read is the present file or an older one.*)
THEOREM InductiveCorrect == Spec => []IInv
  <1>1. Init => IInv
    BY InitInv, CacheInit DEF IInv, DirInv
  <1>2. IInv /\ [Next]_vars => IInv'
    BY StepInv, CacheInvStep DEF IInv, DirInv
  <1> QED
    BY <1>1, <1>2, PTL DEF Spec

(* A cache never holds what an empty file holds, no time runs ahead of  *)
(* the clock, and the watcher of a starting process waits for its loading. *)
THEOREM TypeCorrect == Spec => []TypeOK
  <1>1. IInv => TypeOK
    BY DEF IInv, TypeInv
  <1> QED
    BY <1>1, InductiveCorrect, PTL

(* However requests for different banks interleave, a bank keeps a file    *)
(* that is the one its row was made from, unless two of its requests       *)
(* overlapped or one was left half done: by a refused commit, a save or a  *)
(* removal that failed, or a restart between the file and the commit.      *)
THEOREM RowsMatchFilesCorrect == Spec => []RowsMatchFiles
  <1>1. IInv => RowsMatchFiles
    BY DEF IInv, FileInv, BankInv, Agree, RowsMatchFiles
  <1> QED
    BY <1>1, InductiveCorrect, PTL

(* However the watcher, reloads and requests interleave, a process whose   *)
(* watcher has nothing to do for a bank answers with the present file,     *)
(* unless the file is empty or the cache raced with the last change, as a  *)
(* reload under a code that is not in lower case does.                     *)
THEOREM QuietCachesAreCurrentCorrect == Spec => []QuietCachesAreCurrent
  <1>1. IInv => QuietCachesAreCurrent
    BY DEF IInv, CacheInv
  <1> QED
    BY <1>1, InductiveCorrect, PTL
=============================================================================
