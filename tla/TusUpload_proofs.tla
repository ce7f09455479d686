-------------------------- MODULE TusUpload_proofs --------------------------
(***************************************************************************)
(* The steps of the resumable upload keep its invariant, for every size of *)
(* the file and of the chunks, every number of uploads, requests, late     *)
(* answers, crashes and failures.                                          *)
(***************************************************************************)
EXTENDS TusUpload, FiniteSetTheorems, TLAPS

-----------------------------------------------------------------------------
(* Numbers and contents.                                                   *)

LEMMA Numbers ==
  /\ Length \in Nat /\ Length > 0 /\ ChunkSize \in Nat /\ ChunkSize > 0
  /\ Cardinality(Upload) \in Nat /\ Cardinality(Patch) \in Nat
  /\ Upload \subseteq Nat /\ Patch \subseteq Nat
  /\ \A x : x \in Upload <=> x \in 1..Cardinality(Upload)
  /\ \A x : x \in Patch <=> x \in 1..Cardinality(Patch)
  <1>1. Cardinality(Upload) \in Nat /\ Cardinality(Patch) \in Nat
    BY TurnsAssumption, FS_CardinalityType
  <1> QED
    BY <1>1, SizesAssumption, TurnsAssumption

LEMMA Prefixes ==
  /\ File = Prefix(Length)
  /\ Prefix(0) = << >>
  /\ \A k \in 0..Length : Prefix(k) \in Seq(1..Length) /\ Len(Prefix(k)) = k /\ Prefix(k) # None
  <1>1. File = Prefix(Length)
    BY DEF File, Prefix
  <1>2. Prefix(0) = << >>
    BY DEF Prefix
  <1>3. ASSUME NEW k \in 0..Length
        PROVE  Prefix(k) \in Seq(1..Length) /\ Len(Prefix(k)) = k /\ Prefix(k) # None
    <2>1. k \in Nat /\ Length \in Nat /\ k <= Length
      BY Numbers
    <2>2. Prefix(k) \in Seq(1..Length) /\ Prefix(k) \in Seq(Nat)
      BY <2>1 DEF Prefix
    <2>3. Len(Prefix(k)) = k
      BY <2>1 DEF Prefix
    <2> QED
      BY <2>2, <2>3, NoneAssumption
  <1> QED
    BY <1>1, <1>2, <1>3

(* A chunk that follows a prefix makes a longer one.                       *)
LEMMA PrefixGrows ==
  ASSUME NEW k \in 0..Length, NEW c \in Seq(1..Length),
         c = [i \in 1..Len(c) |-> k + i], k + Len(c) <= Length
  PROVE  Prefix(k) \o c = Prefix(k + Len(c))
  <1>1. k \in Nat /\ Len(c) \in Nat /\ Length \in Nat
    BY Numbers
  <1>2. Prefix(k) \in Seq(1..Length) /\ Len(Prefix(k)) = k
    BY Prefixes
  <1>3. Prefix(k) \o c \in Seq(1..Length) /\ Len(Prefix(k) \o c) = k + Len(c)
    BY <1>1, <1>2
  <1>4. \A i \in 1..(k + Len(c)) : (Prefix(k) \o c)[i] = i
    <2> SUFFICES ASSUME NEW i \in 1..(k + Len(c)) PROVE (Prefix(k) \o c)[i] = i
      OBVIOUS
    <2>1. CASE i <= k
      BY <1>1, <1>2, <2>1 DEF Prefix
    <2>2. CASE i > k
      <3>1. (Prefix(k) \o c)[i] = c[i - k] /\ i - k \in 1..Len(c)
        BY <1>1, <1>2, <2>2
      <3>2. c[i - k] = k + (i - k)
        BY <3>1
      <3> QED
        BY <1>1, <3>1, <3>2
    <2>3. i <= k \/ i > k
      BY <1>1
    <2> QED
      BY <2>1, <2>2, <2>3
  <1>5. k + Len(c) \in Nat
    BY <1>1
  <1> QED
    BY <1>3, <1>4, <1>5 DEF Prefix

(* The chunk a client cuts out of the file.                                *)
LEMMA ChunkCut ==
  ASSUME NEW k \in 0..Length, NEW e \in 0..Length, k <= e
  PROVE  /\ SubSeq(File, k + 1, e) \in Seq(1..Length)
         /\ Len(SubSeq(File, k + 1, e)) = e - k
         /\ SubSeq(File, k + 1, e) = [i \in 1..(e - k) |-> k + i]
  <1>1. k \in Nat /\ e \in Nat /\ Length \in Nat /\ e - k \in Nat
    BY Numbers
  <1>2. File \in Seq(1..Length) /\ Len(File) = Length
    BY <1>1, Prefixes
  <1> DEFINE cut == SubSeq(File, k + 1, e)
  <1>3. cut \in Seq(1..Length) /\ Len(cut) = e - k
    BY <1>1, <1>2
  <1>4. \A i \in 1..(e - k) : cut[i] = k + i
    BY <1>1, <1>2 DEF File
  <1>5. cut = [i \in 1..(e - k) |-> k + i]
    <2> HIDE DEF cut
    <2>1. DOMAIN cut = 1..(e - k) /\ cut = [i \in DOMAIN cut |-> cut[i]]
      BY <1>3
    <2> QED
      BY <1>4, <2>1
  <1> QED
    BY <1>3, <1>5

-----------------------------------------------------------------------------
(* A step of request p, as far as other requests and uploads see it.       *)

Pc == {"unused", "ok", "error"} \cup Open \cup Gone
Moves(p, pc) ==
  /\ \A q \in Patch : /\ patch'[q].up = patch[q].up /\ patch'[q].off = patch[q].off
                      /\ patch'[q].chunk = patch[q].chunk
                      /\ patch'[q].pc = IF q = p THEN pc ELSE patch[q].pc
                      /\ q # p => patch'[q] = patch[q]
  /\ patch' \in [Patch -> PatchRow]
AtServer(p, pc) ==
  /\ Moves(p, pc) /\ patch[p].pc \in Open /\ pc # "unused"
  /\ UNCHANGED <<user, impatient>>
  /\ \A q \in Patch \ {p} : stored'[q] = stored[q]
  /\ \A w \in Upload : w # patch[p].up => info'[w] = info[w] /\ bin'[w] = bin[w]
  /\ overlap \subseteq overlap' /\ overlap' \subseteq Upload
  /\ queued \subseteq queued' /\ queued' \subseteq queued \cup {p}

LEMMA GoMoves ==
  ASSUME TusType, NEW p \in Patch, NEW pc \in Pc, Go(p, pc)
  PROVE  Moves(p, pc) /\ patch'[p].creates = patch[p].creates
  <1>1. patch \in [Patch -> PatchRow] /\ patch' = [patch EXCEPT ![p].pc = pc]
    BY DEF TusType, Go
  <1>2. patch[p] \in PatchRow
    BY <1>1
  <1>3. patch'[p] = [patch[p] EXCEPT !.pc = pc] /\ \A q \in Patch \ {p} : patch'[q] = patch[q]
    BY <1>1
  <1>4. [patch[p] EXCEPT !.pc = pc] \in PatchRow
    BY <1>2 DEF PatchRow, Pc
  <1>5. patch' \in [Patch -> PatchRow]
    BY <1>1, <1>3, <1>4
  <1>6. /\ patch'[p].up = patch[p].up /\ patch'[p].off = patch[p].off
        /\ patch'[p].chunk = patch[p].chunk /\ patch'[p].pc = pc
        /\ patch'[p].creates = patch[p].creates
    BY <1>2, <1>3 DEF PatchRow
  <1> QED
    BY <1>3, <1>5, <1>6 DEF Moves

(* The upload of an open request, and what it has in hand.                 *)
LEMMA OpenUpload ==
  ASSUME TusInv, NEW p \in Patch, patch[p].pc # "unused"
  PROVE  /\ patch[p].up \in Upload /\ patch[p].off \in 0..Length /\ patch[p].off < Length
         /\ patch[p].chunk \in Seq(1..Length)
         /\ NewOffset(p) \in 0..Length
  <1>1. patch[p] \in PatchRow /\ Sound(p) /\ user.up \in 0..Cardinality(Upload)
    BY DEF TusInv, TusType
  <1>2. patch[p].up \in 1..user.up
    BY <1>1 DEF Sound
  <1>3. patch[p].up \in Upload
    BY <1>1, <1>2, Numbers
  <1>4. patch[p].off \in 0..Length /\ patch[p].chunk \in Seq(1..Length)
    BY <1>1 DEF PatchRow
  <1>5. Len(patch[p].chunk) \in Nat
    BY <1>4
  <1> QED
    BY <1>1, <1>3, <1>4, <1>5, Numbers DEF Sound, NewOffset

LEMMA ServerType ==
  ASSUME TusType, NEW p \in Patch, NEW pc, AtServer(p, pc),
         info' \in [Upload -> 0..Length \cup {None}], bin' \in [Upload -> Content],
         stored' \in [Patch -> [row : {"none", "flushed", "committed"}, file : Content]],
         clients' \in Nat
  PROVE  TusType'
  <1>1. user.state \in {"wait", "head"} =>
          user.on \in Patch /\ patch'[user.on].pc # "unused" /\ patch'[user.on].up = user.up
    BY DEF TusType, AtServer, Moves
  <1>2. user.state = "wait" => patch'[user.on].off = user.off
    BY DEF TusType, AtServer, Moves
  <1> QED
    BY <1>1, <1>2 DEF TusType, AtServer, Moves

LEMMA OtherSound ==
  ASSUME TusInv, NEW p \in Patch, NEW pc, AtServer(p, pc)
  PROVE  \A q \in Patch \ {p} : Sound(q)'
  <1> SUFFICES ASSUME NEW q \in Patch \ {p} PROVE Sound(q)'
    OBVIOUS
  <1>1. Sound(q) /\ patch'[q] = patch[q] /\ stored'[q] = stored[q] /\ user' = user
        /\ (q \in queued' <=> q \in queued)
    BY DEF TusInv, AtServer, Moves
  <1> QED
    BY <1>1 DEF Sound, NewOffset

LEMMA OtherExact ==
  ASSUME TusInv, NEW p \in Patch, NEW pc, AtServer(p, pc)
  PROVE  \A w \in Upload : w # patch[p].up /\ Intact(w)' => Exact(w)'
  <1> SUFFICES ASSUME NEW w \in Upload, w # patch[p].up, Intact(w)' PROVE Exact(w)'
    OBVIOUS
  <1>1. \A q \in Patch : patch'[q].up = w => q # p /\ patch'[q] = patch[q] /\ stored'[q] = stored[q]
    BY DEF AtServer, Moves
  <1>2. \A q \in Patch : \A pcs : Working(q, w, pcs)' <=> Working(q, w, pcs)
    BY <1>1 DEF Working, AtServer, Moves
  <1>3. info'[w] = info[w] /\ bin'[w] = bin[w]
    BY DEF AtServer
  <1>4. Intact(w)
    BY <1>2 DEF Intact, AtServer
  <1>5. Exact(w)
    BY <1>4 DEF TusInv, FilesInv
  <1>6. \A q \in Patch : patch'[q].up = w => patch[q].up = w /\ NewOffset(q)' = NewOffset(q)
    BY <1>1 DEF AtServer, Moves, NewOffset
  <1>7. \A q, r \in Patch : Working(q, w, Writing)' /\ Working(r, w, Writing)' => q = r
    BY <1>2, <1>5 DEF Exact
  <1>8. ASSUME NEW q \in Patch
        PROVE  /\ Working(q, w, Writing)' => info'[w] = patch'[q].off
               /\ Working(q, w, {"body"})' => bin'[w] = Prefix(patch'[q].off)
               /\ Working(q, w, {"offset"})' => bin'[w] = Prefix(NewOffset(q))'
               /\ Working(q, w, Finalising)' => info'[w] \in {None, Length}
               /\ Working(q, w, {"check", "enqueue", "queued"})' => bin'[w] = None
               /\ patch'[q].up = w /\ stored'[q].row # "none" => stored'[q].file = File
    BY <1>1, <1>2, <1>3, <1>5, <1>6 DEF Exact, Working
  <1>9. (\A q \in Patch : ~Working(q, w, Writing)') =>
          /\ info'[w] = None => bin'[w] = None
          /\ info'[w] = Length => bin'[w] \in {None, File}
          /\ info'[w] \notin {None, Length} => bin'[w] = Prefix(info'[w])
    BY <1>2, <1>3, <1>5 DEF Exact
  <1> QED
    BY <1>7, <1>8, <1>9 DEF Exact, Prefix

(* While the client is patient an open request is the one it waits for.    *)
LEMMA Waiting ==
  ASSUME TusInv, NEW p \in Patch, patch[p].pc \in Open, patch[p].up \notin impatient
  PROVE  /\ p = user.on /\ user.state = "wait" /\ user.up = patch[p].up
         /\ Serial(patch[p].up)
  <1>1. patch[p].up \in Upload
    BY OpenUpload DEF Open, Writing, Finalising
  <1>2. Serial(patch[p].up)
    BY <1>1 DEF TusInv, SerialInv
  <1> QED
    BY <1>2 DEF Serial, Working

LEMMA OtherSerial ==
  ASSUME TusInv, NEW p \in Patch, NEW pc, AtServer(p, pc)
  PROVE  \A w \in Upload \ impatient' : w # patch[p].up => Serial(w)'
  <1> SUFFICES ASSUME NEW w \in Upload, w \notin impatient', w # patch[p].up PROVE Serial(w)'
    OBVIOUS
  <1>1. user' = user /\ impatient' = impatient /\ info'[w] = info[w] /\ queued \subseteq queued'
    BY DEF AtServer
  <1>2. Serial(w)
    BY <1>1 DEF TusInv, SerialInv
  <1>3. \A q \in Patch : \A pcs : Working(q, w, pcs)' <=> Working(q, w, pcs)
    BY DEF Working, AtServer, Moves
  <1>4. \A q \in Patch : patch[q].up = w => patch'[q].up = w /\ patch'[q].pc = patch[q].pc
    BY DEF AtServer, Moves
  <1>5. user.up = w /\ user.state \in {"wait", "head"} => patch'[user.on].pc = patch[user.on].pc
    <2>1. user.state \in {"wait", "head"} => user.on \in Patch /\ patch[user.on].up = user.up
      BY DEF TusInv, TusType
    <2> QED
      BY <1>4, <2>1
  <1>6. user.up = w /\ user.state = "done" =>
          \E q \in Patch : patch'[q].up = w /\ (q \in queued' \/ patch'[q].pc = "lost")
    BY <1>1, <1>2, <1>4 DEF Serial
  <1>7. info[w] = Length => \E q \in Patch : Working(q, w, Finalising \cup {"lost"})'
    BY <1>2, <1>3 DEF Serial
  <1> QED
    BY <1>1, <1>2, <1>3, <1>5, <1>6, <1>7 DEF Serial

(* The upload itself stays serial: it looks complete while its request     *)
(* finalises it, and no longer.                                            *)
LEMMA OwnSerial ==
  ASSUME TusInv, NEW p \in Patch, NEW pc, NEW u, AtServer(p, pc),
         u = patch[p].up, u \notin impatient,
         pc \in Finalising \cup {"lost"} => info'[u] = Length,
         info'[u] = Length =>
            pc \in Finalising \/ (info[u] = Length /\ patch[p].pc \notin Finalising)
  PROVE  Serial(u)'
  <1>1. p = user.on /\ user.state = "wait" /\ user.up = u /\ Serial(u)
    BY Waiting DEF AtServer
  <1>2. user' = user
    BY DEF AtServer
  <1>3. \A q \in Patch : patch'[q].up = patch[q].up /\ patch'[q].pc = IF q = p THEN pc ELSE patch[q].pc
    BY DEF AtServer, Moves
  <1>5. \A q \in Patch : Working(q, u, Open)' => q = user.on
    BY <1>1, <1>3 DEF Serial, Working
  <1>6. info'[u] = Length => \E q \in Patch : Working(q, u, Finalising \cup {"lost"})'
    <2>1. CASE pc \in Finalising
      BY <1>3, <2>1 DEF Working
    <2>2. CASE info[u] = Length /\ patch[p].pc \notin Finalising
      <3>1. PICK q \in Patch : Working(q, u, Finalising \cup {"lost"})
        BY <1>1, <2>2 DEF Serial
      <3>2. q # p
        BY <2>2, <3>1 DEF Working, AtServer, Open, Writing, Finalising
      <3> QED
        BY <1>3, <3>1, <3>2 DEF Working
    <2> QED
      BY <2>1, <2>2
  <1>7. patch'[user.on].pc \in Finalising \cup {"lost"} => info'[u] = Length
    BY <1>1, <1>3
  <1> QED
    BY <1>1, <1>2, <1>5, <1>6, <1>7 DEF Serial

(* Nothing brings an answer back that was not sent.                        *)
LEMMA LostForGood ==
  ASSUME TusInv, queued \subseteq queued',
         \A q \in Patch : patch[q].pc = "unsent" => patch'[q].pc = "unsent"
  PROVE  LastAnswerLost => LastAnswerLost'
  BY DEF TusInv, TusType, LastAnswerLost

LEMMA OwnOnce ==
  ASSUME TusInv, NEW p \in Patch, NEW pc, AtServer(p, pc),
         impatient = {} => /\ clients' <= 1
                           /\ pc \in {"scan", "row", "check"} /\ patch'[p].creates => clients' = 0
  PROVE  OnceInv'
  <1> SUFFICES ASSUME impatient = {} PROVE OnceInv'
    BY DEF OnceInv, AtServer
  <1>1. patch[p].up \in Upload
    BY OpenUpload DEF AtServer, Open, Writing, Finalising
  <1>2. p = user.on /\ user.state = "wait"
    BY Waiting DEF AtServer
  <1>3. Once => Once'
    BY <1>2 DEF AtServer, Once
  <1>6. LastAnswerLost => LastAnswerLost'
    <2>1. patch[p].pc # "unsent" /\ queued \subseteq queued'
      BY DEF AtServer, Open, Writing, Finalising
    <2>2. \A q \in Patch \ {p} : patch'[q] = patch[q]
      BY DEF AtServer, Moves
    <2> QED
      BY <2>1, <2>2, LostForGood
  <1>4. \A q \in Patch \ {p} : patch[q].pc \notin {"scan", "row", "check"}
    BY <1>2, Waiting DEF Open, Finalising
  <1>5. \A q \in Patch : patch'[q].pc \in {"scan", "row", "check"} /\ patch'[q].creates => clients' = 0
    BY <1>4 DEF AtServer, Moves
  <1> QED
    BY <1>2, <1>3, <1>5, <1>6 DEF TusInv, OnceInv, AtServer

(* What remains to be shown of a step of request p.                        *)
LEMMA ServerKeeps ==
  ASSUME TusInv, NEW p \in Patch, NEW pc, NEW u, u = patch[p].up, AtServer(p, pc), TusType', Sound(p)',
         Intact(u)' => Exact(u)',
         u \notin impatient =>
            /\ pc \in Finalising \cup {"lost"} => info'[u] = Length
            /\ info'[u] = Length =>
                  pc \in Finalising \/ (info[u] = Length /\ patch[p].pc \notin Finalising),
         impatient = {} => /\ clients' <= 1
                           /\ pc \in {"scan", "row", "check"} /\ patch'[p].creates => clients' = 0
  PROVE  TusInv'
  <1>0. patch'[p].up = patch[p].up /\ impatient' = impatient
    BY DEF AtServer, Moves
  <1>1. \A q \in Patch : Sound(q)'
    BY OtherSound
  <1>2. FilesInv'
    BY <1>0, OtherExact DEF FilesInv
  <1>3. SerialInv'
    BY <1>0, OtherSerial, OwnSerial DEF SerialInv
  <1>4. OnceInv'
    BY OwnOnce
  <1> QED
    BY <1>1, <1>2, <1>3, <1>4 DEF TusInv

-----------------------------------------------------------------------------
(* The requests.  Steps that leave the files of the upload as they are.    *)

LEMMA FinalisingIsLong ==
  ASSUME TusInv, NEW p \in Patch, NEW u, u = patch[p].up, u \notin impatient,
         patch[p].pc \in Finalising
  PROVE  info[u] = Length
  <1>1. p = user.on /\ user.state = "wait" /\ user.up = u /\ Serial(u)
    BY Waiting DEF Open
  <1> QED
    BY <1>1 DEF Serial

QuietMoves ==
  {<<"sent", "error">>, <<"body", "gone">>, <<"client", "scan">>, <<"scan", "row">>,
   <<"check", "enqueue">>, <<"enqueue", "queued">>}
LEMMA QuietKeeps ==
  ASSUME TusInv, NEW p \in Patch, NEW pc, AtServer(p, pc), <<patch[p].pc, pc>> \in QuietMoves,
         UNCHANGED <<info, bin, overlap>>, TusType', Sound(p)',
         stored'[p].file = stored[p].file, stored'[p].row = "none" <=> stored[p].row = "none",
         impatient = {} => /\ clients' <= 1
                           /\ pc \in {"scan", "row", "check"} /\ patch'[p].creates => clients' = 0
  PROVE  TusInv'
  <1>1. PICK u \in Upload : u = patch[p].up
    BY OpenUpload DEF AtServer, Open, Writing, Finalising
  <1>2. \A q \in Patch : patch'[q].up = patch[q].up /\ patch'[q].off = patch[q].off
                         /\ patch'[q].pc = (IF q = p THEN pc ELSE patch[q].pc)
                         /\ NewOffset(q)' = NewOffset(q)
    BY DEF AtServer, Moves, NewOffset
  <1>3. \A q \in Patch : stored'[q].file = stored[q].file
                         /\ (stored'[q].row = "none" <=> stored[q].row = "none")
    BY DEF AtServer
  <1>4. ASSUME Intact(u)' PROVE Exact(u)'
    <2>1. \A q \in Patch : \A pcs : q # p => (Working(q, u, pcs)' <=> Working(q, u, pcs))
      BY <1>2 DEF Working
    <2>2. pc \notin Writing /\ patch[p].pc # "torn"
      BY DEF QuietMoves, Writing
    <2>3. Exact(u)
      <3>1. Intact(u)
        BY <1>2, <1>4, <2>1, <2>2 DEF Intact, Working
      <3> QED
        BY <3>1 DEF TusInv, FilesInv
    <2>4. \A q \in Patch : Working(q, u, Writing)' => q # p /\ Working(q, u, Writing)
      BY <1>2, <2>1, <2>2 DEF Working
    <2>5. \A q \in Patch : /\ Working(q, u, {"body"})' => Working(q, u, {"body"})
                           /\ Working(q, u, {"offset"})' => Working(q, u, {"offset"})
      BY <1>2, <2>1, <2>2 DEF Working, Writing
    <2>6. \A q \in Patch : Working(q, u, Finalising)' => Working(q, u, Finalising)
      BY <1>2, <2>1 DEF Working, QuietMoves, Finalising
    <2>7. \A q \in Patch : Working(q, u, {"check", "enqueue", "queued"})'
                              => Working(q, u, {"check", "enqueue", "queued"})
      BY <1>2, <2>1 DEF Working, QuietMoves
    <2>8. ASSUME \A q \in Patch : ~Working(q, u, Writing)'
          PROVE  /\ info[u] = None => bin[u] = None
                 /\ info[u] = Length => bin[u] \in {None, File}
                 /\ info[u] \notin {None, Length} => bin[u] = Prefix(info[u])
      <3>1. CASE patch[p].pc = "body"
        <4>1. Working(p, u, Writing) /\ Working(p, u, {"body"})
          BY <1>1, <3>1 DEF Working, Writing
        <4>2. info[u] = patch[p].off /\ bin[u] = Prefix(patch[p].off)
          BY <2>3, <4>1 DEF Exact
        <4>3. patch[p].off \in Nat /\ patch[p].off # Length /\ patch[p].off # None
          BY <3>1, OpenUpload, Numbers, NoneAssumption
        <4> QED
          BY <4>2, <4>3
      <3>2. CASE patch[p].pc # "body"
        <4>1. \A q \in Patch : ~Working(q, u, Writing)
          BY <1>2, <2>1, <2>8, <3>2 DEF Working, QuietMoves, Writing
        <4> QED
          BY <2>3, <4>1 DEF Exact
      <3> QED
        BY <3>1, <3>2
    <2>9. \A q, r \in Patch : Working(q, u, Writing)' /\ Working(r, u, Writing)' => q = r
      BY <2>3, <2>4 DEF Exact
    <2>10. \A q \in Patch : patch'[q].up = u /\ stored'[q].row # "none" => stored'[q].file = File
      BY <1>2, <1>3, <2>3 DEF Exact
    <2> QED
      BY <1>2, <2>3, <2>4, <2>5, <2>6, <2>7, <2>8, <2>9, <2>10 DEF Exact, Prefix
  <1>5. u \notin impatient =>
          /\ pc \in Finalising \cup {"lost"} => info'[u] = Length
          /\ info'[u] = Length =>
                pc \in Finalising \/ (info[u] = Length /\ patch[p].pc \notin Finalising)
    <2>1. pc \in Finalising \cup {"lost"} <=> patch[p].pc \in Finalising
      BY DEF QuietMoves, Finalising
    <2>2. pc \in Finalising <=> patch[p].pc \in Finalising
      BY DEF QuietMoves, Finalising
    <2> QED
      BY <1>1, <2>1, <2>2, FinalisingIsLong
  <1> QED
    BY <1>1, <1>4, <1>5, ServerKeeps

(* A step that does not change what is stored either.                      *)
LEMMA QuietRequest ==
  ASSUME TusInv, NEW p \in Patch, NEW pc \in Pc, Moves(p, pc), <<patch[p].pc, pc>> \in QuietMoves,
         UNCHANGED <<user, impatient, info, bin, stored, queued, clients, overlap>>,
         pc \notin {"enqueue", "queued"}, 
         \/ pc # "scan" /\ patch'[p].creates = patch[p].creates
         \/ pc = "scan" /\ patch'[p].creates = (clients = 0)
  PROVE  TusInv'
  <1>1. AtServer(p, pc)
    BY DEF AtServer, QuietMoves, Open, Writing, Finalising, TusInv, TusType
  <1>2. TusType'
    BY <1>1, ServerType DEF TusInv, TusType
  <1>3. Sound(p)'
    <2>1. Sound(p) /\ NewOffset(p)' = NewOffset(p) /\ patch'[p].up = patch[p].up
          /\ patch'[p].off = patch[p].off /\ patch'[p].chunk = patch[p].chunk /\ patch'[p].pc = pc
      BY DEF Moves, TusInv, NewOffset
    <2> QED
      BY <2>1 DEF Sound, QuietMoves, Finalising
  <1>4. impatient = {} => /\ clients' <= 1
                          /\ pc \in {"scan", "row", "check"} /\ patch'[p].creates => clients' = 0
    BY DEF TusInv, OnceInv, QuietMoves
  <1> QED
    BY <1>1, <1>2, <1>3, <1>4, QuietKeeps

LEMMA QuietGo ==
  ASSUME TusInv, NEW p \in Patch, NEW pc \in Pc, Go(p, pc),
         <<patch[p].pc, pc>> \in QuietMoves, pc \notin {"scan", "enqueue", "queued"},
         UNCHANGED <<user, impatient, info, bin, stored, queued, clients, overlap>>
  PROVE  TusInv'
  <1>1. Moves(p, pc) /\ patch'[p].creates = patch[p].creates
    BY GoMoves DEF TusInv
  <1> QED
    BY <1>1, QuietRequest

LEMMA KeepsDisconnect ==
  ASSUME TusInv, NEW p \in Patch, Disconnect(p)
  PROVE  TusInv'
  BY QuietGo DEF Disconnect, At, UserIdle, QuietMoves, Pc, Gone

LEMMA KeepsScan ==
  ASSUME TusInv, NEW p \in Patch, Scan(p)
  PROVE  TusInv'
  BY QuietGo DEF Scan, At, UserIdle, QuietMoves, Pc, Open, Finalising

LEMMA KeepsFindClient ==
  ASSUME TusInv, NEW p \in Patch, FindClient(p)
  PROVE  TusInv'
  <1> DEFINE new == [patch EXCEPT ![p].pc = "scan", ![p].creates = (clients = 0)]
  <1>1. /\ patch[p].pc = "client" /\ patch' = new
        /\ UNCHANGED <<user, impatient, info, bin, stored, queued, clients, overlap>>
    BY DEF FindClient, At, UserIdle
  <1>2. patch \in [Patch -> PatchRow] /\ patch[p] \in PatchRow
    BY DEF TusInv, TusType
  <1>3. "scan" \in Pc
    BY DEF Pc, Open, Finalising
  <1>4. [patch[p] EXCEPT !.pc = "scan", !.creates = (clients = 0)] \in PatchRow
    BY <1>2, <1>3 DEF PatchRow, Pc
  <1>5. patch'[p] = [patch[p] EXCEPT !.pc = "scan", !.creates = (clients = 0)]
        /\ \A q \in Patch \ {p} : patch'[q] = patch[q]
    BY <1>1, <1>2
  <1>6. patch' \in [Patch -> PatchRow]
    BY <1>1, <1>2, <1>4, <1>5
  <1>7. /\ patch'[p].pc = "scan" /\ patch'[p].creates = (clients = 0)
        /\ patch'[p].up = patch[p].up /\ patch'[p].off = patch[p].off /\ patch'[p].chunk = patch[p].chunk
    BY <1>2, <1>5 DEF PatchRow
  <1>8. Moves(p, "scan")
    BY <1>5, <1>6, <1>7 DEF Moves
  <1> QED
    BY <1>1, <1>3, <1>7, <1>8, QuietRequest DEF QuietMoves

(* The commit and the task.                                                *)
LEMMA StoredType ==
  ASSUME TusType, NEW p \in Patch, NEW row \in {"none", "flushed", "committed"}, NEW f \in Content,
         Row(p, row, f)
  PROVE  /\ stored' \in [Patch -> [row : {"none", "flushed", "committed"}, file : Content]]
         /\ stored'[p].row = row /\ stored'[p].file = f
         /\ \A q \in Patch \ {p} : stored'[q] = stored[q]
  BY DEF TusType, Row

LEMMA KeepsCommitStatement ==
  ASSUME TusInv, NEW p \in Patch, CommitStatement(p)
  PROVE  TusInv'
  <1>1. /\ patch[p].pc = "check" /\ Go(p, "enqueue") /\ Row(p, "committed", stored[p].file)
        /\ CommitClient(p) /\ UNCHANGED <<user, impatient, info, bin, queued, overlap>>
    BY DEF CommitStatement, At, UserIdle
  <1>2. Moves(p, "enqueue") /\ patch'[p].creates = patch[p].creates
    BY <1>1, GoMoves DEF TusInv, Pc, Open, Finalising
  <1>3. Sound(p) /\ TusType /\ stored[p].file \in Content
    BY DEF TusInv, TusType
  <1>4. /\ stored' \in [Patch -> [row : {"none", "flushed", "committed"}, file : Content]]
        /\ stored'[p].row = "committed" /\ stored'[p].file = stored[p].file
        /\ \A q \in Patch \ {p} : stored'[q] = stored[q]
    BY <1>1, <1>3, StoredType
  <1>5. AtServer(p, "enqueue")
    BY <1>1, <1>2, <1>4 DEF AtServer, Open, Finalising, TusInv, TusType
  <1>6. TusType'
    <2>1. clients' \in Nat
      BY <1>1, <1>3 DEF CommitClient, TusType
    <2> QED
      BY <1>1, <1>3, <1>4, <1>5, <2>1, ServerType DEF TusType
  <1>7. stored[p].row = "flushed" /\ stored[p].file # None /\ p \notin queued
    BY <1>1, <1>3 DEF Sound
  <1>8. Sound(p)'
    <2>1. NewOffset(p)' = NewOffset(p) /\ patch'[p].up = patch[p].up
          /\ patch'[p].off = patch[p].off /\ patch'[p].chunk = patch[p].chunk /\ patch'[p].pc = "enqueue"
      BY <1>2 DEF Moves, NewOffset
    <2> QED
      BY <1>1, <1>3, <1>4, <1>7, <2>1 DEF Sound, Finalising
  <1>9. impatient = {} => clients' <= 1
    BY <1>1, <1>3 DEF TusInv, OnceInv, CommitClient, TusType
  <1>10. <<patch[p].pc, "enqueue">> \in QuietMoves
    BY <1>1 DEF QuietMoves
  <1>11. stored'[p].row = "none" <=> stored[p].row = "none"
    BY <1>4, <1>7
  <1> QED
    BY <1>1, <1>4, <1>5, <1>6, <1>8, <1>9, <1>10, <1>11, QuietKeeps

LEMMA KeepsEnqueue ==
  ASSUME TusInv, NEW p \in Patch, Enqueue(p)
  PROVE  TusInv'
  <1>1. /\ patch[p].pc = "enqueue" /\ Go(p, "queued") /\ queued' = queued \cup {p}
        /\ UNCHANGED <<user, impatient, info, bin, stored, clients, overlap>>
    BY DEF Enqueue, At, UserIdle
  <1>2. Moves(p, "queued") /\ patch'[p].creates = patch[p].creates
    BY <1>1, GoMoves DEF TusInv, Pc, Open, Finalising
  <1>3. Sound(p) /\ TusType
    BY DEF TusInv
  <1>4. AtServer(p, "queued")
    BY <1>1, <1>2, <1>3 DEF AtServer, Open, Finalising, TusType
  <1>5. TusType'
    BY <1>1, <1>3, <1>4, ServerType DEF TusType
  <1>6. Sound(p)'
    <2>1. NewOffset(p)' = NewOffset(p) /\ patch'[p].up = patch[p].up
          /\ patch'[p].off = patch[p].off /\ patch'[p].chunk = patch[p].chunk /\ patch'[p].pc = "queued"
      BY <1>2 DEF Moves, NewOffset
    <2> QED
      BY <1>1, <1>3, <2>1 DEF Sound, Finalising
  <1>7. impatient = {} => clients' <= 1
    BY <1>1 DEF TusInv, OnceInv
  <1>8. <<patch[p].pc, "queued">> \in QuietMoves
    BY <1>1 DEF QuietMoves
  <1> QED
    BY <1>1, <1>4, <1>5, <1>6, <1>7, <1>8, QuietKeeps

-----------------------------------------------------------------------------
(* The chunk: the check, the append, the new offset.                       *)

(* A request that writes is alone with its upload.                         *)
LEMMA WriterAlone ==
  ASSUME TusInv, NEW p \in Patch, NEW u \in Upload, Intact(u), Working(p, u, Writing)
  PROVE  /\ Exact(u) /\ info[u] = patch[p].off
         /\ patch[p].off \notin {None, Length}
         /\ \A q \in Patch : Working(q, u, Writing) => q = p
         /\ \A q \in Patch : ~Working(q, u, Finalising)
  <1>1. Exact(u)
    BY DEF TusInv, FilesInv
  <1>2. patch[p].off \in Nat /\ patch[p].off < Length
    BY OpenUpload, Numbers DEF Working, Writing
  <1>3. patch[p].off \notin {None, Length}
    BY <1>2, NoneAssumption, Numbers
  <1> QED
    BY <1>1, <1>3 DEF Exact

LEMMA FinaliserAlone ==
  ASSUME TusInv, NEW p \in Patch, NEW u \in Upload, Intact(u), Working(p, u, Finalising)
  PROVE  Exact(u) /\ \A q \in Patch : ~Working(q, u, Writing)
  <1>1. Exact(u)
    BY DEF TusInv, FilesInv
  <1> QED
    BY <1>1, WriterAlone

(* The steps of a writing request: what is left to show of its upload.     *)
LEMMA SoundMoves ==
  ASSUME TusInv, NEW p \in Patch, NEW pc, Moves(p, pc), patch[p].pc # "unused",
         UNCHANGED <<user, stored, queued>>,
         patch[p].pc \notin {"check", "enqueue", "queued", "ok", "lost", "unsent"},
         pc \notin {"check", "enqueue", "queued", "ok", "unsent"}, pc # "unused",
         pc \in Finalising => NewOffset(p) = Length,
         stored[p].row = "committed" => pc \in {"error", "lost"}
  PROVE  Sound(p)'
  <1>1. Sound(p) /\ NewOffset(p)' = NewOffset(p) /\ patch'[p].up = patch[p].up
        /\ patch'[p].off = patch[p].off /\ patch'[p].chunk = patch[p].chunk /\ patch'[p].pc = pc
    BY DEF Moves, TusInv, NewOffset
  <1> QED
    BY <1>1 DEF Sound

LEMMA KeepsCheckOffset ==
  ASSUME TusInv, NEW p \in Patch, CheckOffset(p)
  PROVE  TusInv'
  <1>1. CASE ~OffsetMatches(p)
    BY <1>1, QuietGo DEF CheckOffset, At, UserIdle, QuietMoves, Pc
  <1>2. CASE OffsetMatches(p)
    <2>1. /\ patch[p].pc = "sent" /\ Go(p, "body") /\ Mark(patch[p].up)
          /\ UNCHANGED <<user, impatient, info, bin, stored, queued, clients>>
      BY <1>2 DEF CheckOffset, At, UserIdle
    <2>2. PICK u \in Upload : u = patch[p].up
      BY <2>1, OpenUpload
    <2>3. Moves(p, "body") /\ patch'[p].creates = patch[p].creates
      BY <2>1, GoMoves DEF TusInv, Pc, Open, Writing
    <2>4. TusType /\ overlap \subseteq overlap' /\ overlap' \subseteq Upload
      BY <2>1, <2>2 DEF TusInv, TusType, Mark
    <2>5. AtServer(p, "body")
      BY <2>1, <2>3, <2>4 DEF AtServer, Open, TusType
    <2>6. TusType'
      BY <2>1, <2>4, <2>5, ServerType DEF TusType
    <2>7. Sound(p)'
      <3>1. stored[p].row # "committed"
        BY <2>1 DEF TusInv, Sound
      <3> QED
        BY <2>1, <2>3, <3>1, SoundMoves DEF Finalising
    <2>8. info[u] = patch[p].off /\ info[u] \notin {None, Length}
      <3>1. patch[p].off \in Nat /\ patch[p].off < Length
        BY <2>1, OpenUpload, Numbers
      <3> QED
        BY <1>2, <2>2, <3>1, Numbers, NoneAssumption DEF OffsetMatches
    <2>9. ASSUME Intact(u)' PROVE Exact(u)'
      <3>1. \A q \in Patch : /\ patch'[q].up = patch[q].up /\ patch'[q].off = patch[q].off
                             /\ patch'[q].pc = (IF q = p THEN "body" ELSE patch[q].pc)
                             /\ NewOffset(q)' = NewOffset(q)
        BY <2>3 DEF Moves, NewOffset
      <3>2. \A q \in Patch : \A pcs : q # p => (Working(q, u, pcs)' <=> Working(q, u, pcs))
        BY <3>1 DEF Working
      <3>3. \A q \in Patch : ~Working(q, u, Writing)
        BY <2>1, <2>2, <2>9 DEF Intact, Mark, Working
      <3>4. Intact(u)
        BY <2>1, <2>4, <2>9, <3>1, <3>2 DEF Intact, Working
      <3>5. Exact(u)
        BY <3>4 DEF TusInv, FilesInv
      <3>6. bin[u] = Prefix(patch[p].off)
        BY <2>8, <3>3, <3>5 DEF Exact
      <3>7. \A q \in Patch : Working(q, u, Writing)' <=> q = p
        BY <2>2, <3>1, <3>2, <3>3 DEF Working, Writing
      <3>8. \A q \in Patch : /\ Working(q, u, {"body"})' => q = p
                             /\ ~Working(q, u, {"offset"})'
                             /\ Working(q, u, Finalising)' => Working(q, u, Finalising)
                             /\ Working(q, u, {"check", "enqueue", "queued"})'
                                  => Working(q, u, {"check", "enqueue", "queued"})
        BY <3>1, <3>2, <3>7 DEF Working, Writing, Finalising
      <3> QED
        BY <2>1, <2>8, <3>1, <3>5, <3>6, <3>7, <3>8 DEF Exact, Prefix
    <2>10. impatient = {} => clients' <= 1
      BY <2>1 DEF TusInv, OnceInv
    <2>11. "body" \notin Finalising \cup {"lost", "scan", "row", "check"}
      BY DEF Finalising
    <2>12. info'[u] # Length
      BY <2>1, <2>8
    <2> QED
      BY <2>2, <2>5, <2>6, <2>7, <2>9, <2>10, <2>11, <2>12, ServerKeeps
  <1> QED
    BY <1>1, <1>2

LEMMA KeepsAppendChunk ==
  ASSUME TusInv, NEW p \in Patch, AppendChunk(p)
  PROVE  TusInv'
  <1>1. PICK u \in Upload : u = patch[p].up
    BY OpenUpload DEF AppendChunk, At
  <1> DEFINE old == IF bin[u] = None THEN << >> ELSE bin[u]
  <1>2. /\ patch[p].pc = "body" /\ Go(p, "offset")
        /\ bin' = [bin EXCEPT ![u] = old \o patch[p].chunk]
        /\ UNCHANGED <<user, impatient, info, stored, queued, clients, overlap>>
    BY <1>1 DEF AppendChunk, At, UserIdle
  <1>3. Moves(p, "offset") /\ patch'[p].creates = patch[p].creates /\ TusType
    BY <1>2, GoMoves DEF TusInv, Pc, Open, Writing
  <1>4. old \in Seq(1..Length) /\ patch[p].chunk \in Seq(1..Length)
        /\ patch[p].off \in 0..Length /\ NewOffset(p) \in 0..Length
    <2>1. patch[p].pc # "unused"
      BY <1>2
    <2>2. bin[u] \in Content
      BY <1>3 DEF TusType
    <2>3. old \in Seq(1..Length)
      <3>1. << >> \in Seq(1..Length)
        OBVIOUS
      <3> QED
        BY <2>2, <3>1 DEF Content
    <2> QED
      BY <2>1, <2>3, OpenUpload
  <1>5. bin' \in [Upload -> Content]
    <2>1. old \o patch[p].chunk \in Seq(1..Length)
      BY <1>4
    <2> HIDE DEF old
    <2> QED
      BY <1>2, <1>3, <2>1 DEF TusType, Content
  <1>6. AtServer(p, "offset")
    BY <1>1, <1>2, <1>3 DEF AtServer, Open, Writing, TusType
  <1>7. TusType'
    BY <1>2, <1>3, <1>5, <1>6, ServerType DEF TusType
  <1>8. Sound(p)'
    <2>1. stored[p].row # "committed"
      BY <1>2 DEF TusInv, Sound
    <2> QED
      BY <1>2, <1>3, <2>1, SoundMoves DEF Finalising
  <1>9. ASSUME Intact(u)' PROVE Exact(u)'
    <2>1. \A q \in Patch : /\ patch'[q].up = patch[q].up /\ patch'[q].off = patch[q].off
                           /\ patch'[q].pc = (IF q = p THEN "offset" ELSE patch[q].pc)
                           /\ NewOffset(q)' = NewOffset(q)
      BY <1>3 DEF Moves, NewOffset
    <2>2. Intact(u) /\ Working(p, u, Writing) /\ Working(p, u, {"body"})
      BY <1>1, <1>2, <1>9, <2>1 DEF Intact, Working, Writing
    <2>3. /\ Exact(u) /\ info[u] = patch[p].off
          /\ \A q \in Patch : Working(q, u, Writing) => q = p
          /\ \A q \in Patch : ~Working(q, u, Finalising)
      BY <2>2, WriterAlone
    <2>4. bin[u] = Prefix(patch[p].off)
      BY <2>2, <2>3 DEF Exact
    <2>5. bin'[u] = Prefix(NewOffset(p))
      <3>1. old = Prefix(patch[p].off)
        BY <1>4, <2>4, Prefixes
      <3>2. patch[p].chunk = [i \in 1..Len(patch[p].chunk) |-> patch[p].off + i]
            /\ patch[p].off + Len(patch[p].chunk) <= Length
        BY <1>2 DEF TusInv, Sound, NewOffset
      <3>3. Prefix(patch[p].off) \o patch[p].chunk = Prefix(NewOffset(p))
        BY <1>4, <3>2, PrefixGrows DEF NewOffset
      <3> HIDE DEF old
      <3> QED
        BY <1>2, <1>3, <3>1, <3>3 DEF TusType
    <2>6. \A q \in Patch : Working(q, u, Writing)' <=> q = p
      BY <1>1, <2>1, <2>3 DEF Working, Writing
    <2>7. \A q \in Patch : /\ ~Working(q, u, {"body"})'
                           /\ Working(q, u, {"offset"})' => q = p
                           /\ ~Working(q, u, Finalising)'
                           /\ ~Working(q, u, {"check", "enqueue", "queued"})'
      BY <2>1, <2>3, <2>6 DEF Working, Writing, Finalising
    <2> QED
      BY <1>2, <2>1, <2>3, <2>5, <2>6, <2>7 DEF Exact, Prefix
  <1>10. impatient = {} => clients' <= 1
    BY <1>2 DEF TusInv, OnceInv
  <1>11. "offset" \notin Finalising \cup {"lost", "scan", "row", "check"}
         /\ patch[p].pc \notin Finalising
    BY <1>2 DEF Finalising
  <1>12. info' = info
    BY <1>2
  <1> QED
    BY <1>1, <1>6, <1>7, <1>8, <1>9, <1>10, <1>11, <1>12, ServerKeeps

LEMMA KeepsWriteOffset ==
  ASSUME TusInv, NEW p \in Patch, WriteOffset(p)
  PROVE  TusInv'
  <1>1. PICK u \in Upload : u = patch[p].up
    BY OpenUpload DEF WriteOffset, At
  <1>2. PICK pc \in {"client", "ok"} : (pc = "client" <=> NewOffset(p) = Length) /\ Go(p, pc)
    BY DEF WriteOffset
  <1>3. /\ patch[p].pc = "offset" /\ info' = [info EXCEPT ![u] = NewOffset(p)]
        /\ UNCHANGED <<user, impatient, bin, stored, queued, clients, overlap>>
    BY <1>1 DEF WriteOffset, At, UserIdle
  <1>4. Moves(p, pc) /\ patch'[p].creates = patch[p].creates /\ TusType
    BY <1>2, GoMoves DEF TusInv, Pc, Open, Finalising
  <1>5. NewOffset(p) \in 0..Length /\ NewOffset(p) # None /\ Length # None
    BY <1>3, OpenUpload, Numbers, NoneAssumption
  <1>6. info' \in [Upload -> 0..Length \cup {None}] /\ info'[u] = NewOffset(p)
    <2> HIDE DEF NewOffset
    <2> QED
      BY <1>3, <1>4, <1>5 DEF TusType
  <1>7. AtServer(p, pc)
    BY <1>1, <1>2, <1>3, <1>4 DEF AtServer, Open, Writing, TusType
  <1>8. TusType'
    BY <1>3, <1>4, <1>6, <1>7, ServerType DEF TusType
  <1>9. Sound(p)'
    <2>1. Sound(p) /\ NewOffset(p)' = NewOffset(p) /\ patch'[p].up = patch[p].up
          /\ patch'[p].off = patch[p].off /\ patch'[p].chunk = patch[p].chunk /\ patch'[p].pc = pc
      BY <1>4 DEF Moves, TusInv, NewOffset
    <2> QED
      BY <1>2, <1>3, <2>1 DEF Sound, Finalising
  <1>10. ASSUME Intact(u)' PROVE Exact(u)'
    <2>1. \A q \in Patch : /\ patch'[q].up = patch[q].up /\ patch'[q].off = patch[q].off
                           /\ patch'[q].pc = (IF q = p THEN pc ELSE patch[q].pc)
                           /\ NewOffset(q)' = NewOffset(q)
      BY <1>4 DEF Moves, NewOffset
    <2>2. Intact(u) /\ Working(p, u, Writing) /\ Working(p, u, {"offset"})
      BY <1>1, <1>3, <1>10, <2>1 DEF Intact, Working, Writing
    <2>3. /\ Exact(u)
          /\ \A q \in Patch : Working(q, u, Writing) => q = p
          /\ \A q \in Patch : ~Working(q, u, Finalising)
      BY <2>2, WriterAlone
    <2>4. bin'[u] = Prefix(NewOffset(p))
      BY <1>3, <2>2, <2>3 DEF Exact
    <2>5. \A q \in Patch : ~Working(q, u, Writing)'
      BY <1>2, <2>1, <2>3 DEF Working, Writing
    <2>6. \A q \in Patch : Working(q, u, Finalising)' => NewOffset(p) = Length
      BY <1>2, <2>1, <2>3 DEF Working, Finalising
    <2>7. \A q \in Patch : ~Working(q, u, {"body"})' /\ ~Working(q, u, {"offset"})'
                           /\ ~Working(q, u, {"check", "enqueue", "queued"})'
      BY <1>2, <2>1, <2>3, <2>5 DEF Working, Writing, Finalising
    <2>8. NewOffset(p) = Length => bin'[u] = File
      BY <2>4, Prefixes
    <2> HIDE DEF NewOffset
    <2> QED
      BY <1>3, <1>5, <1>6, <2>1, <2>3, <2>4, <2>5, <2>6, <2>7, <2>8 DEF Exact, Prefix
  <1>11. impatient = {} => clients' <= 1
    BY <1>3 DEF TusInv, OnceInv
  <1>12. pc \in Finalising \cup {"lost"} <=> NewOffset(p) = Length
    BY <1>2 DEF Finalising
  <1>13. pc \in Finalising <=> NewOffset(p) = Length
    BY <1>2 DEF Finalising
  <1>14. pc \notin {"scan", "row", "check"}
    BY <1>2
  <1> QED
    BY <1>1, <1>6, <1>7, <1>8, <1>9, <1>10, <1>11, <1>12, <1>13, <1>14, ServerKeeps

-----------------------------------------------------------------------------
(* The finalisation: the failures, which all clean up; the renaming and    *)
(* the end.                                                                *)

LEMMA CleanKeeps ==
  ASSUME TusInv, NEW p \in Patch, Clean(p), patch[p].pc \in {"client", "scan", "row", "check", "enqueue"},
         UNCHANGED <<user, impatient, queued, overlap>>,
         stored' \in [Patch -> [row : {"none", "flushed", "committed"}, file : Content]],
         \A q \in Patch \ {p} : stored'[q] = stored[q],
         IF patch[p].pc = "check" THEN stored'[p].row = "none" ELSE stored'[p] = stored[p],
         clients' \in Nat, impatient = {} => clients' <= 1
  PROVE  TusInv'
  <1>1. PICK u \in Upload : u = patch[p].up
    BY OpenUpload
  <1>2. Go(p, "error") /\ info' = [info EXCEPT ![u] = None] /\ bin' = [bin EXCEPT ![u] = None]
    BY <1>1 DEF Clean
  <1>3. Moves(p, "error") /\ TusType /\ Sound(p)
    BY <1>2, GoMoves DEF TusInv, Pc
  <1>4. /\ info' \in [Upload -> 0..Length \cup {None}] /\ info'[u] = None
        /\ bin' \in [Upload -> Content] /\ bin'[u] = None
    BY <1>2, <1>3 DEF TusType, Content
  <1>5. AtServer(p, "error")
    BY <1>1, <1>2, <1>3 DEF AtServer, Open, Finalising, TusType
  <1>6. TusType'
    BY <1>4, <1>5, <1>3, ServerType
  <1>7. Sound(p)'
    <2>1. NewOffset(p)' = NewOffset(p) /\ patch'[p].up = patch[p].up
          /\ patch'[p].off = patch[p].off /\ patch'[p].chunk = patch[p].chunk /\ patch'[p].pc = "error"
      BY <1>3 DEF Moves, NewOffset
    <2> QED
      BY <1>3, <2>1 DEF Sound, Finalising
  <1>8. ASSUME Intact(u)' PROVE Exact(u)'
    <2>1. \A q \in Patch : /\ patch'[q].up = patch[q].up
                           /\ patch'[q].pc = (IF q = p THEN "error" ELSE patch[q].pc)
      BY <1>3 DEF Moves
    <2>2. Intact(u) /\ Working(p, u, Finalising)
      BY <1>1, <1>8, <2>1 DEF Intact, Working, Finalising
    <2>3. Exact(u) /\ \A q \in Patch : ~Working(q, u, Writing)
      BY <2>2, FinaliserAlone
    <2>4. \A q \in Patch : ~Working(q, u, Writing)'
      BY <2>1, <2>3 DEF Working, Writing
    <2>5. \A q \in Patch : ~Working(q, u, {"body"})' /\ ~Working(q, u, {"offset"})'
      BY <2>4 DEF Working, Writing
    <2>6. \A q \in Patch : patch'[q].up = u /\ stored'[q].row # "none" => stored'[q].file = File
      BY <2>1, <2>3 DEF Exact
    <2> QED
      BY <1>4, <2>4, <2>5, <2>6, Numbers, NoneAssumption DEF Exact
  <1>9. "error" \notin Finalising \cup {"lost", "scan", "row", "check"} /\ info'[u] # Length
    BY <1>4, Numbers, NoneAssumption DEF Finalising
  <1> QED
    BY <1>1, <1>5, <1>6, <1>7, <1>8, <1>9, ServerKeeps

(* Nothing is stored or rolled back.                                       *)
LEMMA CleanOnly ==
  ASSUME TusInv, NEW p \in Patch, Clean(p), patch[p].pc \in {"client", "scan", "row", "enqueue"},
         UNCHANGED <<user, impatient, stored, queued, clients, overlap>>
  PROVE  TusInv'
  <1>1. clients' \in Nat /\ (impatient = {} => clients' <= 1)
        /\ stored' \in [Patch -> [row : {"none", "flushed", "committed"}, file : Content]]
    BY DEF TusInv, TusType, OnceInv
  <1> QED
    BY <1>1, CleanKeeps

LEMMA KeepsTwoClients ==
  ASSUME TusInv, NEW p \in Patch, TwoClients(p)
  PROVE  TusInv'
  BY CleanOnly DEF TwoClients, At, UserIdle
LEMMA KeepsFileMissing ==
  ASSUME TusInv, NEW p \in Patch, FileMissing(p)
  PROVE  TusInv'
  BY CleanOnly DEF FileMissing, UserIdle
LEMMA KeepsScanRefuses ==
  ASSUME TusInv, NEW p \in Patch, ScanRefuses(p)
  PROVE  TusInv'
  BY CleanOnly DEF ScanRefuses, At, UserIdle
LEMMA KeepsBrokerDown ==
  ASSUME TusInv, NEW p \in Patch, BrokerDown(p)
  PROVE  TusInv'
  BY CleanOnly DEF BrokerDown, At, UserIdle

LEMMA KeepsPasswordRefused ==
  ASSUME TusInv, NEW p \in Patch, PasswordRefused(p)
  PROVE  TusInv'
  <1>1. /\ patch[p].pc = "check" /\ Row(p, "none", None) /\ CommitClient(p) /\ Clean(p)
        /\ UNCHANGED <<user, impatient, queued, overlap>>
    BY DEF PasswordRefused, At, UserIdle
  <1>2. TusType /\ None \in Content
    BY DEF TusInv, Content
  <1>3. /\ stored' \in [Patch -> [row : {"none", "flushed", "committed"}, file : Content]]
        /\ stored'[p].row = "none" /\ \A q \in Patch \ {p} : stored'[q] = stored[q]
    BY <1>1, <1>2, StoredType
  <1>4. clients' \in Nat /\ (impatient = {} => clients' <= 1)
    BY <1>1, <1>2 DEF CommitClient, TusInv, TusType, OnceInv
  <1> QED
    BY <1>1, <1>3, <1>4, CleanKeeps

LEMMA KeepsCommitFails ==
  ASSUME TusInv, NEW p \in Patch, CommitFails(p)
  PROVE  TusInv'
  <1>1. /\ patch[p].pc = "check" /\ Row(p, "none", stored[p].file) /\ Clean(p)
        /\ UNCHANGED <<user, impatient, queued, clients, overlap>>
    BY DEF CommitFails, At, UserIdle
  <1>2. TusType /\ stored[p].file \in Content
    BY DEF TusInv, TusType
  <1>3. /\ stored' \in [Patch -> [row : {"none", "flushed", "committed"}, file : Content]]
        /\ stored'[p].row = "none" /\ \A q \in Patch \ {p} : stored'[q] = stored[q]
    BY <1>1, <1>2, StoredType
  <1>4. clients' \in Nat /\ (impatient = {} => clients' <= 1)
    BY <1>1, <1>2 DEF TusInv, TusType, OnceInv
  <1> QED
    BY <1>1, <1>3, <1>4, CleanKeeps

LEMMA KeepsRename ==
  ASSUME TusInv, NEW p \in Patch, Rename(p)
  PROVE  TusInv'
  <1>1. PICK u \in Upload : u = patch[p].up
    BY OpenUpload DEF Rename, At
  <1>2. /\ patch[p].pc = "row" /\ bin[u] # None /\ Row(p, "flushed", bin[u])
        /\ bin' = [bin EXCEPT ![u] = None] /\ Go(p, "check")
        /\ UNCHANGED <<user, impatient, info, queued, clients, overlap>>
    BY <1>1 DEF Rename, At, UserIdle
  <1>3. Moves(p, "check") /\ patch'[p].creates = patch[p].creates /\ TusType /\ Sound(p)
    BY <1>2, GoMoves DEF TusInv, Pc, Open, Finalising
  <1>4. bin' \in [Upload -> Content] /\ bin'[u] = None /\ bin[u] \in Content
    BY <1>2, <1>3 DEF TusType, Content
  <1>5. /\ stored' \in [Patch -> [row : {"none", "flushed", "committed"}, file : Content]]
        /\ stored'[p].row = "flushed" /\ stored'[p].file = bin[u]
        /\ \A q \in Patch \ {p} : stored'[q] = stored[q]
    BY <1>2, <1>3, <1>4, StoredType
  <1>6. AtServer(p, "check")
    BY <1>1, <1>2, <1>3, <1>5 DEF AtServer, Open, Finalising, TusType
  <1>7. TusType'
    BY <1>2, <1>3, <1>4, <1>5, <1>6, ServerType DEF TusType
  <1>8. Sound(p)'
    <2>1. NewOffset(p)' = NewOffset(p) /\ patch'[p].up = patch[p].up
          /\ patch'[p].off = patch[p].off /\ patch'[p].chunk = patch[p].chunk /\ patch'[p].pc = "check"
      BY <1>3 DEF Moves, NewOffset
    <2> QED
      BY <1>2, <1>3, <1>5, <2>1 DEF Sound, Finalising
  <1>9. ASSUME Intact(u)' PROVE Exact(u)'
    <2>1. \A q \in Patch : /\ patch'[q].up = patch[q].up
                           /\ patch'[q].pc = (IF q = p THEN "check" ELSE patch[q].pc)
      BY <1>3 DEF Moves
    <2>2. Intact(u) /\ Working(p, u, Finalising)
      BY <1>1, <1>2, <1>9, <2>1 DEF Intact, Working, Finalising
    <2>3. Exact(u) /\ \A q \in Patch : ~Working(q, u, Writing)
      BY <2>2, FinaliserAlone
    <2>4. info[u] = Length /\ bin[u] = File
      BY <1>2, <2>2, <2>3 DEF Exact
    <2>5. \A q \in Patch : ~Working(q, u, Writing)'
      BY <2>1, <2>3 DEF Working, Writing
    <2>6. \A q \in Patch : ~Working(q, u, {"body"})' /\ ~Working(q, u, {"offset"})'
      BY <2>5 DEF Working, Writing
    <2>7. \A q \in Patch : patch'[q].up = u /\ stored'[q].row # "none" => stored'[q].file = File
      BY <1>5, <2>1, <2>3, <2>4 DEF Exact
    <2> QED
      BY <1>2, <1>4, <2>4, <2>5, <2>6, <2>7, Numbers, NoneAssumption DEF Exact, File
  <1>10. "check" \in Finalising /\ patch[p].pc \in Finalising
    BY <1>2 DEF Finalising
  <1>11. impatient = {} => clients' <= 1 /\ (patch'[p].creates => clients' = 0)
    BY <1>2, <1>3 DEF TusInv, OnceInv
  <1>12. u \notin impatient => info'[u] = Length
    BY <1>1, <1>2, <1>10, FinalisingIsLong
  <1> QED
    BY <1>1, <1>6, <1>7, <1>8, <1>9, <1>10, <1>11, <1>12, ServerKeeps

LEMMA KeepsFinish ==
  ASSUME TusInv, NEW p \in Patch, Finish(p)
  PROVE  TusInv'
  <1>1. PICK u \in Upload : u = patch[p].up
    BY OpenUpload DEF Finish, At
  <1>2. /\ patch[p].pc = "queued" /\ info' = [info EXCEPT ![u] = None] /\ Go(p, "ok")
        /\ UNCHANGED <<user, impatient, bin, stored, queued, clients, overlap>>
    BY <1>1 DEF Finish, At, UserIdle
  <1>3. Moves(p, "ok") /\ TusType /\ Sound(p)
    BY <1>2, GoMoves DEF TusInv, Pc
  <1>4. info' \in [Upload -> 0..Length \cup {None}] /\ info'[u] = None
    BY <1>2, <1>3 DEF TusType
  <1>5. AtServer(p, "ok")
    BY <1>1, <1>2, <1>3 DEF AtServer, Open, Finalising, TusType
  <1>6. TusType'
    BY <1>2, <1>3, <1>4, <1>5, ServerType DEF TusType
  <1>7. Sound(p)'
    <2>1. NewOffset(p)' = NewOffset(p) /\ patch'[p].up = patch[p].up
          /\ patch'[p].off = patch[p].off /\ patch'[p].chunk = patch[p].chunk /\ patch'[p].pc = "ok"
      BY <1>3 DEF Moves, NewOffset
    <2> QED
      BY <1>2, <1>3, <2>1 DEF Sound, Finalising
  <1>8. ASSUME Intact(u)' PROVE Exact(u)'
    <2>1. \A q \in Patch : /\ patch'[q].up = patch[q].up
                           /\ patch'[q].pc = (IF q = p THEN "ok" ELSE patch[q].pc)
      BY <1>3 DEF Moves
    <2>2. Intact(u) /\ Working(p, u, Finalising) /\ Working(p, u, {"check", "enqueue", "queued"})
      BY <1>1, <1>2, <1>8, <2>1 DEF Intact, Working, Finalising
    <2>3. Exact(u) /\ \A q \in Patch : ~Working(q, u, Writing)
      BY <2>2, FinaliserAlone
    <2>4. bin[u] = None
      BY <2>2, <2>3 DEF Exact
    <2>5. \A q \in Patch : ~Working(q, u, Writing)'
      BY <2>1, <2>3 DEF Working, Writing
    <2>6. \A q \in Patch : ~Working(q, u, {"body"})' /\ ~Working(q, u, {"offset"})'
      BY <2>5 DEF Working, Writing
    <2>7. \A q \in Patch : patch'[q].up = u /\ stored'[q].row # "none" => stored'[q].file = File
      BY <1>2, <2>1, <2>3 DEF Exact
    <2> QED
      BY <1>2, <1>4, <2>4, <2>5, <2>6, <2>7, Numbers, NoneAssumption DEF Exact
  <1>9. "ok" \notin Finalising \cup {"lost", "scan", "row", "check"} /\ info'[u] # Length
    BY <1>4, Numbers, NoneAssumption DEF Finalising
  <1>10. impatient = {} => clients' <= 1
    BY <1>2 DEF TusInv, OnceInv
  <1> QED
    BY <1>1, <1>5, <1>6, <1>7, <1>8, <1>9, <1>10, ServerKeeps

-----------------------------------------------------------------------------
(* The client.                                                             *)

(* While it waits for nothing, nothing it cares about is open.             *)
LEMMA NothingOpen ==
  ASSUME TusInv, NEW w \in Upload \ impatient, user.state # "wait" \/ patch[user.on].pc \notin Open
  PROVE  Serial(w) /\ \A q \in Patch : ~Working(q, w, Open)
  <1>1. Serial(w)
    BY DEF TusInv, SerialInv
  <1> QED
    BY <1>1 DEF Serial, Working

UserOnly(new) ==
  /\ new \in [state : {"new", "send", "wait", "head", "done", "cancelled"},
              up : 0..Cardinality(Upload), off : 0..Length, on : 0..Cardinality(Patch)]
  /\ user' = new /\ new.up = user.up /\ new.on = user.on
  /\ UNCHANGED <<info, bin, patch, stored, queued, clients, overlap>>

LEMMA UserKeeps ==
  ASSUME TusInv, NEW new, UserOnly(new), impatient' \subseteq Upload,
         new.state # "new" => new.up \in Upload,
         new.state = "send" => new.off < Length,
         new.state \in {"wait", "head"} =>
            new.on \in Patch /\ patch[new.on].pc # "unused" /\ patch[new.on].up = new.up,
         new.state = "wait" => patch[new.on].off = new.off,
         SerialInv', OnceInv'
  PROVE  TusInv'
  <1>1. TusType'
    BY DEF TusInv, TusType, UserOnly
  <1>2. \A p \in Patch : Sound(p)'
    BY DEF TusInv, UserOnly, Sound, NewOffset
  <1>3. \A u \in Upload : Intact(u)' => Intact(u)
    BY DEF UserOnly, Intact, Working
  <1>4. ASSUME NEW u \in Upload, Exact(u) PROVE Exact(u)'
    <2>1. \A q \in Patch : \A pcs : Working(q, u, pcs)' <=> Working(q, u, pcs)
      BY DEF Working, UserOnly
    <2> QED
      BY <1>4, <2>1 DEF Exact, UserOnly, NewOffset, Prefix, File
  <1>5. FilesInv'
    BY <1>3, <1>4 DEF FilesInv, TusInv
  <1> QED
    BY <1>1, <1>2, <1>5 DEF TusInv

LEMMA KeepsReceive ==
  ASSUME TusInv, Receive
  PROVE  TusInv'
  <1> DEFINE p == user.on
             state == IF patch[p].pc = "error" THEN "head"
                      ELSE IF NewOffset(p) = Length THEN "done" ELSE "send"
             off == IF patch[p].pc = "error" THEN user.off ELSE NewOffset(p)
             new == [user EXCEPT !.state = state, !.off = off]
  <1>1. /\ user.state = "wait" /\ patch[p].pc \in {"ok", "error"}
        /\ user' = IF patch[p].pc = "error" THEN [user EXCEPT !.state = "head"]
                   ELSE [user EXCEPT !.state = IF user.off + Len(patch[p].chunk) = Length THEN "done" ELSE "send",
                                     !.off = user.off + Len(patch[p].chunk)]
        /\ UNCHANGED <<impatient, info, bin, patch, stored, queued, clients, overlap>>
    BY DEF Receive, ServerIdle
  <1>2. /\ TusType /\ p \in Patch /\ patch[p].off = user.off /\ user.up \in Upload
        /\ patch[p].up = user.up /\ Sound(p)
    BY <1>1 DEF TusInv, TusType
  <1>3. user.off + Len(patch[p].chunk) = NewOffset(p)
    BY <1>2 DEF NewOffset
  <1>4. NewOffset(p) \in 0..Length /\ Length \in Nat
    BY <1>1, <1>2, OpenUpload, Numbers
  <1>5. off \in 0..Length /\ state \in {"head", "send", "done"}
    BY <1>2, <1>4 DEF TusType
  <1>6. user' = new
    <2>1. CASE patch[p].pc = "error"
      BY <1>1, <1>2, <2>1 DEF TusType
    <2>2. CASE patch[p].pc # "error"
      BY <1>1, <1>3, <2>2
    <2> QED
      BY <2>1, <2>2
  <1>7. /\ new \in [state : {"new", "send", "wait", "head", "done", "cancelled"},
                    up : 0..Cardinality(Upload), off : 0..Length, on : 0..Cardinality(Patch)]
        /\ new.state = state /\ new.up = user.up /\ new.on = p /\ new.off = off
    <2> HIDE DEF state, off
    <2> QED
      BY <1>2, <1>5 DEF TusType
  <1>8. UserOnly(new)
    BY <1>1, <1>6, <1>7 DEF UserOnly
  <1>9. state = "send" => off < Length
    BY <1>4, <1>5
  <1>10. state = "head" <=> patch[p].pc = "error"
    OBVIOUS
  <1>11. state = "done" => p \in queued
    BY <1>1, <1>2 DEF Sound
  <1>12. SerialInv'
    <2> SUFFICES ASSUME NEW w \in Upload \ impatient PROVE Serial(w)'
      BY <1>1 DEF SerialInv
    <2>1. Serial(w) /\ \A q \in Patch : ~Working(q, w, Open)
      BY <1>1, NothingOpen DEF Open, Writing, Finalising
    <2>2. \A q \in Patch : \A pcs : Working(q, w, pcs)' <=> Working(q, w, pcs)
      BY <1>1 DEF Working
    <2>3. user'.up = w /\ user'.state = "done" => patch[p].up = w /\ p \in queued
      BY <1>2, <1>6, <1>7, <1>11
    <2>4. user'.on = p /\ (user'.state \in {"wait", "head"} => patch[p].pc = "error")
      BY <1>5, <1>6, <1>7, <1>10
    <2> HIDE DEF p, state, off, new
    <2>5. p \in Patch /\ patch' = patch /\ info' = info /\ queued' = queued
      BY <1>1, <1>2
    <2>6. \A q \in Patch : ~Working(q, w, Open)'
      BY <2>1, <2>2
    <2>7. info'[w] = Length => \E q \in Patch : Working(q, w, Finalising \cup {"lost"})'
      BY <2>1, <2>2, <2>5 DEF Serial
    <2>8. patch'[user'.on].pc \notin Finalising \cup {"lost"} \/ user'.state \notin {"wait", "head"}
      BY <2>4, <2>5 DEF Finalising
    <2> QED
      BY <2>3, <2>5, <2>6, <2>7, <2>8 DEF Serial
  <1>13. OnceInv'
    <2> SUFFICES ASSUME impatient = {} PROVE OnceInv'
      BY <1>1 DEF OnceInv
    <2>1. Once => \A q \in queued : q = p
      BY DEF Once
    <2>2. Once /\ queued # {} => state = "done"
      <3>1. Once /\ queued # {} => p \in queued
        BY <2>1
      <3> QED
        BY <1>1, <1>2, <3>1 DEF Sound
    <2>3. user'.on = p /\ user'.state = state
      BY <1>6, <1>7
    <2> HIDE DEF p, state, off, new
    <2>4. LastAnswerLost => LastAnswerLost'
      BY <1>1, LostForGood
    <2>5. Once => Once'
      BY <1>1, <2>1, <2>2, <2>3 DEF Once
    <2> QED
      BY <1>1, <2>4, <2>5 DEF OnceInv, TusInv
  <1>14. impatient' \subseteq Upload
    BY <1>1, <1>2 DEF TusType
  <1>15. /\ new.state # "new" => new.up \in Upload
         /\ new.state = "send" => new.off < Length
         /\ new.state \in {"wait", "head"} =>
              new.on \in Patch /\ patch[new.on].pc # "unused" /\ patch[new.on].up = new.up
         /\ new.state = "wait" => patch[new.on].off = new.off
    BY <1>1, <1>2, <1>5, <1>7, <1>9
  <1> HIDE DEF new, state, off, p
  <1> QED
    BY <1>8, <1>12, <1>13, <1>14, <1>15, UserKeeps

(* The client turns to something else.                                     *)
LEMMA TurnKeeps ==
  ASSUME TusInv, NEW state \in {"new", "send", "head", "done"}, NEW off \in 0..Length,
         user' = [user EXCEPT !.state = state, !.off = off], user.state \in {"wait", "head"},
         UNCHANGED <<info, bin, patch, stored, queued, clients, overlap>>,
         impatient' \subseteq Upload, state = "send" => off < Length,
         SerialInv', OnceInv'
  PROVE  TusInv'
  <1> DEFINE new == [user EXCEPT !.state = state, !.off = off]
  <1>1. TusType
    BY DEF TusInv
  <1>2. /\ new \in [state : {"new", "send", "wait", "head", "done", "cancelled"},
                    up : 0..Cardinality(Upload), off : 0..Length, on : 0..Cardinality(Patch)]
        /\ new.state = state /\ new.up = user.up /\ new.on = user.on /\ new.off = off
    BY <1>1 DEF TusType
  <1>3. UserOnly(new)
    BY <1>2 DEF UserOnly
  <1>4. user.up \in Upload /\ user.on \in Patch /\ patch[user.on].pc # "unused"
        /\ patch[user.on].up = user.up
    BY <1>1 DEF TusType
  <1> HIDE DEF new
  <1> QED
    BY <1>2, <1>3, <1>4, UserKeeps

LEMMA TurnUser ==
  ASSUME TusType, NEW state, Turn(state)
  PROVE  /\ user' = [user EXCEPT !.state = state, !.off = user.off] /\ user.off \in 0..Length
         /\ user'.state = state /\ user'.up = user.up /\ user'.on = user.on
  BY DEF TusType, Turn

LEMMA KeepsGiveUp ==
  ASSUME TusInv, GiveUp
  PROVE  TusInv'
  <1>1. /\ user.state = "wait" /\ Turn("head") /\ impatient' = impatient \cup {user.up}
        /\ UNCHANGED <<info, bin, patch, stored, queued, clients, overlap>>
    BY DEF GiveUp, ServerIdle
  <1>2. TusType /\ user.up \in Upload /\ impatient' \subseteq Upload
    BY <1>1 DEF TusInv, TusType
  <1>3. /\ user' = [user EXCEPT !.state = "head", !.off = user.off] /\ user.off \in 0..Length
        /\ user'.state = "head" /\ user'.up = user.up /\ user'.on = user.on
    BY <1>1, <1>2, TurnUser
  <1>4. SerialInv'
    <2> SUFFICES ASSUME NEW w \in Upload, w \notin impatient, w # user.up PROVE Serial(w)'
      BY <1>1 DEF SerialInv
    <2>1. Serial(w)
      BY DEF TusInv, SerialInv
    <2>2. \A q \in Patch : \A pcs : Working(q, w, pcs)' <=> Working(q, w, pcs)
      BY <1>1 DEF Working
    <2>3. \A q \in Patch : ~Working(q, w, Open)'
      BY <2>1, <2>2 DEF Serial
    <2>4. info'[w] = Length => \E q \in Patch : Working(q, w, Finalising \cup {"lost"})'
      BY <1>1, <2>1, <2>2 DEF Serial
    <2> QED
      BY <1>3, <2>3, <2>4 DEF Serial
  <1>5. OnceInv'
    BY <1>1 DEF OnceInv
  <1> QED
    BY <1>1, <1>2, <1>3, <1>4, <1>5, TurnKeeps

LEMMA KeepsConnectionLost ==
  ASSUME TusInv, ConnectionLost
  PROVE  TusInv'
  <1>1. /\ user.state = "wait" /\ patch[user.on].pc \in Gone /\ Turn("head")
        /\ UNCHANGED <<impatient, info, bin, patch, stored, queued, clients, overlap>>
    BY DEF ConnectionLost, ServerIdle
  <1>2. TusType /\ user.up \in Upload /\ impatient' \subseteq Upload /\ user.on \in Patch
    BY <1>1 DEF TusInv, TusType
  <1>3. /\ user' = [user EXCEPT !.state = "head", !.off = user.off] /\ user.off \in 0..Length
        /\ user'.state = "head" /\ user'.up = user.up /\ user'.on = user.on
    BY <1>1, <1>2, TurnUser
  <1>4. SerialInv'
    <2> SUFFICES ASSUME NEW w \in Upload \ impatient PROVE Serial(w)'
      BY <1>1 DEF SerialInv
    <2>1. Serial(w) /\ \A q \in Patch : ~Working(q, w, Open)
      BY <1>1, NothingOpen DEF Open, Writing, Finalising, Gone
    <2>2. \A q \in Patch : \A pcs : Working(q, w, pcs)' <=> Working(q, w, pcs)
      BY <1>1 DEF Working
    <2>3. \A q \in Patch : ~Working(q, w, Open)'
      BY <2>1, <2>2
    <2>4. info'[w] = Length => \E q \in Patch : Working(q, w, Finalising \cup {"lost"})'
      BY <1>1, <2>1, <2>2 DEF Serial
    <2>5. user'.up = w /\ user'.state \in {"wait", "head"}
            /\ patch'[user'.on].pc \in Finalising \cup {"lost"} => info'[w] = Length
      BY <1>1, <1>3, <2>1 DEF Serial
    <2> QED
      BY <1>3, <2>3, <2>4, <2>5 DEF Serial
  <1>5. OnceInv'
    <2> SUFFICES ASSUME impatient = {} PROVE OnceInv'
      BY <1>1 DEF OnceInv
    <2>1. LastAnswerLost => LastAnswerLost'
      BY <1>1, LostForGood
    <2>2. CASE patch[user.on].pc = "unsent" /\ user.on \in queued
      BY <2>1, <2>2, <1>1 DEF LastAnswerLost, OnceInv, TusInv
    <2>3. CASE ~(patch[user.on].pc = "unsent" /\ user.on \in queued)
      <3>1. Once /\ queued # {} => user.on \in queued
        BY DEF Once
      <3>2. user.on \in queued => patch[user.on].pc \in {"queued", "ok", "lost", "unsent"}
        BY <1>2 DEF TusInv, Sound
      <3>3. Once /\ queued # {} => patch[user.on].pc = "lost"
        BY <1>1, <2>3, <3>1, <3>2 DEF Gone
      <3>4. Once => Once'
        BY <1>1, <1>3, <3>3 DEF Once
      <3> QED
        BY <1>1, <2>1, <3>4 DEF OnceInv, TusInv
    <2> QED
      BY <2>2, <2>3
  <1> QED
    BY <1>1, <1>2, <1>3, <1>4, <1>5, TurnKeeps

LEMMA KeepsHeadOffset ==
  ASSUME TusInv, HeadOffset
  PROVE  TusInv'
  <1> DEFINE seen == info[user.up]
             state == IF seen = None THEN "new" ELSE IF seen = Length THEN "done" ELSE "send"
             off == IF seen = None THEN user.off ELSE seen
  <1>1. /\ user.state = "head"
        /\ UNCHANGED <<impatient, info, bin, patch, stored, queued, clients, overlap>>
        /\ user' = IF seen = None THEN [user EXCEPT !.state = "new"]
                   ELSE [user EXCEPT !.state = IF seen = Length THEN "done" ELSE "send", !.off = seen]
    BY DEF HeadOffset, ServerIdle
  <1>2. TusType /\ user.up \in Upload /\ impatient' \subseteq Upload /\ user.on \in Patch
    BY <1>1 DEF TusInv, TusType
  <1>3. user' = [user EXCEPT !.state = state, !.off = off]
    BY <1>1, <1>2 DEF TusType
  <1>4. /\ off \in 0..Length /\ state \in {"new", "send", "head", "done"}
        /\ state = "send" => off < Length
    <2>1. seen \in 0..Length \cup {None} /\ user.off \in 0..Length
      BY <1>2 DEF TusType
    <2> HIDE DEF seen
    <2>2. off \in 0..Length
      BY <2>1
    <2>3. state \in {"new", "send", "head", "done"}
      OBVIOUS
    <2>4. state = "send" => off # Length
      OBVIOUS
    <2> HIDE DEF off, state
    <2> QED
      BY <2>2, <2>3, <2>4, Numbers
  <1>5. user'.state = state /\ user'.up = user.up /\ user'.on = user.on
    <2> HIDE DEF state, off
    <2> QED
      BY <1>2, <1>3 DEF TusType
  <1>6. SerialInv'
    <2> SUFFICES ASSUME NEW w \in Upload \ impatient PROVE Serial(w)'
      BY <1>1 DEF SerialInv
    <2>1. Serial(w) /\ \A q \in Patch : ~Working(q, w, Open)
      BY <1>1, NothingOpen
    <2>2. \A q \in Patch : \A pcs : Working(q, w, pcs)' <=> Working(q, w, pcs)
      BY <1>1 DEF Working
    <2>3. \A q \in Patch : ~Working(q, w, Open)'
      BY <2>1, <2>2
    <2>4. info'[w] = Length => \E q \in Patch : Working(q, w, Finalising \cup {"lost"})'
      BY <1>1, <2>1, <2>2 DEF Serial
    <2>5. user'.up = w /\ user'.state = "done" =>
            \E q \in Patch : patch'[q].up = w /\ (q \in queued' \/ patch'[q].pc = "lost")
      <3> SUFFICES ASSUME user.up = w, state = "done"
                   PROVE  \E q \in Patch : patch[q].up = w /\ patch[q].pc = "lost"
        BY <1>1, <1>5
      <3>1. info[w] = Length
        OBVIOUS
      <3>2. PICK q \in Patch : Working(q, w, Finalising \cup {"lost"})
        BY <2>1, <3>1 DEF Serial
      <3> QED
        BY <2>1, <3>2 DEF Working, Open
    <2>6. user'.state \notin {"wait", "head"}
      BY <1>5
    <2> QED
      BY <1>1, <2>3, <2>4, <2>5, <2>6 DEF Serial
  <1>7. OnceInv'
    <2> SUFFICES ASSUME impatient = {} PROVE OnceInv'
      BY <1>1 DEF OnceInv
    <2>1. Once /\ queued # {} => state = "done"
      <3> SUFFICES ASSUME Once, queued # {} PROVE info[user.up] = Length /\ info[user.up] # None
        OBVIOUS
      <3>1. patch[user.on].pc = "lost"
        BY <1>1 DEF Once
      <3>2. Serial(user.up)
        BY <1>2 DEF TusInv, SerialInv
      <3>3. info[user.up] = Length
        BY <1>1, <3>1, <3>2 DEF Serial
      <3> QED
        BY <3>3, Numbers, NoneAssumption
    <2> HIDE DEF state, off
    <2>2. LastAnswerLost => LastAnswerLost'
      BY <1>1, LostForGood
    <2>3. Once => Once'
      BY <1>1, <1>5, <2>1 DEF Once
    <2> QED
      BY <1>1, <2>2, <2>3 DEF OnceInv, TusInv
  <1> HIDE DEF state, off
  <1> QED
    BY <1>1, <1>2, <1>3, <1>4, <1>6, <1>7, TurnKeeps

LEMMA KeepsCreate ==
  ASSUME TusInv, Create
  PROVE  TusInv'
  <1>0. PICK u \in Upload : u = user.up + 1
    BY DEF Create
  <1>1. /\ user.state = "new"
        /\ info' = [info EXCEPT ![u] = 0] /\ bin' = [bin EXCEPT ![u] = << >>]
        /\ user' = [user EXCEPT !.state = "send", !.up = u, !.off = 0]
        /\ UNCHANGED <<patch, stored, queued, clients, impatient, overlap>>
    BY <1>0 DEF Create
  <1>2. TusType /\ user.up \in Nat
    BY Numbers DEF TusInv, TusType
  <1>3. /\ user'.state = "send" /\ user'.up = u /\ user'.off = 0 /\ user'.on = user.on
        /\ user' \in [state : {"new", "send", "wait", "head", "done", "cancelled"},
                      up : 0..Cardinality(Upload), off : 0..Length, on : 0..Cardinality(Patch)]
    <2>1. u \in 0..Cardinality(Upload) /\ 0 \in 0..Length
      BY Numbers
    <2>2. user \in [state : {"new", "send", "wait", "head", "done", "cancelled"},
                    up : 0..Cardinality(Upload), off : 0..Length, on : 0..Cardinality(Patch)]
      BY <1>2 DEF TusType
    <2>3. user' = [state |-> "send", up |-> u, off |-> 0, on |-> user.on]
      BY <1>1, <2>2
    <2> QED
      BY <2>1, <2>2, <2>3
  <1>4. /\ info' \in [Upload -> 0..Length \cup {None}] /\ info'[u] = 0
        /\ bin' \in [Upload -> Content] /\ bin'[u] = << >>
        /\ \A w \in Upload : w # u => info'[w] = info[w] /\ bin'[w] = bin[w]
    <2>1. << >> \in Content /\ 0 \in 0..Length
      BY Numbers DEF Content
    <2> QED
      BY <1>1, <1>2, <2>1 DEF TusType
  <1>5. TusType'
    BY <1>1, <1>2, <1>3, <1>4, Numbers DEF TusType
  <1>6. \A p \in Patch : Sound(p)'
    <2> SUFFICES ASSUME NEW p \in Patch PROVE Sound(p)'
      OBVIOUS
    <2>1. Sound(p) /\ NewOffset(p)' = NewOffset(p)
      BY <1>1 DEF TusInv, NewOffset
    <2>2. patch[p].up \in 1..user.up => patch[p].up \in 1..u
      BY <1>0, <1>2
    <2> QED
      BY <1>1, <1>3, <2>1, <2>2 DEF Sound
  <1>7. \A p \in Patch : patch[p].pc # "unused" => patch[p].up # u
    <2> SUFFICES ASSUME NEW p \in Patch, patch[p].pc # "unused" PROVE patch[p].up # u
      OBVIOUS
    <2>1. patch[p].up \in 1..user.up
      BY DEF TusInv, Sound
    <2> QED
      BY <1>0, <1>2, <2>1
  <1>8. FilesInv'
    <2> SUFFICES ASSUME NEW w \in Upload, Intact(w)' PROVE Exact(w)'
      BY DEF FilesInv
    <2>1. \A q \in Patch : \A pcs : Working(q, w, pcs)' <=> Working(q, w, pcs)
      BY <1>1 DEF Working
    <2>2. CASE w # u
      <3>1. Exact(w)
        BY <1>1, <2>1 DEF TusInv, FilesInv, Intact
      <3> QED
        BY <1>1, <1>4, <2>1, <2>2, <3>1 DEF Exact, NewOffset, Prefix, File
    <2>3. CASE w = u
      <3>1. \A q \in Patch : /\ ~Working(q, w, Writing)' /\ ~Working(q, w, Finalising)'
                             /\ ~Working(q, w, {"body"})' /\ ~Working(q, w, {"offset"})'
                             /\ ~Working(q, w, {"check", "enqueue", "queued"})'
        BY <1>1, <1>7, <2>3 DEF Working, Writing, Finalising
      <3>2. \A q \in Patch : patch[q].up = w => stored[q].row = "none"
        <4> SUFFICES ASSUME NEW q \in Patch, patch[q].up = w PROVE stored[q].row = "none"
          OBVIOUS
        <4>1. Sound(q) /\ stored[q].row \in {"none", "flushed", "committed"} /\ patch[q].pc = "unused"
          BY <1>2, <1>7, <2>3 DEF TusInv, TusType
        <4> QED
          BY <4>1 DEF Sound
      <3>3. info'[w] = 0 /\ bin'[w] = Prefix(info'[w]) /\ 0 \notin {None, Length}
        <4>1. 0 \in Nat /\ 0 # Length
          BY Numbers
        <4>2. 0 # None
          BY <4>1, NoneAssumption
        <4> QED
          BY <1>4, <2>3, <4>1, <4>2, Prefixes
      <3> QED
        BY <1>1, <3>1, <3>2, <3>3 DEF Exact, Prefix
    <2> QED
      BY <2>2, <2>3
  <1>9. SerialInv'
    <2> SUFFICES ASSUME NEW w \in Upload \ impatient PROVE Serial(w)'
      BY <1>1 DEF SerialInv
    <2>1. Serial(w) /\ \A q \in Patch : ~Working(q, w, Open)
      BY <1>1, NothingOpen
    <2>2. \A q \in Patch : \A pcs : Working(q, w, pcs)' <=> Working(q, w, pcs)
      BY <1>1 DEF Working
    <2>3. \A q \in Patch : ~Working(q, w, Open)'
      BY <2>1, <2>2
    <2>4. info'[w] = Length => \E q \in Patch : Working(q, w, Finalising \cup {"lost"})'
      <3>1. CASE w = u
        BY <1>4, <3>1, Numbers
      <3>2. CASE w # u
        BY <1>4, <2>1, <2>2, <3>2 DEF Serial
      <3> QED
        BY <3>1, <3>2
    <2> QED
      BY <1>3, <2>3, <2>4 DEF Serial
  <1>10. OnceInv'
    <2> SUFFICES ASSUME impatient = {} PROVE OnceInv'
      BY <1>1 DEF OnceInv
    <2>1. Once => queued = {}
      BY <1>1 DEF Once
    <2>2. Once => Once'
      BY <1>1, <2>1 DEF Once
    <2>3. LastAnswerLost => LastAnswerLost'
      BY <1>1, LostForGood
    <2> QED
      BY <1>1, <2>2, <2>3 DEF TusInv, OnceInv
  <1> QED
    BY <1>5, <1>6, <1>8, <1>9, <1>10 DEF TusInv

LEMMA KeepsSend ==
  ASSUME TusInv, Send
  PROVE  TusInv'
  <1>0. PICK p \in Patch : p = user.on + 1
    BY DEF Send
  <1> DEFINE end == IF user.off + ChunkSize > Length THEN Length ELSE user.off + ChunkSize
             chunk == SubSeq(File, user.off + 1, end)
             new == [Blank EXCEPT !.pc = "sent", !.up = user.up, !.off = user.off, !.chunk = chunk]
  <1>1. /\ user.state = "send"
        /\ patch' = [patch EXCEPT ![p] = new]
        /\ user' = [user EXCEPT !.state = "wait", !.on = p]
        /\ UNCHANGED <<info, bin, stored, queued, clients, impatient, overlap>>
    BY <1>0 DEF Send
  <1>2. TusType /\ user.off \in 0..Length /\ user.off < Length /\ user.up \in Upload /\ user.on \in Nat
    BY <1>1, Numbers DEF TusInv, TusType
  <1>3. end \in 0..Length /\ user.off <= end
    BY <1>2, Numbers
  <1>4. /\ chunk \in Seq(1..Length) /\ Len(chunk) = end - user.off
        /\ chunk = [i \in 1..Len(chunk) |-> user.off + i]
    <2> HIDE DEF end
    <2> QED
      BY <1>2, <1>3, ChunkCut
  <1>5. user.off + Len(chunk) <= Length
    <2> HIDE DEF end
    <2> QED
      BY <1>2, <1>3, <1>4, Numbers
  <1> HIDE DEF end, chunk
  <1>6. /\ new.pc = "sent" /\ new.up = user.up /\ new.off = user.off /\ new.chunk = chunk
        /\ new \in PatchRow
    BY <1>2, <1>4 DEF Blank, PatchRow, Open
  <1> HIDE DEF new
  <1>7. /\ patch' \in [Patch -> PatchRow] /\ patch'[p] = new
        /\ \A q \in Patch \ {p} : patch'[q] = patch[q]
    BY <1>1, <1>2, <1>6 DEF TusType
  <1>8. /\ user'.state = "wait" /\ user'.up = user.up /\ user'.off = user.off /\ user'.on = p
        /\ user' \in [state : {"new", "send", "wait", "head", "done", "cancelled"},
                      up : 0..Cardinality(Upload), off : 0..Length, on : 0..Cardinality(Patch)]
    <2>1. p \in 0..Cardinality(Patch)
      BY Numbers
    <2>2. user \in [state : {"new", "send", "wait", "head", "done", "cancelled"},
                    up : 0..Cardinality(Upload), off : 0..Length, on : 0..Cardinality(Patch)]
      BY <1>2 DEF TusType
    <2>3. user' = [state |-> "wait", up |-> user.up, off |-> user.off, on |-> p]
      BY <1>1, <2>2
    <2> QED
      BY <2>1, <2>2, <2>3
  <1>9. /\ patch[p].pc = "unused" /\ stored[p].row = "none" /\ p \notin queued /\ Sound(p)
    <2>1. Sound(p) /\ ~(p <= user.on) /\ stored[p].row \in {"none", "flushed", "committed"}
      BY <1>0, <1>2 DEF TusInv, TusType
    <2> QED
      BY <2>1 DEF Sound
  <1>10. TusType'
    BY <1>1, <1>2, <1>6, <1>7, <1>8 DEF TusType
  <1>11. \A q \in Patch : Sound(q)'
    <2>1. Sound(p)'
      <3>1. p <= user'.on /\ user.up \in 1..user.up
        <4>1. p \in Nat /\ user.up \in Nat /\ user.up >= 1
          BY <1>1, <1>2, Numbers
        <4> QED
          BY <1>8, <4>1
      <3>2. stored'[p] = stored[p] /\ queued' = queued
        BY <1>1
      <3>3. patch'[p].off + Len(patch'[p].chunk) <= Length
        BY <1>5, <1>6, <1>7
      <3>4. patch'[p].chunk = [i \in 1..Len(patch'[p].chunk) |-> patch'[p].off + i]
        BY <1>4, <1>6, <1>7
      <3> QED
        BY <1>2, <1>6, <1>7, <1>8, <1>9, <3>1, <3>2, <3>3, <3>4 DEF Sound, NewOffset, Finalising
    <2>2. ASSUME NEW q \in Patch \ {p} PROVE Sound(q)'
      <3>1. Sound(q) /\ patch'[q] = patch[q] /\ stored'[q] = stored[q] /\ queued' = queued
        BY <1>1, <1>7 DEF TusInv
      <3>2. q <= user.on => q <= user'.on
        BY <1>0, <1>2, <1>8, Numbers
      <3> QED
        BY <1>8, <3>1, <3>2 DEF Sound, NewOffset
    <2> QED
      BY <2>1, <2>2
  <1>12. \A q \in Patch, w \in Upload : \A pcs :
           pcs \cap {"sent", "unused"} = {} => (Working(q, w, pcs)' <=> Working(q, w, pcs))
    BY <1>6, <1>7, <1>9 DEF Working
  <1>13. FilesInv'
    <2> SUFFICES ASSUME NEW w \in Upload, Intact(w)' PROVE Exact(w)'
      BY DEF FilesInv
    <2>1. Exact(w)
      BY <1>1, <1>12 DEF TusInv, FilesInv, Intact
    <2>2. \A q \in Patch :
            /\ Working(q, w, Writing)' <=> Working(q, w, Writing)
            /\ Working(q, w, {"body"})' <=> Working(q, w, {"body"})
            /\ Working(q, w, {"offset"})' <=> Working(q, w, {"offset"})
            /\ Working(q, w, Finalising)' <=> Working(q, w, Finalising)
            /\ Working(q, w, {"check", "enqueue", "queued"})' <=> Working(q, w, {"check", "enqueue", "queued"})
      BY <1>12 DEF Writing, Finalising
    <2>3. \A q \in Patch : Working(q, w, Writing) \/ Working(q, w, {"offset"}) => q # p
      BY <1>9 DEF Working, Writing
    <2>4. \A q \in Patch : q # p => patch'[q] = patch[q] /\ NewOffset(q)' = NewOffset(q)
      BY <1>7 DEF NewOffset
    <2>5. \A q \in Patch : Working(q, w, {"body"}) => q # p
      BY <1>9 DEF Working
    <2>6. \A q \in Patch : patch'[q].up = w /\ stored'[q].row # "none" => stored'[q].file = File
      BY <1>1, <1>9, <2>1, <2>4 DEF Exact
    <2> QED
      BY <1>1, <2>1, <2>2, <2>3, <2>4, <2>5, <2>6 DEF Exact, Prefix
  <1>14. SerialInv'
    <2> SUFFICES ASSUME NEW w \in Upload \ impatient PROVE Serial(w)'
      BY <1>1 DEF SerialInv
    <2>1. Serial(w) /\ \A q \in Patch : ~Working(q, w, Open)
      BY <1>1, NothingOpen
    <2>2. \A q \in Patch : Working(q, w, Open)' => q = p /\ w = user.up
      BY <1>6, <1>7, <2>1 DEF Working
    <2>3. info'[w] = Length => \E q \in Patch : Working(q, w, Finalising \cup {"lost"})'
      <3>1. (Finalising \cup {"lost"}) \cap {"sent", "unused"} = {}
        BY DEF Finalising
      <3> QED
        BY <1>1, <1>12, <2>1, <3>1 DEF Serial
    <2>4. patch'[user'.on].pc \notin Finalising \cup {"lost"}
      BY <1>6, <1>7, <1>8 DEF Finalising
    <2> QED
      BY <1>8, <2>2, <2>3, <2>4 DEF Serial
  <1>15. OnceInv'
    <2> SUFFICES ASSUME impatient = {} PROVE OnceInv'
      BY <1>1 DEF OnceInv
    <2>1. Once => Once'
      BY <1>1 DEF Once
    <2>2. \A q \in Patch : patch'[q].pc \in {"scan", "row", "check"} => patch'[q] = patch[q]
      BY <1>6, <1>7
    <2>3. LastAnswerLost => LastAnswerLost'
      <3>1. \A q \in Patch : patch[q].pc = "unsent" => patch'[q].pc = "unsent"
        BY <1>7, <1>9
      <3> QED
        BY <1>1, <3>1, LostForGood
    <2> QED
      BY <1>1, <2>1, <2>2, <2>3 DEF TusInv, OnceInv
  <1> QED
    BY <1>10, <1>11, <1>13, <1>14, <1>15 DEF TusInv

LEMMA KeepsCancel ==
  ASSUME TusInv, Cancel
  PROVE  TusInv'
  <1>1. /\ user.state \in {"send", "head"} /\ Turn("cancelled") /\ Mark(user.up)
        /\ UNCHANGED <<patch, stored, queued, clients, impatient>>
        /\ info' = [info EXCEPT ![user.up] = None] /\ bin' = [bin EXCEPT ![user.up] = None]
    BY DEF Cancel
  <1>2. TusType /\ user.up \in Upload
    BY <1>1 DEF TusInv, TusType
  <1>3. PICK u \in Upload : u = user.up
    BY <1>2
  <1>4. /\ user'.state = "cancelled" /\ user'.up = u /\ user'.on = user.on
        /\ user' \in [state : {"new", "send", "wait", "head", "done", "cancelled"},
                      up : 0..Cardinality(Upload), off : 0..Length, on : 0..Cardinality(Patch)]
    BY <1>1, <1>2, <1>3 DEF TusType, Turn
  <1>5. /\ info' \in [Upload -> 0..Length \cup {None}] /\ info'[u] = None
        /\ bin' \in [Upload -> Content] /\ bin'[u] = None
        /\ \A w \in Upload : w # u => info'[w] = info[w] /\ bin'[w] = bin[w]
    BY <1>1, <1>2, <1>3 DEF TusType, Content
  <1>6. /\ overlap \subseteq overlap' /\ overlap' \subseteq Upload
        /\ u \notin overlap' => \A p \in Patch : ~Working(p, u, Writing)
    BY <1>1, <1>2, <1>3 DEF Mark, TusType, Working
  <1>7. TusType'
    BY <1>1, <1>2, <1>3, <1>4, <1>5, <1>6 DEF TusType
  <1>8. \A p \in Patch : Sound(p)'
    BY <1>1, <1>3, <1>4 DEF TusInv, Sound, NewOffset
  <1>9. \A q \in Patch : \A w, pcs : Working(q, w, pcs)' <=> Working(q, w, pcs)
    BY <1>1 DEF Working
  <1>10. FilesInv'
    <2> SUFFICES ASSUME NEW w \in Upload, Intact(w)' PROVE Exact(w)'
      BY DEF FilesInv
    <2>1. Exact(w)
      BY <1>6, <1>9 DEF TusInv, FilesInv, Intact
    <2>2. CASE w # u
      BY <1>1, <1>5, <1>9, <2>1, <2>2 DEF Exact, NewOffset, Prefix, File
    <2>3. CASE w = u
      <3>1. \A q \in Patch : ~Working(q, u, Writing)'
        BY <1>6, <1>9, <2>3 DEF Intact
      <3>2. \A q \in Patch : ~Working(q, u, {"body"})' /\ ~Working(q, u, {"offset"})'
        BY <3>1 DEF Working, Writing
      <3>3. \A q \in Patch : patch'[q].up = u /\ stored'[q].row # "none" => stored'[q].file = File
        BY <1>1, <2>1, <2>3 DEF Exact
      <3>4. None # Length
        BY Numbers, NoneAssumption
      <3> QED
        BY <1>5, <2>3, <3>1, <3>2, <3>3, <3>4 DEF Exact, File
    <2> QED
      BY <2>2, <2>3
  <1>11. SerialInv'
    <2> SUFFICES ASSUME NEW w \in Upload \ impatient PROVE Serial(w)'
      BY <1>1 DEF SerialInv
    <2>1. Serial(w) /\ \A q \in Patch : ~Working(q, w, Open)
      BY <1>1, NothingOpen
    <2>2. info'[w] = Length => \E q \in Patch : Working(q, w, Finalising \cup {"lost"})
      <3>1. None # Length
        BY Numbers, NoneAssumption
      <3>2. CASE w # u
        BY <1>5, <2>1, <3>2 DEF Serial
      <3> QED
        BY <1>5, <3>1, <3>2
    <2> QED
      BY <1>4, <1>9, <2>1, <2>2 DEF Serial
  <1>12. OnceInv'
    <2>1. LastAnswerLost => LastAnswerLost'
      BY <1>1, LostForGood
    <2>2. Once => Once'
      BY <1>1, <1>4 DEF Once
    <2> QED
      BY <1>1, <2>1, <2>2 DEF TusInv, OnceInv
  <1> QED
    BY <1>7, <1>8, <1>10, <1>11, <1>12 DEF TusInv

Fallen(pc) == CASE pc = "offset" -> "torn" [] pc \in Finalising -> "lost"
                [] pc \in {"sent", "body"} -> "gone" [] OTHER -> pc

LEMMA KeepsCrash ==
  ASSUME TusInv, Crash
  PROVE  TusInv'
  <1>1. /\ UNCHANGED <<user, impatient, info, bin, queued, clients, overlap>> /\ TusType
        /\ patch' = [p \in Patch |-> [patch[p] EXCEPT !.pc =
                        CASE @ = "offset" -> "torn" [] @ \in Finalising -> "lost"
                          [] @ \in {"sent", "body"} -> "gone" [] Unsent(p) -> "unsent" [] OTHER -> @]]
        /\ stored' = [p \in Patch |-> IF stored[p].row = "flushed" THEN [stored[p] EXCEPT !.row = "none"]
                                      ELSE stored[p]]
    BY DEF Crash, UserIdle, TusInv
  <1>2. ASSUME NEW pc \in Pc
        PROVE  /\ Fallen(pc) \in {"unused", "ok", "error"} \cup Gone
               /\ Fallen(pc) = "unused" <=> pc = "unused"
               /\ Fallen(pc) = "torn" <=> pc \in {"offset", "torn"}
               /\ Fallen(pc) = "lost" <=> pc \in Finalising \cup {"lost"}
               /\ Fallen(pc) = "ok" <=> pc = "ok"
               /\ Fallen(pc) = "error" <=> pc = "error"
               /\ Fallen(pc) = "unsent" <=> pc = "unsent"
    BY DEF Fallen, Pc, Open, Writing, Finalising, Gone
  <1>3. ASSUME NEW p \in Patch
        PROVE  /\ patch[p].pc \in Pc
               /\ \/ patch'[p].pc = Fallen(patch[p].pc)
                  \/ patch[p].pc = "ok" /\ patch'[p].pc = "unsent"
               /\ patch[p].pc \in {"lost", "unsent"} => patch'[p].pc = patch[p].pc
               /\ patch'[p].up = patch[p].up /\ patch'[p].off = patch[p].off
               /\ patch'[p].chunk = patch[p].chunk /\ patch'[p] \in PatchRow
    <2>1. patch[p] \in PatchRow /\ patch[p].pc \in Pc
      BY <1>1 DEF TusType, PatchRow, Pc
    <2>2. \/ patch'[p] = [patch[p] EXCEPT !.pc = Fallen(patch[p].pc)]
          \/ patch[p].pc = "ok" /\ patch'[p] = [patch[p] EXCEPT !.pc = "unsent"]
      BY <1>1 DEF Fallen, Unsent
    <2>3. Fallen(patch[p].pc) \in Pc /\ "unsent" \in Pc
      BY <1>2, <2>1 DEF Pc, Gone
    <2>4. /\ Fallen("lost") = "lost" /\ Fallen("unsent") = "unsent"
          /\ \A pc : Fallen(pc) = "unsent" <=> pc = "unsent"
      BY DEF Fallen, Finalising
    <2> HIDE DEF Fallen
    <2> QED
      BY <2>1, <2>2, <2>3, <2>4 DEF PatchRow, Pc
  <1> HIDE DEF Fallen
  <1>4. ASSUME NEW p \in Patch
        PROVE  /\ stored'[p] \in [row : {"none", "committed"}, file : Content]
               /\ stored'[p].file = stored[p].file
               /\ stored'[p].row = "committed" <=> stored[p].row = "committed"
    BY <1>1 DEF TusType
  <1>5. patch' \in [Patch -> PatchRow]
        /\ stored' \in [Patch -> [row : {"none", "flushed", "committed"}, file : Content]]
    BY <1>1, <1>3, <1>4
  <1>6. TusType'
    <2>1. user.state \in {"wait", "head"} =>
            user.on \in Patch /\ patch'[user.on].pc # "unused" /\ patch'[user.on].up = user.up
      BY <1>1, <1>2, <1>3 DEF TusType
    <2>2. user.state = "wait" => patch'[user.on].off = user.off
      BY <1>1, <1>3 DEF TusType
    <2> QED
      BY <1>1, <1>5, <2>1, <2>2 DEF TusType
  <1>7. ASSUME NEW p \in Patch PROVE Sound(p)'
    <2>1. Sound(p) /\ NewOffset(p)' = NewOffset(p)
      BY <1>3 DEF TusInv, NewOffset
    <2>2. /\ patch'[p].pc \in {"unused", "ok", "error"} \cup Gone
          /\ patch'[p].pc = "unused" <=> patch[p].pc = "unused"
          /\ patch'[p].pc = "lost" <=> patch[p].pc \in Finalising \cup {"lost"}
          /\ patch'[p].pc = "ok" => patch[p].pc = "ok"
          /\ patch'[p].pc = "unsent" => patch[p].pc \in {"ok", "unsent"}
          /\ patch[p].pc \in {"ok", "unsent"} => patch'[p].pc \in {"ok", "unsent"}
          /\ patch'[p].pc = "error" <=> patch[p].pc = "error"
      BY <1>2, <1>3 DEF Finalising, Gone
    <2>3. stored'[p].row \in {"none", "committed"}
      BY <1>4
    <2> QED
      BY <1>1, <1>3, <1>4, <2>1, <2>2, <2>3 DEF Sound, Finalising, Gone
  <1>8. ASSUME NEW p \in Patch, NEW w
        PROVE  /\ ~Working(p, w, Open)' /\ ~Working(p, w, Writing)' /\ ~Working(p, w, Finalising)'
               /\ ~Working(p, w, {"body"})' /\ ~Working(p, w, {"offset"})'
               /\ ~Working(p, w, {"check", "enqueue", "queued"})'
               /\ Working(p, w, {"torn"})' <=> Working(p, w, {"offset", "torn"})
               /\ Working(p, w, {"lost"})' <=> Working(p, w, Finalising \cup {"lost"})
               /\ Working(p, w, Finalising \cup {"lost"})' <=> Working(p, w, Finalising \cup {"lost"})
    <2>1. patch'[p].pc \in {"unused", "ok", "error"} \cup Gone
      BY <1>2, <1>3 DEF Gone
    <2>2. patch'[p].pc = "torn" <=> patch[p].pc \in {"offset", "torn"}
      BY <1>2, <1>3
    <2>3. patch'[p].pc = "lost" <=> patch[p].pc \in Finalising \cup {"lost"}
      BY <1>2, <1>3
    <2> QED
      BY <1>3, <2>1, <2>2, <2>3 DEF Working, Open, Writing, Finalising, Gone
  <1>9. FilesInv'
    <2> SUFFICES ASSUME NEW w \in Upload, Intact(w)' PROVE Exact(w)'
      BY DEF FilesInv
    <2>1. \A q \in Patch : ~Working(q, w, {"offset", "torn"})
      BY <1>8 DEF Intact
    <2>2. Exact(w)
      <3>1. w \notin overlap /\ \A q \in Patch : ~Working(q, w, {"torn"})
        BY <1>1, <2>1 DEF Intact, Working
      <3> QED
        BY <3>1 DEF TusInv, FilesInv, Intact
    <2>3. /\ info[w] = None => bin[w] = None
          /\ info[w] = Length => bin[w] \in {None, File}
          /\ info[w] \notin {None, Length} => bin[w] = Prefix(info[w])
      <3>1. CASE \A q \in Patch : ~Working(q, w, Writing)
        BY <2>2, <3>1 DEF Exact
      <3>2. ASSUME NEW q \in Patch, Working(q, w, Writing)
            PROVE  info[w] \notin {None, Length} /\ bin[w] = Prefix(info[w])
        <4>1. Working(q, w, {"body"})
          BY <2>1, <3>2 DEF Working, Writing
        <4>2. info[w] = patch[q].off /\ bin[w] = Prefix(patch[q].off)
          BY <2>2, <3>2, <4>1 DEF Exact
        <4>3. patch[q].off \in 0..Length /\ patch[q].off < Length
          BY <4>1, OpenUpload DEF Working
        <4>4. patch[q].off \in Nat /\ patch[q].off # Length
          BY <4>3, Numbers
        <4> QED
          BY <4>2, <4>4, NoneAssumption
      <3> QED
        BY <3>1, <3>2
    <2>4. \A q \in Patch : patch'[q].up = w /\ stored'[q].row # "none" => stored'[q].file = File
      BY <1>3, <1>4, <2>2 DEF Exact
    <2> QED
      BY <1>1, <1>8, <2>3, <2>4 DEF Exact, Prefix, File
  <1>10. SerialInv'
    <2> SUFFICES ASSUME NEW w \in Upload \ impatient PROVE Serial(w)'
      BY <1>1 DEF SerialInv
    <2>1. Serial(w)
      BY DEF TusInv, SerialInv
    <2>2. info[w] = Length => \E q \in Patch : Working(q, w, Finalising \cup {"lost"})'
      BY <1>8, <2>1 DEF Serial
    <2>3. user.up = w /\ user.state \in {"wait", "head"}
            /\ patch'[user.on].pc \in Finalising \cup {"lost"} => info[w] = Length
      <3> SUFFICES ASSUME user.up = w, user.state \in {"wait", "head"},
                          patch'[user.on].pc \in Finalising \cup {"lost"}
                   PROVE  info[w] = Length
        OBVIOUS
      <3>1. user.on \in Patch
        BY <1>1 DEF TusType
      <3>2. patch'[user.on].pc = "lost"
        BY <1>2, <1>3, <3>1 DEF Finalising, Gone
      <3>3. patch[user.on].pc \in Finalising \cup {"lost"}
        BY <1>2, <1>3, <3>1, <3>2
      <3> QED
        BY <2>1, <3>3 DEF Serial
    <2>4. user.up = w /\ user.state = "done" =>
            \E q \in Patch : patch'[q].up = w /\ (q \in queued \/ patch'[q].pc = "lost")
      <3>1. \A q \in Patch : patch'[q].up = patch[q].up
                /\ (patch[q].pc = "lost" => patch'[q].pc = "lost")
        BY <1>2, <1>3
      <3> QED
        BY <2>1, <3>1 DEF Serial
    <2> QED
      BY <1>1, <1>8, <2>2, <2>3, <2>4 DEF Serial
  <1>11. OnceInv'
    <2> SUFFICES ASSUME impatient = {} PROVE OnceInv'
      BY <1>1 DEF OnceInv
    <2>1. \A q \in Patch : patch'[q].pc \notin {"scan", "row", "check"}
      BY <1>2, <1>3 DEF Gone
    <2>2. user.state = "head" => user.on \in Patch /\ (patch[user.on].pc = "lost" => patch'[user.on].pc = "lost")
      BY <1>1, <1>3 DEF TusType
    <2>3. Once => Once'
      BY <1>1, <2>2 DEF Once
    <2>4. LastAnswerLost => LastAnswerLost'
      BY <1>1, <1>3, LostForGood
    <2> QED
      BY <1>1, <2>1, <2>3, <2>4 DEF TusInv, OnceInv
  <1> QED
    BY <1>6, <1>7, <1>9, <1>10, <1>11 DEF TusInv

-----------------------------------------------------------------------------
(* The invariant holds at first, and the user's steps and stutters keep it. *)

LEMMA TusStarts ==
  ASSUME TusInit
  PROVE  TusInv
  <1>1. TusType
    <2>1. Blank \in PatchRow /\ NoRow \in [row : {"none", "flushed", "committed"}, file : Content]
      BY Numbers DEF Blank, PatchRow, NoRow, Content
    <2>2. /\ user \in [state : {"new", "send", "wait", "head", "done", "cancelled"},
                       up : 0..Cardinality(Upload), off : 0..Length, on : 0..Cardinality(Patch)]
          /\ user.state = "new"
      BY Numbers DEF TusInit
    <2> QED
      BY <2>1, <2>2 DEF TusInit, TusType, Content
  <1>2. \A p \in Patch : patch[p].pc = "unused" /\ patch[p].up = None /\ stored[p].row = "none"
    BY DEF TusInit, Blank, NoRow
  <1>3. \A u \in Upload : u # None /\ info[u] = None /\ bin[u] = None /\ info[u] # Length
    BY Numbers, NoneAssumption DEF TusInit
  <1>4. \A p \in Patch, u \in Upload : \A pcs : ~Working(p, u, pcs)
    BY <1>2, <1>3 DEF Working
  <1>5. \A p \in Patch : Sound(p)
    BY <1>2 DEF TusInit, Sound, Finalising
  <1>6. FilesInv
    BY <1>2, <1>3, <1>4 DEF FilesInv, Exact
  <1>7. SerialInv
    BY <1>3, <1>4 DEF SerialInv, Serial, TusInit
  <1>8. OnceInv
    BY <1>2 DEF OnceInv, Once, TusInit
  <1> QED
    BY <1>1, <1>5, <1>6, <1>7, <1>8 DEF TusInv

LEMMA TusStutters ==
  ASSUME TusInv, UNCHANGED tusVars
  PROVE  TusInv'
  <1>1. UNCHANGED <<info, bin, patch, stored, queued, clients, user, impatient, overlap>>
    BY DEF tusVars
  <1>2. TusType'
    BY <1>1 DEF TusInv, TusType
  <1>3. \A p \in Patch : Sound(p)'
    BY <1>1 DEF TusInv, Sound, NewOffset
  <1>4. \A q \in Patch : \A w, pcs : Working(q, w, pcs)' <=> Working(q, w, pcs)
    BY <1>1 DEF Working
  <1>5. FilesInv'
    <2> SUFFICES ASSUME NEW w \in Upload, Intact(w)' PROVE Exact(w)'
      BY DEF FilesInv
    <2>1. Exact(w)
      BY <1>1, <1>4 DEF TusInv, FilesInv, Intact
    <2> QED
      BY <1>1, <1>4, <2>1 DEF Exact, NewOffset, Prefix, File
  <1>6. SerialInv'
    BY <1>1, <1>4 DEF TusInv, SerialInv, Serial
  <1>7. OnceInv'
    BY <1>1 DEF TusInv, OnceInv, Once, LastAnswerLost
  <1> QED
    BY <1>2, <1>3, <1>5, <1>6, <1>7 DEF TusInv

LEMMA UserStepKeeps ==
  ASSUME TusInv, UserStep
  PROVE  TusInv'
  BY KeepsCreate, KeepsSend, KeepsReceive, KeepsGiveUp, KeepsConnectionLost, KeepsHeadOffset,
     KeepsCancel DEF UserStep
=============================================================================
