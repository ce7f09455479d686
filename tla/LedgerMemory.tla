---------------------------- MODULE LedgerMemory ----------------------------
(***************************************************************************)
(* The ledger mappings a client's users teach by confirming transactions   *)
(* (remember_ledger_mapping in statements/ledger_memory.py, called by the  *)
(* update and bulk-update handlers of statements/router.py), and what the  *)
(* detection of recurring transactions makes of them (detect_recurring in  *)
(* statements/llm_enrichment.py).  A request is one database session.      *)
(* A narration is represented by its normalised pattern, raw and cleaned.  *)
(***************************************************************************)
EXTENDS Integers, Sequences, FiniteSets

CONSTANTS
    Tx,             \* transactions
    Statement,
    Lines,          \* the transactions of each statement, by row number
    ClientOf,       \* the client each transaction belongs to
    Raw, Clean,     \* normalised pattern of each narration, before and after
    Similar,        \* pairs with the same side and like amounts and dates
    Ledger,         \* ledger names
    None,           \* NULL
    Request,        \* update and bulk-update requests
    Bulk            \* what a request may confirm: sequences of <<tx, ledger>>

Client == {ClientOf[t] : t \in Tx}
Pattern == {Raw[t] : t \in Tx} \cup {Clean[t] : t \in Tx}
MinHitsOne == 1
MIN_HITS == 2

ASSUME SimilarAssumption == Similar \subseteq Tx \X Tx /\ \A t \in Tx : <<t, t>> \in Similar
ASSUME BulkAssumption == Bulk \subseteq Seq(Tx \X (Ledger \cup {None}))
ASSUME NoneAssumption == None \notin Ledger

VARIABLES
    row,        \* columns of the transactions: enriched, suggested and confirmed ledger
    mapping, mappingOwn, mappingMem, mappingDirty,  \* table ledger_mappings
    deleted,    \* the statements deleted, and their transactions with them
    request,    \* progress of each request
    item,       \* the item it is at
    items,      \* what it confirms
    asked,      \* history: the keys and ledgers it has remembered
    confirms    \* history: committed confirmations of each client and pattern

memoryVars == <<row, mapping, mappingOwn, mappingMem, mappingDirty, deleted,
                request, item, items, asked, confirms>>
mappingVars == <<mapping, mappingOwn, mappingMem, mappingDirty>>

Mapping == INSTANCE UniqueTable WITH
    Session <- Request, Key <- Client \X Pattern, stored <- mapping,
    own <- mappingOwn, mem <- mappingMem, dirty <- mappingDirty

Columns == [rich : BOOLEAN, suggested : Ledger \cup {None}, confirmed : Ledger \cup {None}]
PatternOf(t, columns) == IF columns.rich THEN Clean[t] ELSE Raw[t]
KeyOf(t) == <<ClientOf[t], PatternOf(t, row[t])>>
RowsOf(s) == {Lines[s][i] : i \in DOMAIN Lines[s]}
Gone(t) == \E s \in deleted : t \in RowsOf(s)

MemoryInit ==
    /\ row = [t \in Tx |-> [rich |-> FALSE, suggested |-> None, confirmed |-> None]]
    /\ Mapping!Init
    /\ deleted = {}
    /\ request = [u \in Request |-> "new"]
    /\ item = [u \in Request |-> 1]
    /\ items = [u \in Request |-> << >>]
    /\ asked = [u \in Request |-> << >>]
    /\ confirms = [k \in Client \X Pattern |-> [times |-> 0, ledgers |-> {}]]

Open(u) ==
    /\ request[u] = "new"
    /\ \E s \in Bulk : items' = [items EXCEPT ![u] = s]
    /\ request' = [request EXCEPT ![u] = "open"]
    /\ UNCHANGED <<row, mappingVars, deleted, item, asked, confirms>>

(* The next item: remember_ledger_mapping looks the pattern up, counts the *)
(* hit in its copy of the mapping or adds one.                             *)
Confirm(u) ==
    /\ request[u] = "open" /\ item[u] <= Len(items[u])
    /\ LET t == items[u][item[u]][1]
           l == items[u][item[u]][2]
           k == KeyOf(t)
           m == Mapping!Get(u, k)
       IN  /\ ~Gone(t)
           /\ \/ /\ l = None
                 /\ UNCHANGED mappingVars
              \/ /\ l # None /\ m # None
                 /\ Mapping!Put(u, k, m, [ledger |-> l, hits |-> m.hits + 1])
              \/ /\ l # None /\ m = None
                 /\ LET new == [id |-> u, ledger |-> l, hits |-> 1]
                    IN  Mapping!Put(u, k, new, new)
           /\ asked' = IF l = None THEN asked ELSE [asked EXCEPT ![u] = Append(@, <<k, l>>)]
    /\ request' = [request EXCEPT ![u] = "flush"]
    /\ UNCHANGED <<row, deleted, item, items, confirms>>

(* A transaction deleted meanwhile: the bulk update reports it and goes on *)
(* to the next item; the update of one, and one that had loaded the        *)
(* transaction, fails.                                                     *)
SkipGone(u) ==
    /\ request[u] = "open" /\ item[u] <= Len(items[u])
    /\ Gone(items[u][item[u]][1])
    /\ item' = [item EXCEPT ![u] = @ + 1]
    /\ UNCHANGED <<row, mappingVars, deleted, request, items, asked, confirms>>
FailGone(u) ==
    /\ request[u] = "open" /\ item[u] <= Len(items[u])
    /\ Gone(items[u][item[u]][1])
    /\ Mapping!Rollback(u)
    /\ request' = [request EXCEPT ![u] = "error"]
    /\ UNCHANGED <<row, deleted, item, items, asked, confirms>>

(* The flush waits for the lock of the pattern.                            *)
FlushMapping(u) ==
    /\ request[u] = "flush"
    /\ IF mappingDirty[u] = None THEN UNCHANGED mappingVars ELSE Mapping!Flush(u)
    /\ request' = [request EXCEPT ![u] = "open"]
    /\ item' = [item EXCEPT ![u] = @ + 1]
    /\ UNCHANGED <<row, deleted, items, asked, confirms>>

(* A deadlock of any length: x waits, through those it waits for, for      *)
(* itself.  Closed: whom the members of D wait for are members of D.       *)
Closed(D, waits) == \A x \in D : waits[x] \subseteq D
Circular(x, waits) ==
    \A D \in SUBSET DOMAIN waits : Closed(D, waits) /\ waits[x] \subseteq D => x \in D

(* Another request inserted the pattern first, or the database breaks a    *)
(* deadlock: the request answers 500 and nothing of it is kept.            *)
MappingWaits == [u \in Request |-> Mapping!Blockers(u)]
MappingDeadlock(u) == Circular(u, MappingWaits)
MappingFails(u) ==
    /\ request[u] = "flush" /\ (Mapping!Conflicts(u) \/ MappingDeadlock(u))
    /\ Mapping!Rollback(u)
    /\ request' = [request EXCEPT ![u] = "error"]
    /\ UNCHANGED <<row, deleted, item, items, asked, confirms>>

CommitRequest(u) ==
    /\ request[u] = "open" /\ item[u] > Len(items[u])
    /\ Mapping!Commit(u)
    /\ row' = [t \in Tx |->
         LET mine == {i \in DOMAIN items[u] : items[u][i][1] = t}
         IN  IF mine = {} \/ Gone(t) THEN row[t]
             ELSE [row[t] EXCEPT !.confirmed =
                     items[u][CHOOSE i \in mine : \A j \in mine : j <= i][2]]]
    /\ confirms' = [k \in DOMAIN confirms |->
         LET of == {i \in DOMAIN asked[u] : asked[u][i][1] = k}
         IN  [times |-> confirms[k].times + Cardinality(of),
              ledgers |-> confirms[k].ledgers \cup {asked[u][i][2] : i \in of}]]
    /\ request' = [request EXCEPT ![u] = "done"]
    /\ UNCHANGED <<deleted, item, items, asked>>

RequestStep(u) ==
    \/ Open(u) \/ Confirm(u) \/ SkipGone(u) \/ FailGone(u)
    \/ FlushMapping(u) \/ MappingFails(u) \/ CommitRequest(u)

(* The rows of a statement are deleted with it.  A deletion waits for the  *)
(* requests that have updated one of them: their rows are locked.          *)
Updated(u) ==
    {items[u][i][1] : i \in {k \in DOMAIN items[u] :
        k < item[u] \/ (k = item[u] /\ request[u] = "flush")}}
DeleteRows(s) ==
    /\ s \notin deleted
    /\ \A u \in Request : request[u] \in {"open", "flush"} => Updated(u) \cap RowsOf(s) = {}
    /\ deleted' = deleted \cup {s}
    /\ UNCHANGED <<row, mappingVars, request, item, items, asked, confirms>>

(* detect_recurring: a mapping of the exact pattern, confirmed often       *)
(* enough, and a confirmed transaction like this one under its ledger.     *)
(* seen is what the job's session loaded of the transactions.              *)
Recurring(t, seen) ==
    LET p == PatternOf(t, seen[t])
        m == mapping[<<ClientOf[t], p>>]
    IN  /\ m # None /\ m.hits >= MIN_HITS
        /\ \E h \in Tx : /\ ClientOf[h] = ClientOf[t] /\ row[h].confirmed # None
                         /\ ~Gone(h)
                         /\ PatternOf(h, seen[h]) = p
                         /\ seen[h].confirmed = m.ledger
                         /\ <<t, h>> \in Similar
RecurringLedger(t, seen) == mapping[<<ClientOf[t], PatternOf(t, seen[t])>>].ledger

-----------------------------------------------------------------------------
(* The invariant of the mappings: what is stored was taught by committed   *)
(* requests, and what a request holds by these and by itself.              *)
Partial(f, S, T) == DOMAIN f \subseteq S /\ f \in [DOMAIN f -> T]
MappingKey == Client \X Pattern
Mappings == [id : Request, ledger : Ledger, hits : Nat]
Choice == Tx \X (Ledger \cup {None})
AskedFor(u, k) == {i \in DOMAIN asked[u] : asked[u][i][1] = k}
Taught(u, k, m) ==
    /\ m.hits <= confirms[k].times + Cardinality(AskedFor(u, k))
    /\ m.ledger \in confirms[k].ledgers \cup {asked[u][i][2] : i \in AskedFor(u, k)}
RequestTypes ==
    /\ row \in [Tx -> Columns]
    /\ mapping \in [MappingKey -> Mappings \cup {None}]
    /\ DOMAIN mappingOwn = Request /\ DOMAIN mappingMem = Request
    /\ \A u \in Request : /\ Partial(mappingOwn[u], MappingKey, Mappings)
                          /\ Partial(mappingMem[u], MappingKey, Mappings)
    /\ mappingDirty \in [Request -> {None} \cup
         [key : MappingKey, id : Request, cols : [ledger : Ledger, hits : Nat] \cup Mappings]]
    /\ request \in [Request -> {"new", "open", "flush", "done", "error"}]
    /\ item \in [Request -> Nat \ {0}]
    /\ items \in [Request -> Seq(Choice)]
    /\ asked \in [Request -> Seq(MappingKey \X Ledger)]
    /\ confirms \in [MappingKey -> [times : Nat, ledgers : SUBSET Ledger]]
RequestInv(u) ==
    LET d == mappingDirty[u]
    IN  /\ request[u] \notin {"open", "flush"} =>
             DOMAIN mappingOwn[u] = {} /\ DOMAIN mappingMem[u] = {} /\ d = None
        /\ \A k \in DOMAIN mappingOwn[u] :
             /\ mappingOwn[u][k].id = u \/ request[mappingOwn[u][k].id] = "done"
             /\ Taught(u, k, mappingOwn[u][k])
        /\ \A k \in DOMAIN mappingMem[u] : Taught(u, k, mappingMem[u][k])
        /\ d # None =>
             /\ Taught(u, d.key, d.cols)
             /\ d.cols \in Mappings => d.cols.id = d.id
             /\ \/ d.id # u \/ d.cols \in Mappings
                \/ d.key \in DOMAIN mappingOwn[u] /\ mappingOwn[u][d.key] # None
MappingInv ==
    \A k \in MappingKey : mapping[k] # None =>
        /\ request[mapping[k].id] = "done"
        /\ mapping[k].hits <= confirms[k].times
        /\ mapping[k].ledger \in confirms[k].ledgers
MemoryInv == RequestTypes /\ MappingInv /\ \A u \in Request : RequestInv(u)
=============================================================================
