---------------------------- MODULE UniqueTable ----------------------------
(***************************************************************************)
(* A database table with a unique key, as SQLAlchemy sessions use it       *)
(* (db/database.py) under READ COMMITTED.  A session keeps the rows it     *)
(* loaded; a change waits in the session until the next SELECT flushes it; *)
(* a flushed change locks its key until the session commits or rolls back. *)
(* An INSERT that finds the key taken, or an UPDATE that finds its row     *)
(* gone, fails the session.                                                *)
(***************************************************************************)
CONSTANTS Session, Key, None

VARIABLES
    stored, \* the committed rows, None where there is none
    own,    \* flushed, uncommitted rows of each session (None: deleted)
    mem,    \* the rows each session has loaded (the identity map)
    dirty   \* the change each session has not flushed yet, or None

tableVars == <<stored, own, mem, dirty>>

EmptyMap == [k \in {} |-> None]
With(f, k, r) == [x \in DOMAIN f \cup {k} |-> IF x = k THEN r ELSE f[x]]
Over(new, row) == [c \in DOMAIN row |-> IF c \in DOMAIN new THEN new[c] ELSE row[c]]

(* What a SELECT by key sees, and the object the session makes of it: a    *)
(* row it already loaded is not refreshed.                                 *)
View(s, k) == IF k \in DOMAIN own[s] THEN own[s][k] ELSE stored[k]
Get(s, k) ==
    LET v == View(s, k)
    IN  IF v # None /\ k \in DOMAIN mem[s] /\ mem[s][k].id = v.id
        THEN mem[s][k] ELSE v

Init ==
    /\ stored = [k \in Key |-> None]
    /\ own = [s \in Session |-> EmptyMap]
    /\ mem = [s \in Session |-> EmptyMap]
    /\ dirty = [s \in Session |-> None]

Read(s, k) ==
    /\ mem' = IF View(s, k) = None THEN mem
              ELSE [mem EXCEPT ![s] = With(@, k, Get(s, k))]
    /\ UNCHANGED <<stored, own, dirty>>

(* Change columns cols of the row of key k that Get returned, or insert a  *)
(* row: an insertion is a change of every column.                          *)
Put(s, k, row, cols) ==
    /\ mem' = [mem EXCEPT ![s] = With(@, k, Over(cols, row))]
    /\ dirty' = [dirty EXCEPT ![s] = [key |-> k, id |-> row.id, cols |-> cols]]
    /\ UNCHANGED <<stored, own>>

(* The sessions that hold the lock of the key s wants to write.            *)
Blockers(s) == IF dirty[s] = None THEN {}
               ELSE {t \in Session \ {s} : dirty[s].key \in DOMAIN own[t]}
Fits(s) ==
    LET d == dirty[s]
        v == View(s, d.key)
    IN  IF v = None THEN d.id = s ELSE v.id = d.id

Flush(s) ==
    /\ dirty[s] # None /\ Blockers(s) = {} /\ Fits(s)
    /\ LET d == dirty[s]
           v == View(s, d.key)
       IN  own' = [own EXCEPT ![s] =
                     With(@, d.key, IF v = None THEN d.cols ELSE Over(d.cols, v))]
    /\ dirty' = [dirty EXCEPT ![s] = None]
    /\ UNCHANGED <<stored, mem>>
Conflicts(s) == dirty[s] # None /\ Blockers(s) = {} /\ ~Fits(s)

(* DELETE ... WHERE key IN keys.                                           *)
DeleteBlockers(s, keys) ==
    {t \in Session \ {s} : \E k \in keys \cap DOMAIN own[t] : stored[k] # None}
Delete(s, keys) ==
    /\ own' = [own EXCEPT ![s] = [k \in {x \in keys : stored[x] # None} |-> None]]
    /\ UNCHANGED <<stored, mem, dirty>>

Forget(s) ==
    /\ own' = [own EXCEPT ![s] = EmptyMap]
    /\ mem' = [mem EXCEPT ![s] = EmptyMap]
    /\ dirty' = [dirty EXCEPT ![s] = None]
Commit(s) ==
    /\ dirty[s] = None
    /\ stored' = [k \in Key |-> View(s, k)]
    /\ Forget(s)
Rollback(s) == UNCHANGED stored /\ Forget(s)
=============================================================================
