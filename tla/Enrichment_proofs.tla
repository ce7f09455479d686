--------------------------- MODULE Enrichment_proofs ---------------------------
(***************************************************************************)
(* The enrichment keeps its invariant: the mappings the requests teach,    *)
(* the rows, locks and counts of the answer cache, and the account each    *)
(* job gives of its transactions; and what follows for the answers, the    *)
(* counts and the ledgers they leave behind.  Last, that no wait and no    *)
(* job goes on for ever.                                                   *)
(***************************************************************************)
EXTENDS Enrichment, FiniteSetTheorems, SequenceTheorems, TLAPS

-----------------------------------------------------------------------------
(* Counting.                                                               *)

LEMMA PositionsFinite ==
  ASSUME NEW S, NEW s \in Seq(S), NEW I, I \subseteq DOMAIN s
  PROVE  IsFiniteSet(I) /\ Cardinality(I) \in Nat
  <1>1. DOMAIN s = 1..Len(s) /\ Len(s) \in Nat
    OBVIOUS
  <1>2. IsFiniteSet(1..Len(s))
    BY <1>1, FS_Interval
  <1>3. IsFiniteSet(I)
    BY <1>1, <1>2, FS_Subset
  <1> QED
    BY <1>3, FS_CardinalityType

(* A finite nonempty set of naturals has a least and a greatest element.   *)
LEMMA Least ==
  ASSUME NEW I, I \subseteq Nat, I # {}
  PROVE  \E i \in I : \A k \in I : i <= k
  <1> DEFINE R == {ss \in Nat \X Nat : ss[1] < ss[2]}
  <1>1. R = OpToRel(<, Nat)
    BY Zenon DEF OpToRel
  <1>2. IsWellFoundedOn(R, Nat)
    BY <1>1, NatLessThanWellFounded, Zenon
  <1>3. PICK i \in I : \A k \in I : ~(<<k, i>> \in R)
    BY <1>2, WFMin, Zenon
  <1>4. ASSUME NEW k \in I PROVE i <= k
    <2>1. i \in Nat /\ k \in Nat /\ ~(k < i)
      BY <1>3, <1>4
    <2> QED
      BY <2>1
  <1> QED
    BY <1>4

LEMMA Greatest ==
  ASSUME NEW n \in Nat, NEW I, I \subseteq 1..n, I # {}
  PROVE  \E i \in I : \A k \in I : k <= i
  <1> DEFINE J == {n - i : i \in I}
  <1>1. J \subseteq Nat /\ J # {}
    <2>1. \A i \in I : n - i \in Nat
      OBVIOUS
    <2>2. PICK i : i \in I
      OBVIOUS
    <2> QED
      BY <2>1, <2>2, Zenon
  <1>2. PICK j \in J : \A k \in J : j <= k
    BY <1>1, Least
  <1>3. PICK i \in I : j = n - i
    OBVIOUS
  <1>4. ASSUME NEW k \in I PROVE k <= i
    <2>1. j <= n - k /\ k \in Int /\ i \in Int
      BY <1>2
    <2> QED
      BY <1>3, <2>1
  <1> QED
    BY <1>4

-----------------------------------------------------------------------------
(* The mappings: what a request finds was taught.                          *)

LEMMA TaughtTypes ==
  ASSUME RequestTypes, NEW u \in Request, NEW k \in MappingKey
  PROVE  /\ IsFiniteSet(AskedFor(u, k)) /\ Cardinality(AskedFor(u, k)) \in Nat
         /\ confirms[k].times \in Nat
         /\ {asked[u][i][2] : i \in AskedFor(u, k)} \subseteq Ledger
  <1>1. asked[u] \in Seq(MappingKey \X Ledger) /\ AskedFor(u, k) \subseteq DOMAIN asked[u]
    BY DEF RequestTypes, AskedFor
  <1>2. \A i \in DOMAIN asked[u] : asked[u][i][2] \in Ledger
    BY <1>1
  <1> QED
    BY <1>1, <1>2, PositionsFinite DEF RequestTypes

LEMMA FoundMapping ==
  ASSUME MemoryInv, NEW u \in Request, NEW k \in MappingKey
  PROVE  /\ Mapping!View(u, k) \in Mappings \cup {None}
         /\ Mapping!View(u, k) # None =>
              /\ Taught(u, k, Mapping!View(u, k))
              /\ Mapping!View(u, k).id = u \/ request[Mapping!View(u, k).id] = "done"
         /\ Mapping!Get(u, k) # None =>
              /\ Mapping!Get(u, k) \in Mappings /\ Taught(u, k, Mapping!Get(u, k))
              /\ Mapping!View(u, k) # None /\ Mapping!Get(u, k).id = Mapping!View(u, k).id
  <1>1. /\ Partial(mappingOwn[u], MappingKey, Mappings) /\ Partial(mappingMem[u], MappingKey, Mappings)
        /\ mapping[k] \in Mappings \cup {None} /\ RequestInv(u) /\ RequestTypes
    BY DEF MemoryInv, RequestTypes
  <1>2. CASE k \in DOMAIN mappingOwn[u]
    <2>1. Mapping!View(u, k) = mappingOwn[u][k]
      BY <1>2 DEF Mapping!View
    <2>2. mappingOwn[u][k] \in Mappings /\ Taught(u, k, mappingOwn[u][k])
      BY <1>1, <1>2 DEF Partial, RequestInv
    <2>3. mappingOwn[u][k].id = u \/ request[mappingOwn[u][k].id] = "done"
      BY <1>1, <1>2 DEF RequestInv
    <2> QED
      BY <1>1, <2>1, <2>2, <2>3 DEF Mapping!Get, Partial, RequestInv
  <1>3. CASE k \notin DOMAIN mappingOwn[u]
    <2>1. Mapping!View(u, k) = mapping[k]
      BY <1>3 DEF Mapping!View
    <2>2. mapping[k] # None => mapping[k] \in Mappings /\ request[mapping[k].id] = "done"
      BY <1>1 DEF MemoryInv, MappingInv
    <2>3. ASSUME mapping[k] # None PROVE Taught(u, k, mapping[k])
      <3>1. mapping[k].hits <= confirms[k].times /\ mapping[k].ledger \in confirms[k].ledgers
        BY <2>3 DEF MemoryInv, MappingInv
      <3>2. mapping[k].hits \in Nat
        BY <2>2, <2>3 DEF Mappings
      <3> QED
        BY <1>1, <3>1, <3>2, TaughtTypes DEF Taught
    <2> QED
      BY <1>1, <2>1, <2>2, <2>3 DEF Mapping!Get, Partial, RequestInv
  <1> QED
    BY <1>2, <1>3

(* Confirmations are only added: what was taught stays so.                 *)
Teaches(u) ==
    \A k \in MappingKey : \A n \in Int : \A l \in Ledger :
        /\ n <= confirms[k].times + Cardinality(AskedFor(u, k)) =>
             n <= confirms'[k].times + Cardinality(AskedFor(u, k)')
        /\ l \in confirms[k].ledgers \cup {asked[u][i][2] : i \in AskedFor(u, k)} =>
             l \in confirms'[k].ledgers \cup {asked'[u][i][2] : i \in AskedFor(u, k)'}
RequestSame(v) ==
    /\ request'[v] = request[v] /\ mappingOwn'[v] = mappingOwn[v]
    /\ mappingMem'[v] = mappingMem[v] /\ mappingDirty'[v] = mappingDirty[v]
DoneStays == \A v \in Request : request[v] = "done" => request'[v] = "done"

LEMMA TaughtStays ==
  ASSUME NEW u, NEW k \in MappingKey, NEW m, Teaches(u), Taught(u, k, m),
         m.hits \in Nat, m.ledger \in Ledger
  PROVE  Taught(u, k, m)'
  BY DEF Teaches, Taught

LEMMA RequestKept ==
  ASSUME MemoryInv, NEW v \in Request, RequestSame(v), DoneStays, Teaches(v)
  PROVE  RequestInv(v)'
  <1>1. /\ Partial(mappingOwn[v], MappingKey, Mappings) /\ Partial(mappingMem[v], MappingKey, Mappings)
        /\ mappingDirty[v] \in {None} \cup
             [key : MappingKey, id : Request, cols : [ledger : Ledger, hits : Nat] \cup Mappings]
        /\ RequestInv(v)
    BY DEF MemoryInv, RequestTypes
  <1>2. \A k \in DOMAIN mappingOwn[v] :
          /\ k \in MappingKey /\ mappingOwn[v][k].id \in Request
          /\ mappingOwn[v][k].hits \in Nat /\ mappingOwn[v][k].ledger \in Ledger
    BY <1>1 DEF Partial, Mappings
  <1>3. \A k \in DOMAIN mappingMem[v] :
          k \in MappingKey /\ mappingMem[v][k].hits \in Nat /\ mappingMem[v][k].ledger \in Ledger
    BY <1>1 DEF Partial, Mappings
  <1>4. mappingDirty[v] # None =>
          /\ mappingDirty[v].key \in MappingKey
          /\ mappingDirty[v].cols.hits \in Nat /\ mappingDirty[v].cols.ledger \in Ledger
    BY <1>1 DEF Mappings
  <1>5. \A k \in DOMAIN mappingOwn[v] : Taught(v, k, mappingOwn[v][k])'
    BY <1>1, <1>2, TaughtStays DEF RequestInv, RequestSame
  <1>6. \A k \in DOMAIN mappingMem[v] : Taught(v, k, mappingMem[v][k])'
    BY <1>1, <1>3, TaughtStays DEF RequestInv, RequestSame
  <1>7. mappingDirty[v] # None => Taught(v, mappingDirty[v].key, mappingDirty[v].cols)'
    BY <1>1, <1>4, TaughtStays DEF RequestInv, RequestSame
  <1> QED
    BY <1>1, <1>2, <1>5, <1>6, <1>7 DEF RequestInv, RequestSame, DoneStays

(* A step that leaves the mappings and the requests alone.                 *)
LEMMA MemoryKept ==
  ASSUME MemoryInv, UNCHANGED <<mappingVars, request, item, items, asked, confirms>>,
         row' \in [Tx -> Columns]
  PROVE  MemoryInv'
  <1>1. \A v \in Request : RequestSame(v) /\ Teaches(v)
    BY DEF RequestSame, Teaches, mappingVars, AskedFor
  <1>2. \A v \in Request : RequestInv(v)'
    BY <1>1, RequestKept DEF DoneStays
  <1> QED
    BY <1>2 DEF MemoryInv, RequestTypes, MappingInv, mappingVars

LEMMA OneRequest ==
  ASSUME MemoryInv, NEW u \in Request, RequestTypes', confirms' = confirms, mapping' = mapping,
         \A v \in Request \ {u} : RequestSame(v) /\ asked'[v] = asked[v],
         request[u] # "done", RequestInv(u)'
  PROVE  MemoryInv'
  <1>1. DoneStays
    BY DEF DoneStays, RequestSame
  <1>2. \A v \in Request \ {u} : Teaches(v)
    BY DEF Teaches, AskedFor
  <1>3. \A v \in Request : RequestInv(v)'
    BY <1>1, <1>2, RequestKept
  <1>4. \A k \in MappingKey : mapping[k] # None => mapping[k].id \in Request
    BY DEF MemoryInv, RequestTypes, Mappings
  <1>5. MappingInv'
    BY <1>1, <1>4 DEF MemoryInv, MappingInv, DoneStays
  <1> QED
    BY <1>3, <1>5 DEF MemoryInv

LEMMA KeepsOpen ==
  ASSUME MemoryInv, NEW u \in Request, Open(u)
  PROVE  MemoryInv'
  <1>1. PICK s \in Bulk : items' = [items EXCEPT ![u] = s]
    BY DEF Open
  <1>2. s \in Seq(Choice)
    BY <1>1, BulkAssumption DEF Choice
  <1>3. /\ request[u] = "new" /\ request' = [request EXCEPT ![u] = "open"]
        /\ UNCHANGED <<row, mappingVars, item, asked, confirms>> /\ RequestTypes
    BY DEF Open, MemoryInv
  <1>4. RequestTypes'
    BY <1>1, <1>2, <1>3 DEF RequestTypes, mappingVars
  <1>5. RequestInv(u)'
    <2>1. Teaches(u)
      BY <1>3 DEF Teaches, AskedFor
    <2>2. DOMAIN mappingOwn[u] = {} /\ DOMAIN mappingMem[u] = {} /\ mappingDirty[u] = None
      BY <1>3 DEF MemoryInv, RequestInv
    <2> QED
      BY <1>3, <1>4, <2>2 DEF RequestInv, mappingVars
  <1>6. \A v \in Request \ {u} : RequestSame(v) /\ asked'[v] = asked[v]
    BY <1>3 DEF RequestSame, RequestTypes, mappingVars
  <1> QED
    BY <1>3, <1>4, <1>5, <1>6, OneRequest DEF mappingVars

(* One more pattern remembered counts once, and for that pattern only.     *)
LEMMA AskedMore ==
  ASSUME RequestTypes, NEW u \in Request, NEW k \in MappingKey, NEW l \in Ledger,
         asked' = [asked EXCEPT ![u] = Append(@, <<k, l>>)], confirms' = confirms
  PROVE  /\ asked' \in [Request -> Seq(MappingKey \X Ledger)] /\ Teaches(u)
         /\ Cardinality(AskedFor(u, k)') = Cardinality(AskedFor(u, k)) + 1
         /\ l \in {asked'[u][i][2] : i \in AskedFor(u, k)'}
  <1> DEFINE s == asked[u]
             n == Len(s) + 1
  <1>1. s \in Seq(MappingKey \X Ledger) /\ asked'[u] = Append(s, <<k, l>>) /\ n \in Nat \ {0}
    BY DEF RequestTypes
  <1>2. /\ DOMAIN asked'[u] = DOMAIN s \cup {n} /\ n \notin DOMAIN s
        /\ asked'[u][n] = <<k, l>> /\ \A i \in DOMAIN s : asked'[u][i] = s[i]
    BY <1>1
  <1>3. asked' \in [Request -> Seq(MappingKey \X Ledger)]
    BY <1>1 DEF RequestTypes
  <1>4. AskedFor(u, k)' = AskedFor(u, k) \cup {n} /\ n \notin AskedFor(u, k)
    BY <1>2 DEF AskedFor
  <1>5. \A x \in MappingKey : x # k => AskedFor(u, x)' = AskedFor(u, x)
    BY <1>2 DEF AskedFor
  <1>6. \A x \in MappingKey : \A i \in AskedFor(u, x) : i \in AskedFor(u, x)' /\ asked'[u][i] = asked[u][i]
    BY <1>2 DEF AskedFor
  <1>7. Cardinality(AskedFor(u, k)') = Cardinality(AskedFor(u, k)) + 1
    BY <1>4, TaughtTypes, FS_AddElement
  <1>8. \A x \in MappingKey : /\ Cardinality(AskedFor(u, x)) \in Nat /\ confirms[x].times \in Nat
                              /\ Cardinality(AskedFor(u, x)') \in Nat
                              /\ Cardinality(AskedFor(u, x)) <= Cardinality(AskedFor(u, x)')
    BY <1>5, <1>7, TaughtTypes
  <1>9. Teaches(u)
    <2>1. ASSUME NEW x \in MappingKey
          PROVE  {asked[u][i][2] : i \in AskedFor(u, x)} \subseteq {asked'[u][i][2] : i \in AskedFor(u, x)'}
      BY <1>6
    <2>2. ASSUME NEW x \in MappingKey, NEW c \in Int, c <= confirms[x].times + Cardinality(AskedFor(u, x))
          PROVE  c <= confirms[x].times + Cardinality(AskedFor(u, x)')
      BY <1>8, <2>2
    <2> QED
      BY <2>1, <2>2 DEF Teaches
  <1> QED
    BY <1>2, <1>3, <1>4, <1>7, <1>9

LEMMA KeyIsKey ==
  ASSUME NEW t \in Tx
  PROVE  KeyOf(t) \in MappingKey
  BY DEF KeyOf, MappingKey, Client, PatternOf, Pattern

(* The row a change leaves.                                                *)
LEMMA OverMapping ==
  ASSUME NEW cols \in [ledger : Ledger, hits : Nat] \cup Mappings, NEW v \in Mappings
  PROVE  /\ Mapping!Over(cols, v) \in Mappings
         /\ Mapping!Over(cols, v).hits = cols.hits /\ Mapping!Over(cols, v).ledger = cols.ledger
         /\ Mapping!Over(cols, v).id = IF cols \in Mappings THEN cols.id ELSE v.id
  <1> DEFINE o == Mapping!Over(cols, v)
  <1>1. DOMAIN v = {"id", "ledger", "hits"} /\ v.id \in Request
    BY DEF Mappings
  <1>2. o = [c \in {"id", "ledger", "hits"} |-> IF c \in DOMAIN cols THEN cols[c] ELSE v[c]]
    BY <1>1 DEF Mapping!Over
  <1>3. CASE cols \in Mappings
    <2>1. /\ DOMAIN cols = {"id", "ledger", "hits"}
          /\ cols.id \in Request /\ cols.ledger \in Ledger /\ cols.hits \in Nat
      BY <1>3 DEF Mappings
    <2>2. o = [id |-> cols.id, ledger |-> cols.ledger, hits |-> cols.hits]
      BY <1>2, <2>1
    <2> QED
      BY <1>3, <2>1, <2>2 DEF Mappings
  <1>4. CASE cols \in [ledger : Ledger, hits : Nat]
    <2>1. /\ DOMAIN cols = {"ledger", "hits"} /\ cols.ledger \in Ledger /\ cols.hits \in Nat
          /\ cols \notin Mappings
      BY <1>4 DEF Mappings
    <2>2. o = [id |-> v.id, ledger |-> cols.ledger, hits |-> cols.hits]
      BY <1>2, <2>1
    <2> QED
      BY <1>1, <2>1, <2>2 DEF Mappings
  <1> QED
    BY <1>3, <1>4

LEMMA KeepsConfirm ==
  ASSUME MemoryInv, NEW u \in Request, Confirm(u)
  PROVE  MemoryInv'
  <1> DEFINE t == items[u][item[u]][1]
             l == items[u][item[u]][2]
  <1>0. RequestTypes /\ RequestInv(u) /\ UNCHANGED <<row, item, items, confirms>>
    BY DEF MemoryInv, Confirm
  <1>1. /\ request[u] = "open" /\ request' = [request EXCEPT ![u] = "flush"]
        /\ t \in Tx /\ l \in Ledger \cup {None}
    <2>1. request[u] = "open" /\ item[u] \in 1..Len(items[u]) /\ items[u] \in Seq(Choice)
      BY <1>0 DEF Confirm, RequestTypes
    <2>2. items[u][item[u]] \in Choice
      BY <2>1
    <2> QED
      BY <2>1, <2>2 DEF Confirm, Choice
  <1>2. \A v \in Request \ {u} : request'[v] = request[v]
    BY <1>0, <1>1 DEF RequestTypes
  <1>3. CASE l = None
    <2>1. asked' = asked /\ UNCHANGED mappingVars
      BY <1>3, NoneAssumption DEF Confirm, Mapping!Put
    <2>2. RequestTypes'
      BY <1>0, <1>1, <2>1 DEF RequestTypes, mappingVars
    <2>3. RequestInv(u)'
      <3>1. Teaches(u)
        BY <1>0, <2>1 DEF Teaches, AskedFor
      <3>2. /\ mappingOwn'[u] = mappingOwn[u] /\ mappingMem'[u] = mappingMem[u]
            /\ mappingDirty'[u] = mappingDirty[u]
            /\ \A k \in DOMAIN mappingOwn[u] : mappingOwn[u][k].id \in Request
        BY <1>0, <2>1 DEF mappingVars, RequestTypes, Partial, Mappings
      <3>3. \A k, m : Taught(u, k, m)' <=> Taught(u, k, m)
        BY <1>0, <2>1 DEF Taught, AskedFor
      <3>4. \A v \in Request : request[v] = "done" => request'[v] = "done"
        BY <1>1, <1>2
      <3>5. request'[u] = "flush"
        BY <1>0, <1>1 DEF RequestTypes
      <3> QED
        BY <1>0, <1>1, <3>2, <3>3, <3>4, <3>5 DEF RequestInv
    <2> QED
      BY <1>0, <1>1, <1>2, <2>1, <2>2, <2>3, OneRequest DEF RequestSame, mappingVars
  <1>4. CASE l # None
    <2> DEFINE m == Mapping!Get(u, KeyOf(t))
    <2>1. PICK k \in MappingKey : k = KeyOf(t)
      BY <1>1, KeyIsKey
    <2>2. l \in Ledger /\ asked' = [asked EXCEPT ![u] = Append(@, <<k, l>>)]
      BY <1>1, <1>4, <2>1 DEF Confirm
    <2>3. PICK r, cols :
            /\ Mapping!Put(u, k, r, cols) /\ cols.ledger = l
            /\ r \in Mappings /\ cols \in [ledger : Ledger, hits : Nat] \cup Mappings
            /\ cols.hits <= confirms[k].times + Cardinality(AskedFor(u, k)) + 1
            /\ cols \in Mappings => cols.id = r.id
            /\ \/ r.id # u \/ cols \in Mappings
               \/ k \in DOMAIN mappingOwn[u] /\ mappingOwn[u][k] # None
      <3>1. CASE m # None
        <4>1. Mapping!Put(u, k, m, [ledger |-> l, hits |-> m.hits + 1])
          BY <1>4, <2>1, <3>1 DEF Confirm
        <4>2. /\ m \in Mappings /\ Taught(u, k, m)
              /\ Mapping!View(u, k) # None /\ m.id = Mapping!View(u, k).id
          BY <2>1, <3>1, FoundMapping
        <4>3. /\ confirms[k].times \in Nat /\ Cardinality(AskedFor(u, k)) \in Nat
              /\ m.hits \in Nat /\ m.hits <= confirms[k].times + Cardinality(AskedFor(u, k))
          BY <1>0, <4>2, TaughtTypes DEF Taught, Mappings
        <4>4. PICK cols : cols = [ledger |-> l, hits |-> m.hits + 1]
          OBVIOUS
        <4>5. /\ cols \in [ledger : Ledger, hits : Nat] /\ cols.ledger = l /\ cols.hits = m.hits + 1
              /\ cols \notin Mappings
          BY <2>2, <4>3, <4>4 DEF Mappings
        <4>6. ASSUME m.id = u PROVE k \in DOMAIN mappingOwn[u] /\ mappingOwn[u][k] # None
          <5>1. mapping[k] # None => request[mapping[k].id] = "done"
            BY DEF MemoryInv, MappingInv
          <5> QED
            BY <1>1, <4>2, <4>6, <5>1 DEF Mapping!View
        <4> QED
          BY <4>1, <4>2, <4>3, <4>4, <4>5, <4>6
      <3>2. CASE m = None
        <4>1. PICK new : new = [id |-> u, ledger |-> l, hits |-> 1]
          OBVIOUS
        <4>2. Mapping!Put(u, k, new, new)
          BY <1>4, <2>1, <3>2, <4>1 DEF Confirm
        <4>3. /\ new \in Mappings /\ new.id = u /\ new.ledger = l /\ new.hits = 1
          BY <2>2, <4>1 DEF Mappings
        <4>4. confirms[k].times \in Nat /\ Cardinality(AskedFor(u, k)) \in Nat
          BY <1>0, TaughtTypes
        <4> QED
          BY <4>2, <4>3, <4>4
      <3> QED
        BY <3>1, <3>2
    <2>4. PICK o \in Mappings : /\ o = Mapping!Over(cols, r)
                                /\ o.hits = cols.hits /\ o.ledger = cols.ledger
      BY <2>3, OverMapping
    <2>5. PICK d : d = [key |-> k, id |-> r.id, cols |-> cols]
      OBVIOUS
    <2>6. /\ d.key = k /\ d.id = r.id /\ d.cols = cols
          /\ d \in [key : MappingKey, id : Request, cols : [ledger : Ledger, hits : Nat] \cup Mappings]
      <3>1. r.id \in Request
        BY <2>3 DEF Mappings
      <3> QED
        BY <2>3, <2>5, <3>1
    <2>7. /\ mapping' = mapping /\ mappingOwn' = mappingOwn
          /\ mappingMem' = [mappingMem EXCEPT ![u] = Mapping!With(@, k, o)]
          /\ mappingDirty' = [mappingDirty EXCEPT ![u] = d]
      BY <2>3, <2>4, <2>5 DEF Mapping!Put
    <2>8. /\ DOMAIN mappingMem' = Request /\ DOMAIN mappingMem'[u] = DOMAIN mappingMem[u] \cup {k}
          /\ mappingMem'[u] = [x \in DOMAIN mappingMem[u] \cup {k} |->
                                 IF x = k THEN o ELSE mappingMem[u][x]]
          /\ \A v \in Request \ {u} : mappingMem'[v] = mappingMem[v] /\ mappingDirty'[v] = mappingDirty[v]
          /\ mappingDirty'[u] = d
      BY <1>0, <2>7 DEF RequestTypes, Mapping!With
    <2>9. /\ asked' \in [Request -> Seq(MappingKey \X Ledger)] /\ Teaches(u)
          /\ Cardinality(AskedFor(u, k)') = Cardinality(AskedFor(u, k)) + 1
          /\ l \in {asked'[u][i][2] : i \in AskedFor(u, k)'}
      BY <1>0, <2>2, AskedMore
    <2>10. Partial(mappingMem'[u], MappingKey, Mappings)
      BY <1>0, <2>8 DEF RequestTypes, Partial
    <2>11. RequestTypes'
      BY <1>0, <1>1, <2>6, <2>7, <2>8, <2>9, <2>10 DEF RequestTypes
    <2>12. Taught(u, k, cols)' /\ Taught(u, k, o)'
      <3>1. /\ confirms[k].times \in Nat /\ Cardinality(AskedFor(u, k)) \in Nat
            /\ cols.hits \in Nat /\ confirms'[k] = confirms[k]
        BY <1>0, <2>3, TaughtTypes DEF Mappings
      <3>2. cols.hits <= confirms'[k].times + Cardinality(AskedFor(u, k)')
        BY <2>3, <2>9, <3>1
      <3> QED
        BY <2>3, <2>4, <2>9, <3>2 DEF Taught
    <2>13. RequestInv(u)'
      <3>1. \A x \in DOMAIN mappingMem[u] : \A w : w = mappingMem[u][x] => Taught(u, x, w)'
        <4>1. \A x \in DOMAIN mappingMem[u] :
                /\ x \in MappingKey /\ Taught(u, x, mappingMem[u][x])
                /\ mappingMem[u][x].hits \in Nat /\ mappingMem[u][x].ledger \in Ledger
          BY <1>0 DEF RequestTypes, RequestInv, Partial, Mappings
        <4> QED
          BY <2>9, <4>1, TaughtStays
      <3>2. \A x \in DOMAIN mappingMem'[u] : Taught(u, x, mappingMem[u][x])'
        BY <2>8, <2>12, <3>1 DEF Taught
      <3>3. \A x \in DOMAIN mappingOwn[u] : \A w : w = mappingOwn[u][x] => Taught(u, x, w)'
        <4>1. \A x \in DOMAIN mappingOwn[u] :
                /\ x \in MappingKey /\ Taught(u, x, mappingOwn[u][x])
                /\ mappingOwn[u][x].hits \in Nat /\ mappingOwn[u][x].ledger \in Ledger
          BY <1>0 DEF RequestTypes, RequestInv, Partial, Mappings
        <4> QED
          BY <2>9, <4>1, TaughtStays
      <3>4. \A x \in DOMAIN mappingOwn[u] :
              mappingOwn[u][x].id = u \/ request'[mappingOwn[u][x].id] = "done"
        <4>1. \A x \in DOMAIN mappingOwn[u] : mappingOwn[u][x].id \in Request
          BY <1>0 DEF RequestTypes, Partial, Mappings
        <4> QED
          BY <1>0, <1>2, <4>1 DEF RequestInv
      <3>5. request'[u] = "flush"
        BY <1>0, <1>1 DEF RequestTypes
      <3>6. \A x \in DOMAIN mappingOwn'[u] : Taught(u, x, mappingOwn[u][x])'
        BY <2>7, <3>3 DEF Taught
      <3>7. Taught(u, mappingDirty[u].key, mappingDirty[u].cols)'
        BY <2>6, <2>8, <2>12 DEF Taught
      <3> QED
        BY <2>3, <2>6, <2>7, <2>8, <3>2, <3>4, <3>5, <3>6, <3>7 DEF RequestInv
    <2>14. \A v \in Request \ {u} : RequestSame(v) /\ asked'[v] = asked[v]
      BY <1>0, <1>2, <2>2, <2>7, <2>8 DEF RequestSame, RequestTypes
    <2> QED
      BY <1>0, <1>1, <2>7, <2>11, <2>13, <2>14, OneRequest
  <1> QED
    BY <1>3, <1>4

LEMMA KeepsFlushMapping ==
  ASSUME MemoryInv, NEW u \in Request, FlushMapping(u)
  PROVE  MemoryInv'
  <1>0. /\ RequestTypes /\ RequestInv(u) /\ UNCHANGED <<row, items, asked, confirms, mapping, mappingMem>>
        /\ request[u] = "flush" /\ request' = [request EXCEPT ![u] = "open"]
        /\ item' = [item EXCEPT ![u] = @ + 1]
    BY DEF MemoryInv, FlushMapping, mappingVars, Mapping!Flush
  <1>1. /\ \A v \in Request \ {u} : request'[v] = request[v]
        /\ request' \in [Request -> {"new", "open", "flush", "done", "error"}]
        /\ item' \in [Request -> Nat \ {0}] /\ request'[u] = "open"
    BY <1>0 DEF RequestTypes
  <1>2. \A k, w : Taught(u, k, w)' <=> Taught(u, k, w)
    BY <1>0 DEF Taught, AskedFor
  <1>3. \A x \in DOMAIN mappingMem'[u] : Taught(u, x, mappingMem[u][x])'
    BY <1>0 DEF RequestInv, Taught, AskedFor
  <1>4. CASE mappingDirty[u] = None
    <2>1. UNCHANGED mappingVars
      BY <1>4 DEF FlushMapping
    <2>2. RequestTypes'
      BY <1>0, <1>1, <2>1 DEF RequestTypes, mappingVars
    <2>3. RequestInv(u)'
      <3>0. mappingOwn' = mappingOwn
        BY <2>1 DEF mappingVars
      <3>1. \A x \in DOMAIN mappingOwn'[u] : Taught(u, x, mappingOwn[u][x])'
        BY <1>0, <3>0 DEF RequestInv, Taught, AskedFor
      <3>2. \A x \in DOMAIN mappingOwn[u] : mappingOwn[u][x].id \in Request
        BY <1>0 DEF RequestTypes, Partial, Mappings
      <3> QED
        BY <1>0, <1>1, <1>3, <1>4, <2>1, <3>1, <3>2 DEF RequestInv, mappingVars
    <2> QED
      BY <1>0, <1>1, <2>1, <2>2, <2>3, OneRequest DEF RequestSame, mappingVars
  <1>5. CASE mappingDirty[u] # None
    <2>1. PICK d : d = mappingDirty[u]
      OBVIOUS
    <2>2. PICK v : v = Mapping!View(u, d.key)
      OBVIOUS
    <2>3. PICK o : o = IF v = None THEN d.cols ELSE Mapping!Over(d.cols, v)
      OBVIOUS
    <2>4. /\ IF v = None THEN d.id = u ELSE v.id = d.id
          /\ mappingOwn' = [mappingOwn EXCEPT ![u] = Mapping!With(@, d.key, o)]
          /\ mappingDirty' = [mappingDirty EXCEPT ![u] = None]
      BY <1>5, <2>1, <2>2, <2>3 DEF FlushMapping, Mapping!Flush, Mapping!Fits
    <2>5. /\ d.key \in MappingKey /\ d.id \in Request
          /\ d.cols \in [ledger : Ledger, hits : Nat] \cup Mappings
          /\ d.cols \in Mappings => d.cols.id = d.id
          /\ \/ d.id # u \/ d.cols \in Mappings
             \/ d.key \in DOMAIN mappingOwn[u] /\ mappingOwn[u][d.key] # None
      BY <1>0, <1>5, <2>1 DEF RequestInv, RequestTypes
    <2>6. Taught(u, d.key, d.cols)
      BY <1>0, <1>5, <2>1 DEF RequestInv
    <2>7. /\ o \in Mappings /\ o.hits = d.cols.hits /\ o.ledger = d.cols.ledger
          /\ o.id = u \/ request[o.id] = "done"
      <3>1. CASE v = None
        <4>1. d.cols \in Mappings
          BY <2>2, <2>4, <2>5, <3>1 DEF Mapping!View
        <4> QED
          BY <2>3, <2>4, <2>5, <3>1, <4>1
      <3>2. CASE v # None
        <4>1. v \in Mappings /\ (v.id = u \/ request[v.id] = "done")
          BY <2>2, <2>5, <3>2, FoundMapping
        <4>2. PICK w : w = Mapping!Over(d.cols, v)
          OBVIOUS
        <4>3. /\ w \in Mappings /\ w.hits = d.cols.hits /\ w.ledger = d.cols.ledger
              /\ w.id = IF d.cols \in Mappings THEN d.cols.id ELSE v.id
          BY <2>5, <4>1, <4>2, OverMapping
        <4>4. w = o /\ w.id = v.id
          BY <2>3, <2>4, <2>5, <3>2, <4>2, <4>3
        <4> QED
          BY <4>1, <4>3, <4>4
      <3> QED
        BY <3>1, <3>2
    <2>8. Taught(u, d.key, o)
      BY <2>6, <2>7 DEF Taught
    <2>9. /\ DOMAIN mappingOwn' = Request
          /\ mappingOwn'[u] = [x \in DOMAIN mappingOwn[u] \cup {d.key} |->
                                 IF x = d.key THEN o ELSE mappingOwn[u][x]]
          /\ DOMAIN mappingOwn'[u] = DOMAIN mappingOwn[u] \cup {d.key}
          /\ \A w \in Request \ {u} : mappingOwn'[w] = mappingOwn[w] /\ mappingDirty'[w] = mappingDirty[w]
          /\ mappingDirty'[u] = None
          /\ mappingDirty' \in [Request -> {None} \cup
               [key : MappingKey, id : Request, cols : [ledger : Ledger, hits : Nat] \cup Mappings]]
      BY <1>0, <2>4 DEF RequestTypes, Mapping!With
    <2>10. Partial(mappingOwn'[u], MappingKey, Mappings)
      BY <1>0, <2>5, <2>7, <2>9 DEF RequestTypes, Partial
    <2>11. RequestTypes'
      BY <1>0, <1>1, <2>9, <2>10 DEF RequestTypes
    <2>12. RequestInv(u)'
      <3>1. \A x \in DOMAIN mappingOwn'[u] : Taught(u, x, mappingOwn[u][x])'
        BY <1>0, <1>2, <2>8, <2>9 DEF RequestInv, Taught
      <3>2. \A x \in DOMAIN mappingOwn[u] : mappingOwn[u][x].id \in Request
        BY <1>0 DEF RequestTypes, Partial, Mappings
      <3>3. \A x \in DOMAIN mappingOwn'[u] :
              mappingOwn'[u][x].id = u \/ request'[mappingOwn'[u][x].id] = "done"
        <4>1. o.id \in Request
          BY <2>7 DEF Mappings
        <4>2. \A w \in Request : request[w] = "done" => request'[w] = "done"
          BY <1>0, <1>1
        <4> QED
          BY <1>0, <2>7, <2>9, <3>2, <4>1, <4>2 DEF RequestInv
      <3> QED
        BY <1>1, <1>3, <2>9, <3>1, <3>3 DEF RequestInv
    <2>13. \A w \in Request \ {u} : RequestSame(w) /\ asked'[w] = asked[w]
      BY <1>0, <1>1, <2>9 DEF RequestSame
    <2> QED
      BY <1>0, <2>11, <2>12, <2>13, OneRequest
  <1> QED
    BY <1>4, <1>5

(* A session that ends keeps nothing.                                      *)
LEMMA ForgetMapping ==
  ASSUME RequestTypes, NEW u \in Request, Mapping!Forget(u)
  PROVE  /\ DOMAIN mappingOwn' = Request /\ DOMAIN mappingMem' = Request
         /\ mappingOwn'[u] = Mapping!EmptyMap /\ mappingMem'[u] = Mapping!EmptyMap
         /\ DOMAIN mappingOwn'[u] = {} /\ DOMAIN mappingMem'[u] = {} /\ mappingDirty'[u] = None
         /\ \A v \in Request \ {u} : /\ mappingOwn'[v] = mappingOwn[v] /\ mappingMem'[v] = mappingMem[v]
                                     /\ mappingDirty'[v] = mappingDirty[v]
         /\ \A v \in Request : /\ Partial(mappingOwn'[v], MappingKey, Mappings)
                               /\ Partial(mappingMem'[v], MappingKey, Mappings)
         /\ mappingDirty' \in [Request -> {None} \cup
              [key : MappingKey, id : Request, cols : [ledger : Ledger, hits : Nat] \cup Mappings]]
  <1>1. /\ DOMAIN mappingOwn' = Request /\ DOMAIN mappingMem' = Request
        /\ mappingOwn'[u] = Mapping!EmptyMap /\ mappingMem'[u] = Mapping!EmptyMap
        /\ mappingDirty'[u] = None
        /\ \A v \in Request \ {u} : /\ mappingOwn'[v] = mappingOwn[v] /\ mappingMem'[v] = mappingMem[v]
                                    /\ mappingDirty'[v] = mappingDirty[v]
    BY DEF RequestTypes, Mapping!Forget
  <1>2. DOMAIN Mapping!EmptyMap = {} /\ Partial(Mapping!EmptyMap, MappingKey, Mappings)
    BY DEF Mapping!EmptyMap, Partial
  <1>3. \A v \in Request : /\ Partial(mappingOwn'[v], MappingKey, Mappings)
                           /\ Partial(mappingMem'[v], MappingKey, Mappings)
    BY <1>1, <1>2 DEF RequestTypes
  <1> QED
    BY <1>1, <1>2, <1>3 DEF RequestTypes, Mapping!Forget

LEMMA KeepsError ==
  ASSUME MemoryInv, NEW u \in Request, request[u] \in {"open", "flush"}, Mapping!Rollback(u),
         request' = [request EXCEPT ![u] = "error"], UNCHANGED <<row, item, items, asked, confirms>>
  PROVE  MemoryInv'
  <1>0. /\ RequestTypes /\ UNCHANGED <<row, item, items, asked, confirms, mapping>>
        /\ Mapping!Forget(u)
    BY DEF MemoryInv, Mapping!Rollback
  <1>1. /\ \A v \in Request \ {u} : request'[v] = request[v]
        /\ request' \in [Request -> {"new", "open", "flush", "done", "error"}] /\ request'[u] = "error"
    BY <1>0 DEF RequestTypes
  <1>2. RequestTypes'
    BY <1>0, <1>1, ForgetMapping DEF RequestTypes
  <1>3. RequestInv(u)'
    BY <1>0, <1>1, ForgetMapping DEF RequestInv
  <1> QED
    BY <1>0, <1>1, <1>2, <1>3, ForgetMapping, OneRequest DEF RequestSame

LEMMA KeepsFailures ==
  ASSUME MemoryInv, NEW u \in Request, MappingFails(u) \/ FailGone(u)
  PROVE  MemoryInv'
  BY KeepsError DEF MappingFails, FailGone

LEMMA KeepsSkipGone ==
  ASSUME MemoryInv, NEW u \in Request, SkipGone(u)
  PROVE  MemoryInv'
  <1>0. /\ RequestTypes /\ UNCHANGED <<row, mappingVars, request, items, asked, confirms>>
        /\ item' = [item EXCEPT ![u] = @ + 1]
    BY DEF MemoryInv, SkipGone
  <1>1. item' \in [Request -> Nat \ {0}]
    BY <1>0 DEF RequestTypes
  <1>2. RequestTypes'
    BY <1>0, <1>1 DEF RequestTypes, mappingVars
  <1>3. RequestInv(u)'
    BY <1>0 DEF MemoryInv, RequestInv, Taught, AskedFor, mappingVars
  <1>4. request[u] = "open"
    BY DEF SkipGone
  <1>5. \A v \in Request \ {u} : RequestSame(v) /\ asked'[v] = asked[v]
    BY <1>0 DEF RequestSame, mappingVars
  <1> QED
    BY <1>0, <1>2, <1>3, <1>4, <1>5, OneRequest DEF mappingVars

LEMMA KeepsCommitRequest ==
  ASSUME MemoryInv, NEW u \in Request, CommitRequest(u)
  PROVE  MemoryInv'
  <1>0. /\ RequestTypes /\ UNCHANGED <<item, items, asked>>
        /\ request[u] = "open" /\ request' = [request EXCEPT ![u] = "done"] /\ Mapping!Forget(u)
        /\ mapping' = [k \in MappingKey |-> Mapping!View(u, k)]
    BY DEF MemoryInv, CommitRequest, Mapping!Commit, MappingKey
  <1>1. /\ \A v \in Request \ {u} : request'[v] = request[v]
        /\ request' \in [Request -> {"new", "open", "flush", "done", "error"}] /\ request'[u] = "done"
    BY <1>0 DEF RequestTypes
  <1>2. \A k \in MappingKey :
          /\ confirms'[k].times = confirms[k].times + Cardinality(AskedFor(u, k))
          /\ confirms'[k].ledgers = confirms[k].ledgers \cup {asked[u][i][2] : i \in AskedFor(u, k)}
    BY DEF CommitRequest, AskedFor, MemoryInv, RequestTypes
  <1>3. confirms' \in [MappingKey -> [times : Nat, ledgers : SUBSET Ledger]]
    <2>1. \A k \in MappingKey :
            /\ confirms[k].times + Cardinality(AskedFor(u, k)) \in Nat
            /\ confirms[k].ledgers \cup {asked[u][i][2] : i \in AskedFor(u, k)} \subseteq Ledger
      BY <1>0, TaughtTypes DEF RequestTypes
    <2>2. confirms' = [k \in MappingKey |->
             [times |-> confirms[k].times + Cardinality(AskedFor(u, k)),
              ledgers |-> confirms[k].ledgers \cup {asked[u][i][2] : i \in AskedFor(u, k)}]]
      BY DEF CommitRequest, AskedFor, MemoryInv, RequestTypes
    <2> QED
      BY <2>1, <2>2
  <1>4. row' \in [Tx -> Columns]
    <2>1. ASSUME NEW t \in Tx
          PROVE  LET mine == {i \in DOMAIN items[u] : items[u][i][1] = t}
                 IN  mine # {} =>
                       items[u][CHOOSE i \in mine : \A j \in mine : j <= i][2] \in Ledger \cup {None}
      <3>1. PICK mine : mine = {i \in DOMAIN items[u] : items[u][i][1] = t}
        OBVIOUS
      <3>2. /\ items[u] \in Seq(Choice) /\ Len(items[u]) \in Nat /\ mine \subseteq DOMAIN items[u]
            /\ mine \subseteq 1..Len(items[u])
        BY <1>0, <3>1 DEF RequestTypes
      <3>3. ASSUME mine # {} PROVE \E i \in mine : \A j \in mine : j <= i
        <4>1. PICK n \in Nat : mine \subseteq 1..n
          BY <3>2
        <4> QED
          BY <3>3, <4>1, Greatest
      <3>4. mine # {} => (CHOOSE i \in mine : \A j \in mine : j <= i) \in mine
        BY <3>3, Zenon
      <3>5. \A i \in DOMAIN items[u] : items[u][i][2] \in Ledger \cup {None}
        BY <3>2 DEF Choice
      <3> QED
        BY <3>1, <3>2, <3>4, <3>5
    <2>2. \A t \in Tx : row[t] \in Columns
      BY <1>0 DEF RequestTypes
    <2>3. \A t \in Tx : \A c \in Ledger \cup {None} : [row[t] EXCEPT !.confirmed = c] \in Columns
      BY <2>2 DEF Columns
    <2> QED
      BY <2>1, <2>2, <2>3 DEF CommitRequest
  <1>5. \A k \in MappingKey : mapping'[k] \in Mappings \cup {None}
    BY <1>0, FoundMapping
  <1>6. RequestTypes'
    <2>1. mapping' \in [MappingKey -> Mappings \cup {None}]
      BY <1>0, <1>5
    <2> QED
      BY <1>0, <1>1, <1>3, <1>4, <2>1, ForgetMapping DEF RequestTypes
  <1>7. MappingInv'
    <2>1. ASSUME NEW k \in MappingKey, mapping'[k] # None
          PROVE  /\ request'[mapping'[k].id] = "done"
                 /\ mapping'[k].hits <= confirms'[k].times
                 /\ mapping'[k].ledger \in confirms'[k].ledgers
      <3>1. PICK v : v = Mapping!View(u, k)
        OBVIOUS
      <3>2. mapping'[k] = v /\ v # None
        BY <1>0, <2>1, <3>1
      <3>3. /\ v \in Mappings /\ Taught(u, k, v) /\ (v.id = u \/ request[v.id] = "done")
        BY <3>1, <3>2, FoundMapping
      <3>4. request'[v.id] = "done"
        BY <1>0, <1>1, <3>3 DEF Mappings
      <3> QED
        BY <1>2, <3>2, <3>3, <3>4 DEF Taught
    <2> QED
      BY <2>1 DEF MappingInv
  <1>8. \A v \in Request : RequestInv(v)'
    <2>1. RequestInv(u)'
      BY <1>0, <1>1, ForgetMapping DEF RequestInv
    <2>2. ASSUME NEW v \in Request \ {u} PROVE RequestInv(v)'
      <3>1. RequestSame(v) /\ DoneStays
        BY <1>0, <1>1, ForgetMapping DEF RequestSame, DoneStays
      <3>2. \A k \in MappingKey : AskedFor(v, k)' = AskedFor(v, k)
        BY <1>0 DEF AskedFor
      <3>3. \A k \in MappingKey : /\ Cardinality(AskedFor(v, k)) \in Nat
                                  /\ Cardinality(AskedFor(u, k)) \in Nat /\ confirms[k].times \in Nat
        BY <1>0, TaughtTypes
      <3>4. ASSUME NEW k \in MappingKey, NEW n \in Int,
                   n <= confirms[k].times + Cardinality(AskedFor(v, k))
            PROVE  n <= confirms'[k].times + Cardinality(AskedFor(v, k)')
        BY <1>2, <3>2, <3>3, <3>4
      <3>5. ASSUME NEW k \in MappingKey, NEW l \in Ledger,
                   l \in confirms[k].ledgers \cup {asked[v][i][2] : i \in AskedFor(v, k)}
            PROVE  l \in confirms'[k].ledgers \cup {asked'[v][i][2] : i \in AskedFor(v, k)'}
        BY <1>0, <1>2, <3>2, <3>5
      <3>6. Teaches(v)
        BY <3>4, <3>5 DEF Teaches
      <3> QED
        BY <3>1, <3>6, RequestKept
    <2> QED
      BY <2>1, <2>2
  <1> QED
    BY <1>6, <1>7, <1>8 DEF MemoryInv

LEMMA KeepsRequestStep ==
  ASSUME MemoryInv, NEW u \in Request, RequestStep(u)
  PROVE  MemoryInv'
  BY KeepsOpen, KeepsConfirm, KeepsSkipGone, KeepsFlushMapping, KeepsFailures, KeepsCommitRequest
     DEF RequestStep

(* Only a commit changes the columns of a transaction or a mapping, and    *)
(* what users have confirmed stays confirmed.                              *)
LEMMA RequestLeaves ==
  ASSUME MemoryInv, NEW u \in Request, RequestStep(u)
  PROVE  \A k \in MappingKey : /\ confirms'[k].times >= confirms[k].times
                               /\ confirms[k].times \in Nat /\ confirms'[k].times \in Nat
                               /\ confirms[k].ledgers \subseteq confirms'[k].ledgers
  <1>1. RequestTypes /\ RequestTypes'
    BY KeepsRequestStep DEF MemoryInv
  <1>2. CASE confirms' = confirms
    BY <1>1, <1>2 DEF RequestTypes
  <1>3. CASE CommitRequest(u)
    <2>1. \A k \in MappingKey :
          /\ confirms'[k].times = confirms[k].times + Cardinality(AskedFor(u, k))
          /\ confirms'[k].ledgers = confirms[k].ledgers \cup {asked[u][i][2] : i \in AskedFor(u, k)}
      BY <1>3 DEF CommitRequest, AskedFor, MemoryInv, RequestTypes
    <2>2. \A k \in MappingKey : Cardinality(AskedFor(u, k)) \in Nat /\ confirms[k].times \in Nat
      BY <1>1, TaughtTypes
    <2> QED
      BY <1>1, <2>1, <2>2 DEF RequestTypes
  <1> QED
    BY <1>2, <1>3 DEF RequestStep, Open, Confirm, SkipGone, FailGone, FlushMapping, MappingFails

-----------------------------------------------------------------------------
(* The answer cache: what a job finds in it and what a change makes of it. *)

LEMMA OverRow ==
  ASSUME NEW cols \in Changed, NEW v \in Rows
  PROVE  /\ Cache!Over(cols, v) \in Rows
         /\ Cache!Over(cols, v).id = IF cols \in Rows THEN cols.id ELSE v.id
         /\ Cache!Over(cols, v).hits = IF "hits" \in DOMAIN cols THEN cols.hits ELSE v.hits
         /\ Cache!Over(cols, v).from = IF "from" \in DOMAIN cols THEN cols.from ELSE v.from
         /\ Cache!Over(cols, v).ledger = IF "from" \in DOMAIN cols THEN cols.ledger ELSE v.ledger
  <1> DEFINE o == Cache!Over(cols, v)
  <1>1. /\ DOMAIN v = {"id", "from", "ledger", "hits"} /\ v.id \in Job /\ v.from \in AnswerSource
        /\ v.ledger \in Ledger \cup {None} /\ v.hits \in Nat
    BY DEF Rows
  <1>2. o = [c \in {"id", "from", "ledger", "hits"} |-> IF c \in DOMAIN cols THEN cols[c] ELSE v[c]]
    BY <1>1 DEF Cache!Over
  <1>3. CASE cols \in Rows
    <2>1. /\ DOMAIN cols = {"id", "from", "ledger", "hits"} /\ cols.id \in Job
          /\ cols.from \in AnswerSource /\ cols.ledger \in Ledger \cup {None} /\ cols.hits \in Nat
      BY <1>3 DEF Rows
    <2>2. o = [id |-> cols.id, from |-> cols.from, ledger |-> cols.ledger, hits |-> cols.hits]
      BY <1>2, <2>1
    <2> QED
      BY <1>3, <2>1, <2>2 DEF Rows
  <1>4. CASE cols \in [hits : Nat]
    <2>1. DOMAIN cols = {"hits"} /\ cols.hits \in Nat /\ cols \notin Rows
      BY <1>4 DEF Rows
    <2>2. o = [id |-> v.id, from |-> v.from, ledger |-> v.ledger, hits |-> cols.hits]
      BY <1>2, <2>1
    <2> QED
      BY <1>1, <2>1, <2>2 DEF Rows
  <1>5. CASE cols \in [from : AnswerSource, ledger : Ledger \cup {None}]
    <2>1. /\ DOMAIN cols = {"from", "ledger"} /\ cols.from \in AnswerSource
          /\ cols.ledger \in Ledger \cup {None} /\ cols \notin Rows
      BY <1>5 DEF Rows
    <2>2. o = [id |-> v.id, from |-> cols.from, ledger |-> cols.ledger, hits |-> v.hits]
      BY <1>2, <2>1
    <2> QED
      BY <1>1, <2>1, <2>2 DEF Rows
  <1> QED
    BY <1>3, <1>4, <1>5 DEF Changed

LEMMA RecordsFinite ==
  ASSUME Types, NEW j \in Job
  PROVE  /\ recorded \subseteq Records /\ job[j].used \subseteq Records
         /\ IsFiniteSet(recorded \cup job[j].used)
         /\ \A h : /\ IsFiniteSet(HitsOf(h, recorded)) /\ IsFiniteSet(HitsOf(h, recorded \cup job[j].used))
                   /\ Cardinality(HitsOf(h, recorded)) \in Nat
                   /\ Cardinality(HitsOf(h, recorded \cup job[j].used)) \in Nat
                   /\ Cardinality(HitsOf(h, recorded)) <= Cardinality(HitsOf(h, recorded \cup job[j].used))
  <1>1. /\ recorded \subseteq Records /\ job[j].used \subseteq Records
        /\ IsFiniteSet(recorded) /\ IsFiniteSet(job[j].used)
    BY DEF Types, TypeOK, JobRecord, Typed
  <1>2. IsFiniteSet(recorded \cup job[j].used)
    BY <1>1, FS_Union
  <1>3. ASSUME NEW h
        PROVE  /\ IsFiniteSet(HitsOf(h, recorded)) /\ IsFiniteSet(HitsOf(h, recorded \cup job[j].used))
               /\ Cardinality(HitsOf(h, recorded)) <= Cardinality(HitsOf(h, recorded \cup job[j].used))
    <2>1. /\ HitsOf(h, recorded) \subseteq HitsOf(h, recorded \cup job[j].used)
          /\ HitsOf(h, recorded \cup job[j].used) \subseteq recorded \cup job[j].used
      BY DEF HitsOf
    <2>2. IsFiniteSet(HitsOf(h, recorded \cup job[j].used))
      BY <1>2, <2>1, FS_Subset
    <2> QED
      BY <2>1, <2>2, FS_Subset
  <1> QED
    BY <1>1, <1>2, <1>3, FS_CardinalityType

LEMMA FoundRow ==
  ASSUME IInv, NEW j \in Job, NEW h \in HashKey
  PROVE  /\ Cache!View(j, h) \in Rows \cup {None}
         /\ Cache!View(j, h) # None =>
              /\ HitsIn(h, Cache!View(j, h), recorded \cup job[j].used)
              /\ AllowedBy(Cache!View(j, h), Named(Done \cup {j}))
              /\ Cache!View(j, h).id \in Done \cup {j}
         /\ Cache!Get(j, h) # None =>
              /\ Cache!Get(j, h) \in Rows
              /\ HitsIn(h, Cache!Get(j, h), recorded \cup job[j].used)
              /\ AllowedBy(Cache!Get(j, h), Named(Done \cup {j}))
              /\ Cache!View(j, h) # None /\ Cache!Get(j, h).id = Cache!View(j, h).id
  <1>1. /\ Partial(cacheOwn[j], HashKey, Rows \cup {None}) /\ Partial(cacheMem[j], HashKey, Rows)
        /\ cache[h] \in Rows \cup {None} /\ Types /\ RowsInv
        /\ SessionInv(j) /\ HitsInv(j) /\ AllowedInv(j)
    BY DEF IInv, JobInv, Types, TypeOK
  <1> DEFINE K == Done \cup {j}
             all == recorded \cup job[j].used
  <1>2. ASSUME NEW v, v = Cache!View(j, h)
        PROVE  /\ v \in Rows \cup {None}
               /\ v # None => HitsIn(h, v, all) /\ AllowedBy(v, Named(K)) /\ v.id \in K
    <2>1. CASE h \in DOMAIN cacheOwn[j]
      <3>1. v = cacheOwn[j][h] /\ v \in Rows \cup {None}
        BY <1>1, <1>2, <2>1 DEF Cache!View, Partial
      <3>2. v # None => HitsIn(h, v, all) /\ AllowedBy(v, Named(K))
        BY <1>1, <2>1, <3>1 DEF HitsInv, AllowedInv
      <3>3. v # None => v.id \in K
        BY <1>1, <2>1, <3>1 DEF SessionInv, RowsInv
      <3> QED
        BY <3>1, <3>2, <3>3
    <2>2. CASE h \notin DOMAIN cacheOwn[j]
      <3>1. v = cache[h]
        BY <1>2, <2>2 DEF Cache!View
      <3>2. ASSUME v # None PROVE HitsIn(h, v, all)
        <4>1. v \in Rows /\ v.hits <= Cardinality(HitsOf(h, recorded))
          BY <1>1, <3>1, <3>2 DEF IInv, HitsWereRecorded
        <4>2. v.hits \in Nat
          BY <4>1 DEF Rows
        <4>3. /\ Cardinality(HitsOf(h, recorded)) \in Nat /\ Cardinality(HitsOf(h, all)) \in Nat
              /\ Cardinality(HitsOf(h, recorded)) <= Cardinality(HitsOf(h, all))
          BY <1>1, RecordsFinite
        <4> HIDE DEF all
        <4> QED
          BY <4>1, <4>2, <4>3 DEF HitsIn
      <3>3. v # None => AllowedBy(v, Named(K))
        BY <3>1 DEF IInv, AllowedBy, Named
      <3> QED
        BY <1>1, <3>1, <3>2, <3>3 DEF RowsInv
    <2> QED
      BY <2>1, <2>2
  <1>3. ASSUME NEW g, g = Cache!Get(j, h), g # None
        PROVE  /\ g \in Rows /\ HitsIn(h, g, all) /\ AllowedBy(g, Named(K))
               /\ Cache!View(j, h) # None /\ g.id = Cache!View(j, h).id
    <2>1. PICK v : v = Cache!View(j, h)
      OBVIOUS
    <2>2. /\ v # None
          /\ g = v \/ (h \in DOMAIN cacheMem[j] /\ cacheMem[j][h].id = v.id /\ g = cacheMem[j][h])
      BY <1>3, <2>1 DEF Cache!Get
    <2>3. CASE g = v
      BY <1>2, <2>1, <2>2, <2>3
    <2>4. CASE h \in DOMAIN cacheMem[j] /\ cacheMem[j][h].id = v.id /\ g = cacheMem[j][h]
      BY <1>1, <2>1, <2>2, <2>4 DEF HitsInv, AllowedInv, Partial
    <2> QED
      BY <2>2, <2>3, <2>4
  <1> QED
    BY <1>2, <1>3

-----------------------------------------------------------------------------
(* What a step of one job leaves alone.                                    *)

JobSame(k) ==
    /\ pc'[k] = pc[k] /\ job'[k] = job[k] /\ cacheOwn'[k] = cacheOwn[k]
    /\ cacheMem'[k] = cacheMem[k] /\ cacheDirty'[k] = cacheDirty[k]
ForcedOf(j) ==
    job[j].force => \A t \in DOMAIN job[j].result : job[j].result[t].by \notin job[j].past
RecurringOf(j) ==
    \A t \in DOMAIN job[j].result :
        job[j].result[t].from = "recurring" =>
            \E p \in Pattern :
                LET c == confirms[<<ClientOf[t], p>>]
                IN  c.times >= 2 /\ job[j].result[t].ledger \in c.ledgers
Dirty == [key : HashKey, id : Job, cols : Changed]

LEMMA OtherJob ==
  ASSUME IInv, NEW k \in Job, JobSame(k), UNCHANGED <<cache, recorded>>, Done' = Done,
         \A d \in Done : job'[d] = job[d]
  PROVE  JobInv(k)'
  <1>1. JobInv(k)
    BY DEF IInv
  <1>2. Quiet(k)'
    BY <1>1 DEF JobInv, Quiet, JobSame
  <1>3. SessionInv(k)'
    BY <1>1 DEF JobInv, SessionInv, JobSame
  <1>4. HitsInv(k)'
    BY <1>1 DEF JobInv, HitsInv, JobSame, HitsIn, HitsOf
  <1>5. Named(Done \cup {k})' = Named(Done \cup {k})
    BY DEF Named, JobSame
  <1>6. AllowedInv(k)'
    BY <1>1, <1>5 DEF JobInv, AllowedInv, JobSame
  <1>7. FreshInv(k)'
    BY <1>1 DEF JobInv, FreshInv, JobSame, StaleKeys, Cache!View
  <1>8. AccountInv(k)'
    BY <1>1 DEF JobInv, AccountInv, JobSame
  <1> QED
    BY <1>2, <1>3, <1>4, <1>6, <1>7, <1>8 DEF JobInv

LEMMA OneJob ==
  ASSUME IInv, NEW j \in Job, UNCHANGED <<memoryVars, rules, changes, cache, usage, recorded>>,
         pc' \in [Job -> JobState], DOMAIN job' = Job,
         DOMAIN cacheOwn' = Job, DOMAIN cacheMem' = Job, cacheDirty' \in [Job -> {None} \cup Dirty],
         \A k \in Job \ {j} : JobSame(k), pc[j] # "done", pc'[j] # "done",
         Partial(cacheOwn'[j], HashKey, Rows \cup {None}), Partial(cacheMem'[j], HashKey, Rows),
         Typed(job'[j]), IsFiniteSet(job'[j].used),
         \A k \in Job \ {j} : DOMAIN cacheOwn'[j] \cap DOMAIN cacheOwn[k] = {},
         JobInv(j)', ForcedOf(j)', RecurringOf(j)'
  PROVE  IInv'
  <1>1. Done' = Done /\ \A d \in Done : job'[d] = job[d]
    BY DEF Done, JobSame
  <1>2. \A k \in Job : JobInv(k)'
    BY <1>1, OtherJob
  <1>3. /\ MemoryInv /\ Types /\ RowsInv /\ UsageInv /\ HitsWereRecorded
        /\ \A h \in HashKey : cache[h] # None => AllowedBy(cache[h], Named(Done))
    BY DEF IInv
  <1>4. MemoryInv'
    BY <1>3, MemoryKept DEF memoryVars, mappingVars, MemoryInv, RequestTypes
  <1>5. Types'
    <2>1. \A k \in Job \ {j} : Typed(job'[k])
      BY <1>3 DEF JobSame, Types, JobRecord, Typed
    <2>2. TypeOK'
      BY <1>3 DEF Types, TypeOK, memoryVars
    <2>3. \A k \in Job \ {j} : /\ Partial(cacheOwn'[k], HashKey, Rows \cup {None})
                               /\ Partial(cacheMem'[k], HashKey, Rows) /\ IsFiniteSet(job'[k].used)
      BY <1>3 DEF Types, JobSame
    <2> QED
      BY <1>3, <2>1, <2>2, <2>3 DEF Types, Dirty
  <1>6. RowsInv'
    BY <1>1, <1>3 DEF RowsInv, JobSame
  <1>7. UsageInv'
    BY <1>1, <1>3 DEF UsageInv
  <1>8. \A h \in HashKey : cache'[h] # None => AllowedBy(cache'[h], Named(Done)')
    <2>1. Named(Done)' = Named(Done)
      BY <1>1 DEF Named
    <2> QED
      BY <1>3, <2>1
  <1>9. HitsWereRecorded'
    BY <1>3 DEF HitsWereRecorded, HitsOf
  <1>10. \A k \in Job : ForcedOf(k)' /\ RecurringOf(k)'
    <2>1. \A k \in Job : ForcedOf(k) /\ RecurringOf(k)
      BY DEF IInv, ForcedIsFresh, RecurringWasConfirmed, ForcedOf, RecurringOf
    <2>2. confirms' = confirms
      BY DEF memoryVars
    <2>3. \A k \in Job \ {j} : job'[k] = job[k]
      BY DEF JobSame
    <2>4. \A k \in Job \ {j} : ForcedOf(k)'
      BY <2>1, <2>3 DEF ForcedOf
    <2>5. \A k \in Job \ {j} : RecurringOf(k)'
      BY <2>1, <2>2, <2>3 DEF RecurringOf
    <2> QED
      BY <2>4, <2>5
  <1>11. ForcedIsFresh'
    BY <1>10 DEF ForcedIsFresh, ForcedOf
  <1>12. RecurringWasConfirmed'
    BY <1>10 DEF RecurringWasConfirmed, RecurringOf
  <1> QED
    BY <1>2, <1>4, <1>5, <1>6, <1>7, <1>8, <1>9, <1>11, <1>12 DEF IInv

(* The fields of the record of a job, and a record with changed fields.    *)
LEMMA TypedFields ==
  ASSUME NEW q, Typed(q)
  PROVE  /\ q.statement \in Statement \cup {None} /\ q.force \in BOOLEAN /\ q.list \in Seq(Tx)
         /\ q.seen \in [ToSet(q.list) -> Columns] /\ q.allowed \subseteq Ledger
         /\ q.result \in [DOMAIN q.result -> Results] /\ q.used \subseteq Records
         /\ q.misses \in Seq(Tx) /\ q.at \in Nat \ {0} /\ q.tier \in Nat \ {0}
         /\ q.attempt \in Nat \ {0} /\ q.past \subseteq Job
  BY DEF Typed, JobRecord

LEMMA StillTyped ==
  ASSUME NEW q, Typed(q), NEW r, DOMAIN r = DOMAIN q, r = [x \in DOMAIN r |-> r[x]],
         r.statement = q.statement, r.force = q.force, r.list = q.list, r.seen = q.seen,
         r.allowed \subseteq Ledger, NEW S, r.result \in [S -> Results], r.used \subseteq Records,
         r.misses \in Seq(Tx), r.at \in Nat \ {0}, r.tier \in Nat \ {0},
         r.attempt \in Nat \ {0}, r.past \subseteq Job
  PROVE  Typed(r)
  <1>1. /\ q.statement \in Statement \cup {None} /\ q.force \in BOOLEAN /\ q.list \in Seq(Tx)
        /\ q.seen \in [ToSet(q.list) -> Columns]
        /\ DOMAIN q = {"statement", "force", "list", "seen", "allowed", "result", "used", "misses",
                       "at", "tier", "attempt", "past"}
    BY DEF Typed, JobRecord
  <1>2. PICK u : u = [statement |-> r.statement, force |-> r.force, list |-> r.list, seen |-> r.seen,
                      allowed |-> r.allowed, result |-> r.result, used |-> r.used,
                      misses |-> r.misses, at |-> r.at, tier |-> r.tier, attempt |-> r.attempt,
                      past |-> r.past]
    OBVIOUS
  <1>3. /\ DOMAIN u = DOMAIN r /\ u = [x \in DOMAIN u |-> u[x]]
        /\ \A x \in DOMAIN r : u[x] = r[x]
    BY <1>1, <1>2
  <1>4. r = u
    BY <1>3
  <1>5. /\ u.statement = r.statement /\ u.force = r.force /\ u.list = r.list /\ u.seen = r.seen
        /\ u.allowed = r.allowed /\ u.result = r.result /\ u.used = r.used
        /\ u.misses = r.misses /\ u.at = r.at /\ u.tier = r.tier /\ u.attempt = r.attempt
        /\ u.past = r.past
    BY <1>2
  <1>6. DOMAIN r.result = S
    OBVIOUS
  <1>7. u \in JobRecord(r.list, S)
    BY <1>1, <1>2 DEF JobRecord
  <1> QED
    BY <1>4, <1>6, <1>7 DEF Typed

Loop == {"lookup", "ask", "store", "apply"}

(* A step of a job that does not touch the cache: its answers are the old  *)
(* ones, or given or made up anew.                                         *)
LEMMA JobMoves ==
  ASSUME IInv, NEW j \in Job, NEW state \in Loop, NEW r,
         pc' = [pc EXCEPT ![j] = state], job' = [job EXCEPT ![j] = r],
         UNCHANGED <<memoryVars, rules, changes, cacheVars, usage, recorded>>,
         Typed(r), r.used = job[j].used, r.allowed = job[j].allowed, r.statement = job[j].statement,
         r.past = job[j].past, r.force = job[j].force, r.list = job[j].list,
         pc[j] \in Busy, Account(j, state, r),
         \A t \in DOMAIN r.result :
           \/ t \in DOMAIN job[j].result /\ r.result[t] = job[j].result[t]
           \/ /\ AllowedBy(r.result[t], Named(Done \cup {j}))
              /\ r.result[t].by = None /\ r.result[t].from # "recurring"
  PROVE  IInv'
  <1>0. state \in JobState \ {"done"} /\ state \in Busy /\ pc[j] # "done" /\ state # "begin"
        /\ state \notin {"new", "loaded", "begin", "failed"}
    BY DEF Loop, Busy, JobState
  <1>1. /\ job'[j] = r /\ pc'[j] = state /\ \A k \in Job \ {j} : job'[k] = job[k] /\ pc'[k] = pc[k]
        /\ DOMAIN job' = Job /\ pc' \in [Job -> JobState]
        /\ Types /\ RowsInv /\ JobInv(j)
    BY <1>0 DEF IInv, Types, TypeOK
  <1>2. Done' = Done /\ \A d \in Done : job'[d] = job[d]
    BY <1>0, <1>1 DEF Done
  <1>3. cache' = cache /\ cacheOwn' = cacheOwn /\ cacheMem' = cacheMem /\ cacheDirty' = cacheDirty
    BY DEF cacheVars
  <1>4. SessionInv(j)'
    BY <1>1, <1>3 DEF JobInv, SessionInv
  <1>5. HitsInv(j)'
    BY <1>1, <1>3 DEF JobInv, HitsInv, HitsIn, HitsOf
  <1>6. Named(Done \cup {j})' = Named(Done \cup {j})
    BY <1>1, <1>2 DEF Named
  <1>7. AllowedInv(j)'
    <2>1. \A t \in DOMAIN r.result : AllowedBy(r.result[t], Named(Done \cup {j}))
      BY <1>1 DEF JobInv, AllowedInv
    <2> QED
      BY <1>1, <1>3, <1>6, <2>1 DEF JobInv, AllowedInv
  <1>8. FreshInv(j)'
    BY <1>0, <1>1, <1>2, <1>3 DEF JobInv, FreshInv, StaleKeys, Cache!View
  <1>9. ForcedOf(j)'
    <2>1. None \notin job[j].past
      BY <1>1, NamesAssumption DEF JobInv, FreshInv, Done
    <2>2. job[j].force => \A t \in DOMAIN job[j].result : job[j].result[t].by \notin job[j].past
      BY DEF IInv, ForcedIsFresh
    <2>3. r.force => \A t \in DOMAIN r.result : r.result[t].by \notin r.past
      BY <2>1, <2>2
    <2> QED
      BY <1>1, <2>3 DEF ForcedOf
  <1>10. RecurringOf(j)'
    <2>1. RecurringOf(j) /\ confirms' = confirms
      BY DEF IInv, RecurringWasConfirmed, RecurringOf, memoryVars
    <2>2. \A t \in DOMAIN r.result : r.result[t].from = "recurring" =>
            t \in DOMAIN job[j].result /\ r.result[t] = job[j].result[t]
      OBVIOUS
    <2>3. \A t \in DOMAIN r.result : r.result[t].from = "recurring" =>
            \E p \in Pattern : LET c == confirms[<<ClientOf[t], p>>]
                               IN  c.times >= 2 /\ r.result[t].ledger \in c.ledgers
      BY <2>1, <2>2 DEF RecurringOf
    <2> QED
      BY <1>1, <2>1, <2>3 DEF RecurringOf
  <1>11. JobInv(j)'
    <2>1. Quiet(j)'
      <3>1. r.statement \in Statement
        BY <1>1 DEF JobInv, Quiet, Busy
      <3> QED
        BY <1>0, <1>1, <3>1 DEF Quiet
    <2>2. AccountInv(j)'
      BY <1>1 DEF AccountInv
    <2> QED
      BY <1>4, <1>5, <1>7, <1>8, <2>1, <2>2 DEF JobInv
  <1>12. \A k \in Job \ {j} : JobSame(k) /\ DOMAIN cacheOwn'[j] \cap DOMAIN cacheOwn[k] = {}
    BY <1>1, <1>3 DEF JobSame, RowsInv
  <1>13. /\ DOMAIN cacheOwn' = Job /\ DOMAIN cacheMem' = Job /\ cacheDirty' \in [Job -> {None} \cup Dirty]
         /\ Partial(cacheOwn'[j], HashKey, Rows \cup {None}) /\ Partial(cacheMem'[j], HashKey, Rows)
         /\ IsFiniteSet(job'[j].used)
    BY <1>1, <1>3 DEF Types, Dirty
  <1> QED
    BY <1>0, <1>1, <1>3, <1>9, <1>10, <1>11, <1>12, <1>13, OneJob

LEMMA IdleTyped ==
  Typed(Idle)
  <1>1. Idle = [statement |-> None, force |-> FALSE, list |-> << >>, seen |-> << >>,
                allowed |-> {}, result |-> << >>, used |-> {}, misses |-> << >>,
                at |-> 1, tier |-> 1, attempt |-> 1, past |-> {}]
    BY DEF Idle
  <1>2. ToSet(<< >>) = {} /\ << >> \in [{} -> Columns] /\ << >> \in [{} -> Results] /\ << >> \in Seq(Tx)
    BY DEF ToSet
  <1> QED
    BY <1>1, <1>2 DEF Typed, JobRecord

(* A job in a loop.                                                        *)
LEMMA LoopFacts ==
  ASSUME IInv, NEW j \in Job
  PROVE  /\ Loop \subseteq Busy /\ Typed(job[j]) /\ Account(j, pc[j], job[j])
         /\ DOMAIN job = Job /\ DOMAIN pc = Job
  BY DEF IInv, Types, TypeOK, JobInv, AccountInv, Loop, Busy

LEMMA ListFacts ==
  ASSUME NEW m \in Seq(Tx)
  PROVE  /\ DOMAIN m = 1..Len(m) /\ Len(m) \in Nat /\ ToSet(m) \subseteq Tx
         /\ \A i \in DOMAIN m : m[i] \in ToSet(m) /\ m[i] \in Tx /\ i \in Nat \ {0}
         /\ \A t \in ToSet(m) : \E i \in DOMAIN m : t = m[i]
  <1>1. DOMAIN m = 1..Len(m) /\ Len(m) \in Nat /\ \A i \in DOMAIN m : m[i] \in Tx
    OBVIOUS
  <1> QED
    BY <1>1 DEF ToSet

LEMMA KeepsNextPhase ==
  ASSUME IInv, NEW j \in Job, NextPhase(j)
  PROVE  IInv'
  <1>0. PICK n \in Nat \ {0} : n = 1
    OBVIOUS
  <1>1. PICK q : q = job[j]
    OBVIOUS
  <1>2. PICK r : r = [q EXCEPT !.at = n]
    OBVIOUS
  <1>3. PICK state \in Loop :
          /\ \/ pc[j] = "lookup" /\ q.at > Len(q.list) /\ state = "ask"
             \/ pc[j] = "ask" /\ q.at > Len(q.misses) /\ state = "store"
             \/ pc[j] = "store" /\ q.at > Len(q.misses) /\ state = "apply"
          /\ pc' = [pc EXCEPT ![j] = state] /\ job' = [job EXCEPT ![j] = r]
          /\ UNCHANGED <<memoryVars, rules, changes, cacheVars, usage, recorded>>
    BY <1>0, <1>1, <1>2 DEF NextPhase, Go, Hold, OthersIdle, Loop
  <1>4. Typed(q) /\ pc[j] \in Busy /\ Account(j, pc[j], q)
    BY <1>1, <1>3, LoopFacts DEF Busy
  <1>5. /\ r.used = q.used /\ r.allowed = q.allowed /\ r.past = q.past /\ r.statement = q.statement
        /\ r.force = q.force /\ r.list = q.list /\ r.result = q.result /\ r.tier = q.tier
        /\ r.misses = q.misses /\ r.seen = q.seen /\ r.at = n /\ r.attempt = q.attempt
        /\ DOMAIN r = DOMAIN q /\ r = [x \in DOMAIN r |-> r[x]]
    BY <1>2, <1>4 DEF JobRecord, Typed
  <1>6. Typed(r)
    BY <1>0, <1>1, <1>4, <1>5, TypedFields, StillTyped
  <1>7. PICK list \in Seq(Tx), misses \in Seq(Tx), at \in Nat \ {0} :
          list = q.list /\ misses = q.misses /\ at = q.at
    BY <1>4, TypedFields
  <1>8. /\ \A i \in DOMAIN list : i \in Nat \ {0} /\ i <= Len(list) /\ list[i] \in ToSet(list)
        /\ \A i \in DOMAIN misses : i \in Nat \ {0} /\ i <= Len(misses) /\ misses[i] \in ToSet(misses)
        /\ \A t \in ToSet(list) : \E i \in DOMAIN list : t = list[i]
        /\ \A t \in ToSet(misses) : \E i \in DOMAIN misses : t = misses[i]
        /\ Len(list) \in Nat /\ Len(misses) \in Nat
    BY ListFacts
  <1>9. ToSet(misses) \subseteq ToSet(list)
    BY <1>4, <1>7 DEF Account
  <1>10. \A t : /\ Settled(r, t) <=> Settled(q, t)
                /\ Answered(r, t) <=> Answered(q, t)
                /\ Recorded(r, t) = Recorded(q, t)
    BY <1>5 DEF Settled, Given, Answered, Recorded
  <1>11. /\ \A i, k \in DOMAIN list : list[i] = list[k] => i = k
         /\ \A i, k \in DOMAIN misses : misses[i] = misses[k] => i = k
         /\ DOMAIN r.result \subseteq ToSet(list) /\ \A u \in r.used : u.job = j
    BY <1>4, <1>5, <1>7 DEF Account
  <1>16. r.list = list /\ r.misses = misses /\ r.at = n
    BY <1>5, <1>7
  <1>12. ASSUME pc[j] = "lookup" /\ at > Len(list) /\ state = "ask"
         PROVE  Account(j, state, r)
    <2>1. \A i \in DOMAIN list : ~(i >= at)
      BY <1>8, <1>12
    <2>2. \A i \in DOMAIN list :
             \/ list[i] \in ToSet(misses) /\ Recorded(q, list[i]) = {}
             \/ list[i] \notin ToSet(misses) /\ Settled(q, list[i])
      BY <1>4, <1>7, <1>12, <2>1 DEF Account
    <2>3. /\ \A t \in ToSet(list) \ ToSet(misses) : Settled(r, t)
          /\ \A t \in ToSet(misses) : Recorded(r, t) = {}
      BY <1>8, <1>9, <1>10, <2>2
    <2>4. \A i \in DOMAIN misses : Recorded(r, misses[i]) = {} /\ ~(i < n)
      BY <1>0, <1>8, <2>3
    <2> QED
      BY <1>9, <1>11, <1>16, <1>12, <2>3, <2>4 DEF Account
  <1>13. ASSUME pc[j] = "ask" /\ at > Len(misses) /\ state = "store"
         PROVE  Account(j, state, r)
    <2>1. \A i \in DOMAIN misses : i < at /\ ~(i < n)
      BY <1>0, <1>8, <1>13
    <2>2. \A i \in DOMAIN misses : Recorded(r, misses[i]) = {} /\ Answered(r, misses[i])
      BY <1>4, <1>7, <1>10, <1>13, <2>1 DEF Account
    <2>3. \A t \in ToSet(list) \ ToSet(misses) : Settled(r, t)
      BY <1>4, <1>7, <1>10, <1>13 DEF Account
    <2> QED
      BY <1>9, <1>11, <1>16, <1>13, <2>1, <2>2, <2>3 DEF Account
  <1>14. ASSUME pc[j] = "store" /\ at > Len(misses) /\ state = "apply"
         PROVE  Account(j, state, r)
    <2>1. \A i \in DOMAIN misses : i < at
      BY <1>8, <1>14
    <2>2. \A i \in DOMAIN misses : Settled(r, misses[i])
      BY <1>4, <1>7, <1>10, <1>14, <2>1 DEF Account
    <2>3. \A t \in ToSet(list) \ ToSet(misses) : Settled(r, t)
      BY <1>4, <1>7, <1>10, <1>14 DEF Account
    <2>4. \A t \in ToSet(list) : Settled(r, t)
      BY <1>8, <2>2, <2>3
    <2> QED
      BY <1>9, <1>11, <1>16, <1>14, <2>4 DEF Account
  <1>15. Account(j, state, r)
    <2>1. \/ pc[j] = "lookup" /\ at > Len(list) /\ state = "ask"
          \/ pc[j] = "ask" /\ at > Len(misses) /\ state = "store"
          \/ pc[j] = "store" /\ at > Len(misses) /\ state = "apply"
      BY <1>3, <1>7
    <2> QED
      BY <2>1, <1>12, <1>13, <1>14
  <1> QED
    BY <1>1, <1>3, <1>4, <1>5, <1>6, <1>15, JobMoves

(* A call is repeated or another model is tried.                           *)
LEMMA KeepsRetry ==
  ASSUME IInv, NEW j \in Job, Asking(j), NEW tier \in Nat \ {0}, NEW attempt \in Nat \ {0},
         OnlyJob(j, [job[j] EXCEPT !.tier = tier, !.attempt = attempt])
  PROVE  IInv'
  <1>0. PICK state \in Loop : state = "ask"
    BY DEF Loop
  <1>1. PICK q : q = job[j]
    OBVIOUS
  <1>2. PICK r : r = [q EXCEPT !.tier = tier, !.attempt = attempt]
    OBVIOUS
  <1>3. /\ job' = [job EXCEPT ![j] = r] /\ pc' = [pc EXCEPT ![j] = state] /\ pc[j] = state
        /\ UNCHANGED <<memoryVars, rules, changes, cacheVars, usage, recorded>>
    <2>1. pc[j] = state /\ pc' = pc /\ pc = [x \in DOMAIN pc |-> pc[x]]
      BY <1>0 DEF Asking, OnlyJob, IInv, Types, TypeOK
    <2> QED
      BY <1>1, <1>2, <2>1 DEF OnlyJob, Hold, OthersIdle
  <1>4. Typed(q) /\ pc[j] \in Busy /\ Account(j, pc[j], q)
    BY <1>0, <1>1, <1>3, LoopFacts
  <1>5. /\ r.used = q.used /\ r.allowed = q.allowed /\ r.past = q.past /\ r.statement = q.statement
        /\ r.force = q.force /\ r.list = q.list /\ r.result = q.result /\ r.tier = tier
        /\ r.misses = q.misses /\ r.seen = q.seen /\ r.at = q.at /\ r.attempt = attempt
        /\ DOMAIN r = DOMAIN q /\ r = [x \in DOMAIN r |-> r[x]]
    BY <1>2, <1>4 DEF JobRecord, Typed
  <1>6. Typed(r)
    BY <1>4, <1>5, TypedFields, StillTyped
  <1>7. Account(j, state, r)
    BY <1>0, <1>3, <1>4, <1>5 DEF Account, Settled, Given, Answered, Recorded
  <1> QED
    BY <1>0, <1>1, <1>3, <1>4, <1>5, <1>6, <1>7, JobMoves

-----------------------------------------------------------------------------
(* The chain of models.                                                    *)

LEMMA SourceFacts ==
  /\ "heuristic" \notin ToSet(Source) /\ "heuristic" \in AnswerSource
  /\ "rule" \notin AnswerSource /\ "recurring" \notin AnswerSource
  /\ ToSet(Source) \subseteq AnswerSource
  /\ \A i \in Tier : Source[i] \in ToSet(Source)
  <1>1. DOMAIN Source = 1..3
    BY DEF Source
  <1>2. Source[1] = "claude" /\ Source[2] = "claude-fallback" /\ Source[3] = "gpt4o-fallback"
    BY DEF Source
  <1>3. \A i \in 1..3 : i = 1 \/ i = 2 \/ i = 3
    OBVIOUS
  <1>4. ToSet(Source) \subseteq {"claude", "claude-fallback", "gpt4o-fallback"}
    BY <1>1, <1>2, <1>3 DEF ToSet
  <1>5. \A i \in Tier : Source[i] \in ToSet(Source)
    BY DEF ToSet, Tier
  <1> QED
    BY <1>4, <1>5 DEF AnswerSource

LEMMA Cut ==
  ASSUME NEW S, NEW m \in Seq(S), NEW at \in Nat \ {0}, at <= Len(m), NEW n \in Nat \ {0}, NEW e,
         e = IF at + n > Len(m) THEN Len(m) ELSE at + n - 1
  PROVE  /\ ToSet(SubSeq(m, at, e)) \subseteq ToSet(m)
         /\ \A i \in DOMAIN m : i >= at /\ i < at + n => m[i] \in ToSet(SubSeq(m, at, e))
  <1>0. PICK len \in Nat : len = Len(m)
    OBVIOUS
  <1>1. DOMAIN m = 1..len /\ at <= len
    BY <1>0
  <1>2. e \in Nat /\ e <= len /\ e >= at
    BY <1>0, <1>1
  <1>3. PICK s : s = SubSeq(m, at, e)
    OBVIOUS
  <1>4. DOMAIN s = 1..(e - at + 1) /\ \A i \in 1..(e - at + 1) : s[i] = m[at + i - 1]
    BY <1>2, <1>3
  <1>5. ASSUME NEW t \in ToSet(s) PROVE t \in ToSet(m)
    <2>1. PICK i \in DOMAIN s : t = s[i]
      BY DEF ToSet
    <2>2. i \in 1..(e - at + 1) /\ t = m[at + i - 1]
      BY <1>4, <2>1
    <2>3. at + i - 1 \in 1..len
      BY <1>1, <1>2, <2>2
    <2> QED
      BY <1>1, <2>2, <2>3 DEF ToSet
  <1>6. ASSUME NEW i \in DOMAIN m, i >= at, i < at + n PROVE m[i] \in ToSet(s)
    <2>1. i \in Nat /\ i <= len
      BY <1>1, <1>6
    <2>2. i <= e
      BY <1>0, <1>6, <2>1
    <2>3. PICK k \in 1..(e - at + 1) : k = i - at + 1
      BY <1>2, <1>6, <2>1, <2>2
    <2>4. at + k - 1 = i
      BY <1>2, <2>1, <2>3
    <2>5. s[k] = m[i]
      BY <1>4, <2>4
    <2> QED
      BY <1>4, <2>5 DEF ToSet
  <1> QED
    BY <1>3, <1>5, <1>6

LEMMA BatchIs ==
  ASSUME NEW j \in Job, NEW m \in Seq(Tx), NEW at \in Nat \ {0}, at <= Len(m),
         job[j].misses = m, job[j].at = at
  PROVE  /\ Batch(j) \subseteq ToSet(m)
         /\ \A i \in DOMAIN m : i >= at /\ i < at + BatchSize => m[i] \in Batch(j)
  <1>0. PICK n \in Nat \ {0} : n = BatchSize
    BY BoundsAssumption
  <1>1. PICK e : e = IF at + n > Len(m) THEN Len(m) ELSE at + n - 1
    OBVIOUS
  <1>2. Batch(j) = ToSet(SubSeq(m, at, e))
    BY <1>0, <1>1 DEF Batch
  <1>3. /\ ToSet(SubSeq(m, at, e)) \subseteq ToSet(m)
        /\ \A i \in DOMAIN m : i >= at /\ i < at + n => m[i] \in ToSet(SubSeq(m, at, e))
    BY <1>1, Cut
  <1> QED
    BY <1>0, <1>2, <1>3

LEMMA KeepsAccept ==
  ASSUME IInv, NEW j \in Job, Asking(j), NEW answers, Accept(j, answers),
         \A t \in DOMAIN answers : answers[t] \in Ledger \cup {None},
         DOMAIN answers # {} => job[j].tier \in Tier, Allowed(j, answers)
  PROVE  IInv'
  <1>0. PICK state \in Loop : state = "ask"
    BY DEF Loop
  <1>1. PICK q : q = job[j]
    OBVIOUS
  <1>2. PICK old, batch : old = q.result /\ batch = Batch(j)
    OBVIOUS
  <1> DEFINE New(t) == IF t \in DOMAIN answers
                       THEN Result(Source[q.tier], answers[t], "MISS", None)
                       ELSE Result("heuristic", Hint[t], "FALLBACK", None)
  <1>3. PICK result : result = [t \in DOMAIN old \cup batch |->
                                  IF t \notin batch THEN old[t] ELSE New(t)]
    OBVIOUS
  <1>4. PICK n \in Nat \ {0} : n = 1
    OBVIOUS
  <1>5. Typed(q) /\ pc[j] = state /\ pc[j] \in Busy /\ Account(j, state, q)
    BY <1>0, <1>1, LoopFacts DEF Asking
  <1>6. PICK list \in Seq(Tx), misses \in Seq(Tx), at \in Nat \ {0} :
          list = q.list /\ misses = q.misses /\ at = q.at
    BY <1>5, TypedFields
  <1>7. PICK next \in Nat \ {0} : next = at + BatchSize
    BY BoundsAssumption
  <1>8. PICK r : r = [q EXCEPT !.result = result, !.at = next, !.tier = n, !.attempt = n]
    OBVIOUS
  <1>9. /\ job' = [job EXCEPT ![j] = r] /\ pc' = [pc EXCEPT ![j] = state]
        /\ UNCHANGED <<memoryVars, rules, changes, cacheVars, usage, recorded>>
    <2>1. /\ Hold(j, [job[j] EXCEPT !.result = result, !.at = @ + BatchSize, !.tier = 1, !.attempt = 1])
          /\ OthersIdle /\ UNCHANGED <<cacheVars, usage, recorded, pc>>
      BY <1>1, <1>2, <1>3 DEF Accept, OnlyJob
    <2>2. pc = [x \in DOMAIN pc |-> pc[x]]
      BY DEF IInv, Types, TypeOK
    <2>3. [job[j] EXCEPT !.result = result, !.at = @ + BatchSize, !.tier = 1, !.attempt = 1] = r
      BY <1>1, <1>4, <1>5, <1>6, <1>7, <1>8 DEF Typed, JobRecord
    <2> QED
      BY <1>5, <2>1, <2>2, <2>3 DEF Hold, OthersIdle
  <1>10. /\ r.used = q.used /\ r.allowed = q.allowed /\ r.past = q.past /\ r.statement = q.statement
         /\ r.force = q.force /\ r.list = q.list /\ r.result = result /\ r.tier = n
         /\ r.misses = q.misses /\ r.seen = q.seen /\ r.at = next /\ r.attempt = n
         /\ DOMAIN r = DOMAIN q /\ r = [x \in DOMAIN r |-> r[x]]
    BY <1>5, <1>8 DEF JobRecord, Typed
  <1>11. /\ ToSet(misses) \subseteq ToSet(list) /\ DOMAIN old \subseteq ToSet(list)
         /\ \A i, k \in DOMAIN list : list[i] = list[k] => i = k
         /\ \A i, k \in DOMAIN misses : misses[i] = misses[k] => i = k
         /\ \A u \in q.used : u.job = j
         /\ \A t \in ToSet(list) \ ToSet(misses) : Settled(q, t)
         /\ \A i \in DOMAIN misses : Recorded(q, misses[i]) = {} /\ (i < at => Answered(q, misses[i]))
    BY <1>0, <1>2, <1>5, <1>6 DEF Account
  <1>12. /\ batch \subseteq ToSet(misses)
         /\ \A i \in DOMAIN misses : i >= at /\ i < next => misses[i] \in batch
    <2>1. at <= Len(misses)
      BY <1>1, <1>6 DEF Asking
    <2> QED
      BY <1>1, <1>2, <1>6, <1>7, <2>1, BatchIs
  <1>13. ToSet(list) \subseteq Tx /\ ToSet(misses) \subseteq Tx /\ \A i \in DOMAIN misses : i \in Nat
    BY ListFacts
  <1>14. ASSUME NEW t \in batch
         PROVE  /\ New(t) \in Results /\ New(t).from \in AnswerSource /\ New(t).by = None
                /\ AllowedBy(New(t), Named(Done \cup {j}))
    <2>1. CASE t \in DOMAIN answers
      <3>1. PICK s : s = Source[q.tier] /\ s \in ToSet(Source) /\ s \in AnswerSource
        BY <1>1, <2>1, SourceFacts
      <3>2. PICK l \in Ledger \cup {None} : l = answers[t]
        BY <2>1
      <3>3. l # None => job[j].allowed = {} \/ l \in job[j].allowed
        BY <2>1, <3>2 DEF Allowed
      <3>4. New(t) = [from |-> s, ledger |-> l, status |-> "MISS", by |-> None]
        BY <2>1, <3>1, <3>2 DEF Result
      <3>5. l # None => l \in Named(Done \cup {j})
        BY <3>3 DEF Named
      <3> QED
        BY <3>1, <3>2, <3>4, <3>5 DEF Results, Status, AllowedBy
    <2>2. CASE t \notin DOMAIN answers
      <3>1. PICK l \in Ledger \cup {None} : l = Hint[t]
        BY <1>12, <1>13, LedgerAssumption
      <3>2. New(t) = [from |-> "heuristic", ledger |-> l, status |-> "FALLBACK", by |-> None]
        BY <2>2, <3>1 DEF Result
      <3> QED
        BY <3>1, <3>2, SourceFacts DEF Results, Status, AllowedBy
    <2> QED
      BY <2>1, <2>2
  <1> HIDE DEF New
  <1>15. /\ DOMAIN result = DOMAIN old \cup batch /\ DOMAIN result \subseteq ToSet(list)
         /\ \A t \in DOMAIN result \ batch : t \in DOMAIN old /\ result[t] = old[t]
         /\ \A t \in batch : t \in DOMAIN result /\ result[t] = New(t)
         /\ result \in [DOMAIN result -> Results]
    <2>1. \A t \in DOMAIN old : old[t] \in Results
      BY <1>2, <1>5, TypedFields
    <2> QED
      BY <1>3, <1>11, <1>12, <1>14, <2>1
  <1>16. Typed(r)
    BY <1>5, <1>10, <1>15, TypedFields, StillTyped
  <1>17. Account(j, state, r)
    <2>1. \A t : Recorded(r, t) = Recorded(q, t)
      BY <1>10 DEF Recorded
    <2>2. ASSUME NEW t \in ToSet(list) \ ToSet(misses) PROVE Settled(r, t)
      <3>1. t \in DOMAIN result /\ result[t] = old[t]
        BY <1>2, <1>11, <1>12, <1>15 DEF Settled, Given, Answered
      <3> QED
        BY <1>2, <1>10, <1>11, <2>1, <3>1 DEF Settled, Given, Answered
    <2>3. ASSUME NEW i \in DOMAIN misses, i < next
          PROVE  Answered(r, misses[i])
      <3>1. CASE misses[i] \in batch
        BY <1>10, <1>14, <1>15, <3>1 DEF Answered
      <3>2. CASE misses[i] \notin batch
        <4>1. i < at
          BY <1>12, <1>13, <2>3, <3>2
        <4> QED
          BY <1>2, <1>10, <1>11, <1>15, <3>2, <4>1 DEF Answered
      <3> QED
        BY <3>1, <3>2
    <2>4. \A i \in DOMAIN misses : Recorded(r, misses[i]) = {} /\ (i < next => Answered(r, misses[i]))
      BY <1>11, <2>1, <2>3
    <2>5. r.list = list /\ r.misses = misses /\ r.at = next /\ r.result = result /\ r.used = q.used
      BY <1>6, <1>10
    <2> QED
      BY <1>0, <1>11, <1>15, <2>2, <2>4, <2>5 DEF Account
  <1>18. \A t \in DOMAIN result :
           \/ t \in DOMAIN old /\ result[t] = old[t]
           \/ /\ AllowedBy(result[t], Named(Done \cup {j}))
              /\ result[t].by = None /\ result[t].from # "recurring"
    BY <1>14, <1>15, SourceFacts
  <1> QED
    BY <1>1, <1>2, <1>5, <1>9, <1>10, <1>16, <1>17, <1>18, JobMoves

LEMMA KeepsCall ==
  ASSUME IInv, NEW j \in Job, Asking(j), job[j].tier \in Tier,
         CallFails(j) \/ Reply(j) \/ NextTier(j)
  PROVE  IInv'
  <1> DEFINE tier == job[j].tier
             attempt == job[j].attempt
  <1>1. Typed(job[j]) /\ tier \in Nat \ {0} /\ attempt \in Nat \ {0}
    BY LoopFacts DEF JobRecord, Typed
  <1>2. CASE NextTier(j)
    <2>1. PICK n \in Nat \ {0} : n = tier + 1
      BY <1>1
    <2>2. PICK first \in Nat \ {0} : first = 1
      OBVIOUS
    <2>3. OnlyJob(j, [job[j] EXCEPT !.tier = n, !.attempt = first])
      BY <1>2, <2>1, <2>2 DEF NextTier
    <2> QED
      BY <2>3, KeepsRetry
  <1>3. CASE OnlyJob(j, [job[j] EXCEPT !.attempt = @ + 1])
    <2>1. PICK n \in Nat \ {0} : n = attempt + 1
      BY <1>1
    <2>2. [job[j] EXCEPT !.attempt = @ + 1] = [job[j] EXCEPT !.tier = tier, !.attempt = n]
      BY <1>1, <2>1 DEF JobRecord, Typed
    <2>3. OnlyJob(j, [job[j] EXCEPT !.tier = tier, !.attempt = n])
      BY <1>3, <2>2
    <2> QED
      BY <1>1, <2>1, <2>3, KeepsRetry
  <1>4. CASE Reply(j)
    <2>0. PICK S \in SUBSET Batch(j) : \E answers \in [S -> Answer] :
             IF S # {} /\ Allowed(j, answers) THEN Accept(j, answers) ELSE NextTier(j)
      BY <1>4 DEF Reply
    <2>1. PICK answers \in [S -> Answer] :
             IF S # {} /\ Allowed(j, answers) THEN Accept(j, answers) ELSE NextTier(j)
      BY <2>0
    <2>2. CASE S # {} /\ Allowed(j, answers)
      <3>1. \A t \in DOMAIN answers : answers[t] \in Ledger \cup {None}
        BY AnswerAssumption
      <3> QED
        BY <2>1, <2>2, <3>1, KeepsAccept
    <2> QED
      BY <1>2, <2>1, <2>2
  <1> QED
    BY <1>2, <1>3, <1>4 DEF CallFails

LEMMA KeepsModels ==
  ASSUME IInv, NEW j \in Job, Claude(j) \/ Gpt4o(j) \/ ModelMissing(j) \/ Heuristics(j)
  PROVE  IInv'
  <1>1. CASE Claude(j) \/ Gpt4o(j) \/ ModelMissing(j)
    <2>1. Asking(j) /\ job[j].tier \in Tier /\ (CallFails(j) \/ Reply(j) \/ NextTier(j))
      BY <1>1, TierAssumption DEF Claude, Gpt4o, ModelMissing
    <2> QED
      BY <2>1, KeepsCall
  <1>2. CASE Heuristics(j)
    <2>1. PICK answers : answers = << >>
      OBVIOUS
    <2>2. DOMAIN answers = {}
      BY <2>1
    <2>3. Asking(j) /\ Accept(j, answers) /\ Allowed(j, answers)
      BY <1>2, <2>1, <2>2 DEF Heuristics, Allowed
    <2> QED
      BY <2>2, <2>3, KeepsAccept
  <1> QED
    BY <1>1, <1>2

-----------------------------------------------------------------------------
(* The selection of the transactions.                                      *)

LEMMA KeepsLoad ==
  ASSUME IInv, NEW j \in Job, Load(j)
  PROVE  IInv'
  <1>1. PICK s \in Statement, f \in BOOLEAN, all \in BOOLEAN :
          LET wanted == {i \in DOMAIN Lines[s] : f \/ all \/ Missing(Lines[s][i])}
              first  == {i \in wanted : Cardinality({k \in wanted : k < i}) < Limit}
          IN  \E p \in [1..Cardinality(first) -> first] :
                /\ \A i, k \in DOMAIN p : i < k => p[i] < p[k]
                /\ LET list == [i \in DOMAIN p |-> Lines[s][p[i]]]
                   IN  Hold(j, [Idle EXCEPT !.statement = s, !.force = f, !.list = list,
                                            !.seen = [t \in ToSet(list) |-> row[t]]])
                /\ Go(j, IF f THEN "loaded" ELSE "begin")
    BY DEF Load
  <1>2. PICK first : /\ first \subseteq DOMAIN Lines[s]
                     /\ \E p \in [1..Cardinality(first) -> first] :
                          /\ \A i, k \in DOMAIN p : i < k => p[i] < p[k]
                          /\ LET list == [i \in DOMAIN p |-> Lines[s][p[i]]]
                             IN  Hold(j, [Idle EXCEPT !.statement = s, !.force = f, !.list = list,
                                                      !.seen = [t \in ToSet(list) |-> row[t]]])
                          /\ Go(j, IF f THEN "loaded" ELSE "begin")
    BY <1>1
  <1>3. PICK p \in [1..Cardinality(first) -> first] :
          /\ \A i, k \in DOMAIN p : i < k => p[i] < p[k]
          /\ LET list == [i \in DOMAIN p |-> Lines[s][p[i]]]
             IN  Hold(j, [Idle EXCEPT !.statement = s, !.force = f, !.list = list,
                                      !.seen = [t \in ToSet(list) |-> row[t]]])
          /\ Go(j, IF f THEN "loaded" ELSE "begin")
    BY <1>2
  <1>4. PICK list : list = [i \in DOMAIN p |-> Lines[s][p[i]]]
    OBVIOUS
  <1>5. /\ Lines[s] \in Seq(Tx) /\ first \subseteq Nat /\ Cardinality(first) \in Nat
        /\ \A i \in first : Lines[s][i] \in Tx
    <2>1. Lines[s] \in Seq(Tx)
      BY LinesAssumption
    <2> QED
      BY <1>2, <2>1, PositionsFinite
  <1>6. /\ list \in Seq(Tx) /\ DOMAIN list = 1..Cardinality(first)
        /\ \A i \in DOMAIN list : list[i] \in Tx
    <2>1. list \in [1..Cardinality(first) -> Tx]
      BY <1>3, <1>4, <1>5
    <2> QED
      BY <1>5, <2>1
  <1>7. \A i, k \in DOMAIN list : list[i] = list[k] => i = k
    <2>1. ASSUME NEW i \in DOMAIN list, NEW k \in DOMAIN list, list[i] = list[k] PROVE i = k
      <3>1. p[i] \in DOMAIN Lines[s] /\ p[k] \in DOMAIN Lines[s] /\ Lines[s][p[i]] = Lines[s][p[k]]
        BY <1>2, <1>3, <1>4, <1>6, <2>1
      <3>2. p[i] = p[k] /\ p[i] \in Nat /\ i \in Nat /\ k \in Nat
        BY <1>2, <1>3, <1>5, <1>6, <2>1, <3>1, LinesAssumption
      <3>3. ~(i < k) /\ ~(k < i)
        BY <1>3, <1>6, <2>1, <3>2
      <3> QED
        BY <3>2, <3>3
    <2> QED
      BY <2>1
  <1>8. PICK seen : seen = [t \in ToSet(list) |-> row[t]]
    OBVIOUS
  <1>9. PICK r : r = [Idle EXCEPT !.statement = s, !.force = f, !.list = list, !.seen = seen]
    OBVIOUS
  <1>10. /\ r = [statement |-> s, force |-> f, list |-> list, seen |-> seen,
                 allowed |-> {}, result |-> << >>, used |-> {}, misses |-> << >>,
                 at |-> 1, tier |-> 1, attempt |-> 1, past |-> {}]
    BY <1>9 DEF Idle
  <1>11. PICK state \in {"loaded", "begin"} : state = IF f THEN "loaded" ELSE "begin"
    OBVIOUS
  <1>12. /\ pc[j] = "new" /\ pc' = [pc EXCEPT ![j] = state] /\ job' = [job EXCEPT ![j] = r]
         /\ UNCHANGED <<memoryVars, rules, changes, cacheVars, usage, recorded>>
    <2>1. Hold(j, r) /\ Go(j, state)
      BY <1>3, <1>4, <1>8, <1>9, <1>11
    <2> QED
      BY <2>1 DEF Load, Hold, Go, OthersIdle
  <1>13. /\ MemoryInv /\ Types /\ RowsInv /\ JobInv(j) /\ DOMAIN job = Job /\ pc \in [Job -> JobState]
         /\ pc'[j] = state /\ job'[j] = r /\ state \in JobState
         /\ DOMAIN job' = Job /\ pc' \in [Job -> JobState]
         /\ \A k \in Job \ {j} : pc'[k] = pc[k] /\ job'[k] = job[k]
    BY <1>11, <1>12 DEF IInv, Types, TypeOK, JobState, Busy
  <1>14. seen \in [ToSet(list) -> Columns]
    <2>1. ToSet(list) \subseteq Tx
      <3>1. \A i \in DOMAIN list : list[i] \in Tx
        BY <1>6
      <3> QED
        BY <3>1 DEF ToSet
    <2> QED
      BY <1>8, <1>13, <2>1 DEF Types, TypeOK
  <1>15. Typed(job'[j])
    <2>1. << >> \in [{} -> Results] /\ << >> \in Seq(Tx)
      OBVIOUS
    <2> QED
      BY <1>6, <1>10, <1>13, <1>14, <2>1 DEF JobRecord, Typed
  <1>16. /\ cache' = cache /\ cacheOwn' = cacheOwn /\ cacheMem' = cacheMem /\ cacheDirty' = cacheDirty
         /\ DOMAIN cacheOwn[j] = {} /\ DOMAIN cacheMem[j] = {} /\ cacheDirty[j] = None
    BY <1>12, <1>13 DEF cacheVars, JobInv, Quiet, Busy
  <1>17. JobInv(j)'
    <2>1. Quiet(j)' /\ SessionInv(j)' /\ HitsInv(j)' /\ AllowedInv(j)'
      BY <1>10, <1>13, <1>16 DEF Quiet, SessionInv, HitsInv, AllowedInv
    <2>2. FreshInv(j)'
      BY <1>10, <1>11, <1>13 DEF FreshInv, Busy
    <2>3. AccountInv(j)'
      <3>1. ToSet(<< >>) = {}
        BY DEF ToSet
      <3>2. /\ r.list = list /\ r.misses = << >> /\ DOMAIN r.result = {} /\ r.used = {}
            /\ DOMAIN r.misses = {}
        BY <1>10
      <3>3. Account(j, state, r)
        BY <1>7, <1>11, <3>1, <3>2 DEF Account
      <3> QED
        BY <1>13, <3>3 DEF AccountInv
    <2> QED
      BY <2>1, <2>2, <2>3 DEF JobInv
  <1>18. ForcedOf(j)' /\ RecurringOf(j)'
    BY <1>10, <1>13 DEF ForcedOf, RecurringOf
  <1>19. \A k \in Job \ {j} : JobSame(k) /\ DOMAIN cacheOwn'[j] \cap DOMAIN cacheOwn[k] = {}
    BY <1>13, <1>16 DEF JobSame
  <1>20. /\ DOMAIN cacheOwn' = Job /\ DOMAIN cacheMem' = Job /\ cacheDirty' \in [Job -> {None} \cup Dirty]
         /\ Partial(cacheOwn'[j], HashKey, Rows \cup {None}) /\ Partial(cacheMem'[j], HashKey, Rows)
         /\ IsFiniteSet(job'[j].used)
    <2>1. job'[j].used = {}
      BY <1>10, <1>13
    <2> QED
      BY <1>13, <1>16, <2>1, FS_EmptySet DEF Types, Dirty
  <1> QED
    BY <1>11, <1>12, <1>13, <1>15, <1>16, <1>17, <1>18, <1>19, <1>20, OneJob
-----------------------------------------------------------------------------
(* A job that has no answer yet, and one that failed.                      *)

LEMMA KeepsDeleteStale ==
  ASSUME IInv, NEW j \in Job, DeleteStale(j)
  PROVE  IInv'
  <1>1. PICK q : q = job[j]
    OBVIOUS
  <1>2. PICK past : past = Done
    OBVIOUS
  <1>3. PICK r : r = [q EXCEPT !.past = past]
    OBVIOUS
  <1>4. PICK keys : keys = StaleKeys(j)
    OBVIOUS
  <1>5. PICK state \in Busy : state = "begin"
    BY DEF Busy
  <1>6. PICK own : own = [h \in {x \in keys : cache[x] # None} |-> None]
    OBVIOUS
  <1>7. /\ pc[j] = "loaded" /\ Cache!DeleteBlockers(j, keys) = {}
        /\ cacheOwn' = [cacheOwn EXCEPT ![j] = own]
        /\ UNCHANGED <<cache, cacheMem, cacheDirty, usage, recorded>> /\ UNCHANGED <<memoryVars, rules, changes>>
        /\ job' = [job EXCEPT ![j] = r] /\ pc' = [pc EXCEPT ![j] = state]
    BY <1>1, <1>2, <1>3, <1>4, <1>5, <1>6 DEF DeleteStale, Cache!Delete, Hold, Go, OthersIdle, Done
  <1>8. /\ Types /\ RowsInv /\ JobInv(j) /\ Typed(q) /\ state \in JobState /\ pc \in [Job -> JobState]
    BY <1>1, <1>5 DEF IInv, Types, TypeOK, JobState
  <1>9. /\ r.used = q.used /\ r.allowed = q.allowed /\ r.past = past /\ r.statement = q.statement
        /\ r.force = q.force /\ r.list = q.list /\ r.result = q.result /\ r.tier = q.tier
        /\ r.misses = q.misses /\ r.seen = q.seen /\ r.at = q.at /\ r.attempt = q.attempt
        /\ DOMAIN r = DOMAIN q /\ r = [x \in DOMAIN r |-> r[x]]
    BY <1>3, <1>8 DEF JobRecord, Typed
  <1>10. /\ pc'[j] = state /\ job'[j] = r /\ cacheOwn'[j] = own
         /\ DOMAIN job' = Job /\ pc' \in [Job -> JobState] /\ DOMAIN cacheOwn' = Job
         /\ \A k \in Job \ {j} : pc'[k] = pc[k] /\ job'[k] = job[k] /\ cacheOwn'[k] = cacheOwn[k]
         /\ cacheMem' = cacheMem /\ cacheDirty' = cacheDirty /\ cache' = cache
    BY <1>7, <1>8 DEF Types
  <1>11. past \subseteq Job /\ past \subseteq Done /\ Done' = Done
    BY <1>2, <1>5, <1>7, <1>10 DEF Done
  <1>12. Typed(r) /\ IsFiniteSet(r.used)
    <2>1. IsFiniteSet(q.used)
      BY <1>1, <1>8 DEF Types
    <2> QED
      BY <1>8, <1>9, <1>11, <2>1, TypedFields, StillTyped
  <1>13. /\ keys \subseteq HashKey
         /\ DOMAIN own \subseteq keys /\ \A h \in DOMAIN own : own[h] = None /\ cache[h] # None
         /\ \A h \in keys : cache[h] # None => h \in DOMAIN own
    <2>1. ToSet(q.list) \subseteq Tx
      BY <1>8, TypedFields, ListFacts
    <2> QED
      BY <1>1, <1>4, <1>6, <2>1 DEF StaleKeys, HashKey
  <1>14. /\ DOMAIN cacheMem[j] = {} /\ cacheDirty[j] = None /\ DOMAIN r.result = {}
         /\ r.used = {} /\ r.misses = << >> /\ r.at = 1 /\ r.statement \in Statement
    BY <1>1, <1>7, <1>8, <1>9 DEF JobInv, Quiet, Busy
  <1>15. JobInv(j)'
    <2>1. Quiet(j)'
      BY <1>5, <1>10, <1>13, <1>14 DEF Quiet, Busy
    <2>2. SessionInv(j)' /\ HitsInv(j)' /\ AllowedInv(j)'
      BY <1>10, <1>13, <1>14 DEF SessionInv, HitsInv, AllowedInv
    <2>3. FreshInv(j)'
      <3>1. StaleKeys(j)' = keys
        BY <1>1, <1>4, <1>9, <1>10 DEF StaleKeys
      <3>2. \A h \in keys : Cache!View(j, h)' = None
        BY <1>10, <1>13 DEF Cache!View
      <3> QED
        BY <1>9, <1>10, <1>11, <3>1, <3>2 DEF FreshInv
    <2>4. AccountInv(j)'
      <3>1. Account(j, pc[j], q)
        BY <1>1, <1>8 DEF JobInv, AccountInv
      <3>2. Account(j, state, r)
        BY <1>5, <1>7, <1>9, <3>1 DEF Account
      <3> QED
        BY <1>10, <3>2 DEF AccountInv
    <2> QED
      BY <2>1, <2>2, <2>3, <2>4 DEF JobInv
  <1>16. ForcedOf(j)' /\ RecurringOf(j)'
    BY <1>10, <1>14 DEF ForcedOf, RecurringOf
  <1>17. \A k \in Job \ {j} : JobSame(k) /\ DOMAIN cacheOwn'[j] \cap DOMAIN cacheOwn[k] = {}
    BY <1>7, <1>10, <1>13 DEF JobSame, Cache!DeleteBlockers
  <1>18. /\ DOMAIN cacheMem' = Job /\ cacheDirty' \in [Job -> {None} \cup Dirty]
         /\ Partial(cacheMem'[j], HashKey, Rows)
    BY <1>8, <1>10 DEF Types, Dirty
  <1>19. Partial(cacheOwn'[j], HashKey, Rows \cup {None})
    <2>1. DOMAIN own \subseteq HashKey /\ own \in [DOMAIN own -> Rows \cup {None}]
      BY <1>6, <1>13
    <2> QED
      BY <1>10, <2>1 DEF Partial
  <1>20. pc[j] # "done" /\ pc'[j] # "done"
    BY <1>5, <1>7, <1>10
  <1> QED
    BY <1>7, <1>10, <1>12, <1>15, <1>16, <1>17, <1>18, <1>19, <1>20, OneJob

LEMMA KeepsFail ==
  ASSUME IInv, NEW j \in Job, pc[j] \in Busy \cup {"loaded"}, Fail(j)
  PROVE  IInv'
  <1>1. PICK state \in JobState : state = "failed"
    BY DEF JobState
  <1>2. PICK r : r = Idle
    OBVIOUS
  <1>3. /\ UNCHANGED <<memoryVars, rules, changes, cache, usage, recorded>>
        /\ cacheOwn' = [cacheOwn EXCEPT ![j] = Cache!EmptyMap]
        /\ cacheMem' = [cacheMem EXCEPT ![j] = Cache!EmptyMap]
        /\ cacheDirty' = [cacheDirty EXCEPT ![j] = None]
        /\ job' = [job EXCEPT ![j] = r] /\ pc' = [pc EXCEPT ![j] = state]
    BY <1>1, <1>2 DEF Fail, Cache!Rollback, Cache!Forget, Hold, Go, OthersIdle
  <1>4. Types /\ RowsInv /\ pc \in [Job -> JobState] /\ pc[j] # "done"
    BY DEF IInv, Types, TypeOK, Busy
  <1>5. /\ pc'[j] = state /\ job'[j] = r /\ DOMAIN job' = Job /\ pc' \in [Job -> JobState]
        /\ cacheOwn'[j] = Cache!EmptyMap /\ cacheMem'[j] = Cache!EmptyMap /\ cacheDirty'[j] = None
        /\ DOMAIN cacheOwn' = Job /\ DOMAIN cacheMem' = Job
        /\ \A k \in Job \ {j} : JobSame(k)
    BY <1>3, <1>4 DEF Types, JobSame
  <1>6. DOMAIN Cache!EmptyMap = {} /\ Partial(Cache!EmptyMap, HashKey, Rows \cup {None})
        /\ Partial(Cache!EmptyMap, HashKey, Rows)
    BY DEF Cache!EmptyMap, Partial
  <1>7. cacheDirty' \in [Job -> {None} \cup Dirty]
    BY <1>3, <1>4 DEF Types, Dirty
  <1>8. r = [statement |-> None, force |-> FALSE, list |-> << >>, seen |-> << >>,
             allowed |-> {}, result |-> << >>, used |-> {}, misses |-> << >>,
             at |-> 1, tier |-> 1, attempt |-> 1, past |-> {}]
    BY <1>2 DEF Idle
  <1>9. Typed(r) /\ IsFiniteSet(r.used)
    BY <1>2, <1>8, IdleTyped, FS_EmptySet
  <1>10. /\ r.list = << >> /\ r.misses = << >> /\ DOMAIN r.result = {} /\ r.used = {} /\ r.at = 1
         /\ r.past = {} /\ r.force = FALSE /\ DOMAIN r.misses = {} /\ DOMAIN r.list = {}
    BY <1>8
  <1>11. JobInv(j)'
    <2>1. Quiet(j)' /\ SessionInv(j)' /\ HitsInv(j)' /\ AllowedInv(j)'
      BY <1>1, <1>5, <1>6, <1>10 DEF Quiet, SessionInv, HitsInv, AllowedInv, Busy
    <2>2. FreshInv(j)'
      BY <1>5, <1>10 DEF FreshInv
    <2>3. AccountInv(j)'
      <3>1. ToSet(<< >>) = {}
        BY DEF ToSet
      <3>2. Account(j, state, r)
        BY <1>1, <1>10, <3>1 DEF Account
      <3> QED
        BY <1>5, <3>2 DEF AccountInv
    <2> QED
      BY <2>1, <2>2, <2>3 DEF JobInv
  <1>12. ForcedOf(j)' /\ RecurringOf(j)'
    BY <1>5, <1>10 DEF ForcedOf, RecurringOf
  <1>13. pc'[j] # "done" /\ \A k \in Job \ {j} : DOMAIN cacheOwn'[j] \cap DOMAIN cacheOwn[k] = {}
    BY <1>1, <1>5, <1>6
  <1> QED
    BY <1>3, <1>4, <1>5, <1>6, <1>7, <1>9, <1>11, <1>12, <1>13, OneJob

(* A job that fails or is stopped was under way.                           *)
LEMMA AccidentIsOpen ==
  ASSUME IInv, NEW j \in Job,
         FlushFails(j) \/ BreakDeadlock(j) \/ BeginFails(j) \/ JobDies(j)
  PROVE  pc[j] \in Busy \cup {"loaded"} /\ Fail(j)
  <1>1. Quiet(j) /\ pc[j] \in JobState /\ Fail(j)
    BY DEF IInv, JobInv, Types, TypeOK, FlushFails, BreakDeadlock, BeginFails, JobDies
  <1>2. WaitsFor(j) # {} \/ cacheDirty[j] # None \/ pc[j] \in Busy \cup {"loaded"}
    BY DEF FlushFails, BreakDeadlock, BeginFails, JobDies, Deadlocked, Circular, Closed, Waits,
           Cache!Conflicts, Busy
  <1>3. WaitsFor(j) # {} => cacheDirty[j] # None \/ pc[j] \in {"loaded", "begin"}
    BY DEF WaitsFor, Cache!Blockers
  <1> QED
    BY <1>1, <1>2, <1>3 DEF Quiet, Busy

(* A job that waits for a lock or whose flush fails has work to lose.      *)
LEMMA KeepsAccident ==
  ASSUME IInv, NEW j \in Job,
         FlushFails(j) \/ BreakDeadlock(j) \/ BeginFails(j) \/ JobDies(j)
  PROVE  IInv'
  BY AccidentIsOpen, KeepsFail

-----------------------------------------------------------------------------
(* What the rules API and the requests change is not what the jobs hold.   *)

LEMMA JobsKept ==
  ASSUME IInv, UNCHANGED <<cacheVars, recorded, pc, job>>, usage' \subseteq usage, MemoryInv',
         deleted' \subseteq Statement,
         rules' \in Seq(RuleChoice), changes' \in 0..MaxRuleChanges,
         \A k \in MappingKey : /\ confirms'[k].times >= confirms[k].times
                               /\ confirms[k].times \in Nat /\ confirms'[k].times \in Nat
                               /\ confirms[k].ledgers \subseteq confirms'[k].ledgers
  PROVE  IInv'
  <1>1. /\ cache' = cache /\ cacheOwn' = cacheOwn /\ cacheMem' = cacheMem /\ cacheDirty' = cacheDirty
        /\ recorded' = recorded /\ pc' = pc /\ job' = job
    BY DEF cacheVars
  <1>2. Done' = Done /\ \A k \in Job : JobSame(k)
    BY <1>1 DEF Done, JobSame
  <1>3. \A k \in Job : JobInv(k)'
    BY <1>1, <1>2, OtherJob
  <1>4. Types'
    <2>1. TypeOK'
      BY <1>1 DEF IInv, Types, TypeOK, MemoryInv, RequestTypes
    <2> QED
      BY <1>1, <2>1 DEF IInv, Types
  <1>5. RowsInv' /\ UsageInv' /\ HitsWereRecorded' /\ ForcedIsFresh'
    BY <1>1, <1>2 DEF IInv, RowsInv, UsageInv, HitsWereRecorded, ForcedIsFresh
  <1>6. Named(Done)' = Named(Done)
    BY <1>1, <1>2 DEF Named
  <1>7. \A h \in HashKey : cache'[h] # None => AllowedBy(cache'[h], Named(Done)')
    BY <1>1, <1>6 DEF IInv
  <1>8. RecurringWasConfirmed'
    <2>1. ASSUME NEW j \in Job, NEW t \in DOMAIN job[j].result,
                 job[j].result[t].from = "recurring"
          PROVE  \E p \in Pattern : LET c == confirms'[<<ClientOf[t], p>>]
                                    IN  c.times >= 2 /\ job[j].result[t].ledger \in c.ledgers
      <3>1. PICK p \in Pattern : /\ confirms[<<ClientOf[t], p>>].times >= 2
                                 /\ job[j].result[t].ledger \in confirms[<<ClientOf[t], p>>].ledgers
        BY <2>1 DEF IInv, RecurringWasConfirmed
      <3>2. t \in Tx
        <4>1. t \in ToSet(job[j].list) /\ job[j].list \in Seq(Tx)
          BY LoopFacts, TypedFields DEF Account
        <4> QED
          BY <4>1, ListFacts
      <3>3. PICK k \in MappingKey : k = <<ClientOf[t], p>>
        BY <3>2 DEF MappingKey, Client
      <3>4. confirms'[k].times >= 2 /\ job[j].result[t].ledger \in confirms'[k].ledgers
        BY <3>1, <3>3
      <3> QED
        BY <3>3, <3>4
    <2> QED
      BY <1>1, <2>1 DEF RecurringWasConfirmed
  <1> QED
    BY <1>3, <1>4, <1>5, <1>7, <1>8 DEF IInv

LEMMA KeepsRequest ==
  ASSUME IInv, NEW u \in Request, RequestStep(u), JobsIdle
  PROVE  IInv'
  <1>1. MemoryInv /\ rules' = rules /\ changes' = changes /\ UNCHANGED <<cacheVars, usage, recorded, pc, job>>
    BY DEF IInv, JobsIdle
  <1>2. rules' \in Seq(RuleChoice) /\ changes' \in 0..MaxRuleChanges /\ deleted \subseteq Statement
    BY <1>1 DEF IInv, Types, TypeOK
  <1>3. deleted' = deleted
    BY DEF RequestStep, Open, Confirm, SkipGone, FailGone, FlushMapping, MappingFails, CommitRequest
  <1> QED
    BY <1>1, <1>2, <1>3, KeepsRequestStep, RequestLeaves, JobsKept

(* A deletion takes rows and records, and leaves what the jobs hold.       *)
LEMMA KeepsDeletion ==
  ASSUME IInv, NEW s \in Statement, DeleteStatement(s)
  PROVE  IInv'
  <1>1. /\ MemoryInv /\ rules' = rules /\ changes' = changes /\ usage' \subseteq usage
        /\ UNCHANGED <<cacheVars, recorded, pc, job>> /\ deleted' = deleted \cup {s}
        /\ UNCHANGED <<row, mappingVars, request, item, items, asked, confirms>>
    BY DEF IInv, DeleteStatement, DeleteRows
  <1>2. rules' \in Seq(RuleChoice) /\ changes' \in 0..MaxRuleChanges /\ deleted' \subseteq Statement
    BY <1>1 DEF IInv, Types, TypeOK
  <1>3. MemoryInv'
    BY <1>1, MemoryKept DEF MemoryInv, RequestTypes
  <1>4. \A k \in MappingKey : confirms[k].times \in Nat /\ confirms' = confirms
    BY <1>1 DEF MemoryInv, RequestTypes
  <1> QED
    BY <1>1, <1>2, <1>3, <1>4, JobsKept

LEMMA KeepsRules ==
  ASSUME IInv, RuleStep
  PROVE  IInv'
  <1>1. rules \in Seq(RuleChoice) /\ changes \in 0..MaxRuleChanges /\ MemoryInv
    BY DEF IInv, Types, TypeOK
  <1>2. PICK new : RuleChange(new) /\ new \in Seq(RuleChoice)
    <2>1. CASE CreateRule
      <3>1. PICK r \in RuleChoice : RuleChange(Append(rules, r))
        BY <2>1 DEF CreateRule
      <3>2. Append(rules, r) \in Seq(RuleChoice)
        BY <1>1
      <3> QED
        BY <3>1, <3>2
    <2>2. CASE UpdateRule
      <3>1. PICK i \in DOMAIN rules, r \in RuleChoice : RuleChange([rules EXCEPT ![i] = r])
        BY <2>2 DEF UpdateRule
      <3>2. [rules EXCEPT ![i] = r] \in Seq(RuleChoice)
        BY <1>1
      <3> QED
        BY <3>1, <3>2
    <2>3. CASE DeleteRule
      <3>1. PICK i \in DOMAIN rules : RuleChange(RemoveAt(rules, i))
        BY <2>3 DEF DeleteRule
      <3>2. PICK s \in Seq(RuleChoice), n \in Nat : s = rules /\ n = Len(rules)
        BY <1>1
      <3>3. i \in 1..n /\ DOMAIN s = 1..n /\ n = Len(s)
        BY <3>2
      <3>4. SubSeq(s, 1, i - 1) \in Seq(RuleChoice) /\ SubSeq(s, i + 1, n) \in Seq(RuleChoice)
        <4>1. /\ \A k \in 1..(i - 1) : s[k] \in RuleChoice
              /\ \A k \in (i + 1)..n : s[k] \in RuleChoice
          BY <3>3
        <4> QED
          BY <3>3, <4>1, SubSeqProperties
      <3>5. RemoveAt(s, i) = SubSeq(s, 1, i - 1) \o SubSeq(s, i + 1, n)
        BY <3>3 DEF RemoveAt
      <3>6. RemoveAt(s, i) \in Seq(RuleChoice)
        BY <3>4, <3>5, ConcatProperties
      <3> QED
        BY <3>1, <3>2, <3>6
    <2> QED
      BY <2>1, <2>2, <2>3 DEF RuleStep
  <1>3. /\ UNCHANGED memoryVars /\ UNCHANGED <<cacheVars, usage, recorded, pc, job>>
        /\ rules' = new /\ changes' = changes + 1 /\ changes < MaxRuleChanges
    BY <1>2 DEF RuleChange
  <1>4. changes' \in 0..MaxRuleChanges
    BY <1>1, <1>3, BoundsAssumption
  <1>5. MemoryInv' /\ confirms' = confirms
    BY <1>1, <1>3, MemoryKept DEF memoryVars, mappingVars, MemoryInv, RequestTypes
  <1>7. deleted' \subseteq Statement
    BY <1>3 DEF memoryVars, IInv, Types, TypeOK
  <1>6. \A k \in MappingKey : confirms[k].times \in Nat
    BY <1>1 DEF MemoryInv, RequestTypes
  <1> QED
    BY <1>2, <1>3, <1>4, <1>5, <1>6, <1>7, JobsKept
-----------------------------------------------------------------------------
(* A job puts a change of the cache in its session: a hit it counts, or an *)
(* answer it stores.                                                       *)

LEMMA HitsGrow ==
  ASSUME NEW A, NEW B, A \subseteq B, IsFiniteSet(B), NEW h
  PROVE  /\ Cardinality(HitsOf(h, A)) \in Nat /\ Cardinality(HitsOf(h, B)) \in Nat
         /\ Cardinality(HitsOf(h, A)) <= Cardinality(HitsOf(h, B))
  <1>1. HitsOf(h, A) \subseteq HitsOf(h, B) /\ HitsOf(h, B) \subseteq B
    BY DEF HitsOf
  <1>2. IsFiniteSet(HitsOf(h, B))
    BY <1>1, FS_Subset
  <1>3. IsFiniteSet(HitsOf(h, A)) /\ Cardinality(HitsOf(h, A)) <= Cardinality(HitsOf(h, B))
    BY <1>1, <1>2, FS_Subset
  <1> QED
    BY <1>2, <1>3, FS_CardinalityType

LEMMA HitsStay ==
  ASSUME NEW A, NEW B, A \subseteq B, IsFiniteSet(B), NEW h, NEW r, r.hits \in Nat, HitsIn(h, r, A)
  PROVE  HitsIn(h, r, B)
  BY HitsGrow DEF HitsIn

LEMMA JobPuts ==
  ASSUME IInv, NEW j \in Job, NEW h \in HashKey, NEW old \in Rows, NEW cols \in Changed, NEW r,
         NEW over \in Rows, over = Cache!Over(cols, old), Cache!Put(j, h, old, cols),
         UNCHANGED <<memoryVars, rules, changes, usage, recorded, pc>>, job' = [job EXCEPT ![j] = r],
         pc[j] \in Busy \ {"begin"}, Typed(r), r.allowed = job[j].allowed, r.past = job[j].past,
         r.force = job[j].force, r.list = job[j].list, r.statement = job[j].statement,
         job[j].used \subseteq r.used, IsFiniteSet(r.used), Account(j, pc[j], r),
         HitsIn(h, over, recorded \cup r.used),
         "hits" \in DOMAIN cols => HitsIn(h, cols, recorded \cup r.used),
         AllowedBy(over, Named(Done \cup {j})),
         "from" \in DOMAIN cols => AllowedBy(cols, Named(Done \cup {j})),
         cols \in Rows => cols.id = old.id,
         old.id # j \/ cols \in Rows \/ (h \in DOMAIN cacheOwn[j] /\ cacheOwn[j][h] # None),
         \A t \in DOMAIN r.result :
           \/ t \in DOMAIN job[j].result /\ r.result[t] = job[j].result[t]
           \/ /\ AllowedBy(r.result[t], Named(Done \cup {j})) /\ r.result[t].from # "recurring"
              /\ r.force => r.result[t].by \notin r.past
  PROVE  IInv'
  <1>0. Types /\ RowsInv /\ JobInv(j) /\ pc[j] # "done" /\ old.id \in Job
    BY DEF IInv, Busy, Rows
  <1>1. PICK mem : mem = Cache!With(cacheMem[j], h, over)
    OBVIOUS
  <1>2. PICK d \in Dirty : d = [key |-> h, id |-> old.id, cols |-> cols]
    BY <1>0 DEF Dirty
  <1>3. d.key = h /\ d.id = old.id /\ d.cols = cols
    BY <1>2
  <1>4. /\ cacheMem' = [cacheMem EXCEPT ![j] = mem] /\ cacheDirty' = [cacheDirty EXCEPT ![j] = d]
        /\ cache' = cache /\ cacheOwn' = cacheOwn /\ pc' = pc
    BY <1>1, <1>2 DEF Cache!Put
  <1>5. /\ job'[j] = r /\ DOMAIN job' = Job /\ pc' \in [Job -> JobState] /\ pc'[j] = pc[j]
        /\ cacheMem'[j] = mem /\ cacheDirty'[j] = d /\ cacheOwn'[j] = cacheOwn[j]
        /\ DOMAIN cacheOwn' = Job /\ DOMAIN cacheMem' = Job
        /\ \A k \in Job \ {j} : JobSame(k)
    BY <1>0, <1>4 DEF Types, TypeOK, JobSame
  <1>6. /\ DOMAIN mem = DOMAIN cacheMem[j] \cup {h} /\ mem[h] = over
        /\ \A g \in DOMAIN cacheMem[j] \ {h} : mem[g] = cacheMem[j][g]
        /\ mem \in [DOMAIN mem -> Rows] /\ DOMAIN mem \subseteq HashKey
    <2>1. Partial(cacheMem[j], HashKey, Rows)
      BY <1>0 DEF Types
    <2> QED
      BY <1>1, <2>1 DEF Partial, Cache!With
  <1>7. PICK all, now : all = recorded \cup job[j].used /\ now = recorded \cup r.used
    OBVIOUS
  <1>8. all \subseteq now /\ IsFiniteSet(now) /\ (recorded \cup job[j].used)' = now
    <2>1. IsFiniteSet(recorded)
      BY <1>0 DEF Types
    <2> QED
      BY <1>5, <1>7, <2>1, FS_Union
  <1>9. PICK K : K = Named(Done \cup {j})
    OBVIOUS
  <1>10. Named(Done \cup {j})' = K /\ Done' = Done
    BY <1>4, <1>5, <1>9 DEF Named, Done, JobSame
  <1>11. /\ Partial(cacheOwn[j], HashKey, Rows \cup {None}) /\ Partial(cacheMem[j], HashKey, Rows)
         /\ \A g \in Rows : g.hits \in Nat
    BY <1>0 DEF Types, Rows
  <1>12. SessionInv(j)'
    <2>1. /\ \A g \in DOMAIN cacheOwn[j] : cacheOwn[j][g] # None =>
               cacheOwn[j][g].id = j \/ (cache[g] # None /\ cache[g].id = cacheOwn[j][g].id)
          /\ d.cols \in Rows => d.cols.id = d.id
          /\ d.id # j \/ d.cols \in Rows \/ (d.key \in DOMAIN cacheOwn[j] /\ cacheOwn[j][d.key] # None)
      BY <1>0, <1>3 DEF JobInv, SessionInv
    <2> QED
      BY <1>4, <1>5, <2>1 DEF SessionInv
  <1>13. HitsInv(j)'
    <2>1. ASSUME NEW g \in DOMAIN cacheOwn[j], cacheOwn[j][g] # None PROVE HitsIn(g, cacheOwn[j][g], now)
      <3>1. PICK v \in Rows : v = cacheOwn[j][g]
        BY <1>11, <2>1 DEF Partial
      <3>2. HitsIn(g, v, all)
        BY <1>0, <1>7, <2>1, <3>1 DEF JobInv, HitsInv
      <3> QED
        BY <1>8, <1>11, <3>1, <3>2, HitsStay
    <2>2. ASSUME NEW g \in DOMAIN mem PROVE HitsIn(g, mem[g], now)
      <3>1. CASE g = h
        BY <1>6, <1>7, <3>1
      <3>2. CASE g # h
        <4>1. PICK v \in Rows : v = cacheMem[j][g] /\ v = mem[g] /\ g \in DOMAIN cacheMem[j]
          BY <1>6, <1>11, <2>2, <3>2 DEF Partial
        <4>2. HitsIn(g, v, all)
          BY <1>0, <1>7, <4>1 DEF JobInv, HitsInv
        <4> QED
          BY <1>8, <1>11, <4>1, <4>2, HitsStay
      <3> QED
        BY <3>1, <3>2
    <2>3. "hits" \in DOMAIN d.cols => HitsIn(d.key, d.cols, now)
      BY <1>3, <1>7
    <2> QED
      BY <1>5, <1>8, <2>1, <2>2, <2>3 DEF HitsInv
  <1>14. AllowedInv(j)'
    <2>1. \A g \in DOMAIN cacheOwn[j] : cacheOwn[j][g] # None => AllowedBy(cacheOwn[j][g], K)
      BY <1>0, <1>9 DEF JobInv, AllowedInv
    <2>2. \A g \in DOMAIN mem : AllowedBy(mem[g], K)
      BY <1>0, <1>6, <1>9 DEF JobInv, AllowedInv
    <2>3. "from" \in DOMAIN d.cols => AllowedBy(d.cols, K)
      BY <1>3, <1>9
    <2>4. \A t \in DOMAIN r.result : AllowedBy(r.result[t], K)
      BY <1>0, <1>9 DEF JobInv, AllowedInv
    <2> QED
      BY <1>5, <1>10, <2>1, <2>2, <2>3, <2>4 DEF AllowedInv
  <1>15. FreshInv(j)'
    <2>1. StaleKeys(j)' = StaleKeys(j) /\ \A g : Cache!View(j, g)' = Cache!View(j, g)
      BY <1>4, <1>5 DEF StaleKeys, Cache!View
    <2> QED
      BY <1>0, <1>5, <1>10, <2>1 DEF JobInv, FreshInv
  <1>16. JobInv(j)'
    <2>1. Quiet(j)'
      BY <1>0, <1>5 DEF JobInv, Quiet, Busy
    <2>2. AccountInv(j)'
      BY <1>5 DEF AccountInv
    <2> QED
      BY <1>12, <1>13, <1>14, <1>15, <2>1, <2>2 DEF JobInv
  <1>17. ForcedOf(j)' /\ RecurringOf(j)'
    <2>1. ForcedOf(j) /\ RecurringOf(j) /\ confirms' = confirms
      BY DEF IInv, ForcedIsFresh, RecurringWasConfirmed, ForcedOf, RecurringOf, memoryVars
    <2>2. r.force => \A t \in DOMAIN r.result : r.result[t].by \notin r.past
      BY <2>1 DEF ForcedOf
    <2>3. \A t \in DOMAIN r.result : r.result[t].from = "recurring" =>
            t \in DOMAIN job[j].result /\ r.result[t] = job[j].result[t]
      OBVIOUS
    <2>4. ForcedOf(j)'
      BY <1>5, <2>2 DEF ForcedOf
    <2>5. RecurringOf(j)'
      BY <1>5, <2>1, <2>3 DEF RecurringOf
    <2> QED
      BY <2>4, <2>5
  <1>18. cacheDirty' \in [Job -> {None} \cup Dirty]
    BY <1>0, <1>4 DEF Types, Dirty
  <1>19. Partial(cacheOwn'[j], HashKey, Rows \cup {None}) /\ Partial(cacheMem'[j], HashKey, Rows)
    BY <1>5, <1>6, <1>11 DEF Partial
  <1>20. \A k \in Job \ {j} : DOMAIN cacheOwn'[j] \cap DOMAIN cacheOwn[k] = {}
    BY <1>0, <1>5 DEF RowsInv
  <1> QED
    BY <1>0, <1>4, <1>5, <1>16, <1>17, <1>18, <1>19, <1>20, OneJob

(* A row that a job finds is its own, or one of a completed job whose lock *)
(* it may already hold.                                                    *)
LEMMA FoundId ==
  ASSUME IInv, NEW j \in Job, pc[j] # "done", NEW h \in HashKey, Cache!View(j, h) # None
  PROVE  Cache!View(j, h).id # j \/ (h \in DOMAIN cacheOwn[j] /\ cacheOwn[j][h] # None)
  <1>1. RowsInv
    BY DEF IInv
  <1>2. CASE h \notin DOMAIN cacheOwn[j]
    BY <1>1, <1>2 DEF Cache!View, RowsInv, Done
  <1> QED
    BY <1>2 DEF Cache!View

LEMMA KeepsFlushCache ==
  ASSUME IInv, NEW j \in Job, FlushCache(j)
  PROVE  IInv'
  <1>0. Types /\ RowsInv /\ JobInv(j)
    BY DEF IInv
  <1>1. PICK d \in Dirty : d = cacheDirty[j] /\ d # None
    BY <1>0 DEF Types, Dirty, FlushCache, Cache!Flush
  <1>2. PICK h \in HashKey : h = d.key
    BY <1>1 DEF Dirty
  <1>3. PICK cols \in Changed : cols = d.cols
    BY <1>1 DEF Dirty
  <1>4. PICK v : v = Cache!View(j, h)
    OBVIOUS
  <1>5. PICK new : new = IF v = None THEN cols ELSE Cache!Over(cols, v)
    OBVIOUS
  <1>6. PICK own : own = Cache!With(cacheOwn[j], h, new)
    OBVIOUS
  <1>7. /\ Cache!Blockers(j) = {} /\ IF v = None THEN d.id = j ELSE v.id = d.id
        /\ cacheOwn' = [cacheOwn EXCEPT ![j] = own]
        /\ cacheDirty' = [cacheDirty EXCEPT ![j] = None]
        /\ cache' = cache /\ cacheMem' = cacheMem
        /\ UNCHANGED <<memoryVars, rules, changes>> /\ UNCHANGED <<usage, recorded, pc, job>>
    BY <1>1, <1>2, <1>3, <1>4, <1>5, <1>6 DEF FlushCache, Cache!Flush, Cache!Fits, OthersIdle
  <1>8. PICK all, K : all = recorded \cup job[j].used /\ K = Named(Done \cup {j})
    OBVIOUS
  <1>9. pc[j] \in Busy \ {"begin"} /\ pc[j] # "done"
    BY <1>0, <1>1 DEF JobInv, Quiet, Busy
  <1>10. /\ v \in Rows \cup {None}
         /\ v # None => HitsIn(h, v, all) /\ AllowedBy(v, K) /\ v.id \in Done \cup {j}
    BY <1>4, <1>8, FoundRow
  <1>11. /\ cols \in Rows => cols.id = d.id
         /\ d.id # j \/ cols \in Rows \/ (h \in DOMAIN cacheOwn[j] /\ cacheOwn[j][h] # None)
         /\ "hits" \in DOMAIN cols => HitsIn(h, cols, all)
         /\ "from" \in DOMAIN cols => AllowedBy(cols, K)
    BY <1>0, <1>1, <1>2, <1>3, <1>8 DEF JobInv, SessionInv, HitsInv, AllowedInv
  <1>12. /\ new \in Rows /\ HitsIn(h, new, all) /\ AllowedBy(new, K) /\ new.id = d.id
         /\ v = None => new.id = j
    <2>1. CASE v = None
      <3>1. ~(h \in DOMAIN cacheOwn[j] /\ cacheOwn[j][h] # None)
        BY <1>4, <2>1 DEF Cache!View
      <3>2. new = cols /\ cols \in Rows /\ cols.id = j /\ d.id = j
        BY <1>5, <1>7, <1>11, <2>1, <3>1
      <3>3. "hits" \in DOMAIN cols /\ "from" \in DOMAIN cols
        BY <3>2 DEF Rows
      <3> QED
        BY <1>11, <3>2, <3>3
    <2>2. CASE v # None
      <3>1. v \in Rows /\ v.id = d.id /\ new = Cache!Over(cols, v)
        BY <1>5, <1>7, <1>10, <2>2
      <3>2. /\ new \in Rows /\ new.id = (IF cols \in Rows THEN cols.id ELSE v.id)
            /\ new.hits = (IF "hits" \in DOMAIN cols THEN cols.hits ELSE v.hits)
            /\ new.from = (IF "from" \in DOMAIN cols THEN cols.from ELSE v.from)
            /\ new.ledger = (IF "from" \in DOMAIN cols THEN cols.ledger ELSE v.ledger)
        BY <3>1, OverRow
      <3>3. HitsIn(h, new, all)
        BY <1>10, <1>11, <2>2, <3>2 DEF HitsIn
      <3>4. AllowedBy(new, K)
        BY <1>10, <1>11, <2>2, <3>2 DEF AllowedBy
      <3>5. new.id = d.id
        BY <1>11, <3>1, <3>2
      <3> QED
        BY <2>2, <3>2, <3>3, <3>4, <3>5
    <2> QED
      BY <2>1, <2>2
  <1>13. /\ cacheOwn'[j] = own /\ cacheDirty'[j] = None /\ DOMAIN cacheOwn' = Job
         /\ \A k \in Job \ {j} : JobSame(k) /\ cacheOwn'[k] = cacheOwn[k]
         /\ pc' = pc /\ job' = job
    BY <1>0, <1>7 DEF Types, JobSame
  <1>14. /\ DOMAIN own = DOMAIN cacheOwn[j] \cup {h} /\ own[h] = new
         /\ \A g \in DOMAIN cacheOwn[j] \ {h} : own[g] = cacheOwn[j][g]
         /\ Partial(own, HashKey, Rows \cup {None})
    <2>1. Partial(cacheOwn[j], HashKey, Rows \cup {None})
      BY <1>0 DEF Types
    <2>2. /\ DOMAIN own = DOMAIN cacheOwn[j] \cup {h} /\ own[h] = new
          /\ \A g \in DOMAIN cacheOwn[j] \ {h} : own[g] = cacheOwn[j][g]
          /\ own \in [DOMAIN own -> Rows \cup {None}]
      BY <1>6, <1>12, <2>1 DEF Partial, Cache!With
    <2> QED
      BY <2>1, <2>2 DEF Partial
  <1>15. SessionInv(j)'
    <2>1. ASSUME NEW g \in DOMAIN own, own[g] # None
          PROVE  own[g].id = j \/ (cache[g] # None /\ cache[g].id = own[g].id)
      <3>1. CASE g # h
        BY <1>0, <1>14, <2>1, <3>1 DEF JobInv, SessionInv
      <3>2. CASE g = h /\ v # None
        <4>1. own[g].id = v.id
          BY <1>7, <1>12, <1>14, <3>2
        <4>2. CASE h \in DOMAIN cacheOwn[j]
          <5>1. v = cacheOwn[j][h]
            BY <1>4, <4>2 DEF Cache!View
          <5> QED
            BY <1>0, <3>2, <4>1, <4>2, <5>1 DEF JobInv, SessionInv
        <4>3. CASE h \notin DOMAIN cacheOwn[j]
          <5>1. v = cache[h]
            BY <1>4, <4>3 DEF Cache!View
          <5> QED
            BY <3>2, <4>1, <5>1
        <4> QED
          BY <4>2, <4>3
      <3>3. CASE g = h /\ v = None
        BY <1>12, <1>14, <3>3
      <3> QED
        BY <3>1, <3>2, <3>3
    <2> QED
      BY <1>7, <1>13, <2>1 DEF SessionInv
  <1>16. HitsInv(j)'
    <2>1. \A g \in DOMAIN own : own[g] # None => HitsIn(g, own[g], all)
      BY <1>0, <1>8, <1>12, <1>14 DEF JobInv, HitsInv
    <2>2. \A g \in DOMAIN cacheMem[j] : HitsIn(g, cacheMem[j][g], all)
      BY <1>0, <1>8 DEF JobInv, HitsInv
    <2>3. (recorded \cup job[j].used)' = all
      BY <1>7, <1>8
    <2> QED
      BY <1>7, <1>13, <2>1, <2>2, <2>3 DEF HitsInv
  <1>17. AllowedInv(j)'
    <2>1. \A g \in DOMAIN own : own[g] # None => AllowedBy(own[g], K)
      BY <1>0, <1>8, <1>12, <1>14 DEF JobInv, AllowedInv
    <2>2. /\ \A g \in DOMAIN cacheMem[j] : AllowedBy(cacheMem[j][g], K)
          /\ \A t \in DOMAIN job[j].result : AllowedBy(job[j].result[t], K)
      BY <1>0, <1>8 DEF JobInv, AllowedInv
    <2>3. Named(Done \cup {j})' = K
      BY <1>8, <1>13 DEF Named, Done
    <2> QED
      BY <1>7, <1>13, <2>1, <2>2, <2>3 DEF AllowedInv
  <1>18. FreshInv(j)'
    <2>1. j \notin job[j].past /\ job[j].past \subseteq Done
      BY <1>0, <1>9 DEF JobInv, FreshInv, Done
    <2>2. ASSUME job[j].force, NEW g \in StaleKeys(j), Cache!View(j, g)' # None
          PROVE  Cache!View(j, g)'.id \notin job[j].past
      <3>1. CASE g = h
        <4>1. Cache!View(j, g)' = new
          BY <1>13, <1>14, <3>1 DEF Cache!View
        <4>2. v # None => v.id \notin job[j].past
          BY <1>0, <1>4, <1>9, <2>2, <3>1 DEF JobInv, FreshInv
        <4> QED
          BY <1>7, <1>12, <2>1, <4>1, <4>2
      <3>2. CASE g # h
        <4>1. Cache!View(j, g)' = Cache!View(j, g)
          BY <1>7, <1>13, <1>14, <3>2 DEF Cache!View
        <4> QED
          BY <1>0, <1>9, <2>2, <4>1 DEF JobInv, FreshInv
      <3> QED
        BY <3>1, <3>2
    <2>3. StaleKeys(j)' = StaleKeys(j) /\ Done' = Done
      BY <1>13 DEF StaleKeys, Done
    <2> QED
      BY <1>13, <2>1, <2>2, <2>3 DEF FreshInv
  <1>19. JobInv(j)'
    <2>1. Quiet(j)' /\ AccountInv(j)'
      BY <1>0, <1>7, <1>9, <1>13 DEF JobInv, Quiet, AccountInv
    <2> QED
      BY <1>15, <1>16, <1>17, <1>18, <2>1 DEF JobInv
  <1>20. ForcedOf(j)' /\ RecurringOf(j)'
    BY <1>7 DEF IInv, ForcedIsFresh, RecurringWasConfirmed, ForcedOf, RecurringOf, memoryVars
  <1>21. \A k \in Job \ {j} : DOMAIN cacheOwn'[j] \cap DOMAIN cacheOwn[k] = {}
    <2>1. \A k \in Job \ {j} : h \notin DOMAIN cacheOwn[k]
      BY <1>1, <1>2, <1>7 DEF Cache!Blockers
    <2> QED
      BY <1>0, <1>13, <1>14, <2>1 DEF RowsInv
  <1>22. /\ cacheDirty' \in [Job -> {None} \cup Dirty] /\ DOMAIN cacheMem' = Job
         /\ Partial(cacheOwn'[j], HashKey, Rows \cup {None}) /\ Partial(cacheMem'[j], HashKey, Rows)
         /\ pc' \in [Job -> JobState] /\ DOMAIN job' = Job /\ Typed(job'[j]) /\ IsFiniteSet(job'[j].used)
    BY <1>0, <1>7, <1>13, <1>14 DEF Types, TypeOK, Dirty
  <1> QED
    BY <1>7, <1>9, <1>13, <1>19, <1>20, <1>21, <1>22, OneJob
-----------------------------------------------------------------------------
(* The loop over the cache.                                                *)

(* The loop moves on: the transaction it was at is missed or settled, and  *)
(* nothing of another one has changed.                                     *)
Distinct(s) == \A i, k \in DOMAIN s : s[i] = s[k] => i = k
SameFor(q, r, x) ==
    /\ Recorded(r, x) = Recorded(q, x) /\ (x \in DOMAIN r.result <=> x \in DOMAIN q.result)
    /\ x \in DOMAIN q.result => r.result[x] = q.result[x]
LEMMA LookupOn ==
  ASSUME NEW j, NEW q, NEW state, state = "lookup", Account(j, state, q), Typed(q),
         q.at <= Len(q.list), NEW t, t = q.list[q.at],
         NEW r, r.list = q.list, r.at = q.at + 1, \A u \in r.used : u.job = j,
         NEW missed, missed = ToSet(r.misses), missed \subseteq ToSet(q.list), Distinct(r.misses),
         \A x : x # t => (x \in missed <=> x \in ToSet(q.misses)),
         DOMAIN r.result \subseteq ToSet(q.list), \A x : x # t => SameFor(q, r, x),
         \/ t \in missed /\ Recorded(r, t) = {}
         \/ t \notin missed /\ Settled(r, t)
  PROVE  Account(j, state, r)
  <1>0. PICK list \in Seq(Tx), at \in Nat \ {0} :
          list = q.list /\ at = q.at /\ r.list = list /\ r.at = at + 1 /\ t = list[at] /\ at <= Len(list)
    BY TypedFields
  <1>1. /\ DOMAIN list = 1..Len(list) /\ Len(list) \in Nat /\ at \in DOMAIN list
        /\ \A i \in DOMAIN list : list[i] \in ToSet(list) /\ i \in Nat
    BY <1>0, ListFacts
  <1>2. \A i, k \in DOMAIN list : list[i] = list[k] => i = k
    BY <1>0 DEF Account
  <1>3. \A x \in ToSet(list) : x # t =>
          /\ Settled(r, x) <=> Settled(q, x)
          /\ Given(r, x) <=> Given(q, x)
    BY DEF Settled, Given, Answered, SameFor
  <1>4. ASSUME NEW i \in DOMAIN list
        PROVE  \/ i >= at + 1 /\ list[i] \notin missed /\ Recorded(r, list[i]) = {}
                  /\ (list[i] \in DOMAIN r.result => Given(r, list[i]))
               \/ i < at + 1 /\ list[i] \in missed /\ Recorded(r, list[i]) = {}
               \/ i < at + 1 /\ list[i] \notin missed /\ Settled(r, list[i])
    <2>1. CASE i = at
      <3>1. i < at + 1
        BY <2>1
      <3>2. list[i] = t
        BY <1>0, <2>1
      <3>3. \/ list[i] \in missed /\ Recorded(r, list[i]) = {}
            \/ list[i] \notin missed /\ Settled(r, list[i])
        BY <3>2
      <3> QED
        BY <3>1, <3>3
    <2>2. CASE i # at
      <3>1. PICK x \in ToSet(list) : x = list[i] /\ x # t
        BY <1>0, <1>1, <1>2, <2>2
      <3>2. (i >= at => i >= at + 1) /\ (i < at => i < at + 1)
        BY <1>1, <2>2
      <3>3. \/ i >= at /\ x \notin ToSet(q.misses) /\ Recorded(q, x) = {}
               /\ (x \in DOMAIN q.result => Given(q, x))
            \/ i < at /\ x \in ToSet(q.misses) /\ Recorded(q, x) = {}
            \/ i < at /\ x \notin ToSet(q.misses) /\ Settled(q, x)
        BY <1>0, <3>1 DEF Account
      <3>4. Recorded(r, x) = Recorded(q, x) /\ (x \in DOMAIN r.result <=> x \in DOMAIN q.result)
        BY <3>1 DEF SameFor
      <3> QED
        BY <1>3, <3>1, <3>2, <3>3, <3>4
    <2> QED
      BY <2>1, <2>2
  <1>5. \A i \in DOMAIN list :
          \/ i >= r.at /\ list[i] \notin ToSet(r.misses) /\ Recorded(r, list[i]) = {}
             /\ (list[i] \in DOMAIN r.result => Given(r, list[i]))
          \/ i < r.at /\ list[i] \in ToSet(r.misses) /\ Recorded(r, list[i]) = {}
          \/ i < r.at /\ list[i] \notin ToSet(r.misses) /\ Settled(r, list[i])
    BY <1>0, <1>4
  <1>6. /\ \A i, k \in DOMAIN r.misses : r.misses[i] = r.misses[k] => i = k
        /\ ToSet(r.misses) \subseteq ToSet(list) /\ DOMAIN r.result \subseteq ToSet(list)
    BY <1>0 DEF Distinct
  <1> QED
    BY <1>0, <1>2, <1>5, <1>6 DEF Account

LEMMA LookupAt ==
  ASSUME NEW j, NEW q, NEW state, state = "lookup", Account(j, state, q), Typed(q),
         q.at <= Len(q.list), NEW t, t = q.list[q.at]
  PROVE  /\ t \in Tx /\ Hash[t] \in HashKey /\ t \in ToSet(q.list) /\ t \notin ToSet(q.misses)
         /\ Recorded(q, t) = {} /\ (t \in DOMAIN q.result => Given(q, t))
         /\ ToSet(q.misses) \subseteq ToSet(q.list) /\ DOMAIN q.result \subseteq ToSet(q.list)
         /\ \A i, k \in DOMAIN q.misses : q.misses[i] = q.misses[k] => i = k
         /\ \A u \in q.used : u.job = j
  <1>1. PICK list \in Seq(Tx), at \in Nat \ {0} : list = q.list /\ at = q.at
    BY TypedFields
  <1>2. at \in DOMAIN list /\ ~(at < at)
    BY <1>1
  <1>3. t \in Tx /\ t \in ToSet(list)
    BY <1>1, <1>2, ListFacts
  <1>4. /\ t \notin ToSet(q.misses) /\ Recorded(q, t) = {} /\ (t \in DOMAIN q.result => Given(q, t))
    BY <1>1, <1>2 DEF Account
  <1> QED
    BY <1>1, <1>3, <1>4 DEF Account, HashKey

LEMMA KeepsLookup ==
  ASSUME IInv, NEW j \in Job, Lookup(j)
  PROVE  IInv'
  <1>0. PICK state \in Loop : state = "lookup"
    BY DEF Loop
  <1>1. PICK q : q = job[j]
    OBVIOUS
  <1>2. /\ Typed(q) /\ pc[j] = state /\ pc[j] \in Busy \ {"begin"} /\ Account(j, state, q)
        /\ q.at <= Len(q.list)
    BY <1>0, <1>1, LoopFacts DEF Lookup, Busy
  <1>3. PICK list \in Seq(Tx), misses \in Seq(Tx), at \in Nat \ {0} :
          list = q.list /\ misses = q.misses /\ at = q.at
    BY <1>2, TypedFields
  <1>4. PICK t : t = list[at]
    OBVIOUS
  <1>5. /\ t \in Tx /\ Hash[t] \in HashKey /\ t \in ToSet(list) /\ t \notin ToSet(misses)
        /\ Recorded(q, t) = {} /\ (t \in DOMAIN q.result => Given(q, t))
        /\ ToSet(misses) \subseteq ToSet(list) /\ DOMAIN q.result \subseteq ToSet(list)
        /\ \A i, k \in DOMAIN misses : misses[i] = misses[k] => i = k
        /\ \A u \in q.used : u.job = j
    <2>1. at <= Len(list) /\ misses = q.misses
      BY <1>2, <1>3
    <2>2. /\ t \in Tx /\ Hash[t] \in HashKey /\ t \in ToSet(list) /\ t \notin ToSet(q.misses)
          /\ Recorded(q, t) = {} /\ (t \in DOMAIN q.result => Given(q, t))
          /\ ToSet(q.misses) \subseteq ToSet(list) /\ DOMAIN q.result \subseteq ToSet(list)
          /\ \A i, k \in DOMAIN q.misses : q.misses[i] = q.misses[k] => i = k
          /\ \A u \in q.used : u.job = j
      <3>1. list = q.list /\ t = q.list[q.at]
        BY <1>3, <1>4
      <3> QED
        BY <1>0, <1>2, <3>1, LookupAt
    <2> QED
      BY <2>1, <2>2
  <1>6. PICK h \in HashKey : h = Hash[t]
    BY <1>5
  <1>7. PICK next \in Nat \ {0} : next = at + 1
    OBVIOUS
  <1>8. UNCHANGED <<memoryVars, rules, changes, usage, recorded>> /\ pc' = [pc EXCEPT ![j] = state] /\ pc' = pc
    <2>1. pc' = pc /\ pc = [x \in DOMAIN pc |-> pc[x]]
      BY DEF Lookup, IInv, Types, TypeOK
    <2> QED
      BY <1>2, <2>1 DEF Lookup, OthersIdle
  <1>9. PICK hit : hit = Cache!Get(j, h)
    OBVIOUS
  <1>10. ASSUME t \in DOMAIN q.result, job' = [job EXCEPT ![j] = [q EXCEPT !.at = next]], UNCHANGED cacheVars
         PROVE  IInv'
    <2>1. PICK r : r = [q EXCEPT !.at = next]
      OBVIOUS
    <2>2. /\ r.used = q.used /\ r.allowed = q.allowed /\ r.past = q.past /\ r.statement = q.statement
          /\ r.force = q.force /\ r.list = q.list /\ r.result = q.result /\ r.tier = q.tier
          /\ r.misses = q.misses /\ r.seen = q.seen /\ r.at = next /\ r.attempt = q.attempt
          /\ DOMAIN r = DOMAIN q /\ r = [x \in DOMAIN r |-> r[x]]
      BY <1>2, <2>1 DEF JobRecord, Typed
    <2>3. Typed(r)
      BY <1>2, <2>2, TypedFields, StillTyped
    <2>4. \A x : Recorded(r, x) = Recorded(q, x) /\ (Settled(r, x) <=> Settled(q, x))
      BY <2>2 DEF Recorded, Settled, Given, Answered
    <2>5. Settled(r, t)
      BY <1>5, <1>10, <2>4 DEF Settled
    <2>6. Account(j, state, r)
      <3>1. r.at = q.at + 1 /\ q.at <= Len(q.list) /\ t = q.list[q.at]
        BY <1>2, <1>3, <1>4, <1>7, <2>2
      <3>2. PICK missed : missed = ToSet(r.misses)
        OBVIOUS
      <3>3. /\ t \notin missed /\ missed \subseteq ToSet(q.list) /\ Distinct(r.misses)
            /\ \A x : x # t => (x \in missed <=> x \in ToSet(q.misses))
        BY <1>3, <1>5, <2>2, <3>2 DEF Distinct
      <3>4. \A x : x # t => SameFor(q, r, x)
        BY <2>2, <2>4 DEF SameFor
      <3>5. DOMAIN r.result \subseteq ToSet(q.list) /\ \A u \in r.used : u.job = j
        BY <1>3, <1>5, <2>2
      <3> QED
        BY <1>0, <1>2, <2>2, <2>5, <3>1, <3>2, <3>3, <3>4, <3>5, LookupOn
    <2>7. UNCHANGED <<memoryVars, rules, changes, cacheVars, usage, recorded>> /\ job' = [job EXCEPT ![j] = r]
      BY <1>8, <1>10, <2>1
    <2> QED
      BY <1>1, <1>2, <1>8, <2>2, <2>3, <2>6, <2>7, JobMoves
  <1>11. ASSUME hit = None, t \notin DOMAIN q.result, Cache!Read(j, h),
                job' = [job EXCEPT ![j] = [q EXCEPT !.at = next, !.misses = Append(misses, t)]]
         PROVE  IInv'
    <2>0. PICK more \in Seq(Tx) : more = Append(misses, t)
      <3>1. Append(misses, t) \in Seq(Tx)
        BY <1>5
      <3> QED
        BY <3>1
    <2>1. PICK r : r = [q EXCEPT !.at = next, !.misses = more]
      OBVIOUS
    <2>2. /\ r.used = q.used /\ r.allowed = q.allowed /\ r.past = q.past /\ r.statement = q.statement
          /\ r.force = q.force /\ r.list = q.list /\ r.result = q.result /\ r.tier = q.tier
          /\ r.misses = more /\ r.seen = q.seen /\ r.at = next /\ r.attempt = q.attempt
          /\ DOMAIN r = DOMAIN q /\ r = [x \in DOMAIN r |-> r[x]]
      BY <1>2, <2>1 DEF JobRecord, Typed
    <2>3. Typed(r)
      BY <1>2, <2>2, TypedFields, StillTyped
    <2>4. \A x : Recorded(r, x) = Recorded(q, x)
      BY <2>2 DEF Recorded
    <2>5. PICK n \in Nat : n = Len(misses)
      OBVIOUS
    <2>6. DOMAIN misses = 1..n /\ DOMAIN more = 1..(n + 1) /\ more[n + 1] = t
          /\ \A i \in 1..n : more[i] = misses[i]
      BY <2>0, <2>5
    <2>7. ToSet(more) = ToSet(misses) \cup {t}
      <3>1. ASSUME NEW x \in ToSet(more) PROVE x \in ToSet(misses) \cup {t}
        <4>1. PICK i \in 1..(n + 1) : x = more[i]
          BY <2>6 DEF ToSet
        <4>2. i = n + 1 \/ i \in 1..n
          BY <4>1
        <4> QED
          BY <2>6, <4>1, <4>2 DEF ToSet
      <3>2. ASSUME NEW x \in ToSet(misses) \cup {t} PROVE x \in ToSet(more)
        <4>1. CASE x = t
          <5>1. n + 1 \in DOMAIN more
            BY <2>6
          <5> QED
            BY <2>6, <4>1, <5>1 DEF ToSet
        <4>2. CASE x \in ToSet(misses)
          <5>1. PICK i \in 1..n : x = misses[i]
            BY <2>6, <4>2 DEF ToSet
          <5>2. i \in DOMAIN more /\ more[i] = x
            BY <2>6, <5>1
          <5> QED
            BY <5>2 DEF ToSet
        <4> QED
          BY <3>2, <4>1, <4>2
      <3> QED
        BY <3>1, <3>2
    <2>8. \A i, k \in DOMAIN more : more[i] = more[k] => i = k
      <3>1. ASSUME NEW i \in 1..n PROVE more[i] # t /\ i # n + 1 /\ more[i] = misses[i]
        BY <1>5, <2>6 DEF ToSet
      <3>2. \A i \in DOMAIN more : i \in 1..n \/ i = n + 1
        BY <2>6
      <3> QED
        BY <1>5, <2>6, <3>1, <3>2
    <2>9. Account(j, state, r)
      <3>1. r.at = q.at + 1 /\ q.at <= Len(q.list) /\ t = q.list[q.at] /\ r.list = q.list
        BY <1>2, <1>3, <1>4, <1>7, <2>2
      <3>2. PICK missed : missed = ToSet(r.misses)
        OBVIOUS
      <3>3. /\ t \in missed /\ missed \subseteq ToSet(q.list)
            /\ \A x : x # t => (x \in missed <=> x \in ToSet(q.misses))
        BY <1>3, <1>5, <2>2, <2>7, <3>2
      <3>4. \A x : x # t => SameFor(q, r, x)
        BY <2>2, <2>4 DEF SameFor
      <3>5. /\ DOMAIN r.result \subseteq ToSet(q.list) /\ \A u \in r.used : u.job = j
            /\ Recorded(r, t) = {}
        BY <1>3, <1>5, <2>2, <2>4
      <3>6. Distinct(r.misses)
        BY <2>2, <2>8 DEF Distinct
      <3> QED
        BY <1>0, <1>2, <3>1, <3>2, <3>3, <3>4, <3>5, <3>6, LookupOn
    <2>10. UNCHANGED cacheVars
      <3>1. PICK v : v = Cache!View(j, h)
        OBVIOUS
      <3>2. v = None
        <4>1. CASE v # None
          <5>1. h \in DOMAIN cacheMem[j] /\ cacheMem[j][h] = None
            BY <1>9, <1>11, <3>1, <4>1 DEF Cache!Get
          <5>2. cacheMem[j][h] \in Rows
            BY <5>1 DEF IInv, Types, Partial
          <5> QED
            BY <5>1, <5>2, NamesAssumption
        <4> QED
          BY <4>1
      <3> QED
        BY <1>11, <3>1, <3>2 DEF Cache!Read, cacheVars
    <2>11. UNCHANGED <<memoryVars, rules, changes, cacheVars, usage, recorded>> /\ job' = [job EXCEPT ![j] = r]
      BY <1>8, <1>11, <2>0, <2>1, <2>10
    <2> QED
      BY <1>1, <1>2, <1>8, <2>2, <2>3, <2>9, <2>11, JobMoves
  <1>12. ASSUME hit # None, t \notin DOMAIN q.result, MarkHit(j, t, hit),
                job' = [job EXCEPT ![j] = [q EXCEPT !.at = next,
                          !.result = Put(q.result, t, FromCache(hit)),
                          !.used = q.used \cup {Record(j, t, "HIT")}]]
         PROVE  IInv'
    <2>1. PICK u : u = Record(j, t, "HIT")
      OBVIOUS
    <2>2. u \in Records /\ u.tx = t /\ u.job = j /\ u.hash = h /\ u.status = "HIT"
      BY <1>5, <1>6, <2>1 DEF Record, Records, Status
    <2>3. PICK answer : answer = FromCache(hit)
      OBVIOUS
    <2>4. PICK result : result = Put(q.result, t, answer)
      OBVIOUS
    <2>5. PICK used : used = q.used \cup {u}
      OBVIOUS
    <2>6. PICK r : r = [q EXCEPT !.at = next, !.result = result, !.used = used]
      OBVIOUS
    <2>7. /\ r.used = used /\ r.allowed = q.allowed /\ r.past = q.past /\ r.statement = q.statement
          /\ r.force = q.force /\ r.list = q.list /\ r.result = result /\ r.tier = q.tier
          /\ r.misses = q.misses /\ r.seen = q.seen /\ r.at = next /\ r.attempt = q.attempt
          /\ DOMAIN r = DOMAIN q /\ r = [x \in DOMAIN r |-> r[x]]
      BY <1>2, <2>6 DEF JobRecord, Typed
    <2>8. PICK all, K : all = recorded \cup q.used /\ K = Named(Done \cup {j})
      OBVIOUS
    <2>9. /\ hit \in Rows /\ HitsIn(h, hit, all) /\ AllowedBy(hit, K)
          /\ Cache!View(j, h) # None /\ hit.id = Cache!View(j, h).id
      BY <1>1, <1>9, <1>12, <2>8, FoundRow
    <2>10. hit.id \in Job /\ hit.from \in AnswerSource /\ hit.ledger \in Ledger \cup {None} /\ hit.hits \in Nat
      BY <2>9 DEF Rows
    <2>11. /\ answer = [from |-> hit.from, ledger |-> hit.ledger, status |-> "HIT", by |-> hit.id]
           /\ answer \in Results /\ answer.from \in AnswerSource /\ AllowedBy(answer, K)
           /\ answer.from # "recurring" /\ answer.by = hit.id
      <3>1. answer = [from |-> hit.from, ledger |-> hit.ledger, status |-> "HIT", by |-> hit.id]
        BY <2>3 DEF FromCache, Result
      <3> QED
        BY <2>9, <2>10, <3>1, SourceFacts DEF Results, Status, AllowedBy
    <2>12. /\ DOMAIN result = DOMAIN q.result \cup {t} /\ result[t] = answer
           /\ \A x \in DOMAIN q.result : x # t /\ result[x] = q.result[x]
           /\ result \in [DOMAIN result -> Results]
      <3>1. q.result \in [DOMAIN q.result -> Results]
        BY <1>2, TypedFields
      <3> QED
        BY <1>12, <2>4, <2>11, <3>1 DEF Put
    <2>13. /\ used \subseteq Records /\ IsFiniteSet(used) /\ IsFiniteSet(recorded)
      <3>1. q.used \subseteq Records /\ IsFiniteSet(q.used) /\ IsFiniteSet(recorded)
        BY <1>1, <1>2, TypedFields DEF IInv, Types
      <3> QED
        BY <2>2, <2>5, <3>1, FS_AddElement
    <2>14. Typed(r)
      BY <1>2, <2>7, <2>12, <2>13, TypedFields, StillTyped
    <2>15. Recorded(r, t) = {u} /\ \A x : x # t => Recorded(r, x) = Recorded(q, x)
      <3>1. r.used = q.used \cup {u} /\ u.tx = t /\ Recorded(q, t) = {}
        BY <1>5, <2>2, <2>5, <2>7
      <3> QED
        BY <3>1 DEF Recorded
    <2>16. Account(j, state, r)
      <3>1. r.at = q.at + 1 /\ q.at <= Len(q.list) /\ t = q.list[q.at] /\ r.list = q.list
        BY <1>2, <1>3, <1>4, <1>7, <2>7
      <3>2. PICK missed : missed = ToSet(r.misses)
        OBVIOUS
      <3>3. /\ t \notin missed /\ missed \subseteq ToSet(q.list) /\ Distinct(r.misses)
            /\ \A x : x # t => (x \in missed <=> x \in ToSet(q.misses))
        BY <1>3, <1>5, <2>7, <3>2 DEF Distinct
      <3>4. \A x : x # t => SameFor(q, r, x)
        BY <2>7, <2>12, <2>15 DEF SameFor
      <3>5. DOMAIN r.result \subseteq ToSet(q.list) /\ \A x \in r.used : x.job = j
        BY <1>3, <1>5, <2>2, <2>5, <2>7, <2>12
      <3>6. Settled(r, t)
        BY <2>2, <2>7, <2>11, <2>12, <2>15 DEF Settled, Answered
      <3> QED
        BY <1>0, <1>2, <3>1, <3>2, <3>3, <3>4, <3>5, <3>6, LookupOn
    <2>17. PICK cols \in Changed : cols = [hits |-> hit.hits + 1]
      <3>1. [hits |-> hit.hits + 1] \in [hits : Nat]
        BY <2>10
      <3> QED
        BY <3>1 DEF Changed
    <2>18. /\ DOMAIN cols = {"hits"} /\ cols.hits = hit.hits + 1 /\ "hits" \in DOMAIN cols
           /\ "from" \notin DOMAIN cols /\ cols \notin Rows
      BY <2>17 DEF Rows
    <2>19. PICK over : over = Cache!Over(cols, hit)
      OBVIOUS
    <2>20. /\ over \in Rows /\ over.hits = hit.hits + 1 /\ over.from = hit.from /\ over.ledger = hit.ledger
      BY <2>9, <2>17, <2>18, <2>19, OverRow
    <2>21. hit.hits + 1 <= Cardinality(HitsOf(h, recorded \cup used))
      <3>1. u \notin all
        <4>1. pc[j] # "done"
          BY <1>2 DEF Busy
        <4>2. u \notin recorded
          BY <2>2, <4>1 DEF IInv, UsageInv, Done
        <4>3. u \notin q.used
          BY <1>5, <2>2 DEF Recorded
        <4> QED
          BY <2>8, <4>2, <4>3
      <3>2. HitsOf(h, recorded \cup used) = HitsOf(h, all) \cup {u} /\ u \notin HitsOf(h, all)
        BY <2>2, <2>5, <2>8, <3>1 DEF HitsOf
      <3>3. IsFiniteSet(HitsOf(h, all)) /\ Cardinality(HitsOf(h, all)) \in Nat
        BY <1>1, <2>8, RecordsFinite DEF IInv
      <3>4. Cardinality(HitsOf(h, recorded \cup used)) = Cardinality(HitsOf(h, all)) + 1
        BY <3>2, <3>3, FS_AddElement
      <3>5. hit.hits <= Cardinality(HitsOf(h, all))
        BY <2>9 DEF HitsIn
      <3> QED
        BY <2>10, <3>3, <3>4, <3>5
    <2>22. HitsIn(h, over, recorded \cup used) /\ HitsIn(h, cols, recorded \cup used)
      BY <2>18, <2>20, <2>21 DEF HitsIn
    <2>23. AllowedBy(over, K)
      BY <2>9, <2>20 DEF AllowedBy
    <2>24. hit.id # j \/ (h \in DOMAIN cacheOwn[j] /\ cacheOwn[j][h] # None)
      BY <1>2, <2>9, FoundId DEF Busy
    <2>25. \A x \in DOMAIN result :
             \/ x \in DOMAIN q.result /\ result[x] = q.result[x]
             \/ /\ AllowedBy(result[x], K) /\ result[x].from # "recurring"
                /\ q.force => result[x].by \notin q.past
      <3>1. q.force => hit.id \notin q.past
        <4>1. h \in StaleKeys(j)
          BY <1>1, <1>3, <1>5, <1>6 DEF StaleKeys
        <4>2. FreshInv(j)
          BY DEF IInv, JobInv
        <4> QED
          BY <1>1, <1>2, <2>9, <4>1, <4>2 DEF FreshInv
      <3> QED
        BY <2>11, <2>12, <3>1
    <2>26. Cache!Put(j, h, hit, cols)
      BY <1>6, <1>12, <2>17 DEF MarkHit
    <2>27. job' = [job EXCEPT ![j] = r]
      BY <1>12, <2>1, <2>3, <2>4, <2>5, <2>6
    <2>28. job[j].used \subseteq used /\ Account(j, pc[j], r)
      BY <1>0, <1>1, <1>2, <2>5, <2>16
    <2> QED
      BY <1>1, <1>2, <1>8, <2>7, <2>8, <2>9, <2>13, <2>14, <2>18, <2>19, <2>20, <2>22, <2>23, <2>24,
         <2>25, <2>26, <2>27, <2>28, JobPuts
  <1>13. \/ /\ t \in DOMAIN q.result
            /\ job' = [job EXCEPT ![j] = [q EXCEPT !.at = next]] /\ UNCHANGED cacheVars
         \/ /\ hit = None /\ t \notin DOMAIN q.result /\ Cache!Read(j, h)
            /\ job' = [job EXCEPT ![j] = [q EXCEPT !.at = next, !.misses = Append(misses, t)]]
         \/ /\ hit # None /\ t \notin DOMAIN q.result /\ MarkHit(j, t, hit)
            /\ job' = [job EXCEPT ![j] = [q EXCEPT !.at = next,
                          !.result = Put(q.result, t, FromCache(hit)),
                          !.used = q.used \cup {Record(j, t, "HIT")}]]
    <2>1. PICK step : step = [q EXCEPT !.at = @ + 1]
      OBVIOUS
    <2>2. /\ step = [q EXCEPT !.at = next] /\ step.misses = misses /\ step.result = q.result
          /\ step.used = q.used
      BY <1>2, <1>3, <1>7, <2>1 DEF Typed, JobRecord
    <2>3. /\ [step EXCEPT !.misses = Append(@, t)] = [q EXCEPT !.at = next, !.misses = Append(misses, t)]
          /\ [step EXCEPT !.result = Put(@, t, FromCache(hit)), !.used = @ \cup {Record(j, t, "HIT")}]
             = [q EXCEPT !.at = next, !.result = Put(q.result, t, FromCache(hit)),
                         !.used = q.used \cup {Record(j, t, "HIT")}]
      BY <2>2
    <2>4. \/ /\ t \in DOMAIN q.result /\ Hold(j, step) /\ UNCHANGED cacheVars
          \/ /\ hit = None /\ t \notin DOMAIN q.result /\ Cache!Read(j, h)
             /\ Hold(j, [step EXCEPT !.misses = Append(@, t)])
          \/ /\ hit # None /\ t \notin DOMAIN q.result /\ MarkHit(j, t, hit)
             /\ Hold(j, [step EXCEPT !.result = Put(@, t, FromCache(hit)),
                                     !.used = @ \cup {Record(j, t, "HIT")}])
      BY <1>1, <1>3, <1>4, <1>6, <1>9, <2>1 DEF Lookup
    <2> QED
      BY <2>2, <2>3, <2>4 DEF Hold
  <1> QED
    BY <1>10, <1>11, <1>12, <1>13
-----------------------------------------------------------------------------
(* The loop that stores the answers.                                       *)

LEMMA StoreAt ==
  ASSUME NEW j, NEW q, NEW state, state = "store", Account(j, state, q), Typed(q),
         q.at <= Len(q.misses), NEW t, t = q.misses[q.at]
  PROVE  /\ t \in Tx /\ Hash[t] \in HashKey /\ t \in ToSet(q.misses)
         /\ Recorded(q, t) = {} /\ Answered(q, t)
  <1>1. PICK misses \in Seq(Tx), at \in Nat \ {0} : misses = q.misses /\ at = q.at
    BY TypedFields
  <1>2. at \in DOMAIN misses /\ ~(at < at)
    BY <1>1
  <1>3. t \in Tx /\ t \in ToSet(misses)
    BY <1>1, <1>2, ListFacts
  <1>4. Recorded(q, t) = {} /\ Answered(q, t)
    BY <1>1, <1>2 DEF Account
  <1> QED
    BY <1>1, <1>3, <1>4 DEF HashKey

LEMMA StoreOn ==
  ASSUME NEW j, NEW q, NEW state, state = "store", Account(j, state, q), Typed(q),
         q.at <= Len(q.misses), NEW t, t = q.misses[q.at], NEW u \in Records, u.tx = t, u.job = j,
         NEW r, r.list = q.list, r.misses = q.misses, r.result = q.result, r.at = q.at + 1,
         r.used = q.used \cup {u}
  PROVE  Account(j, state, r)
  <1>0. PICK misses \in Seq(Tx), at \in Nat \ {0} :
          misses = q.misses /\ at = q.at /\ r.misses = misses /\ r.at = at + 1 /\ t = misses[at]
          /\ at <= Len(misses)
    BY TypedFields
  <1>1. /\ DOMAIN misses = 1..Len(misses) /\ Len(misses) \in Nat /\ at \in DOMAIN misses
        /\ \A i \in DOMAIN misses : misses[i] \in ToSet(misses) /\ i \in Nat
    BY <1>0, ListFacts
  <1>2. \A i, k \in DOMAIN misses : misses[i] = misses[k] => i = k
    BY <1>0 DEF Account
  <1>3. Recorded(q, t) = {} /\ Answered(q, t) /\ t \in ToSet(misses)
    BY <1>0, StoreAt
  <1>4. Recorded(r, t) = {u} /\ \A x : x # t => Recorded(r, x) = Recorded(q, x)
    BY <1>3 DEF Recorded
  <1>5. \A x : Answered(r, x) <=> Answered(q, x)
    BY DEF Answered
  <1>6. \A x : x # t => (Settled(r, x) <=> Settled(q, x))
    BY <1>4 DEF Settled, Given, Answered
  <1>7. Settled(r, t)
    BY <1>3, <1>4, <1>5 DEF Settled
  <1>8. ASSUME NEW i \in DOMAIN misses
        PROVE  IF i < r.at THEN Settled(r, misses[i])
               ELSE Recorded(r, misses[i]) = {} /\ Answered(r, misses[i])
    <2>1. CASE i = at
      <3>1. i < r.at /\ misses[i] = t
        BY <1>0, <2>1
      <3> QED
        BY <1>7, <3>1
    <2>2. CASE i # at
      <3>1. PICK x : x = misses[i] /\ x # t
        BY <1>0, <1>1, <1>2, <2>2
      <3>2. i < r.at <=> i < at
        BY <1>0, <1>1, <2>2
      <3>3. IF i < at THEN Settled(q, x) ELSE Recorded(q, x) = {} /\ Answered(q, x)
        BY <1>0, <3>1 DEF Account
      <3> QED
        BY <1>4, <1>5, <1>6, <3>1, <3>2, <3>3
    <2> QED
      BY <2>1, <2>2
  <1>9. \A x \in ToSet(q.list) \ ToSet(misses) : Settled(r, x)
    BY <1>0, <1>3, <1>6 DEF Account
  <1>10. /\ \A i, k \in DOMAIN q.list : q.list[i] = q.list[k] => i = k
         /\ ToSet(misses) \subseteq ToSet(q.list) /\ DOMAIN r.result \subseteq ToSet(q.list)
         /\ \A x \in r.used : x.job = j
    BY <1>0 DEF Account
  <1> QED
    BY <1>0, <1>2, <1>8, <1>9, <1>10 DEF Account

LEMMA KeepsStore ==
  ASSUME IInv, NEW j \in Job, Store(j)
  PROVE  IInv'
  <1>0. PICK state \in Loop : state = "store"
    BY DEF Loop
  <1>1. PICK q : q = job[j]
    OBVIOUS
  <1>2. /\ Typed(q) /\ pc[j] = state /\ pc[j] \in Busy \ {"begin"} /\ Account(j, state, q)
        /\ q.at <= Len(q.misses)
    BY <1>0, <1>1, LoopFacts DEF Store, Busy
  <1>3. PICK t : t = q.misses[q.at]
    OBVIOUS
  <1>4. /\ t \in Tx /\ Hash[t] \in HashKey /\ t \in ToSet(q.misses)
        /\ Recorded(q, t) = {} /\ Answered(q, t)
    BY <1>0, <1>2, <1>3, StoreAt
  <1>5. PICK h \in HashKey : h = Hash[t]
    BY <1>4
  <1>6. PICK a \in Results : a = q.result[t] /\ a.from \in AnswerSource
    BY <1>2, <1>4, TypedFields DEF Answered
  <1>7. a.ledger \in Ledger \cup {None} /\ a.status \in Status
    BY <1>6 DEF Results
  <1>8. PICK u : u = Record(j, t, a.status)
    OBVIOUS
  <1>9. u \in Records /\ u.tx = t /\ u.job = j
    BY <1>4, <1>7, <1>8 DEF Record, Records
  <1>10. PICK used, next : used = q.used \cup {u} /\ next = q.at + 1
    OBVIOUS
  <1>11. PICK r : r = [q EXCEPT !.used = used, !.at = next]
    OBVIOUS
  <1>12. /\ r.used = used /\ r.allowed = q.allowed /\ r.past = q.past /\ r.statement = q.statement
         /\ r.force = q.force /\ r.list = q.list /\ r.result = q.result /\ r.tier = q.tier
         /\ r.misses = q.misses /\ r.seen = q.seen /\ r.at = next /\ r.attempt = q.attempt
         /\ DOMAIN r = DOMAIN q /\ r = [x \in DOMAIN r |-> r[x]]
    BY <1>2, <1>11 DEF JobRecord, Typed
  <1>13. used \subseteq Records /\ IsFiniteSet(used) /\ next \in Nat \ {0}
    <2>1. q.used \subseteq Records /\ IsFiniteSet(q.used) /\ q.at \in Nat \ {0}
      BY <1>1, <1>2, TypedFields DEF IInv, Types
    <2> QED
      BY <1>9, <1>10, <2>1, FS_AddElement
  <1>14. Typed(r)
    BY <1>2, <1>12, <1>13, TypedFields, StillTyped
  <1>15. Account(j, state, r)
    <2>1. r.at = q.at + 1 /\ r.used = q.used \cup {u}
      BY <1>10, <1>12
    <2> QED
      BY <1>0, <1>2, <1>3, <1>9, <1>12, <2>1, StoreOn
  <1>16. /\ UNCHANGED <<memoryVars, rules, changes, usage, recorded, pc>> /\ job' = [job EXCEPT ![j] = r]
         /\ StoreAnswer(j, t, a)
    <2>1. /\ StoreAnswer(j, t, a) /\ UNCHANGED <<memoryVars, rules, changes>> /\ UNCHANGED <<usage, recorded, pc>>
          /\ job' = [job EXCEPT ![j] = [q EXCEPT !.used = @ \cup {u}, !.at = @ + 1]]
      BY <1>1, <1>3, <1>6, <1>8 DEF Store, Hold, OthersIdle
    <2>2. [q EXCEPT !.used = @ \cup {u}, !.at = @ + 1] = r
      BY <1>2, <1>10, <1>11 DEF JobRecord, Typed
    <2> QED
      BY <2>1, <2>2
  <1>17. PICK all, K : all = recorded \cup used /\ K = Named(Done \cup {j})
    OBVIOUS
  <1>18. AllowedBy(a, K)
    BY <1>1, <1>4, <1>6, <1>17 DEF IInv, JobInv, AllowedInv, Answered
  <1>19. /\ IsFiniteSet(all) /\ recorded \cup q.used \subseteq all
         /\ Cardinality(HitsOf(h, all)) \in Nat
    <2>1. IsFiniteSet(all) /\ recorded \cup q.used \subseteq all
      BY <1>10, <1>13, <1>17, FS_Union DEF IInv, Types
    <2> QED
      BY <2>1, HitsGrow
  <1>20. \A x \in DOMAIN r.result : x \in DOMAIN job[j].result /\ r.result[x] = job[j].result[x]
    BY <1>1, <1>12
  <1>21. job[j].used \subseteq used /\ Account(j, pc[j], r)
    BY <1>1, <1>2, <1>10, <1>15
  <1>22. PICK old : old = Cache!Get(j, h)
    OBVIOUS
  <1>23. ASSUME old # None PROVE IInv'
    <2>1. /\ old \in Rows /\ HitsIn(h, old, recorded \cup q.used) /\ AllowedBy(old, K)
          /\ Cache!View(j, h) # None /\ old.id = Cache!View(j, h).id
      BY <1>1, <1>17, <1>22, <1>23, FoundRow
    <2>2. PICK cols \in Changed : cols = [from |-> a.from, ledger |-> a.ledger]
      <3>1. [from |-> a.from, ledger |-> a.ledger] \in [from : AnswerSource, ledger : Ledger \cup {None}]
        BY <1>6, <1>7
      <3> QED
        BY <3>1 DEF Changed
    <2>3. /\ DOMAIN cols = {"from", "ledger"} /\ cols.from = a.from /\ cols.ledger = a.ledger
          /\ "hits" \notin DOMAIN cols /\ "from" \in DOMAIN cols /\ cols \notin Rows
      BY <2>2 DEF Rows
    <2>4. PICK over : over = Cache!Over(cols, old)
      OBVIOUS
    <2>5. over \in Rows /\ over.hits = old.hits /\ over.from = a.from /\ over.ledger = a.ledger
      BY <2>1, <2>2, <2>3, <2>4, OverRow
    <2>6. HitsIn(h, over, all)
      <3>1. HitsIn(h, over, recorded \cup q.used) /\ over.hits \in Nat
        BY <2>1, <2>5 DEF HitsIn, Rows
      <3> QED
        BY <1>19, <3>1, HitsStay
    <2>7. AllowedBy(over, K) /\ AllowedBy(cols, K)
      BY <1>18, <2>3, <2>5 DEF AllowedBy
    <2>8. old.id # j \/ (h \in DOMAIN cacheOwn[j] /\ cacheOwn[j][h] # None)
      BY <1>2, <2>1, FoundId DEF Busy
    <2>9. Cache!Put(j, h, old, cols)
      BY <1>5, <1>16, <1>22, <1>23, <2>2 DEF StoreAnswer
    <2> QED
      BY <1>1, <1>2, <1>12, <1>13, <1>14, <1>16, <1>17, <1>20, <1>21, <2>1, <2>3, <2>4, <2>5, <2>6,
         <2>7, <2>8, <2>9, JobPuts
  <1>24. ASSUME old = None PROVE IInv'
    <2>1. PICK new \in Rows : new = [id |-> j, from |-> a.from, ledger |-> a.ledger, hits |-> 0]
      BY <1>6, <1>7 DEF Rows
    <2>2. /\ new.id = j /\ new.from = a.from /\ new.ledger = a.ledger /\ new.hits = 0
          /\ new \in Changed
      BY <2>1 DEF Changed
    <2>3. PICK over : over = Cache!Over(new, new)
      OBVIOUS
    <2>4. over \in Rows /\ over.hits = 0 /\ over.from = a.from /\ over.ledger = a.ledger
      <3>1. "hits" \in DOMAIN new /\ "from" \in DOMAIN new
        BY <2>1
      <3> QED
        BY <2>1, <2>2, <2>3, <3>1, OverRow
    <2>5. HitsIn(h, over, all) /\ HitsIn(h, new, all)
      BY <1>19, <2>2, <2>4 DEF HitsIn
    <2>6. AllowedBy(over, K) /\ AllowedBy(new, K)
      BY <1>18, <2>2, <2>4 DEF AllowedBy
    <2>7. Cache!Put(j, h, new, new)
      BY <1>5, <1>16, <1>22, <1>24, <2>1 DEF StoreAnswer
    <2> QED
      BY <1>1, <1>2, <1>12, <1>13, <1>14, <1>16, <1>17, <1>20, <1>21, <2>1, <2>2, <2>3, <2>4, <2>5,
         <2>6, <2>7, JobPuts
  <1> QED
    BY <1>23, <1>24
-----------------------------------------------------------------------------
(* The reads of a job that begins.                                         *)

LEMMA FirstRuleTyped ==
  ASSUME rules \in Seq(RuleChoice), NEW t, Matching(t) # {}
  PROVE  FirstRule(t).ledger \in Ledger \cup {None}
  <1>1. PICK M : M = Matching(t)
    OBVIOUS
  <1>2. /\ DOMAIN rules = 1..Len(rules) /\ Len(rules) \in Nat /\ M # {} /\ M \subseteq DOMAIN rules
        /\ M \subseteq Nat /\ \A i \in DOMAIN rules : rules[i] \in RuleChoice
    BY <1>1 DEF Matching
  <1>3. /\ \A i \in M : rules[i].priority \in Nat
        /\ \A i \in M : rules[i].ledger \in Ledger \cup {None}
    BY <1>2, LedgerAssumption
  <1>4. PICK P : P = {rules[i].priority : i \in M}
    OBVIOUS
  <1>5. P \subseteq Nat /\ P # {}
    BY <1>2, <1>3, <1>4
  <1>6. PICK p \in P : \A x \in P : p <= x
    BY <1>5, Least
  <1>7. PICK I : I = {i \in M : rules[i].priority = p}
    OBVIOUS
  <1>8. I \subseteq Nat /\ I # {}
    BY <1>2, <1>4, <1>6, <1>7
  <1>9. PICK i \in I : \A k \in I : i <= k
    BY <1>8, Least
  <1>10. i \in M /\ rules[i].priority = p
    BY <1>7
  <1>11. \A k \in M : \/ rules[i].priority < rules[k].priority
                      \/ rules[i].priority = rules[k].priority /\ i <= k
    <2>1. ASSUME NEW k \in M
          PROVE  \/ rules[i].priority < rules[k].priority
                 \/ rules[i].priority = rules[k].priority /\ i <= k
      <3>1. PICK x \in P : x = rules[k].priority
        BY <1>4
      <3>2. p <= x /\ p \in Nat /\ x \in Nat
        BY <1>5, <1>6
      <3>3. CASE p = x
        <4>1. k \in I
          BY <1>7, <3>1, <3>3
        <4> QED
          BY <1>9, <1>10, <3>1, <3>3, <4>1
      <3>4. CASE p < x
        BY <1>10, <3>1, <3>4
      <3> QED
        BY <3>2, <3>3, <3>4
    <2> QED
      BY <2>1
  <1> DEFINE First(x) == \A k \in M : \/ rules[x].priority < rules[k].priority
                                      \/ rules[x].priority = rules[k].priority /\ x <= k
  <1>12. (CHOOSE x \in M : First(x)) \in M
    <2>1. \E x \in M : First(x)
      BY <1>10, <1>11
    <2> HIDE DEF First
    <2> QED
      BY <2>1, Zenon
  <1>13. FirstRule(t) = rules[CHOOSE x \in M : First(x)]
    BY <1>1 DEF FirstRule
  <1> QED
    BY <1>3, <1>12, <1>13

(* A recurring answer, when it is given.                                   *)
LEMMA RecurringIs ==
  ASSUME MemoryInv, NEW t \in Tx, NEW seen, Recurring(t, seen)
  PROVE  /\ RecurringLedger(t, seen) \in Ledger
         /\ \E p \in Pattern : LET c == confirms[<<ClientOf[t], p>>]
                               IN  c.times >= 2 /\ RecurringLedger(t, seen) \in c.ledgers
  <1>1. PICK p : p = PatternOf(t, seen[t])
    OBVIOUS
  <1>2. p \in Pattern
    BY <1>1 DEF PatternOf, Pattern
  <1>3. PICK k \in MappingKey : k = <<ClientOf[t], p>>
    BY <1>2 DEF MappingKey, Client
  <1>4. PICK m : m = mapping[k]
    OBVIOUS
  <1>5. m # None /\ m.hits >= 2 /\ RecurringLedger(t, seen) = m.ledger
    BY <1>1, <1>3, <1>4 DEF Recurring, RecurringLedger, MIN_HITS
  <1>6. m \in Mappings /\ confirms[k].times \in Nat
    BY <1>4, <1>5 DEF MemoryInv, RequestTypes
  <1>7. m.hits \in Nat /\ m.ledger \in Ledger
    BY <1>6 DEF Mappings
  <1>8. m.hits <= confirms[k].times /\ m.ledger \in confirms[k].ledgers
    BY <1>4, <1>5 DEF MemoryInv, MappingInv
  <1>9. confirms[k].times >= 2
    BY <1>5, <1>6, <1>7, <1>8
  <1> QED
    BY <1>2, <1>3, <1>5, <1>7, <1>8, <1>9

LEMMA AllowedTyped ==
  ASSUME MemoryInv, NEW s \in Statement, NEW c, c = {ClientOf[t] : t \in ToSet(Lines[s])}
  PROVE  (UNION {Chart[x] : x \in c})
         \cup {mapping[k].ledger : k \in {x \in c \X Pattern : mapping[x] # None}} \subseteq Ledger
  <1>1. ToSet(Lines[s]) \subseteq Tx
    <2>1. Lines[s] \in Seq(Tx)
      BY LinesAssumption
    <2> QED
      BY <2>1, ListFacts
  <1>2. c \subseteq Client
    BY <1>1 DEF Client
  <1>3. \A x \in c : Chart[x] \subseteq Ledger
    BY <1>2, LedgerAssumption
  <1>4. ASSUME NEW k \in c \X Pattern, mapping[k] # None PROVE mapping[k].ledger \in Ledger
    <2>1. k \in MappingKey
      BY <1>2 DEF MappingKey
    <2>2. mapping[k] \in Mappings
      BY <1>4, <2>1 DEF MemoryInv, RequestTypes
    <2> QED
      BY <2>2 DEF Mappings
  <1>5. UNION {Chart[x] : x \in c} \subseteq Ledger
    BY <1>3
  <1>6. {mapping[k].ledger : k \in {x \in c \X Pattern : mapping[x] # None}} \subseteq Ledger
    <2>1. PICK D : D = {x \in c \X Pattern : mapping[x] # None}
      OBVIOUS
    <2>2. \A k \in D : mapping[k].ledger \in Ledger
      BY <1>4, <2>1
    <2> QED
      BY <2>1, <2>2
  <1> QED
    BY <1>5, <1>6

LEMMA KeepsBegin ==
  ASSUME IInv, NEW j \in Job, Begin(j)
  PROVE  IInv'
  <1>0. PICK state \in Loop : state = "lookup"
    BY DEF Loop
  <1>1. PICK q : q = job[j]
    OBVIOUS
  <1>2. PICK s, c : s = q.statement /\ c = {ClientOf[t] : t \in ToSet(Lines[s])}
    OBVIOUS
  <1>3. PICK seen : seen = [t \in Tx |-> IF t \in DOMAIN q.seen THEN q.seen[t] ELSE row[t]]
    OBVIOUS
  <1>4. PICK ruled, recurring : /\ ruled = {t \in ToSet(q.list) : Matching(t) # {}}
                                /\ recurring = {t \in ToSet(q.list) : Recurring(t, seen)}
    OBVIOUS
  <1>5. PICK allowed : allowed = (UNION {Chart[x] : x \in c})
            \cup {mapping[k].ledger : k \in {x \in c \X Pattern : mapping[x] # None}}
    OBVIOUS
  <1> DEFINE New(t) == IF t \in recurring
                       THEN Result("recurring", RecurringLedger(t, seen), "MISS", None)
                       ELSE Result("rule", FirstRule(t).ledger, "MISS", None)
  <1>6. PICK result : result = [t \in ruled \cup recurring |-> New(t)]
    OBVIOUS
  <1>7. PICK r : r = [q EXCEPT !.allowed = allowed, !.result = result]
    OBVIOUS
  <1>8. /\ pc[j] = "begin" /\ pc' = [pc EXCEPT ![j] = state] /\ job' = [job EXCEPT ![j] = r]
        /\ UNCHANGED <<memoryVars, rules, changes>> /\ UNCHANGED <<cacheVars, usage, recorded>>
    BY <1>0, <1>1, <1>2, <1>3, <1>4, <1>5, <1>6, <1>7 DEF Begin, Hold, Go, OthersIdle
  <1>9. /\ MemoryInv /\ Types /\ RowsInv /\ JobInv(j) /\ Typed(q) /\ rules \in Seq(RuleChoice)
        /\ pc \in [Job -> JobState] /\ state \in JobState /\ state \in Busy \ {"begin"}
    BY <1>0, <1>1 DEF IInv, Types, TypeOK, JobState, Busy
  <1>10. /\ s \in Statement /\ DOMAIN q.result = {} /\ q.used = {} /\ q.misses = << >> /\ q.at = 1
         /\ DOMAIN cacheMem[j] = {} /\ cacheDirty[j] = None
         /\ \A h \in DOMAIN cacheOwn[j] : cacheOwn[j][h] = None
    BY <1>1, <1>2, <1>8, <1>9 DEF JobInv, Quiet, Busy
  <1>11. /\ r.used = {} /\ r.allowed = allowed /\ r.past = q.past /\ r.statement = s
         /\ r.force = q.force /\ r.list = q.list /\ r.result = result /\ r.tier = q.tier
         /\ r.misses = << >> /\ r.seen = q.seen /\ r.at = 1 /\ r.attempt = q.attempt
         /\ DOMAIN r = DOMAIN q /\ r = [x \in DOMAIN r |-> r[x]]
    BY <1>2, <1>7, <1>9, <1>10 DEF JobRecord, Typed
  <1>12. ToSet(q.list) \subseteq Tx
    BY <1>9, TypedFields, ListFacts
  <1>13. ASSUME NEW t \in ruled \cup recurring
         PROVE  /\ New(t) \in Results /\ New(t).from \in {"rule", "recurring"} /\ New(t).by = None
                /\ New(t).from = "recurring" =>
                     \E p \in Pattern : LET x == confirms[<<ClientOf[t], p>>]
                                        IN  x.times >= 2 /\ New(t).ledger \in x.ledgers
    <2>0. t \in Tx
      BY <1>4, <1>12
    <2>1. CASE t \in recurring
      <3>1. /\ RecurringLedger(t, seen) \in Ledger
            /\ \E p \in Pattern : LET x == confirms[<<ClientOf[t], p>>]
                                  IN  x.times >= 2 /\ RecurringLedger(t, seen) \in x.ledgers
        BY <1>4, <1>9, <2>0, <2>1, RecurringIs
      <3>2. PICK l \in Ledger : l = RecurringLedger(t, seen)
        BY <3>1
      <3>3. New(t) = [from |-> "recurring", ledger |-> l, status |-> "MISS", by |-> None]
        BY <2>1, <3>2 DEF Result
      <3> HIDE DEF New
      <3>4. New(t) \in Results /\ New(t).from = "recurring" /\ New(t).by = None /\ New(t).ledger = l
        BY <3>3 DEF Results, Status
      <3> QED
        BY <3>1, <3>2, <3>4
    <2>2. CASE t \notin recurring
      <3>1. PICK l \in Ledger \cup {None} : l = FirstRule(t).ledger
        BY <1>4, <1>9, <2>2, FirstRuleTyped
      <3>2. New(t) = [from |-> "rule", ledger |-> l, status |-> "MISS", by |-> None]
        BY <2>2, <3>1 DEF Result
      <3> HIDE DEF New
      <3>3. New(t) \in Results /\ New(t).from = "rule" /\ New(t).by = None
        BY <3>2 DEF Results, Status
      <3> QED
        BY <3>3
    <2> QED
      BY <2>1, <2>2
  <1> HIDE DEF New
  <1>14. /\ DOMAIN result = ruled \cup recurring /\ result \in [ruled \cup recurring -> Results]
         /\ \A t \in DOMAIN result : result[t] = New(t)
    BY <1>6, <1>13
  <1>15. Typed(r) /\ IsFiniteSet(r.used)
    <2>1. allowed \subseteq Ledger
      <3>1. (UNION {Chart[x] : x \in c})
            \cup {mapping[k].ledger : k \in {x \in c \X Pattern : mapping[x] # None}} \subseteq Ledger
        BY <1>2, <1>9, <1>10, AllowedTyped
      <3> QED
        BY <1>5, <3>1
    <2>2. r.used \subseteq Records /\ IsFiniteSet(r.used) /\ r.misses = q.misses /\ r.at = q.at
          /\ r.statement = q.statement
      BY <1>2, <1>10, <1>11, FS_EmptySet
    <2> QED
      BY <1>9, <1>11, <1>14, <2>1, <2>2, TypedFields, StillTyped
  <1>16. /\ pc'[j] = state /\ job'[j] = r /\ DOMAIN job' = Job /\ pc' \in [Job -> JobState]
         /\ cacheOwn' = cacheOwn /\ cacheMem' = cacheMem /\ cacheDirty' = cacheDirty /\ cache' = cache
         /\ \A k \in Job \ {j} : JobSame(k)
    BY <1>8, <1>9 DEF Types, JobSame, cacheVars
  <1>17. Done' = Done
    BY <1>0, <1>8, <1>16 DEF Done, JobSame
  <1>18. Account(j, state, r)
    <2>1. ToSet(<< >>) = {} /\ DOMAIN << >> = {}
      BY DEF ToSet
    <2>2. PICK list \in Seq(Tx) : list = q.list
      BY <1>9, TypedFields
    <2>3. \A i \in DOMAIN list : i >= 1
      OBVIOUS
    <2>4. \A i, k \in DOMAIN list : list[i] = list[k] => i = k
      BY <1>1, <1>9, <2>2 DEF JobInv, AccountInv, Account
    <2>5. \A t : Recorded(r, t) = {}
      BY <1>11 DEF Recorded
    <2>6. \A t \in DOMAIN result : Given(r, t)
      BY <1>11, <1>13, <1>14 DEF Given
    <2>7. r.list = list /\ r.misses = << >> /\ r.result = result /\ r.used = {} /\ r.at = 1
      BY <1>11, <2>2
    <2>8. DOMAIN result \subseteq ToSet(list)
      BY <1>4, <1>14, <2>2
    <2> QED
      BY <1>0, <2>1, <2>3, <2>4, <2>5, <2>6, <2>7, <2>8 DEF Account
  <1>19. JobInv(j)'
    <2>1. Quiet(j)'
      BY <1>9, <1>10, <1>11, <1>16, <1>0 DEF Quiet
    <2>2. SessionInv(j)' /\ HitsInv(j)'
      BY <1>10, <1>16 DEF SessionInv, HitsInv
    <2>3. AllowedInv(j)'
      <3>1. \A t \in DOMAIN result : result[t].from \notin ToSet(Source)
        BY <1>13, <1>14, SourceFacts
      <3>2. \A t \in DOMAIN result : \A ledgers : AllowedBy(result[t], ledgers)
        BY <3>1 DEF AllowedBy
      <3> QED
        BY <1>10, <1>11, <1>16, <3>2 DEF AllowedInv
    <2>4. FreshInv(j)'
      <3>1. StaleKeys(j)' = StaleKeys(j) /\ \A h : Cache!View(j, h)' = Cache!View(j, h)
        BY <1>1, <1>11, <1>16 DEF StaleKeys, Cache!View
      <3>2. pc[j] \in Busy
        BY <1>8 DEF Busy
      <3> QED
        BY <1>1, <1>9, <1>11, <1>16, <1>17, <3>1, <3>2 DEF JobInv, FreshInv
    <2>5. AccountInv(j)'
      BY <1>16, <1>18 DEF AccountInv
    <2> QED
      BY <2>1, <2>2, <2>3, <2>4, <2>5 DEF JobInv
  <1>20. ForcedOf(j)'
    <2>1. None \notin r.past
      BY <1>1, <1>9, <1>11, NamesAssumption DEF JobInv, FreshInv, Done
    <2>2. \A t \in DOMAIN result : result[t].by = None
      BY <1>13, <1>14
    <2> QED
      BY <1>11, <1>16, <2>1, <2>2 DEF ForcedOf
  <1>21. RecurringOf(j)'
    <2>1. confirms' = confirms
      BY <1>8 DEF memoryVars
    <2>2. \A t \in DOMAIN result : result[t].from = "recurring" =>
            \E p \in Pattern : LET x == confirms[<<ClientOf[t], p>>]
                               IN  x.times >= 2 /\ result[t].ledger \in x.ledgers
      BY <1>13, <1>14
    <2> QED
      BY <1>11, <1>16, <2>1, <2>2 DEF RecurringOf
  <1>22. \A k \in Job \ {j} : DOMAIN cacheOwn'[j] \cap DOMAIN cacheOwn[k] = {}
    BY <1>9, <1>16 DEF RowsInv
  <1>23. /\ DOMAIN cacheOwn' = Job /\ DOMAIN cacheMem' = Job /\ cacheDirty' \in [Job -> {None} \cup Dirty]
         /\ Partial(cacheOwn'[j], HashKey, Rows \cup {None}) /\ Partial(cacheMem'[j], HashKey, Rows)
    BY <1>9, <1>16 DEF Types, Dirty
  <1>24. /\ pc[j] # "done" /\ pc'[j] # "done" /\ Typed(job'[j]) /\ IsFiniteSet(job'[j].used)
         /\ UNCHANGED <<memoryVars, rules, changes, cache, usage, recorded>>
    BY <1>0, <1>8, <1>15, <1>16
  <1> QED
    BY <1>16, <1>19, <1>20, <1>21, <1>22, <1>23, <1>24, OneJob
-----------------------------------------------------------------------------
(* The commit of a job.                                                    *)

LEMMA KeepsComplete ==
  ASSUME IInv, NEW j \in Job, Complete(j)
  PROVE  IInv'
  <1>0. PICK state \in JobState : state = "done"
    BY DEF JobState
  <1>1. PICK q : q = job[j]
    OBVIOUS
  <1>2. /\ pc[j] = "apply" /\ pc' = [pc EXCEPT ![j] = state] /\ job' = job
        /\ recorded' = recorded \cup q.used /\ cache' = [h \in HashKey |-> Cache!View(j, h)]
        /\ row' = [t \in Tx |-> IF t \in DOMAIN q.seen THEN Applied(j, t) ELSE row[t]]
        /\ cacheOwn' = [cacheOwn EXCEPT ![j] = Cache!EmptyMap]
        /\ cacheMem' = [cacheMem EXCEPT ![j] = Cache!EmptyMap]
        /\ cacheDirty' = [cacheDirty EXCEPT ![j] = None]
        /\ UNCHANGED <<mappingVars, request, item, items, asked, confirms>>
        /\ UNCHANGED <<rules, changes>>
    BY <1>0, <1>1 DEF Complete, Cache!Commit, Cache!Forget, Go
  <1>3. /\ MemoryInv /\ Types /\ RowsInv /\ UsageInv /\ HitsWereRecorded /\ ForcedIsFresh
        /\ RecurringWasConfirmed /\ \A k \in Job : JobInv(k)
        /\ pc \in [Job -> JobState] /\ Typed(q)
    BY <1>1 DEF IInv, Types, TypeOK
  <1>4. /\ pc'[j] = "done" /\ pc' \in [Job -> JobState] /\ \A k \in Job \ {j} : pc'[k] = pc[k]
        /\ j \notin Done /\ Done' = Done \cup {j} /\ Done \subseteq Job
    <2>1. pc'[j] = "done" /\ pc' \in [Job -> JobState] /\ \A k \in Job \ {j} : pc'[k] = pc[k]
      BY <1>0, <1>2, <1>3
    <2> QED
      BY <1>2, <2>1 DEF Done
  <1>5. /\ cacheOwn'[j] = Cache!EmptyMap /\ cacheMem'[j] = Cache!EmptyMap /\ cacheDirty'[j] = None
        /\ DOMAIN cacheOwn' = Job /\ DOMAIN cacheMem' = Job /\ DOMAIN job' = Job
        /\ cacheDirty' \in [Job -> {None} \cup Dirty]
        /\ \A k \in Job \ {j} : /\ cacheOwn'[k] = cacheOwn[k] /\ cacheMem'[k] = cacheMem[k]
                                /\ cacheDirty'[k] = cacheDirty[k]
    BY <1>2, <1>3 DEF Types, Dirty
  <1>6. /\ DOMAIN Cache!EmptyMap = {} /\ Partial(Cache!EmptyMap, HashKey, Rows \cup {None})
        /\ Partial(Cache!EmptyMap, HashKey, Rows)
    BY DEF Cache!EmptyMap, Partial
  <1>7. PICK all, K : all = recorded \cup q.used /\ K = Named(Done \cup {j})
    OBVIOUS
  <1>8. Named(Done)' = K
    BY <1>2, <1>4, <1>7 DEF Named
  <1>9. ASSUME NEW h \in HashKey
        PROVE  /\ cache'[h] \in Rows \cup {None}
               /\ cache'[h] # None => /\ HitsIn(h, cache'[h], all) /\ AllowedBy(cache'[h], K)
                                      /\ cache'[h].id \in Done \cup {j}
    <2>1. PICK v : v = Cache!View(j, h)
      OBVIOUS
    <2>2. cache'[h] = v
      BY <1>2, <2>1
    <2>3. /\ v \in Rows \cup {None}
          /\ v # None => HitsIn(h, v, all) /\ AllowedBy(v, K) /\ v.id \in Done \cup {j}
      BY <1>1, <1>7, <2>1, FoundRow
    <2> QED
      BY <2>2, <2>3
  <1>10. /\ recorded' = all /\ all \subseteq Records /\ IsFiniteSet(all) /\ recorded \subseteq all
    BY <1>1, <1>2, <1>3, <1>7, RecordsFinite
  <1>11. row' \in [Tx -> Columns]
    <2>1. row \in [Tx -> Columns] /\ DOMAIN q.seen = ToSet(q.list)
      BY <1>3, TypedFields DEF Types, TypeOK
    <2>2. ASSUME NEW t \in Tx, t \in DOMAIN q.seen PROVE Applied(j, t) \in Columns
      <3>1. Account(j, pc[j], q)
        BY <1>1, <1>3 DEF JobInv, AccountInv
      <3>2. t \in DOMAIN q.result
        BY <1>2, <2>1, <2>2, <3>1 DEF Account, Settled, Given, Answered
      <3>3. q.result[t] \in Results
        BY <1>3, <3>2, TypedFields
      <3>4. PICK l \in Ledger \cup {None} : l = q.result[t].ledger
        BY <3>3 DEF Results
      <3>5. PICK w \in Columns : w = row[t]
        BY <2>1
      <3>6. Applied(j, t) = [w EXCEPT !.rich = TRUE,
                               !.suggested = IF l = q.seen[t].suggested THEN @ ELSE l]
        BY <1>1, <3>4, <3>5 DEF Applied
      <3> QED
        BY <3>6 DEF Columns
    <2> QED
      BY <1>2, <2>1, <2>2
  <1>12. MemoryInv'
    BY <1>2, <1>3, <1>11, MemoryKept
  <1>13. Types'
    <2>1. cache' \in [HashKey -> Rows \cup {None}]
      BY <1>2, <1>9
    <2>4. usage' \subseteq Records /\ deleted' = deleted
      <3>1. usage' = usage \cup q.used /\ deleted' = deleted
        BY <1>1 DEF Complete
      <3>2. usage \subseteq Records /\ q.used \subseteq Records
        BY <1>1, <1>3, RecordsFinite DEF Types, TypeOK
      <3> QED
        BY <3>1, <3>2
    <2>2. TypeOK'
      BY <1>2, <1>3, <1>4, <1>11, <2>1, <2>4 DEF Types, TypeOK
    <2>3. \A k \in Job : /\ Partial(cacheOwn'[k], HashKey, Rows \cup {None})
                         /\ Partial(cacheMem'[k], HashKey, Rows)
                         /\ Typed(job'[k]) /\ IsFiniteSet(job'[k].used)
      BY <1>2, <1>3, <1>5, <1>6 DEF Types
    <2> QED
      BY <1>2, <1>3, <1>5, <1>10, <2>2, <2>3 DEF Types, Dirty
  <1>14. RowsInv'
    <2>1. \A i, k \in Job : i # k => DOMAIN cacheOwn'[i] \cap DOMAIN cacheOwn'[k] = {}
      BY <1>3, <1>5, <1>6 DEF RowsInv
    <2> QED
      BY <1>4, <1>9, <2>1 DEF RowsInv
  <1>15. Account(j, "apply", q) /\ Account(j, state, q) /\ \A u \in q.used : u.job = j
    <2>1. Account(j, pc[j], q)
      BY <1>1, <1>3 DEF JobInv, AccountInv
    <2> QED
      BY <1>0, <1>2, <2>1 DEF Account
  <1>16. UsageInv'
    <2>1. \A u \in all : u.job \in Done \cup {j}
      BY <1>3, <1>7, <1>15 DEF UsageInv
    <2>2. ASSUME NEW k \in Done PROVE {u \in all : u.job = k} = job[k].used
      <3>1. k # j /\ {u \in recorded : u.job = k} = job[k].used
        BY <1>3, <1>4 DEF UsageInv
      <3>2. {u \in all : u.job = k} = {u \in recorded : u.job = k}
        BY <1>7, <1>15, <3>1
      <3> QED
        BY <3>1, <3>2
    <2>3. {u \in all : u.job = j} = job[j].used
      <3>1. \A u \in recorded : u.job # j
        BY <1>3, <1>4 DEF UsageInv
      <3> QED
        BY <1>1, <1>7, <1>15, <3>1
    <2> QED
      BY <1>2, <1>4, <1>10, <2>1, <2>2, <2>3 DEF UsageInv
  <1>17. HitsWereRecorded'
    BY <1>9, <1>10 DEF HitsWereRecorded, HitsIn, HitsOf
  <1>18. ForcedIsFresh' /\ RecurringWasConfirmed'
    BY <1>2, <1>3 DEF ForcedIsFresh, RecurringWasConfirmed
  <1>19. JobInv(j)'
    <2>1. q.statement \in Statement
      BY <1>1, <1>2, <1>3 DEF JobInv, Quiet
    <2>2. Quiet(j)'
      BY <1>1, <1>2, <1>4, <1>5, <1>6, <2>1 DEF Quiet, Busy
    <2>3. SessionInv(j)' /\ HitsInv(j)'
      BY <1>5, <1>6 DEF SessionInv, HitsInv
    <2>4. AllowedInv(j)'
      <3>1. \A t \in DOMAIN q.result : AllowedBy(q.result[t], K)
        BY <1>1, <1>3, <1>7 DEF JobInv, AllowedInv
      <3>2. Named(Done \cup {j})' = K
        BY <1>2, <1>4, <1>7 DEF Named
      <3> QED
        BY <1>1, <1>2, <1>5, <1>6, <3>1, <3>2 DEF AllowedInv
    <2>5. FreshInv(j)'
      <3>1. job[j].past \subseteq Done
        BY <1>3 DEF JobInv, FreshInv
      <3> QED
        BY <1>2, <1>4, <3>1 DEF FreshInv, Busy
    <2>6. AccountInv(j)'
      <3>1. pc'[j] = state /\ job'[j] = q
        BY <1>0, <1>1, <1>2, <1>4
      <3> QED
        BY <1>15, <3>1 DEF AccountInv
    <2> QED
      BY <2>2, <2>3, <2>4, <2>5, <2>6 DEF JobInv
  <1>20. ASSUME NEW k \in Job \ {j} PROVE JobInv(k)'
    <2>1. /\ JobInv(k) /\ pc'[k] = pc[k] /\ job'[k] = job[k] /\ cacheOwn'[k] = cacheOwn[k]
          /\ cacheMem'[k] = cacheMem[k] /\ cacheDirty'[k] = cacheDirty[k]
          /\ DOMAIN cacheOwn[j] \cap DOMAIN cacheOwn[k] = {} /\ DOMAIN cacheOwn[k] \subseteq HashKey
      BY <1>2, <1>3, <1>4, <1>5 DEF RowsInv, Types, Partial
    <2>2. \A h \in DOMAIN cacheOwn[k] : cache'[h] = cache[h]
      BY <1>2, <2>1 DEF Cache!View
    <2>3. Quiet(k)' /\ AccountInv(k)'
      BY <2>1 DEF JobInv, Quiet, AccountInv
    <2>4. SessionInv(k)'
      BY <2>1, <2>2 DEF JobInv, SessionInv
    <2>5. HitsInv(k)'
      <3>1. PICK before, after : before = recorded \cup job[k].used /\ after = all \cup job[k].used
        OBVIOUS
      <3>2. before \subseteq after /\ IsFiniteSet(after) /\ (recorded \cup job[k].used)' = after
        <4>1. IsFiniteSet(job[k].used)
          BY <1>3 DEF Types
        <4> QED
          BY <1>10, <2>1, <3>1, <4>1, FS_Union
      <3>3. ASSUME NEW h, NEW v, v.hits \in Nat, HitsIn(h, v, before) PROVE HitsIn(h, v, after)
        BY <3>2, <3>3, HitsStay
      <3>4. /\ Partial(cacheOwn[k], HashKey, Rows \cup {None}) /\ Partial(cacheMem[k], HashKey, Rows)
            /\ cacheDirty[k] \in {None} \cup Dirty
        BY <1>3 DEF Types, Dirty
      <3>5. \A v \in Rows : v.hits \in Nat
        BY DEF Rows
      <3>6. \A h \in DOMAIN cacheOwn[k] : cacheOwn[k][h] # None => HitsIn(h, cacheOwn[k][h], after)
        <4>1. ASSUME NEW h \in DOMAIN cacheOwn[k], cacheOwn[k][h] # None
              PROVE  HitsIn(h, cacheOwn[k][h], after)
          <5>1. cacheOwn[k][h] \in Rows
            BY <3>4, <4>1 DEF Partial
          <5> QED
            BY <2>1, <3>1, <3>3, <3>5, <4>1, <5>1 DEF JobInv, HitsInv
        <4> QED
          BY <4>1
      <3>7. \A h \in DOMAIN cacheMem[k] : HitsIn(h, cacheMem[k][h], after)
        <4>1. ASSUME NEW h \in DOMAIN cacheMem[k] PROVE HitsIn(h, cacheMem[k][h], after)
          <5>1. cacheMem[k][h] \in Rows
            BY <3>4 DEF Partial
          <5> QED
            BY <2>1, <3>1, <3>3, <3>5, <4>1, <5>1 DEF JobInv, HitsInv
        <4> QED
          BY <4>1
      <3>8. ASSUME cacheDirty[k] # None, "hits" \in DOMAIN cacheDirty[k].cols
            PROVE  HitsIn(cacheDirty[k].key, cacheDirty[k].cols, after)
        <4>1. PICK d \in Dirty : d = cacheDirty[k]
          BY <3>4, <3>8
        <4>2. d.cols \in Changed
          BY DEF Dirty
        <4>3. d.cols.hits \in Nat
          BY <3>8, <4>1, <4>2 DEF Changed, Rows
        <4>4. HitsIn(d.key, d.cols, before)
          BY <2>1, <3>1, <3>8, <4>1 DEF JobInv, HitsInv
        <4> QED
          BY <3>3, <4>1, <4>3, <4>4
      <3> QED
        BY <2>1, <3>2, <3>6, <3>7, <3>8 DEF HitsInv
    <2>6. AllowedInv(k)'
      <3>1. PICK few, many : few = Named(Done \cup {k}) /\ many = Named(Done \cup {j} \cup {k})
        OBVIOUS
      <3>2. few \subseteq many /\ Named(Done \cup {k})' = many
        BY <1>2, <1>4, <3>1 DEF Named
      <3>3. \A x : AllowedBy(x, few) => AllowedBy(x, many)
        BY <3>2 DEF AllowedBy
      <3>4. /\ \A h \in DOMAIN cacheOwn[k] : cacheOwn[k][h] # None => AllowedBy(cacheOwn[k][h], few)
            /\ \A h \in DOMAIN cacheMem[k] : AllowedBy(cacheMem[k][h], few)
            /\ cacheDirty[k] # None /\ "from" \in DOMAIN cacheDirty[k].cols =>
                 AllowedBy(cacheDirty[k].cols, few)
            /\ \A t \in DOMAIN job[k].result : AllowedBy(job[k].result[t], few)
        BY <2>1, <3>1 DEF JobInv, AllowedInv
      <3> QED
        BY <2>1, <3>2, <3>3, <3>4 DEF AllowedInv
    <2>7. FreshInv(k)'
      <3>1. job[k].past \subseteq Done /\ j \notin job[k].past
        BY <1>4, <2>1 DEF JobInv, FreshInv
      <3>2. ASSUME job[k].force, pc[k] \in Busy, NEW h \in StaleKeys(k), Cache!View(k, h)' # None
            PROVE  Cache!View(k, h)'.id \notin job[k].past
        <4>1. Cache!View(k, h) # None => Cache!View(k, h).id \notin job[k].past
          BY <2>1, <3>2 DEF JobInv, FreshInv
        <4>2. CASE h \in DOMAIN cacheOwn[k]
          BY <2>1, <3>2, <4>1, <4>2 DEF Cache!View
        <4>3. CASE h \notin DOMAIN cacheOwn[k]
          <5>0. h \in HashKey
            <6>1. job[k].list \in Seq(Tx)
              BY <1>3, TypedFields DEF Types
            <6>2. ToSet(job[k].list) \subseteq Tx
              BY <6>1, ListFacts
            <6> QED
              BY <6>2 DEF StaleKeys, HashKey
          <5>1. Cache!View(k, h)' = Cache!View(j, h) /\ Cache!View(k, h) = cache[h]
            BY <1>2, <2>1, <4>3, <5>0 DEF Cache!View
          <5>2. CASE h \in DOMAIN cacheOwn[j]
            <6>1. Cache!View(j, h) = cacheOwn[j][h] /\ cacheOwn[j][h] # None
              BY <3>2, <5>1, <5>2 DEF Cache!View
            <6>2. \/ cacheOwn[j][h].id = j
                  \/ cache[h] # None /\ cache[h].id = cacheOwn[j][h].id
              BY <1>3, <5>2, <6>1 DEF JobInv, SessionInv
            <6> QED
              BY <3>1, <4>1, <5>1, <6>1, <6>2
          <5>3. CASE h \notin DOMAIN cacheOwn[j]
            <6>1. Cache!View(j, h) = cache[h]
              BY <5>3 DEF Cache!View
            <6> QED
              BY <3>2, <4>1, <5>1, <6>1
          <5> QED
            BY <5>2, <5>3
        <4> QED
          BY <4>2, <4>3
      <3>3. StaleKeys(k)' = StaleKeys(k)
        BY <2>1 DEF StaleKeys
      <3> QED
        BY <1>4, <2>1, <3>1, <3>2, <3>3 DEF FreshInv
    <2> QED
      BY <2>3, <2>4, <2>5, <2>6, <2>7 DEF JobInv
  <1>21. \A h \in HashKey : cache'[h] # None => AllowedBy(cache'[h], Named(Done)')
    BY <1>8, <1>9
  <1> QED
    BY <1>12, <1>13, <1>14, <1>16, <1>17, <1>18, <1>19, <1>20, <1>21 DEF IInv
-----------------------------------------------------------------------------
(* The invariant.                                                          *)

LEMMA NoRecords ==
  IsFiniteSet({}) /\ Cardinality({}) = 0
  BY FS_EmptySet

LEMMA MemoryStarts == MemoryInit => MemoryInv
  <1> SUFFICES ASSUME MemoryInit PROVE MemoryInv
    OBVIOUS
  <1>1. /\ \A u \in Request : /\ mappingOwn[u] = Mapping!EmptyMap /\ mappingMem[u] = Mapping!EmptyMap
                              /\ mappingDirty[u] = None /\ request[u] = "new"
        /\ DOMAIN Mapping!EmptyMap = {}
    BY DEF MemoryInit, Mapping!Init, Mapping!EmptyMap
  <1>2. RequestTypes
    <2>1. mappingDirty \in [Request -> {None} \cup
            [key : MappingKey, id : Request, cols : [ledger : Ledger, hits : Nat] \cup Mappings]]
      BY DEF MemoryInit, Mapping!Init
    <2>2. /\ row \in [Tx -> Columns] /\ mapping \in [MappingKey -> Mappings \cup {None}]
          /\ request \in [Request -> {"new", "open", "flush", "done", "error"}]
          /\ item \in [Request -> Nat \ {0}]
          /\ confirms \in [MappingKey -> [times : Nat, ledgers : SUBSET Ledger]]
      BY DEF MemoryInit, Mapping!Init, Columns, MappingKey
    <2>3. items \in [Request -> Seq(Choice)] /\ asked \in [Request -> Seq(MappingKey \X Ledger)]
      BY DEF MemoryInit
    <2>4. DOMAIN mappingOwn = Request /\ DOMAIN mappingMem = Request
      BY DEF MemoryInit, Mapping!Init
    <2>5. Mapping!EmptyMap = [k \in {} |-> None]
      BY DEF Mapping!EmptyMap
    <2>6. Partial(Mapping!EmptyMap, MappingKey, Mappings)
      BY <2>5 DEF Partial
    <2> QED
      BY <1>1, <2>1, <2>2, <2>3, <2>4, <2>6 DEF RequestTypes
  <1>3. MappingInv
    BY DEF MemoryInit, Mapping!Init, MappingInv, MappingKey
  <1> QED
    BY <1>1, <1>2, <1>3 DEF MemoryInv, RequestInv

LEMMA Starts == Init => IInv
  <1> SUFFICES ASSUME Init PROVE IInv
    OBVIOUS
  <1>1. MemoryInv /\ row \in [Tx -> Columns]
        /\ request \in [Request -> {"new", "open", "flush", "done", "error"}]
    BY MemoryStarts DEF Init, MemoryInv, RequestTypes
  <1>2. /\ \A h \in HashKey : cache[h] = None
        /\ DOMAIN cacheOwn = Job /\ DOMAIN cacheMem = Job /\ DOMAIN job = Job
        /\ recorded = {} /\ usage = {} /\ deleted = {} /\ pc \in [Job -> JobState]
        /\ \A j \in Job : /\ cacheOwn[j] = Cache!EmptyMap /\ cacheMem[j] = Cache!EmptyMap
                          /\ cacheDirty[j] = None /\ pc[j] = "new" /\ job[j] = Idle
    BY DEF Init, MemoryInit, Cache!Init, JobState
  <1>3. Cache!EmptyMap = [k \in {} |-> None] /\ DOMAIN Cache!EmptyMap = {}
    BY DEF Cache!EmptyMap
  <1>4. /\ Idle.statement = None /\ Idle.force = FALSE /\ Idle.list = << >> /\ Idle.past = {}
        /\ Idle.result = << >> /\ Idle.used = {} /\ Idle.misses = << >> /\ Idle.at = 1
        /\ DOMAIN Idle.result = {}
    BY DEF Idle
  <1>5. Done = {}
    BY <1>2 DEF Done
  <1>6. Types
    <2>1. TypeOK
      <3>1. cache \in [HashKey -> Rows \cup {None}]
        BY DEF Init, Cache!Init
      <3>2. changes \in 0..MaxRuleChanges
        BY BoundsAssumption DEF Init
      <3> QED
        BY <1>1, <1>2, <3>1, <3>2 DEF TypeOK
    <2>2. rules \in Seq(RuleChoice)
      <3>1. CASE rules = << >>
        BY <3>1
      <3>2. CASE \E r \in RuleChoice : rules = <<r>>
        BY <3>2
      <3> QED
        BY <3>1, <3>2 DEF Init
    <2>3. cacheDirty \in [Job -> {None} \cup [key : HashKey, id : Job, cols : Changed]]
      BY DEF Init, Cache!Init
    <2>4. ASSUME NEW j \in Job
          PROVE  /\ Partial(cacheOwn[j], HashKey, Rows \cup {None})
                 /\ Partial(cacheMem[j], HashKey, Rows)
                 /\ Typed(job[j]) /\ IsFiniteSet(job[j].used)
      <3>1. Typed(job[j]) /\ IsFiniteSet(job[j].used)
        BY <1>2, <1>4, IdleTyped, NoRecords
      <3> QED
        BY <1>2, <1>3, <3>1 DEF Partial
    <2> QED
      BY <1>2, <2>1, <2>2, <2>3, <2>4, NoRecords DEF Types
  <1>7. RowsInv /\ UsageInv
    BY <1>2, <1>3, <1>5 DEF RowsInv, UsageInv
  <1>8. HitsWereRecorded /\ ForcedIsFresh /\ RecurringWasConfirmed
    BY <1>2, <1>4 DEF HitsWereRecorded, ForcedIsFresh, RecurringWasConfirmed
  <1>9. ASSUME NEW j \in Job PROVE JobInv(j)
    <2>1. Quiet(j) /\ SessionInv(j) /\ HitsInv(j) /\ FreshInv(j)
      BY <1>2, <1>3, <1>4 DEF Quiet, SessionInv, HitsInv, FreshInv, Busy
    <2>2. AllowedInv(j)
      BY <1>2, <1>3, <1>4 DEF AllowedInv
    <2>3. AccountInv(j)
      <3>1. Account(j, "new", Idle)
        BY <1>4 DEF Account, ToSet
      <3> QED
        BY <1>2, <3>1 DEF AccountInv
    <2> QED
      BY <2>1, <2>2, <2>3 DEF JobInv
  <1> QED
    BY <1>1, <1>2, <1>6, <1>7, <1>8, <1>9 DEF IInv

LEMMA KeepsStutter ==
  ASSUME IInv, UNCHANGED vars
  PROVE  IInv'
  <1>1. MemoryInv' /\ UNCHANGED <<cacheVars, usage, recorded, pc, job>>
    <2>1. MemoryInv /\ row \in [Tx -> Columns]
      BY DEF IInv, Types, TypeOK
    <2>2. UNCHANGED <<row, mappingVars, request, item, items, asked, confirms>>
      BY DEF vars, memoryVars, mappingVars
    <2>3. MemoryInv'
      BY <2>1, <2>2, MemoryKept
    <2> QED
      BY <2>3 DEF vars
  <1>2. /\ rules' = rules /\ changes' = changes /\ confirms' = confirms
        /\ rules \in Seq(RuleChoice) /\ changes \in 0..MaxRuleChanges /\ deleted' \subseteq Statement
    BY DEF vars, memoryVars, IInv, Types, TypeOK
  <1>3. \A k \in MappingKey : confirms[k].times \in Nat
    BY DEF IInv, MemoryInv, RequestTypes
  <1>4. \A k \in MappingKey : /\ confirms'[k].times >= confirms[k].times
                              /\ confirms[k].times \in Nat /\ confirms'[k].times \in Nat
                              /\ confirms[k].ledgers \subseteq confirms'[k].ledgers
    BY <1>2, <1>3
  <1> QED
    BY <1>1, <1>2, <1>4, JobsKept

LEMMA Keeps == IInv /\ [Next]_vars => IInv'
  <1> SUFFICES ASSUME IInv, [Next]_vars PROVE IInv'
    OBVIOUS
  <1>1. ASSUME NEW j \in Job, Load(j) \/ JobStep(j) \/ JobDies(j) PROVE IInv'
    <2>1. CASE Load(j)
      BY <2>1, KeepsLoad
    <2>2. CASE DeleteStale(j) \/ Begin(j) \/ Lookup(j) \/ FlushCache(j) \/ NextPhase(j)
      BY <2>2, KeepsDeleteStale, KeepsBegin, KeepsLookup, KeepsFlushCache, KeepsNextPhase
    <2>3. CASE Claude(j) \/ Gpt4o(j) \/ ModelMissing(j) \/ Heuristics(j)
      BY <2>3, KeepsModels
    <2>4. CASE Store(j) \/ Complete(j)
      BY <2>4, KeepsStore, KeepsComplete
    <2>5. CASE FlushFails(j) \/ BreakDeadlock(j) \/ BeginFails(j) \/ JobDies(j)
      BY <2>5, KeepsAccident
    <2> QED
      BY <1>1, <2>1, <2>2, <2>3, <2>4, <2>5 DEF JobStep
  <1>2. ASSUME NEW u \in Request, RequestStep(u), JobsIdle PROVE IInv'
    BY <1>2, KeepsRequest
  <1>3. CASE RuleStep
    BY <1>3, KeepsRules
  <1>4. CASE UNCHANGED vars
    BY <1>4, KeepsStutter
  <1>5. ASSUME NEW s \in Statement, DeleteStatement(s) PROVE IInv'
    BY <1>5, KeepsDeletion
  <1> QED
    BY <1>1, <1>2, <1>3, <1>4, <1>5 DEF Next

(* What every job and request holds and has left in the tables, in every   *)
(* reachable state: enrich_transactions_job, the ledger requests and the   *)
(* rules API, whatever fails.                                              *)
THEOREM InductiveCorrect == Spec => []IInv
  BY Starts, Keeps, PTL DEF Spec

-----------------------------------------------------------------------------
(* Every variable keeps its type.                                          *)
THEOREM TypeCorrect == Spec => []TypeOK
  <1>1. IInv => TypeOK
    BY DEF IInv, Types
  <1> QED
    BY <1>1, Starts, Keeps, PTL DEF Spec

(* No count is invented: the hits of a cached answer never exceed the HIT  *)
(* records of its hash (lookup and hit_count of llm_enrichment.py), though *)
(* several jobs change their copies of one row.                            *)
THEOREM HitsWereRecordedCorrect == Spec => []HitsWereRecorded
  <1>1. IInv => HitsWereRecorded
    BY DEF IInv
  <1> QED
    BY <1>1, Starts, Keeps, PTL DEF Spec

(* A forced job (force in enrich_transactions_job) never uses an answer    *)
(* that was in the cache when it began.                                    *)
THEOREM ForcedIsFreshCorrect == Spec => []ForcedIsFresh
  <1>1. IInv => ForcedIsFresh
    BY DEF IInv
  <1> QED
    BY <1>1, Starts, Keeps, PTL DEF Spec

(* A recurring answer names a ledger that committed requests taught for a  *)
(* pattern of the client they confirmed at least twice.                    *)
THEOREM RecurringWasConfirmedCorrect == Spec => []RecurringWasConfirmed
  <1>1. IInv => RecurringWasConfirmed
    BY DEF IInv
  <1> QED
    BY <1>1, Starts, Keeps, PTL DEF Spec

(* A ledger a model named, fresh or cached, was on the list of allowed     *)
(* ledgers of a completed job.                                             *)
THEOREM ModelLedgersWereAllowedCorrect == Spec => []ModelLedgersWereAllowed
  <1>1. IInv => ModelLedgersWereAllowed
    <2> SUFFICES ASSUME IInv, NEW j \in Job, pc[j] = "done", NEW t \in DOMAIN job[j].result,
                        NEW r, r = job[j].result[t], r.from \in ToSet(Source), r.ledger # None
                 PROVE  \E k \in Job : /\ pc[k] = "done"
                                       /\ job[k].allowed = {} \/ r.ledger \in job[k].allowed
      BY DEF ModelLedgersWereAllowed
    <2>1. PICK ledgers : ledgers = Named(Done \cup {j})
      OBVIOUS
    <2>2. AllowedBy(job[j].result[t], ledgers)
      BY <2>1 DEF IInv, JobInv, AllowedInv
    <2>3. r.ledger \in ledgers
      BY <2>2 DEF AllowedBy
    <2>4. Done \cup {j} = Done
      BY DEF Done
    <2> QED
      BY <2>1, <2>3, <2>4 DEF Named, Done
  <1> QED
    BY <1>1, Starts, Keeps, PTL DEF Spec

-----------------------------------------------------------------------------
(* Waiting.                                                                *)

(* Who waits only for members of a finite set in which all wait is behind  *)
(* a circle: a least closed set has one in it.                             *)
LEMMA SomeoneIsCircular ==
  ASSUME NEW S, NEW waits \in [S -> SUBSET S], NEW O, O \subseteq S, IsFiniteSet(O),
         O # {}, Closed(O, waits), \A x \in O : waits[x] # {}
  PROVE  \E x \in O : Circular(x, waits)
  <1> DEFINE T == {D \in FiniteSubsetsOf(O) : D # {} /\ Closed(D, waits)}
  <1>1. O \in T
    BY DEF FiniteSubsetsOf
  <1>2. PICK D \in T : \A E \in T : ~(<<E, D>> \in StrictSubsetOrdering(O))
    <2>1. T \subseteq FiniteSubsetsOf(O) /\ T # {}
      BY <1>1
    <2> HIDE DEF T
    <2> QED
      BY <2>1, FS_StrictSubsetOrderingWellFounded, WFMin
  <1>3. D \subseteq O /\ IsFiniteSet(D) /\ D # {} /\ Closed(D, waits)
    BY <1>2 DEF FiniteSubsetsOf
  <1>4. PICK x \in D : TRUE
    BY <1>3
  <1>5. SUFFICES ASSUME ~Circular(x, waits) PROVE FALSE
    BY <1>3, <1>4
  <1>6. PICK E \in SUBSET S : Closed(E, waits) /\ waits[x] \subseteq E /\ x \notin E
    BY <1>5 DEF Circular
  <1>7. D \cap E \in T
    <2>1. D \cap E # {}
      BY <1>3, <1>4, <1>6 DEF Closed
    <2>2. Closed(D \cap E, waits)
      BY <1>3, <1>6 DEF Closed
    <2>3. D \cap E \subseteq O /\ IsFiniteSet(D \cap E)
      BY <1>3, FS_Subset
    <2> QED
      BY <2>1, <2>2, <2>3 DEF FiniteSubsetsOf
  <1>8. <<D \cap E, D>> \in StrictSubsetOrdering(O)
    BY <1>3, <1>4, <1>6 DEF StrictSubsetOrdering
  <1> QED
    BY <1>2, <1>7, <1>8

(* Finitely many jobs and requests have ever begun.                        *)
LEMMA OneMore ==
  ASSUME NEW S, IsFiniteSet(S), NEW x, NEW T, T \subseteq S \cup {x}
  PROVE  IsFiniteSet(T)
  BY FS_AddElement, FS_Subset

LEMMA BegunFinite == Spec => [](IsFiniteSet(Begun) /\ IsFiniteSet(Opened))
  <1>1. Init => IsFiniteSet(Begun) /\ IsFiniteSet(Opened)
    <2> SUFFICES ASSUME Init PROVE IsFiniteSet(Begun) /\ IsFiniteSet(Opened)
      OBVIOUS
    <2>1. Begun = {} /\ Opened = {}
      BY DEF Init, MemoryInit, Begun, Opened
    <2> QED
      BY <2>1, FS_EmptySet
  <1>2. ASSUME IInv, IsFiniteSet(Begun), IsFiniteSet(Opened), [Next]_vars
        PROVE  IsFiniteSet(Begun)' /\ IsFiniteSet(Opened)'
    <2>1. pc \in [Job -> JobState] /\ DOMAIN request = Request
      BY <1>2 DEF IInv, Types, TypeOK
    <2>2. ASSUME NEW j \in Job, Load(j) \/ JobStep(j) \/ JobDies(j)
          PROVE  request' = request /\ \A k \in Job \ {j} : pc'[k] = pc[k]
      BY <2>1, <2>2 DEF Load, JobStep, JobDies, DeleteStale, Begin, Lookup, FlushCache,
           NextPhase, Claude, Gpt4o, ModelMissing, Heuristics, Store, Complete, FlushFails,
           BreakDeadlock, BeginFails, Fail, CallFails, Reply, NextTier, Accept, OnlyJob, Go, OthersIdle,
           memoryVars
    <2>3. ASSUME NEW u \in Request, RequestStep(u), JobsIdle
          PROVE  pc' = pc /\ \A v \in Request \ {u} : request'[v] = request[v]
      BY <2>1, <2>3 DEF RequestStep, Open, Confirm, SkipGone, FailGone, FlushMapping,
           MappingFails, CommitRequest, JobsIdle
    <2>4. ASSUME RuleStep \/ UNCHANGED vars \/ \E s \in Statement : DeleteStatement(s)
          PROVE  pc' = pc /\ request' = request
      BY <2>4 DEF DeleteStatement, DeleteRows, RuleStep, CreateRule, UpdateRule, DeleteRule, RuleChange, vars, memoryVars
    <2>5. CASE pc' = pc /\ request' = request
      BY <1>2, <2>5 DEF Begun, Opened
    <2>6. ASSUME NEW j \in Job, request' = request, \A k \in Job \ {j} : pc'[k] = pc[k]
          PROVE  IsFiniteSet(Begun)' /\ IsFiniteSet(Opened)'
      <3>1. Begun' \subseteq Begun \cup {j} /\ Opened' = Opened
        BY <2>6 DEF Begun, Opened
      <3> QED
        BY <1>2, <3>1, OneMore
    <2>7. ASSUME NEW u \in Request, pc' = pc, \A v \in Request \ {u} : request'[v] = request[v]
          PROVE  IsFiniteSet(Begun)' /\ IsFiniteSet(Opened)'
      <3>1. Opened' \subseteq Opened \cup {u} /\ Begun' = Begun
        BY <2>7 DEF Begun, Opened
      <3> QED
        BY <1>2, <3>1, OneMore
    <2> QED
      BY <1>2, <2>2, <2>3, <2>4, <2>5, <2>6, <2>7 DEF Next
  <1> QED
    BY <1>1, <1>2, InductiveCorrect, PTL DEF Spec

(* The holders of locks are under way.                                     *)
LEMMA WaitsForOpenJobs ==
  ASSUME IInv, NEW j \in Job
  PROVE  WaitsFor(j) \subseteq OpenJobs
  <1> SUFFICES ASSUME NEW k \in WaitsFor(j) PROVE k \in OpenJobs
    OBVIOUS
  <1>1. k \in Job /\ (DOMAIN cacheOwn[k] # {} \/ pc[k] \in Busy)
    BY DEF WaitsFor, Cache!Blockers, Cache!DeleteBlockers, StatementHolders
  <1>2. DOMAIN cacheOwn[k] # {} => pc[k] \in Busy
    BY <1>1 DEF IInv, JobInv, Quiet
  <1> QED
    BY <1>1, <1>2 DEF OpenJobs

LEMMA WaitsForOpenRequests ==
  ASSUME IInv, NEW u \in Request
  PROVE  Mapping!Blockers(u) \subseteq OpenRequests
  <1> SUFFICES ASSUME NEW v \in Mapping!Blockers(u) PROVE v \in OpenRequests
    OBVIOUS
  <1>1. v \in Request /\ DOMAIN mappingOwn[v] # {}
    BY DEF Mapping!Blockers
  <1> QED
    BY <1>1 DEF IInv, MemoryInv, RequestInv, OpenRequests

(* A job that does not wait can go on.                                     *)
LEMMA FreeGoesOn ==
  ASSUME NEW j \in OpenJobs, WaitsFor(j) = {}
  PROVE  CanGoOn(j)
  <1>1. /\ Cache!Blockers(j) = {}
        /\ pc[j] = "loaded" => Cache!DeleteBlockers(j, StaleKeys(j)) = {}
        /\ pc[j] = "begin" => StatementHolders(j) = {}
    BY DEF WaitsFor
  <1> QED
    BY <1>1 DEF OpenJobs, Busy, CanGoOn

(* Behind every wait, of a job for cache and statement rows and of a       *)
(* request for mappings, is one that can go on or that the database ends:  *)
(* mark_cache_hit and remember_ledger_mapping take their locks in any      *)
(* order, and no number of sessions waits for ever.                        *)
THEOREM NoneWaitsForEverCorrect == Spec => []NoneWaitsForEver
  <1>1. ASSUME IInv, IsFiniteSet(Begun), IsFiniteSet(Opened) PROVE NoneWaitsForEver
    <2>1. IsFiniteSet(OpenJobs) /\ IsFiniteSet(OpenRequests)
      <3>1. OpenJobs \subseteq Begun /\ OpenRequests \subseteq Opened
        BY DEF OpenJobs, OpenRequests, Begun, Opened, Busy
      <3> QED
        BY <1>1, <3>1, FS_Subset
    <2>2. ASSUME NEW D \in SUBSET OpenJobs, D # {}, Closed(D, Waits)
          PROVE  \E j \in D : CanGoOn(j)
      <3>1. CASE \E j \in D : WaitsFor(j) = {}
        BY <3>1, FreeGoesOn
      <3>2. CASE \A j \in D : WaitsFor(j) # {}
        <4>1. Waits \in [Job -> SUBSET Job] /\ \A j \in Job : Waits[j] = WaitsFor(j)
          BY <1>1, WaitsForOpenJobs DEF Waits, OpenJobs
        <4>2. D \subseteq Job /\ IsFiniteSet(D)
          BY <2>1, FS_Subset DEF OpenJobs
        <4>3. PICK j \in D : Circular(j, Waits)
          BY <2>2, <3>2, <4>1, <4>2, SomeoneIsCircular
        <4> QED
          BY <4>3 DEF CanGoOn, Deadlocked
      <3> QED
        BY <3>1, <3>2
    <2>3. ASSUME NEW D \in SUBSET OpenRequests, D # {}, Closed(D, MappingWaits)
          PROVE  \E u \in D : RequestCanGoOn(u)
      <3>1. CASE \E u \in D : request[u] = "open" \/ Mapping!Blockers(u) = {}
        BY <3>1 DEF RequestCanGoOn, OpenRequests
      <3>2. CASE \A u \in D : request[u] = "flush" /\ Mapping!Blockers(u) # {}
        <4>1. /\ MappingWaits \in [Request -> SUBSET Request]
              /\ \A u \in Request : MappingWaits[u] = Mapping!Blockers(u)
          BY <1>1, WaitsForOpenRequests DEF MappingWaits, OpenRequests
        <4>2. D \subseteq Request /\ IsFiniteSet(D)
          BY <2>1, FS_Subset DEF OpenRequests
        <4>3. PICK u \in D : Circular(u, MappingWaits)
          BY <2>3, <3>2, <4>1, <4>2, SomeoneIsCircular
        <4> QED
          BY <3>2, <4>3 DEF RequestCanGoOn, MappingDeadlock
      <3> QED
        BY <3>1, <3>2 DEF OpenRequests
    <2>4. \A j \in OpenJobs : WaitsFor(j) \subseteq OpenJobs
      BY <1>1, WaitsForOpenJobs DEF OpenJobs
    <2>5. \A u \in OpenRequests : Mapping!Blockers(u) \subseteq OpenRequests
      BY <1>1, WaitsForOpenRequests DEF OpenRequests
    <2> QED
      BY <2>2, <2>3, <2>4, <2>5 DEF NoneWaitsForEver
  <1> QED
    BY <1>1, InductiveCorrect, BegunFinite, PTL

-----------------------------------------------------------------------------
(* What is left to do.                                                     *)
LEMMA FirstLess ==
  ASSUME NEW a1, NEW a2, NEW a3, NEW a4, NEW a5, NEW b1, NEW b2, NEW b3, NEW b4, NEW b5,
         \/ a1 < b1
         \/ a1 = b1 /\ a2 < b2
         \/ a1 = b1 /\ a2 = b2 /\ a3 < b3
         \/ a1 = b1 /\ a2 = b2 /\ a3 = b3 /\ a4 < b4
         \/ a1 = b1 /\ a2 = b2 /\ a3 = b3 /\ a4 = b4 /\ a5 < b5
  PROVE  Less(<<a1, a2, a3, a4, a5>>, <<b1, b2, b3, b4, b5>>)
  <1> DEFINE v == <<a1, a2, a3, a4, a5>>
             w == <<b1, b2, b3, b4, b5>>
  <1>1. /\ v[1] = a1 /\ v[2] = a2 /\ v[3] = a3 /\ v[4] = a4 /\ v[5] = a5
        /\ w[1] = b1 /\ w[2] = b2 /\ w[3] = b3 /\ w[4] = b4 /\ w[5] = b5
        /\ DOMAIN w = 1..5
    OBVIOUS
  <1> HIDE DEF v, w
  <1>2. PICK i \in 1..5 : v[i] < w[i] /\ \A k \in 1..5 : k < i => v[k] = w[k]
    <2>1. \A k \in 1..5 : k = 1 \/ k = 2 \/ k = 3 \/ k = 4 \/ k = 5
      OBVIOUS
    <2>2. CASE a1 < b1
      <3>1. v[1] < w[1] /\ \A k \in 1..5 : ~(k < 1)
        BY <1>1, <2>2
      <3> QED
        BY <3>1
    <2>3. CASE a1 = b1 /\ a2 < b2
      <3>1. v[2] < w[2] /\ \A k \in 1..5 : k < 2 => k = 1
        BY <1>1, <2>3
      <3> QED
        BY <1>1, <2>3, <3>1
    <2>4. CASE a1 = b1 /\ a2 = b2 /\ a3 < b3
      <3>1. v[3] < w[3] /\ \A k \in 1..5 : k < 3 => k = 1 \/ k = 2
        BY <1>1, <2>4
      <3> QED
        BY <1>1, <2>4, <3>1
    <2>5. CASE a1 = b1 /\ a2 = b2 /\ a3 = b3 /\ a4 < b4
      <3>1. v[4] < w[4] /\ \A k \in 1..5 : k < 4 => k = 1 \/ k = 2 \/ k = 3
        BY <1>1, <2>5
      <3> QED
        BY <1>1, <2>5, <3>1
    <2>6. CASE a1 = b1 /\ a2 = b2 /\ a3 = b3 /\ a4 = b4 /\ a5 < b5
      <3>1. v[5] < w[5] /\ \A k \in 1..5 : k < 5 => k = 1 \/ k = 2 \/ k = 3 \/ k = 4
        BY <1>1, <2>6
      <3> QED
        BY <1>1, <2>6, <3>1
    <2> QED
      BY <2>2, <2>3, <2>4, <2>5, <2>6
  <1>3. \A k \in 1..(i - 1) : k \in 1..5 /\ k < i
    BY <1>2
  <1>4. Less(v, w)
    BY <1>1, <1>2, <1>3 DEF Less
  <1> QED
    BY <1>4 DEF v, w

LEMMA UntilFact ==
  ASSUME NEW n \in Int, NEW i \in Int
  PROVE  /\ Until(n, i) \in Nat
         /\ \A k \in Int : i < k /\ i < n => Until(n, k) < Until(n, i)
  BY DEF Until

LEMMA StageFact ==
  /\ \A x \in JobState : Stage[x] \in 0..7
  /\ Stage["new"] = 7 /\ Stage["loaded"] = 6 /\ Stage["begin"] = 5 /\ Stage["lookup"] = 4
  /\ Stage["ask"] = 3 /\ Stage["store"] = 2 /\ Stage["apply"] = 1
  /\ Stage["done"] = 0 /\ Stage["failed"] = 0
  BY DEF Stage, JobState, Busy

LEMMA LaterStage ==
  ASSUME NEW j \in Job, Stage[pc'[j]] < Stage[pc[j]]
  PROVE  Less(Work(j)', Work(j))
  <1> DEFINE a1 == Stage[pc'[j]]
             a2 == Until(LoopEnd(j), job[j].at)'
             a3 == Until(Len(Source) + 1, job[j].tier)'
             a4 == Until(MaxRetries, job[j].attempt)'
             a5 == IF cacheDirty'[j] = None THEN 0 ELSE 1
             b1 == Stage[pc[j]]
             b2 == Until(LoopEnd(j), job[j].at)
             b3 == Until(Len(Source) + 1, job[j].tier)
             b4 == Until(MaxRetries, job[j].attempt)
             b5 == IF cacheDirty[j] = None THEN 0 ELSE 1
  <1>1. Work(j)' = <<a1, a2, a3, a4, a5>> /\ Work(j) = <<b1, b2, b3, b4, b5>>
    BY DEF Work
  <1>2. a1 < b1
    OBVIOUS
  <1> HIDE DEF a1, a2, a3, a4, a5, b1, b2, b3, b4, b5
  <1> QED
    BY <1>1, <1>2, FirstLess

(* The same stage, with less of the loop, of the models, of the attempts   *)
(* or of the changes to flush.                                             *)
LEMMA SameStage ==
  ASSUME NEW j \in Job, pc'[j] = pc[j], job'[j].list = job[j].list,
         NEW i \in Int, NEW k \in Int, job[j].at = i, job'[j].at = k,
         NEW n \in Int, LoopEnd(j) = n, LoopEnd(j)' = n,
         NEW t \in Int, NEW u \in Int, job[j].tier = t, job'[j].tier = u,
         NEW p \in Int, NEW q \in Int, job[j].attempt = p, job'[j].attempt = q,
         \/ i < n /\ i < k
         \/ i = k /\ t <= Len(Source) /\ t < u
         \/ i = k /\ t = u /\ p < MaxRetries /\ p < q
         \/ i = k /\ t = u /\ p = q /\ cacheDirty[j] # None /\ cacheDirty'[j] = None
  PROVE  Less(Work(j)', Work(j))
  <1> DEFINE a2 == Until(n, k)
             a3 == Until(Len(Source) + 1, u)
             a4 == Until(MaxRetries, q)
             a5 == IF cacheDirty'[j] = None THEN 0 ELSE 1
             b1 == Stage[pc[j]]
             b2 == Until(n, i)
             b3 == Until(Len(Source) + 1, t)
             b4 == Until(MaxRetries, p)
             b5 == IF cacheDirty[j] = None THEN 0 ELSE 1
  <1>1. Work(j)' = <<b1, a2, a3, a4, a5>> /\ Work(j) = <<b1, b2, b3, b4, b5>>
    BY DEF Work
  <1>2. \/ a2 < b2
        \/ a2 = b2 /\ a3 < b3
        \/ a2 = b2 /\ a3 = b3 /\ a4 < b4
        \/ a2 = b2 /\ a3 = b3 /\ a4 = b4 /\ a5 < b5
    <2>1. CASE i < n /\ i < k
      BY <2>1, UntilFact
    <2>2. CASE i = k /\ t <= Len(Source) /\ t < u
      <3>1. Len(Source) = 3
        BY DEF Source
      <3> QED
        BY <2>2, <3>1, UntilFact
    <2>3. CASE i = k /\ t = u /\ p < MaxRetries /\ p < q
      BY <2>3, UntilFact, BoundsAssumption
    <2>4. CASE i = k /\ t = u /\ p = q /\ cacheDirty[j] # None /\ cacheDirty'[j] = None
      BY <2>4
    <2> QED
      BY <2>1, <2>2, <2>3, <2>4
  <1> HIDE DEF a2, a3, a4, a5, b1, b2, b3, b4, b5
  <1> QED
    BY <1>1, <1>2, FirstLess

(* Types the measure needs.                                                *)
LEMMA JobTypes ==
  ASSUME IInv, NEW j \in Job
  PROVE  /\ pc \in [Job -> JobState] /\ DOMAIN job = Job /\ DOMAIN cacheDirty = Job
         /\ job[j].list \in Seq(Tx) /\ job[j].misses \in Seq(Tx)
         /\ Len(job[j].list) \in Nat /\ Len(job[j].misses) \in Nat
         /\ job[j].at \in Nat \ {0} /\ job[j].tier \in Nat \ {0} /\ job[j].attempt \in Nat \ {0}
  <1>1. Typed(job[j]) /\ pc \in [Job -> JobState] /\ DOMAIN job = Job /\ DOMAIN cacheDirty = Job
    BY DEF IInv, Types, TypeOK
  <1>2. PICK r : r = job[j]
    OBVIOUS
  <1>3. r.list \in Seq(Tx) /\ r.misses \in Seq(Tx) /\ r.at \in Nat \ {0}
        /\ r.tier \in Nat \ {0} /\ r.attempt \in Nat \ {0}
    BY <1>1, <1>2 DEF Typed, JobRecord
  <1> QED
    BY <1>1, <1>2, <1>3

LEMMA LoopEndType ==
  ASSUME IInv, NEW j \in Job
  PROVE  LoopEnd(j) \in Int
  BY JobTypes DEF LoopEnd

LEMMA StageCounts ==
  ASSUME IInv, NEW j \in Job,
         \/ Load(j) \/ DeleteStale(j) \/ Begin(j) \/ NextPhase(j) \/ Complete(j)
         \/ Fail(j) /\ pc[j] \in Busy \cup {"loaded"}
  PROVE  Less(Work(j)', Work(j))
  <1>1. pc \in [Job -> JobState]
    BY JobTypes
  <1>2. Stage[pc'[j]] < Stage[pc[j]]
    <2>1. CASE Load(j)
      <3>1. pc[j] = "new" /\ pc'[j] \in {"loaded", "begin"}
        BY <1>1, <2>1 DEF Load, Go
      <3> QED
        BY <3>1, StageFact
    <2>2. CASE DeleteStale(j)
      <3>1. pc[j] = "loaded" /\ pc'[j] = "begin"
        BY <1>1, <2>2 DEF DeleteStale, Go
      <3> QED
        BY <3>1, StageFact
    <2>3. CASE Begin(j)
      <3>1. pc[j] = "begin" /\ pc'[j] = "lookup"
        BY <1>1, <2>3 DEF Begin, Go
      <3> QED
        BY <3>1, StageFact
    <2>4. CASE NextPhase(j)
      <3>1. \/ pc[j] = "lookup" /\ pc'[j] = "ask"
            \/ pc[j] = "ask" /\ pc'[j] = "store"
            \/ pc[j] = "store" /\ pc'[j] = "apply"
        BY <1>1, <2>4 DEF NextPhase, Go
      <3> QED
        BY <3>1, StageFact
    <2>5. CASE Complete(j)
      <3>1. pc[j] = "apply" /\ pc'[j] = "done"
        BY <1>1, <2>5 DEF Complete, Go
      <3> QED
        BY <3>1, StageFact
    <2>6. CASE Fail(j) /\ pc[j] \in Busy \cup {"loaded"}
      <3>1. pc[j] \in {"loaded", "begin", "lookup", "ask", "store", "apply"} /\ pc'[j] = "failed"
        BY <1>1, <2>6 DEF Fail, Go, Busy
      <3> QED
        BY <3>1, StageFact
    <2> QED
      BY <2>1, <2>2, <2>3, <2>4, <2>5, <2>6
  <1> QED
    BY <1>2, LaterStage

LEMMA LookupCounts ==
  ASSUME IInv, NEW j \in Job, Lookup(j)
  PROVE  Less(Work(j)', Work(j))
  <1>1. PICK new : job' = [job EXCEPT ![j] = new] /\ new.list = job[j].list
                   /\ new.at = job[j].at + 1 /\ new.tier = job[j].tier
                   /\ new.attempt = job[j].attempt
    <2>1. PICK r : r = job[j]
      OBVIOUS
    <2>2. Typed(r)
      BY <2>1 DEF IInv, Types
    <2> DEFINE next == [r EXCEPT !.at = @ + 1]
    <2>3. \/ Hold(j, next)
          \/ \E m : Hold(j, [next EXCEPT !.misses = m])
          \/ \E a, u : Hold(j, [next EXCEPT !.result = a, !.used = u])
      BY <2>1, Zenon DEF Lookup
    <2>4. ASSUME NEW new, Hold(j, new),
                 \/ new = next
                 \/ \E m : new = [next EXCEPT !.misses = m]
                 \/ \E a, u : new = [next EXCEPT !.result = a, !.used = u]
          PROVE  /\ new.list = r.list /\ new.at = r.at + 1
                 /\ new.tier = r.tier /\ new.attempt = r.attempt
      BY <2>2, <2>4 DEF Typed, JobRecord
    <2>5. PICK new : Hold(j, new) /\ /\ new.list = r.list /\ new.at = r.at + 1
                                     /\ new.tier = r.tier /\ new.attempt = r.attempt
      <3> HIDE DEF next
      <3> QED
        BY <2>3, <2>4
    <2> QED
      BY <2>1, <2>5 DEF Hold
  <1>2. pc' = pc /\ pc[j] = "lookup" /\ job[j].at <= Len(job[j].list)
    BY DEF Lookup
  <1>3. job'[j] = new
    BY <1>1, JobTypes
  <1>4. LoopEnd(j) = Len(job[j].list) + 1 /\ LoopEnd(j)' = Len(job[j].list) + 1
    BY <1>1, <1>2, <1>3 DEF LoopEnd
  <1> QED
    BY <1>1, <1>2, <1>3, <1>4, JobTypes, SameStage

LEMMA StoreCounts ==
  ASSUME IInv, NEW j \in Job, Store(j)
  PROVE  Less(Work(j)', Work(j))
  <1>1. PICK new : job' = [job EXCEPT ![j] = new] /\ new.list = job[j].list
                   /\ new.misses = job[j].misses
                   /\ new.at = job[j].at + 1 /\ new.tier = job[j].tier
                   /\ new.attempt = job[j].attempt
    <2>1. PICK r : r = job[j]
      OBVIOUS
    <2>2. Typed(r)
      BY <2>1 DEF IInv, Types
    <2>3. PICK new, u : Hold(j, new) /\ new = [r EXCEPT !.used = u, !.at = @ + 1]
      BY <2>1 DEF Store
    <2>4. /\ new.list = r.list /\ new.misses = r.misses
          /\ new.at = r.at + 1 /\ new.tier = r.tier /\ new.attempt = r.attempt
      BY <2>2, <2>3 DEF Typed, JobRecord
    <2> QED
      BY <2>1, <2>3, <2>4 DEF Hold
  <1>2. pc' = pc /\ pc[j] = "store" /\ job[j].at <= Len(job[j].misses)
    BY DEF Store
  <1>3. job'[j] = new
    BY <1>1, JobTypes
  <1>4. LoopEnd(j) = Len(job[j].misses) + 1 /\ LoopEnd(j)' = Len(job[j].misses) + 1
    BY <1>1, <1>2, <1>3 DEF LoopEnd
  <1> QED
    BY <1>1, <1>2, <1>3, <1>4, JobTypes, SameStage

LEMMA FlushCounts ==
  ASSUME IInv, NEW j \in Job, FlushCache(j)
  PROVE  Less(Work(j)', Work(j))
  <1>1. pc' = pc /\ job' = job /\ cacheDirty[j] # None /\ cacheDirty'[j] = None
    BY JobTypes DEF FlushCache, Cache!Flush
  <1>2. LoopEnd(j)' = LoopEnd(j)
    BY <1>1 DEF LoopEnd
  <1> QED
    BY <1>1, <1>2, JobTypes, LoopEndType, SameStage

(* A call, a model or a batch is done with.                                *)
LEMMA AskCounts ==
  ASSUME IInv, NEW j \in Job, Claude(j) \/ Gpt4o(j) \/ ModelMissing(j) \/ Heuristics(j)
  PROVE  Less(Work(j)', Work(j))
  <1> DEFINE r == job[j]
             n == Len(r.misses) + 1
  <1>1. Asking(j)
    BY DEF Claude, Gpt4o, ModelMissing, Heuristics
  <1>2. pc[j] = "ask" /\ r.at <= Len(r.misses)
    BY <1>1 DEF Asking
  <1>3. ASSUME NEW new, OnlyJob(j, new), new.list = r.list, new.misses = r.misses,
               new.at \in Int, new.tier \in Int, new.attempt \in Int,
               \/ r.at < new.at
               \/ r.at = new.at /\ r.tier <= Len(Source) /\ r.tier < new.tier
               \/ /\ r.at = new.at /\ r.tier = new.tier
                  /\ r.attempt < MaxRetries /\ r.attempt < new.attempt
        PROVE  Less(Work(j)', Work(j))
    <2>1. job'[j] = new /\ pc' = pc
      BY <1>3, JobTypes DEF OnlyJob, Hold
    <2>2. LoopEnd(j) = n /\ LoopEnd(j)' = n
      BY <1>2, <1>3, <2>1 DEF LoopEnd
    <2>3. n \in Int /\ r.at \in Int /\ r.tier \in Int /\ r.attempt \in Int /\ r.at < n
      BY <1>2, JobTypes
    <2> HIDE DEF n
    <2> QED
      BY <1>3, <2>1, <2>2, <2>3, SameStage
  <1>4. ASSUME NextTier(j), r.tier \in Tier PROVE Less(Work(j)', Work(j))
    <2>1. r.tier <= Len(Source)
      BY <1>4 DEF Tier, Source
    <2>2. PICK new : new = [r EXCEPT !.tier = @ + 1, !.attempt = 1] /\ OnlyJob(j, new)
      BY <1>4 DEF NextTier
    <2>3. new.list = r.list /\ new.misses = r.misses /\ new.at = r.at
          /\ new.tier = r.tier + 1 /\ new.attempt = 1
      <3>1. Typed(r)
        BY DEF IInv, Types
      <3> HIDE DEF r
      <3> QED
        BY <2>2, <3>1 DEF Typed, JobRecord
    <2>4. /\ new.at \in Int /\ new.tier \in Int /\ new.attempt \in Int
          /\ r.at = new.at /\ r.tier < new.tier
      BY <2>3, JobTypes
    <2> QED
      BY <2>1, <2>2, <2>3, <2>4, <1>3
  <1>5. ASSUME NEW answers, Accept(j, answers) PROVE Less(Work(j)', Work(j))
    <2>1. PICK result : OnlyJob(j, [r EXCEPT !.result = result, !.at = @ + BatchSize,
                                             !.tier = 1, !.attempt = 1])
      BY <1>5 DEF Accept
    <2>2. PICK new : new = [r EXCEPT !.result = result, !.at = @ + BatchSize,
                                     !.tier = 1, !.attempt = 1] /\ OnlyJob(j, new)
      BY <2>1
    <2>3. new.list = r.list /\ new.misses = r.misses /\ new.at = r.at + BatchSize
          /\ new.tier = 1 /\ new.attempt = 1
      <3>1. Typed(r)
        BY DEF IInv, Types
      <3> HIDE DEF r
      <3> QED
        BY <2>2, <3>1 DEF Typed, JobRecord
    <2>4. r.at < new.at /\ new.at \in Int /\ new.tier \in Int /\ new.attempt \in Int
      BY <2>3, BoundsAssumption, JobTypes
    <2> QED
      BY <2>2, <2>3, <2>4, <1>3
  <1>6. ASSUME CallFails(j), r.tier \in Tier PROVE Less(Work(j)', Work(j))
    <2>1. CASE r.attempt < MaxRetries
      <3>1. PICK new : new = [r EXCEPT !.attempt = @ + 1] /\ OnlyJob(j, new)
        BY <1>6, <2>1 DEF CallFails
      <3>2. new.list = r.list /\ new.misses = r.misses /\ new.at = r.at
            /\ new.tier = r.tier /\ new.attempt = r.attempt + 1
        <4>1. Typed(r)
          BY DEF IInv, Types
        <4> HIDE DEF r
        <4> QED
          BY <3>1, <4>1 DEF Typed, JobRecord
      <3>3. /\ new.at \in Int /\ new.tier \in Int /\ new.attempt \in Int
            /\ r.at = new.at /\ r.tier = new.tier /\ r.attempt < new.attempt
        BY <3>2, JobTypes
      <3> QED
        BY <2>1, <3>1, <3>2, <3>3, <1>3
    <2>2. CASE ~(r.attempt < MaxRetries)
      BY <1>4, <1>6, <2>2 DEF CallFails
    <2> QED
      BY <2>1, <2>2
  <1>7. ASSUME Reply(j), r.tier \in Tier PROVE Less(Work(j)', Work(j))
    <2>1. NextTier(j) \/ \E answers : Accept(j, answers)
      BY <1>7 DEF Reply
    <2> QED
      BY <1>4, <1>5, <1>7, <2>1
  <1>8. CASE Claude(j) \/ Gpt4o(j)
    <2>1. r.tier \in Tier /\ (CallFails(j) \/ Reply(j))
      BY <1>8, TierAssumption DEF Claude, Gpt4o
    <2> QED
      BY <1>6, <1>7, <2>1
  <1>9. CASE ModelMissing(j)
    BY <1>4, <1>9 DEF ModelMissing
  <1>10. CASE Heuristics(j)
    BY <1>5, <1>10 DEF Heuristics
  <1> QED
    BY <1>8, <1>9, <1>10

LEMMA StepCounts ==
  ASSUME IInv, NEW j \in Job, Load(j) \/ JobStep(j) \/ JobDies(j)
  PROVE  Less(Work(j)', Work(j))
  <1>1. CASE FlushFails(j) \/ BreakDeadlock(j) \/ BeginFails(j) \/ JobDies(j)
    BY <1>1, AccidentIsOpen, StageCounts
  <1>2. CASE ~(FlushFails(j) \/ BreakDeadlock(j) \/ BeginFails(j) \/ JobDies(j))
    BY <1>2, StageCounts, LookupCounts, StoreCounts, FlushCounts, AskCounts DEF JobStep
  <1> QED
    BY <1>1, <1>2

LEMMA OthersKeep ==
  ASSUME IInv, NEW j \in Job, Load(j) \/ JobStep(j) \/ JobDies(j), NEW k \in Job \ {j}
  PROVE  pc'[k] = pc[k] /\ job'[k] = job[k] /\ cacheDirty'[k] = cacheDirty[k]
  <1>1. DOMAIN pc = Job /\ DOMAIN job = Job /\ DOMAIN cacheDirty = Job
    BY JobTypes
  <1>2. CASE Load(j) \/ DeleteStale(j) \/ Begin(j) \/ NextPhase(j) \/ FlushCache(j)
    BY <1>1, <1>2 DEF Load, DeleteStale, Begin, NextPhase, FlushCache, Hold, Go, cacheVars,
         Cache!Delete, Cache!Flush
  <1>3. CASE Lookup(j) \/ Store(j)
    BY <1>1, <1>3 DEF Lookup, MarkHit, Store, StoreAnswer, Hold, cacheVars, Cache!Read, Cache!Put
  <1>4. CASE Claude(j) \/ Gpt4o(j) \/ ModelMissing(j) \/ Heuristics(j)
    BY <1>1, <1>4 DEF Claude, Gpt4o, ModelMissing, Heuristics, CallFails, Reply, NextTier, Accept,
         OnlyJob, Hold, cacheVars
  <1>5. CASE Complete(j)
    BY <1>1, <1>5 DEF Complete, Go, Cache!Commit, Cache!Forget
  <1>6. CASE FlushFails(j) \/ BreakDeadlock(j) \/ BeginFails(j) \/ JobDies(j)
    BY <1>1, <1>6 DEF FlushFails, BreakDeadlock, BeginFails, JobDies, Fail, Go, Hold,
         Cache!Rollback, Cache!Forget
  <1> QED
    BY <1>2, <1>3, <1>4, <1>5, <1>6 DEF JobStep

-----------------------------------------------------------------------------
(* The table of usage and the deletion of statements.                      *)
(* What a job holds changes; the statement it works on does not.           *)
LEMMA HoldsStatement ==
  ASSUME NEW q, Typed(q), NEW r,
         \/ \E a : r = [q EXCEPT !.at = a]
         \/ \E a, m : r = [[q EXCEPT !.at = a] EXCEPT !.misses = m]
         \/ \E a, x, u : r = [[q EXCEPT !.at = a] EXCEPT !.result = x, !.used = u]
         \/ \E a, u : r = [q EXCEPT !.used = u, !.at = a]
         \/ \E a, n : r = [q EXCEPT !.tier = a, !.attempt = n]
         \/ \E a : r = [q EXCEPT !.attempt = a]
         \/ \E a, x, n, m : r = [q EXCEPT !.result = x, !.at = a, !.tier = n, !.attempt = m]
         \/ \E a, x : r = [q EXCEPT !.allowed = a, !.result = x]
  PROVE  r.statement = q.statement
  BY DEF Typed, JobRecord

LEMMA AskHolds ==
  ASSUME IInv, NEW j \in Job, Claude(j) \/ Gpt4o(j) \/ ModelMissing(j) \/ Heuristics(j)
  PROVE  /\ pc[j] = "ask" /\ pc' = pc /\ OthersIdle /\ UNCHANGED <<usage, recorded>>
         /\ job'[j].statement = job[j].statement
  <1>1. PICK q : q = job[j]
    OBVIOUS
  <1>2. Typed(q) /\ DOMAIN job = Job
    BY <1>1 DEF IInv, Types
  <1>3. pc[j] = "ask"
    BY DEF Claude, Gpt4o, ModelMissing, Heuristics, Asking
  <1>4. CallFails(j) \/ NextTier(j) \/ \E answers : Accept(j, answers)
    BY DEF Claude, Gpt4o, ModelMissing, Heuristics, Reply
  <1>5. ASSUME NextTier(j) PROVE \E r : OnlyJob(j, r) /\ r.statement = q.statement
    <2>1. PICK r : OnlyJob(j, r) /\ r = [q EXCEPT !.tier = @ + 1, !.attempt = 1]
      BY <1>1, <1>5 DEF NextTier
    <2> QED
      BY <1>2, <2>1, HoldsStatement
  <1>6. PICK r : OnlyJob(j, r) /\ r.statement = q.statement
    <2>1. CASE CallFails(j)
      <3>1. NextTier(j) \/ OnlyJob(j, [q EXCEPT !.attempt = @ + 1])
        BY <1>1, <2>1 DEF CallFails
      <3>2. CASE OnlyJob(j, [q EXCEPT !.attempt = @ + 1])
        <4>1. PICK r : OnlyJob(j, r) /\ r = [q EXCEPT !.attempt = @ + 1]
          BY <3>2
        <4> QED
          BY <1>2, <4>1, HoldsStatement
      <3> QED
        BY <1>5, <3>1, <3>2
    <2>2. CASE \E answers : Accept(j, answers)
      <3>1. PICK x : OnlyJob(j, [q EXCEPT !.result = x, !.at = @ + BatchSize,
                                          !.tier = 1, !.attempt = 1])
        BY <1>1, <2>2 DEF Accept
      <3>2. PICK r : OnlyJob(j, r) /\ r = [q EXCEPT !.result = x, !.at = @ + BatchSize,
                                                    !.tier = 1, !.attempt = 1]
        BY <3>1
      <3> QED
        BY <1>2, <3>2, HoldsStatement
    <2> QED
      BY <1>4, <1>5, <2>1, <2>2
  <1> QED
    BY <1>1, <1>2, <1>3, <1>6 DEF OnlyJob, Hold

(* What a step of a job leaves of its statement and of the table, unless   *)
(* it completes the job; a job that stays past "begin" was past it or      *)
(* found its statement.                                                    *)
LEMMA StepHolds ==
  ASSUME IInv, NEW j \in Job, Load(j) \/ JobStep(j) \/ JobDies(j), ~Complete(j)
  PROVE  /\ pc[j] # "done" /\ deleted' = deleted /\ UNCHANGED <<usage, recorded>>
         /\ pc'[j] \in Busy \ {"begin"} =>
              /\ job'[j].statement = job[j].statement
              /\ pc[j] \in Busy \ {"begin"} \/ job[j].statement \notin deleted
  <1>1. PICK q : q = job[j]
    OBVIOUS
  <1>2. Typed(q) /\ DOMAIN job = Job /\ pc \in [Job -> JobState] /\ Quiet(j)
    BY <1>1 DEF IInv, Types, TypeOK, JobInv
  <1>3. CASE Load(j) \/ DeleteStale(j)
    <2>1. /\ pc[j] \in {"new", "loaded"} /\ pc'[j] \in {"loaded", "begin"}
          /\ OthersIdle /\ UNCHANGED <<usage, recorded>>
      BY <1>2, <1>3 DEF Load, DeleteStale, Go
    <2> QED
      BY <2>1 DEF OthersIdle, memoryVars, Busy
  <1>4. CASE Begin(j)
    <2>1. PICK r : /\ pc[j] = "begin" /\ job[j].statement \notin deleted /\ Hold(j, r)
                   /\ \E a, x : r = [q EXCEPT !.allowed = a, !.result = x]
                   /\ OthersIdle /\ UNCHANGED <<usage, recorded>>
      BY <1>1, <1>4, Zenon DEF Begin
    <2>2. r.statement = q.statement /\ job'[j] = r
      BY <1>2, <2>1, HoldsStatement DEF Hold
    <2> QED
      BY <1>1, <2>1, <2>2 DEF OthersIdle, memoryVars
  <1>5. CASE Lookup(j)
    <2> DEFINE next == [q EXCEPT !.at = @ + 1]
    <2>1. \/ Hold(j, next)
          \/ \E m : Hold(j, [next EXCEPT !.misses = m])
          \/ \E x, u : Hold(j, [next EXCEPT !.result = x, !.used = u])
      BY <1>1, <1>5, Zenon DEF Lookup
    <2>4. ASSUME NEW r, \/ r = next
                        \/ \E m : r = [next EXCEPT !.misses = m]
                        \/ \E x, u : r = [next EXCEPT !.result = x, !.used = u]
          PROVE  r.statement = q.statement
      BY <1>2, <2>4, HoldsStatement
    <2>2. PICK r : Hold(j, r) /\ r.statement = q.statement
      <3> HIDE DEF next
      <3> QED
        BY <2>1, <2>4
    <2>3. pc[j] = "lookup" /\ pc' = pc /\ OthersIdle /\ UNCHANGED <<usage, recorded>>
      BY <1>5 DEF Lookup
    <2> QED
      BY <1>1, <1>2, <2>2, <2>3 DEF OthersIdle, memoryVars, Busy, Hold
  <1>6. CASE Store(j)
    <2>1. PICK r : /\ Hold(j, r) /\ \E a, u : r = [q EXCEPT !.used = u, !.at = a]
                   /\ pc[j] = "store" /\ pc' = pc /\ OthersIdle /\ UNCHANGED <<usage, recorded>>
      BY <1>1, <1>6, Zenon DEF Store
    <2>2. r.statement = q.statement
      BY <1>2, <2>1, HoldsStatement
    <2> QED
      BY <1>1, <1>2, <2>1, <2>2 DEF OthersIdle, memoryVars, Busy, Hold
  <1>7. CASE NextPhase(j)
    <2>1. /\ pc[j] \in {"lookup", "ask", "store"} /\ Hold(j, [q EXCEPT !.at = 1])
          /\ OthersIdle /\ UNCHANGED <<usage, recorded>>
      BY <1>1, <1>7 DEF NextPhase
    <2>2. PICK r : Hold(j, r) /\ r.statement = q.statement
      BY <1>2, <2>1, HoldsStatement
    <2> QED
      BY <1>1, <1>2, <2>1, <2>2 DEF OthersIdle, memoryVars, Busy, Hold
  <1>8. CASE FlushCache(j)
    <2>1. cacheDirty[j] # None /\ pc' = pc /\ job' = job /\ OthersIdle /\ UNCHANGED <<usage, recorded>>
      BY <1>8 DEF FlushCache, Cache!Flush
    <2>2. pc[j] \in Busy \ {"begin"}
      BY <1>2, <2>1 DEF Quiet
    <2> QED
      BY <2>1, <2>2 DEF OthersIdle, memoryVars, Busy
  <1>9. CASE Claude(j) \/ Gpt4o(j) \/ ModelMissing(j) \/ Heuristics(j)
    BY <1>9, AskHolds DEF OthersIdle, memoryVars, Busy
  <1>10. CASE FlushFails(j) \/ BreakDeadlock(j) \/ BeginFails(j) \/ JobDies(j)
    <2>1. pc[j] \in Busy \cup {"loaded"} /\ Fail(j)
      BY <1>10, AccidentIsOpen
    <2>2. pc'[j] = "failed" /\ OthersIdle /\ UNCHANGED <<usage, recorded>>
      BY <1>2, <2>1 DEF Fail, Go
    <2> QED
      BY <2>1, <2>2 DEF OthersIdle, memoryVars, Busy
  <1> QED
    BY <1>3, <1>4, <1>5, <1>6, <1>7, <1>8, <1>9, <1>10 DEF JobStep

LEMMA TableKeeps == IInv /\ TableInv /\ [Next]_vars => TableInv'
  <1> SUFFICES ASSUME IInv, TableInv, [Next]_vars PROVE TableInv'
    OBVIOUS
  <1> DEFINE Held(j) == pc[j] \in Busy \ {"begin"} => job[j].statement \notin deleted
             Left == {u \in recorded : job[u.job].statement \notin deleted}
  <1>1. /\ usage = Left /\ \A j \in Job : Held(j)
        /\ \A u \in recorded : u.job \in Job /\ pc[u.job] = "done"
    BY DEF TableInv, IInv, UsageInv, Done
  <1>2. ASSUME NEW j \in Job, Load(j) \/ JobStep(j) \/ JobDies(j), ~Complete(j) PROVE TableInv'
    <2>1. \A k \in Job \ {j} : pc'[k] = pc[k] /\ job'[k] = job[k]
      BY <1>2, OthersKeep
    <2>2. /\ pc[j] # "done" /\ deleted' = deleted /\ usage' = usage /\ recorded' = recorded
          /\ pc'[j] \in Busy \ {"begin"} =>
               /\ job'[j].statement = job[j].statement
               /\ pc[j] \in Busy \ {"begin"} \/ job[j].statement \notin deleted
      BY <1>2, StepHolds
    <2>3. \A u \in recorded : job'[u.job] = job[u.job]
      BY <1>1, <2>1, <2>2
    <2>4. Left' = Left
      BY <2>2, <2>3
    <2>5. \A k \in Job : Held(k)'
      BY <1>1, <2>1, <2>2
    <2> QED
      BY <1>1, <2>2, <2>4, <2>5 DEF TableInv
  <1>3. ASSUME NEW j \in Job, Complete(j) PROVE TableInv'
    <2>1. PICK used : used = job[j].used
      OBVIOUS
    <2>2. /\ usage' = usage \cup used /\ recorded' = recorded \cup used /\ job' = job
          /\ deleted' = deleted /\ pc[j] = "apply" /\ pc' = [pc EXCEPT ![j] = "done"]
      BY <1>3, <2>1 DEF Complete, Go
    <2>3. \A u \in used : u.job = j
      BY <2>1 DEF IInv, JobInv, AccountInv, Account
    <2>4. job[j].statement \notin deleted
      BY <1>1, <2>2 DEF Busy
    <2>5. Left' = Left \cup used
      BY <2>2, <2>3, <2>4
    <2>6. \A k \in Job : pc'[k] = pc[k] \/ pc'[k] = "done"
      BY <2>2 DEF IInv, Types, TypeOK
    <2>7. \A k \in Job : Held(k)'
      BY <1>1, <2>2, <2>6 DEF Busy
    <2> QED
      BY <1>1, <2>2, <2>5, <2>7 DEF TableInv
  <1>4. ASSUME NEW s \in Statement, DeleteStatement(s) PROVE TableInv'
    <2>1. /\ usage' = {u \in usage : job[u.job].statement # s} /\ deleted' = deleted \cup {s}
          /\ recorded' = recorded /\ pc' = pc /\ job' = job
          /\ \A j \in Job : pc[j] \in Busy \ {"begin"} => job[j].statement # s
      BY <1>4 DEF DeleteStatement, DeleteRows, HeldBy
    <2>2. usage' = Left' /\ \A j \in Job : Held(j)'
      BY <1>1, <2>1
    <2> QED
      BY <2>2 DEF TableInv
  <1>5. ASSUME UNCHANGED <<usage, recorded, pc, job>>, deleted' = deleted PROVE TableInv'
    BY <1>5 DEF TableInv
  <1>6. ASSUME NEW u \in Request, RequestStep(u), JobsIdle PROVE TableInv'
    <2>1. deleted' = deleted
      BY <1>6 DEF RequestStep, Open, Confirm, SkipGone, FailGone, FlushMapping, MappingFails,
           CommitRequest
    <2> QED
      BY <1>5, <1>6, <2>1 DEF JobsIdle
  <1>7. CASE RuleStep \/ UNCHANGED vars
    BY <1>5, <1>7 DEF RuleStep, CreateRule, UpdateRule, DeleteRule, RuleChange, vars, memoryVars
  <1> QED
    BY <1>2, <1>3, <1>4, <1>6, <1>7 DEF Next

(* The table of usage holds exactly what completed jobs recorded, less     *)
(* what went with deleted statements, and no job past the write of its     *)
(* statement's metadata loses the statement (delete_statement waits for    *)
(* the lock of the row, or the job fails at that write).                   *)
THEOREM TableCorrect == Spec => []TableInv
  <1>1. Init => TableInv
    BY DEF Init, MemoryInit, TableInv, Busy
  <1> QED
    BY <1>1, InductiveCorrect, TableKeeps, PTL DEF Spec

(* A job leaves all of its work behind or none: cached answers and usage   *)
(* records are those of completed jobs, and a completed job has recorded   *)
(* once each transaction it neither ruled nor recognised as recurring.     *)
(* With a statement all its records go (delete_statement).                 *)
THEOREM JobsAreAtomicCorrect == Spec => []JobsAreAtomic
  <1>1. IInv /\ TableInv => JobsAreAtomic
    <2> SUFFICES ASSUME IInv, TableInv PROVE JobsAreAtomic
      OBVIOUS
    <2>1. /\ \A h \in HashKey : cache[h] # None => pc[cache[h].id] = "done"
          /\ \A u \in usage : pc[u.job] = "done" /\ job[u.job].statement \notin deleted
      BY DEF IInv, RowsInv, UsageInv, Done, TableInv
    <2>2. ASSUME NEW j \in Job, pc[j] = "done", job[j].statement \notin deleted,
                 NEW t \in ToSet(job[j].list)
          PROVE  Cardinality({u \in usage : u.job = j /\ u.tx = t})
                   = IF job[j].result[t].from \in {"rule", "recurring"} THEN 0 ELSE 1
      <3>1. PICK q : q = job[j]
        OBVIOUS
      <3>2. Settled(q, t)
        <4>1. PICK state : state = pc[j]
          OBVIOUS
        <4>2. Account(j, state, q)
          BY <3>1, <4>1 DEF IInv, JobInv, AccountInv
        <4> QED
          BY <2>2, <3>1, <4>1, <4>2 DEF Account
      <3>3. {u \in usage : u.job = j} = q.used
        <4>1. {u \in recorded : u.job = j} = q.used
          BY <2>2, <3>1 DEF IInv, UsageInv, Done
        <4>2. {u \in usage : u.job = j} = {u \in recorded : u.job = j}
          BY <2>2 DEF TableInv
        <4> QED
          BY <4>1, <4>2
      <3>4. {u \in usage : u.job = j /\ u.tx = t} = Recorded(q, t)
        BY <3>3 DEF Recorded
      <3>5. CASE Given(q, t) /\ Recorded(q, t) = {}
        <4>1. q.result[t].from \in {"rule", "recurring"}
          BY <3>5 DEF Given
        <4> QED
          BY <3>1, <3>4, <3>5, <4>1, NoRecords
      <3>6. CASE Answered(q, t) /\ \E u \in Records : Recorded(q, t) = {u}
        <4>1. q.result[t].from \notin {"rule", "recurring"}
          BY <3>6, SourceFacts DEF Answered
        <4>2. PICK u : Recorded(q, t) = {u}
          BY <3>6
        <4>3. Cardinality({u}) = 1
          BY FS_Singleton
        <4> QED
          BY <3>1, <3>4, <4>1, <4>2, <4>3
      <3> QED
        BY <3>2, <3>5, <3>6 DEF Settled
    <2> QED
      BY <2>1, <2>2 DEF JobsAreAtomic
  <1> QED
    BY <1>1, InductiveCorrect, TableCorrect, PTL

-----------------------------------------------------------------------------
(* No step leaves a job more to do, and each of its own leaves it less:    *)
(* the retries, tiers, batches and flushes of an enrichment come to an end *)
(* (llm_enrichment.py), whatever the other jobs do.                        *)
THEOREM EveryStepCountsCorrect == Spec => EveryStepCounts
  <1>1. IInv /\ [Next]_vars =>
          [\A j \in Job : <<pc[j], job[j], cacheDirty[j]>>' # <<pc[j], job[j], cacheDirty[j]>>
                            => Less(Work(j)', Work(j))]_vars
    <2> SUFFICES ASSUME IInv, Next, NEW j \in Job,
                        <<pc[j], job[j], cacheDirty[j]>>' # <<pc[j], job[j], cacheDirty[j]>>
                 PROVE  Less(Work(j)', Work(j))
      OBVIOUS
    <2>1. CASE \E k \in Job : Load(k) \/ JobStep(k) \/ JobDies(k)
      BY <2>1, StepCounts, OthersKeep
    <2>2. CASE JobsIdle \/ RuleStep \/ \E s \in Statement : DeleteStatement(s)
      BY <2>2 DEF JobsIdle, DeleteStatement, RuleStep, CreateRule, UpdateRule, DeleteRule, RuleChange, cacheVars
    <2> QED
      BY <2>1, <2>2 DEF Next
  <1> QED
    BY <1>1, InductiveCorrect, PTL DEF Spec, EveryStepCounts

(* What is left to do is five natural numbers.                             *)
LEMMA WorkType == Spec => [](\A j \in Job : Work(j) \in [1..5 -> Nat])
  <1>1. IInv => \A j \in Job : Work(j) \in [1..5 -> Nat]
    <2> SUFFICES ASSUME IInv, NEW j \in Job PROVE Work(j) \in [1..5 -> Nat]
      OBVIOUS
    <2>1. Stage[pc[j]] \in Nat
      BY JobTypes, StageFact
    <2>2. /\ LoopEnd(j) \in Int /\ job[j].at \in Int /\ job[j].tier \in Int
          /\ job[j].attempt \in Int /\ MaxRetries \in Int /\ Len(Source) + 1 \in Int
      <3>1. Len(Source) = 3
        BY DEF Source
      <3> QED
        BY <3>1, JobTypes, LoopEndType, BoundsAssumption
    <2>3. Until(LoopEnd(j), job[j].at) \in Nat
      BY <2>2, UntilFact
    <2>4. Until(Len(Source) + 1, job[j].tier) \in Nat
      BY <2>2, UntilFact
    <2>5. Until(MaxRetries, job[j].attempt) \in Nat
      BY <2>2, UntilFact
    <2> QED
      BY <2>1, <2>3, <2>4, <2>5 DEF Work
  <1> QED
    BY <1>1, InductiveCorrect, PTL

(* The order on what is left has no infinite descent (the measure of       *)
(* EveryStepCounts: stages, transactions, models, attempts, flush).        *)
THEOREM WorkEnds ==
  ~ \E f \in [Nat -> [1..5 -> Nat]] : \A n \in Nat : Less(f[n + 1], f[n])
  <1> DEFINE L == {ss \in Nat \X Nat : ss[1] < ss[2]}
             R == LexProductOrdering(L, Nat, 5)
  <1>1. IsWellFoundedOn(R, [1..5 -> Nat])
    <2>1. L = OpToRel(<, Nat)
      BY Zenon DEF OpToRel
    <2>2. IsWellFoundedOn(L, Nat)
      BY <2>1, NatLessThanWellFounded, Zenon
    <2> HIDE DEF L
    <2> QED
      BY <2>2, WFLexProductOrdering
  <1>2. ASSUME NEW v \in [1..5 -> Nat], NEW w \in [1..5 -> Nat], Less(v, w)
        PROVE  <<v, w>> \in R
    <2>1. PICK i \in 1..5 : v[i] < w[i] /\ \A k \in 1..(i - 1) : v[k] = w[k]
      BY <1>2 DEF Less
    <2>2. <<v[i], w[i]>> \in L
      BY <2>1
    <2> HIDE DEF L
    <2> QED
      BY <2>1, <2>2 DEF LexProductOrdering
  <1> HIDE DEF R
  <1> SUFFICES ASSUME NEW f \in [Nat -> [1..5 -> Nat]], \A n \in Nat : Less(f[n + 1], f[n])
               PROVE  FALSE
    OBVIOUS
  <1>3. \A n \in Nat : <<f[n + 1], f[n]>> \in R
    BY <1>2
  <1> QED
    BY <1>1, <1>3 DEF IsWellFoundedOn
=============================================================================
