------------------------ MODULE StatementReading_proofs ------------------------
(***************************************************************************)
(* The reading of a statement, for documents of any length and any kinds   *)
(* of rows: which rows become transactions, and when it gives up.          *)
(***************************************************************************)
EXTENDS StatementReading, NaturalsInduction, WellFoundedInduction, TLAPS

-----------------------------------------------------------------------------
(* The members of a set of positions in increasing order.                  *)

(* A set of naturals has a least member.                                   *)
LEMMA Least ==
  ASSUME NEW I, I \subseteq Nat, I # {}
  PROVE  \E i \in I : \A k \in I : i <= k
  <1> DEFINE R == {ss \in Nat \X Nat : ss[1] < ss[2]}
  <1>1. R = OpToRel(<, Nat)
    BY Zenon DEF OpToRel
  <1>2. IsWellFoundedOn(R, Nat)
    BY <1>1, NatLessThanWellFounded, Zenon
  <1>3. PICK i \in I : \A k \in I : ~(<<k, i>> \in R)
    BY <1>2, WFMin, Zenon
  <1>4. ASSUME NEW k \in I PROVE i <= k
    <2>1. i \in Nat /\ k \in Nat /\ ~(k < i)
      BY <1>3, <1>4
    <2> QED
      BY <2>1
  <1> QED
    BY <1>3, <1>4

OrderStep(to, S, k) ==
    IF k = 0 THEN <<>> ELSE IF k \in S THEN Append(to[k - 1], k) ELSE to[k - 1]
IsOrder(to, S, n) == to = [k \in 0..n |-> OrderStep(to, S, k)]

LEMMA OrderExists ==
  ASSUME NEW S, NEW n \in Nat
  PROVE  \E to : IsOrder(to, S, n)
  <1> SUFFICES ASSUME ~ \E to : IsOrder(to, S, n) PROVE FALSE
    OBVIOUS
  <1>1. PICK m \in {k \in Nat : ~ \E to : IsOrder(to, S, k)} :
          \A k \in {k \in Nat : ~ \E to : IsOrder(to, S, k)} : m <= k
    BY Least
  <1>2. m # 0
    <2>1. IsOrder([k \in 0..0 |-> <<>>], S, 0)
      BY DEF IsOrder, OrderStep
    <2> QED
      BY <1>1, <2>1
  <1>3. m \in Nat /\ m - 1 \in Nat /\ ~(m <= m - 1) /\ m \in 0..m /\ m # 0
    BY <1>1, <1>2
  <1>4. PICK to : IsOrder(to, S, m - 1)
    BY <1>1, <1>3
  <1>5. PICK up : up = [k \in 0..m |-> IF k = m THEN OrderStep(to, S, m) ELSE to[k]]
    OBVIOUS
  <1>6. \A k \in 0..m - 1 : up[k] = to[k]
    BY <1>3, <1>5
  <1>7. ASSUME NEW k \in 0..m PROVE up[k] = OrderStep(up, S, k)
    <2>1. k = 0 \/ (k # 0 /\ k - 1 \in 0..m - 1)
      BY <1>3
    <2>2. OrderStep(up, S, k) = OrderStep(to, S, k)
      BY <1>6, <2>1 DEF OrderStep
    <2>3. CASE k = m
      BY <1>3, <1>5, <2>2, <2>3
    <2>4. CASE k # m
      <3>1. k \in 0..m - 1
        BY <1>3, <2>4
      <3>2. to[k] = OrderStep(to, S, k)
        BY <1>4, <3>1 DEF IsOrder
      <3> QED
        BY <1>6, <2>2, <3>1, <3>2
    <2> QED
      BY <2>3, <2>4
  <1>8. IsOrder(up, S, m)
    BY <1>5, <1>7 DEF IsOrder
  <1> QED
    BY <1>1, <1>8

LEMMA OrderedIs ==
  ASSUME NEW S, NEW n \in Nat
  PROVE  \E to : IsOrder(to, S, n) /\ Ordered(S, n) = to[n]
  <1>1. PICK to : to = CHOOSE f : IsOrder(f, S, n)
    OBVIOUS
  <1>2. IsOrder(to, S, n)
    BY <1>1, OrderExists, Zenon
  <1>3. Ordered(S, n) = to[n]
    BY <1>1 DEF Ordered, IsOrder, OrderStep
  <1> QED
    BY <1>2, <1>3

(* s lists the members of S up to k; one that is in S with all before it   *)
(* is at its own place.                                                    *)
Lists(s, S, k) ==
    /\ s \in Seq(Nat)
    /\ \A i \in DOMAIN s : s[i] \in S /\ s[i] <= k
    /\ \A i \in DOMAIN s : \A j \in DOMAIN s : i < j => s[i] < s[j]
    /\ \A x \in S : x <= k => \E i \in DOMAIN s : s[i] = x
    /\ \A m \in 0..k : 1..m \subseteq S => m <= Len(s) /\ \A i \in 1..m : s[i] = i

LEMMA ListsMore ==
  ASSUME NEW S, S \subseteq Nat \ {0}, NEW s, NEW k \in Nat \ {0}, Lists(s, S, k - 1),
         NEW t, t = IF k \in S THEN Append(s, k) ELSE s
  PROVE  Lists(t, S, k)
  <1>1. CASE k \notin S
    <2>1. \A m \in 0..k : 1..m \subseteq S => m \in 0..k - 1
      BY <1>1
    <2> QED
      BY <1>1, <2>1 DEF Lists
  <1>2. CASE k \in S
    <2>1. PICK n \in Nat : n = Len(s) /\ DOMAIN s = 1..n
      BY DEF Lists
    <2>0. s \in Seq(Nat) /\ \A i \in 1..n : s[i] \in S /\ s[i] <= k - 1 /\ s[i] \in Nat \ {0}
      BY <2>1 DEF Lists
    <2>2. t \in Seq(Nat) /\ Len(t) = n + 1 /\ DOMAIN t = 1..n + 1 /\ t[n + 1] = k
          /\ \A i \in 1..n : t[i] = s[i]
      BY <1>2, <2>0, <2>1
    <2>3. /\ DOMAIN t = 1..n + 1 /\ Len(t) = n + 1 /\ t[n + 1] = k
          /\ \A i \in 1..n : t[i] = s[i] /\ s[i] \in S /\ s[i] <= k - 1 /\ s[i] \in Nat \ {0}
      BY <2>0, <2>2
    <2>4. \A i \in DOMAIN t : t[i] \in S /\ t[i] <= k
      BY <1>2, <2>3
    <2>5. ASSUME NEW i \in DOMAIN t, NEW j \in DOMAIN t, i < j PROVE t[i] < t[j]
      <3>1. i \in 1..n
        BY <2>3, <2>5
      <3>2. CASE j = n + 1
        BY <2>3, <3>1, <3>2
      <3>3. CASE j # n + 1
        <4>1. j \in 1..n
          BY <2>3, <3>3
        <4> QED
          BY <2>1, <2>3, <2>5, <3>1, <4>1 DEF Lists
      <3> QED
        BY <3>2, <3>3
    <2>6. ASSUME NEW x \in S, x <= k PROVE \E i \in DOMAIN t : t[i] = x
      <3>1. CASE x = k
        BY <2>3, <3>1
      <3>2. CASE x # k
        <4>1. x <= k - 1
          BY <2>6, <3>2
        <4>2. PICK i \in DOMAIN s : s[i] = x
          BY <4>1 DEF Lists
        <4> QED
          BY <2>1, <2>3, <4>2
      <3> QED
        BY <3>1, <3>2
    <2>7. ASSUME NEW m \in 0..k, 1..m \subseteq S
          PROVE  m <= Len(t) /\ \A i \in 1..m : t[i] = i
      <3>1. CASE m # k
        <4>1. m \in 0..k - 1
          BY <3>1
        <4>2. m <= n /\ \A i \in 1..m : s[i] = i
          BY <2>1, <2>7, <4>1 DEF Lists
        <4> QED
          BY <2>3, <4>2
      <3>2. CASE m = k
        <4>1. k - 1 \in 0..k - 1 /\ 1..k - 1 \subseteq S
          BY <2>7, <3>2
        <4>2. k - 1 <= n /\ \A i \in 1..k - 1 : s[i] = i
          BY <2>1, <4>1 DEF Lists
        <4>3. n = k - 1
          <5>1. SUFFICES ASSUME n >= k PROVE FALSE
            BY <4>2
          <5>2. k \in 1..n /\ s[k] <= k - 1 /\ s[k] \in Nat \ {0}
            BY <2>3, <5>1
          <5>3. CASE k = 1
            BY <5>2, <5>3
          <5>4. CASE k # 1
            <6>1. k - 1 \in 1..n /\ k - 1 \in 1..k - 1 /\ k - 1 < k
              BY <5>1, <5>4
            <6>2. s[k - 1] < s[k] /\ s[k - 1] = k - 1
              BY <2>1, <4>2, <5>2, <6>1 DEF Lists
            <6> QED
              BY <2>3, <5>2, <6>2
          <5> QED
            BY <5>3, <5>4
        <4> QED
          BY <2>3, <3>2, <4>2, <4>3
      <3> QED
        BY <3>1, <3>2
    <2> QED
      BY <1>2, <2>2, <2>4, <2>5, <2>6, <2>7 DEF Lists
  <1> QED
    BY <1>1, <1>2

LEMMA OrderLists ==
  ASSUME NEW S, S \subseteq Nat \ {0}, NEW n \in Nat, NEW to, IsOrder(to, S, n)
  PROVE  \A k \in 0..n : Lists(to[k], S, k)
  <1> DEFINE Bad == {k \in 0..n : ~Lists(to[k], S, k)}
  <1> SUFFICES ASSUME Bad # {} PROVE FALSE
    OBVIOUS
  <1>0. Bad \subseteq Nat
    OBVIOUS
  <1>1. PICK m \in Bad : \A k \in Bad : m <= k
    <2> HIDE DEF Bad
    <2> QED
      BY <1>0, Least
  <1>2. m \in 0..n /\ to[m] = OrderStep(to, S, m)
    BY <1>1 DEF IsOrder
  <1>3. CASE m = 0
    <2>1. to[m] = <<>>
      BY <1>2, <1>3 DEF OrderStep
    <2>2. \A x \in S : ~(x <= 0)
      OBVIOUS
    <2>3. Lists(<<>>, S, 0)
      BY <2>2 DEF Lists
    <2> QED
      BY <1>1, <1>3, <2>1, <2>3
  <1>4. CASE m # 0
    <2>1. m - 1 \in 0..n /\ ~(m <= m - 1) /\ m \in Nat \ {0}
      BY <1>2, <1>4
    <2>2. Lists(to[m - 1], S, m - 1)
      BY <1>1, <2>1
    <2>3. to[m] = IF m \in S THEN Append(to[m - 1], m) ELSE to[m - 1]
      BY <1>2, <1>4 DEF OrderStep
    <2>4. Lists(to[m], S, m)
      <3>1. PICK s, t : s = to[m - 1] /\ t = to[m]
        OBVIOUS
      <3> QED
        BY <2>1, <2>2, <2>3, <3>1, ListsMore
    <2> QED
      BY <1>1, <2>4
  <1> QED
    BY <1>3, <1>4

LEMMA OrderedLists ==
  ASSUME NEW n \in Nat, NEW S, S \subseteq 1..n
  PROVE  Lists(Ordered(S, n), S, n)
  <1>1. PICK to : IsOrder(to, S, n) /\ Ordered(S, n) = to[n]
    BY OrderedIs
  <1>2. S \subseteq Nat \ {0} /\ n \in 0..n
    OBVIOUS
  <1> QED
    BY <1>1, <1>2, OrderLists
-----------------------------------------------------------------------------
(* The merging of continuation rows.                                       *)

LineType == [at : Nat, cells : SUBSET Cell, text : SUBSET Nat]

(* The columns of a document; a recognised header loses none of them.      *)
LEMMA ColumnsAre ==
  /\ Columns \in Seq(Range(Columns)) /\ {"date", "narration"} \subseteq Range(Columns)
  /\ Range(Columns) \subseteq Cell
  <1>1. PICK n, f : f = Figures /\ f \in Seq(Range(f)) /\ n \in Nat /\ n = Len(f) /\ DOMAIN f = 1..n
    BY ReadingAssumption
  <1>2. PICK d : d = <<"date", "narration">>
    OBVIOUS
  <1>3. d \in Seq({"date", "narration"}) /\ Len(d) = 2 /\ d[1] = "date" /\ d[2] = "narration"
    BY <1>2
  <1>4. PICK S : S = Range(f) \cup {"date", "narration"}
    OBVIOUS
  <1>5. d \in Seq(S) /\ f \in Seq(S)
    BY <1>1, <1>3, <1>4
  <1>6. PICK c : c = d \o f
    OBVIOUS
  <1>7. Columns = c
    BY <1>1, <1>2, <1>6 DEF Columns
  <1>8. c \in Seq(S)
    BY <1>5, <1>6
  <1>9. Len(c) = 2 + n
    <2>1. Len(d \o f) = Len(d) + Len(f)
      BY <1>5
    <2> QED
      BY <1>1, <1>3, <1>6, <2>1
  <1>10. c[1] = "date" /\ c[2] = "narration"
    <2>1. \A k \in 1..Len(d) + Len(f) : (d \o f)[k] = IF k <= Len(d) THEN d[k] ELSE f[k - Len(d)]
      BY <1>5
    <2>2. 1 \in 1..2 + n /\ 2 \in 1..2 + n
      BY <1>1
    <2>3. \A k \in 1..2 + n : c[k] = IF k <= 2 THEN d[k] ELSE f[k - 2]
      BY <1>1, <1>3, <1>6, <2>1
    <2>4. c[1] = d[1] /\ c[2] = d[2]
      BY <1>1, <2>2, <2>3
    <2> QED
      BY <1>3, <2>4
  <1>11. PICK m \in Nat : m = Len(c) /\ DOMAIN c = 1..m
    BY <1>8
  <1>12. 1 \in DOMAIN c /\ 2 \in DOMAIN c
    BY <1>1, <1>9, <1>11
  <1>13. \A k \in 1..m : c[k] \in Range(c)
    BY <1>11 DEF Range
  <1>14. c = [k \in 1..m |-> c[k]]
    BY <1>8, <1>11
  <1>15. c \in Seq(Range(c))
    BY <1>13, <1>14
  <1>16. {"date", "narration"} \subseteq Range(c)
    BY <1>10, <1>12 DEF Range
  <1> QED
    BY <1>7, <1>15, <1>16 DEF Cell

LEMMA UnderTyped ==
  ASSUME NEW head, NEW cells, cells \subseteq Cell
  PROVE  Under(head, cells) \subseteq Cell
  BY ColumnsAre DEF Under

LEMMA HeaderFilled == Header # Blank
  BY DEF Header, Blank, Cell

LEMMA NothingLost ==
  ASSUME NEW cells, cells \subseteq Cell
  PROVE  /\ Lost(Header) = {} /\ Under(Header, cells) = cells
         /\ Continues(Header, cells) <=> cells = Continuation /\ "narration" \notin file.named
  <1>1. \A k \in DOMAIN Columns : Columns[k] \in Range(Columns)
    BY DEF Range
  <1>2. \A c \in Range(Columns) : Fills(Header, c)
    BY ColumnsAre DEF Fills, Header, Cell
  <1>3. Lost(Header) = {}
    BY <1>1, <1>2 DEF Lost, Unheaded
  <1>4. Under(Header, cells) = cells
    BY <1>3 DEF Under
  <1>5. Keys(Header) = {c \in Range(Columns) : c # "narration" \/ "narration" \in file.named}
    BY <1>2 DEF Keys
  <1>6. ASSUME Continues(Header, cells) PROVE cells = Continuation /\ "narration" \notin file.named
    <2>1. "narration" \in cells /\ \A c \in Keys(Header) : ~Fills(cells, c)
      BY <1>6 DEF Continues
    <2>2. "narration" \notin file.named
      BY <1>5, <2>1, ColumnsAre DEF Fills
    <2>3. "label" \notin cells
      BY <1>5, <2>1, ColumnsAre DEF Fills
    <2>4. \A c \in cells : c = "narration"
      BY <1>5, <2>1, <2>3 DEF Fills, Cell
    <2> QED
      BY <2>1, <2>2, <2>4 DEF Continuation
  <1>7. ASSUME cells = Continuation, "narration" \notin file.named PROVE Continues(Header, cells)
    BY <1>5, <1>7 DEF Continues, Continuation, Fills
  <1> QED
    BY <1>3, <1>4, <1>6, <1>7

LEMMA BlankIsNothing ==
  ASSUME NEW head
  PROVE  ~Continues(head, Under(head, Blank))
  BY DEF Continues, Under, Blank

(* The lines that begin a merged row, the lines merged into the one at q,  *)
(* up to k, and what they become.                                          *)
Kept(head, r) == {q \in DOMAIN r : q = 1 \/ ~Continues(head, r[q].cells)}
After(head, r, q, k) == {x \in q + 1..k : \A y \in q + 1..x : Continues(head, r[y].cells)}
Joined(head, r, q, k) ==
    [at |-> r[q].at,
     cells |-> r[q].cells \cup (IF After(head, r, q, k) = {} THEN {} ELSE {"narration"}),
     text |-> r[q].text \cup UNION {r[x].text : x \in After(head, r, q, k)}]

MergeStep(head, to, r, k) == IF k = 0 THEN <<>> ELSE AddLine(head, to[k - 1], r[k])
IsMerge(head, to, r, n) == to = [k \in 0..n |-> MergeStep(head, to, r, k)]

LEMMA MergeExists ==
  ASSUME NEW head, NEW r, NEW n \in Nat
  PROVE  \E to : IsMerge(head, to, r, n)
  <1> SUFFICES ASSUME ~ \E to : IsMerge(head, to, r, n) PROVE FALSE
    OBVIOUS
  <1>1. PICK m \in {k \in Nat : ~ \E to : IsMerge(head, to, r, k)} :
          \A k \in {k \in Nat : ~ \E to : IsMerge(head, to, r, k)} : m <= k
    BY Least
  <1>2. m # 0
    <2>1. IsMerge(head, [k \in 0..0 |-> <<>>], r, 0)
      BY DEF IsMerge, MergeStep
    <2> QED
      BY <1>1, <2>1
  <1>3. m \in Nat /\ m - 1 \in Nat /\ ~(m <= m - 1) /\ m \in 0..m /\ m # 0
    BY <1>1, <1>2
  <1>4. PICK to : IsMerge(head, to, r, m - 1)
    BY <1>1, <1>3
  <1>5. PICK up : up = [k \in 0..m |-> IF k = m THEN MergeStep(head, to, r, m) ELSE to[k]]
    OBVIOUS
  <1>6. \A k \in 0..m - 1 : up[k] = to[k]
    BY <1>3, <1>5
  <1>7. ASSUME NEW k \in 0..m PROVE up[k] = MergeStep(head, up, r, k)
    <2>1. k = 0 \/ (k # 0 /\ k - 1 \in 0..m - 1)
      BY <1>3
    <2>2. MergeStep(head, up, r, k) = MergeStep(head, to, r, k)
      BY <1>6, <2>1 DEF MergeStep
    <2>3. CASE k = m
      BY <1>3, <1>5, <2>2, <2>3
    <2>4. CASE k # m
      <3>1. k \in 0..m - 1
        BY <1>3, <2>4
      <3>2. to[k] = MergeStep(head, to, r, k)
        BY <1>4, <3>1 DEF IsMerge
      <3> QED
        BY <1>6, <2>2, <3>1, <3>2
    <2> QED
      BY <2>3, <2>4
  <1>8. IsMerge(head, up, r, m)
    BY <1>5, <1>7 DEF IsMerge
  <1> QED
    BY <1>1, <1>8

LEMMA MergeIs ==
  ASSUME NEW head, NEW r, Len(r) \in Nat
  PROVE  \E to : IsMerge(head, to, r, Len(r)) /\ MergeContinuationRows(head, r) = to[Len(r)]
  <1>1. PICK to : to = CHOOSE f : IsMerge(head, f, r, Len(r))
    OBVIOUS
  <1>2. IsMerge(head, to, r, Len(r))
    BY <1>1, MergeExists, Zenon
  <1>3. MergeContinuationRows(head, r) = to[Len(r)]
    BY <1>1 DEF MergeContinuationRows, IsMerge, MergeStep
  <1> QED
    BY <1>2, <1>3

LEMMA JoinedTyped ==
  ASSUME NEW head, NEW r \in Seq(LineType), NEW q \in DOMAIN r, NEW k \in 0..Len(r)
  PROVE  Joined(head, r, q, k) \in LineType
  <1>1. /\ r[q].at \in Nat /\ r[q].cells \subseteq Cell /\ r[q].text \subseteq Nat
        /\ \A x \in DOMAIN r : r[x].text \subseteq Nat
    <2>1. r[q] \in LineType /\ \A x \in DOMAIN r : r[x] \in LineType
      OBVIOUS
    <2> QED
      BY <2>1 DEF LineType
  <1>2. q \in Nat /\ \A x \in After(head, r, q, k) : x \in DOMAIN r
    BY DEF After
  <1>3. r[q].text \cup UNION {r[x].text : x \in After(head, r, q, k)} \subseteq Nat
    BY <1>1, <1>2
  <1>4. r[q].cells \cup (IF After(head, r, q, k) = {} THEN {} ELSE {"narration"}) \subseteq Cell
    BY <1>1, ColumnsAre
  <1> QED
    BY <1>1, <1>3, <1>4 DEF Joined, LineType

(* What the next line changes.                                             *)
LEMMA AfterSame ==
  ASSUME NEW head, NEW r, NEW q \in Nat, NEW m \in Nat \ {0}, NEW y \in q + 1..m, ~Continues(head, r[y].cells)
  PROVE  Joined(head, r, q, m) = Joined(head, r, q, m - 1)
  <1>1. m \notin After(head, r, q, m)
    BY DEF After
  <1>2. After(head, r, q, m) = After(head, r, q, m - 1)
    BY <1>1 DEF After
  <1> QED
    BY <1>2 DEF Joined

LEMMA AfterMore ==
  ASSUME NEW head, NEW r, NEW q \in Nat, NEW m \in Nat \ {0}, q < m,
         \A y \in q + 1..m : Continues(head, r[y].cells)
  PROVE  After(head, r, q, m) = After(head, r, q, m - 1) \cup {m}
  BY DEF After

LEMMA AfterNone ==
  ASSUME NEW head, NEW r, NEW m \in Nat, r[m] \in LineType
  PROVE  Joined(head, r, m, m) = r[m]
  <1>1. After(head, r, m, m) = {}
    BY DEF After
  <1>2. PICK l \in LineType : l = r[m]
    OBVIOUS
  <1>3. l = [at |-> l.at, cells |-> l.cells, text |-> l.text]
    BY DEF LineType
  <1>4. l.cells \cup {} = l.cells /\ l.text \cup {} = l.text /\ UNION {r[x].text : x \in {}} = {}
    OBVIOUS
  <1> QED
    BY <1>1, <1>2, <1>3, <1>4 DEF Joined

MergedTo(head, s, r, o, k) == s = [p \in DOMAIN o |-> Joined(head, r, o[p], k)]

LEMMA KeptBefore ==
  ASSUME NEW head, NEW r \in Seq(LineType), NEW m \in DOMAIN r, NEW o, Lists(o, Kept(head, r), m - 1), NEW p \in DOMAIN o
  PROVE  o[p] \in DOMAIN r /\ o[p] \in Nat \ {0} /\ o[p] < m /\ o[p] \in Kept(head, r)
  <1>1. o[p] \in Kept(head, r) /\ o[p] <= m - 1
    BY DEF Lists
  <1>2. o[p] \in DOMAIN r
    BY <1>1 DEF Kept
  <1>3. PICK len \in Nat : len = Len(r) /\ DOMAIN r = 1..len
    OBVIOUS
  <1>4. PICK x : x = o[p]
    OBVIOUS
  <1>5. m \in 1..len /\ x \in 1..len /\ x <= m - 1
    BY <1>1, <1>2, <1>3, <1>4
  <1>6. x \in Nat \ {0} /\ x < m
    BY <1>5
  <1> QED
    BY <1>1, <1>2, <1>4, <1>6

LEMMA MergeStepKept ==
  ASSUME NEW head, NEW r \in Seq(LineType), NEW m \in DOMAIN r, m \in Kept(head, r),
         NEW o, Lists(o, Kept(head, r), m - 1), NEW M, MergedTo(head, M, r, o, m - 1)
  PROVE  MergedTo(head, AddLine(head, M, r[m]), r, Append(o, m), m)
  <1>1. o \in Seq(Nat) /\ m \in Nat \ {0} /\ m \in 0..Len(r) /\ m - 1 \in 0..Len(r)
    BY DEF Lists
  <1>2. PICK n \in Nat : n = Len(o) /\ DOMAIN o = 1..n
    BY <1>1
  <1>3. \A p \in 1..n : o[p] \in DOMAIN r /\ o[p] \in Nat \ {0} /\ o[p] < m
    BY <1>2, KeptBefore
  <1>4. M \in Seq(LineType) /\ Len(M) = n /\ DOMAIN M = 1..n
    BY <1>1, <1>2, <1>3, JoinedTyped DEF MergedTo
  <1>5. AddLine(head, M, r[m]) = Append(M, r[m])
    <2>1. CASE m = 1
      <3>1. n = 0
        BY <1>3, <2>1
      <3>2. M = <<>>
        BY <1>4, <3>1
      <3> QED
        BY <3>2 DEF AddLine
    <2>2. CASE ~Continues(head, r[m].cells)
      BY <2>2 DEF AddLine
    <2> QED
      BY <2>1, <2>2 DEF Kept
  <1>6. PICK t : t = Append(o, m)
    OBVIOUS
  <1>7. /\ DOMAIN t = 1..n + 1 /\ t[n + 1] = m /\ \A p \in 1..n : t[p] = o[p]
    BY <1>1, <1>2, <1>6
  <1>8. PICK N : N = Append(M, r[m])
    OBVIOUS
  <1>9. /\ DOMAIN N = 1..n + 1 /\ N[n + 1] = r[m] /\ \A p \in 1..n : N[p] = M[p]
        /\ N = [p \in 1..n + 1 |-> N[p]]
    <2>1. r[m] \in LineType
      OBVIOUS
    <2>2. N \in Seq(LineType) /\ Len(N) = n + 1 /\ N[n + 1] = r[m] /\ \A p \in 1..n : N[p] = M[p]
      BY <1>4, <1>8, <2>1
    <2> QED
      BY <2>2
  <1>10. ASSUME NEW p \in 1..n + 1 PROVE N[p] = Joined(head, r, t[p], m)
    <2>1. CASE p = n + 1
      <3>1. r[m] \in LineType
        OBVIOUS
      <3> QED
        BY <1>1, <1>7, <1>9, <2>1, <3>1, AfterNone
    <2>2. CASE p # n + 1
      <3>1. p \in 1..n
        BY <2>2
      <3>2. M[p] = Joined(head, r, o[p], m - 1) /\ N[p] = M[p] /\ t[p] = o[p]
        BY <1>2, <1>7, <1>9, <3>1 DEF MergedTo
      <3>3. PICK q \in Nat \ {0} : q = o[p] /\ q < m
        BY <1>3, <3>1
      <3>4. m \in q + 1..m /\ ~Continues(head, r[m].cells)
        BY <1>1, <3>3 DEF Kept
      <3>5. Joined(head, r, q, m) = Joined(head, r, q, m - 1)
        BY <1>1, <3>4, AfterSame
      <3> QED
        BY <3>2, <3>3, <3>5
    <2> QED
      BY <2>1, <2>2
  <1> QED
    BY <1>5, <1>6, <1>7, <1>8, <1>9, <1>10 DEF MergedTo

LEMMA MergeStepJoined ==
  ASSUME NEW head, NEW r \in Seq(LineType), NEW m \in DOMAIN r, m \notin Kept(head, r),
         NEW o, Lists(o, Kept(head, r), m - 1), NEW M, MergedTo(head, M, r, o, m - 1)
  PROVE  MergedTo(head, AddLine(head, M, r[m]), r, o, m)
  <1>1. /\ o \in Seq(Nat) /\ m \in Nat \ {0} /\ m # 1 /\ Continues(head, r[m].cells)
        /\ m - 1 \in 0..Len(r) /\ 1 \in Kept(head, r) /\ 1 <= m - 1
    BY DEF Lists, Kept
  <1>2. PICK n \in Nat : n = Len(o) /\ DOMAIN o = 1..n
    BY <1>1
  <1>3. \A p \in 1..n : o[p] \in DOMAIN r /\ o[p] \in Nat \ {0} /\ o[p] < m /\ o[p] \in Kept(head, r)
    BY <1>2, KeptBefore
  <1>4. M \in Seq(LineType) /\ Len(M) = n /\ DOMAIN M = 1..n
    BY <1>1, <1>2, <1>3, JoinedTyped DEF MergedTo
  <1>5. n # 0 /\ n \in 1..n
    <2>1. \E i \in DOMAIN o : o[i] = 1
      BY <1>1 DEF Lists
    <2> QED
      BY <1>2, <2>1
  <1>7. PICK last : last = M[n]
    OBVIOUS
  <1>8. PICK new : new = [last EXCEPT !.text = @ \cup r[m].text, !.cells = @ \cup {"narration"}]
    OBVIOUS
  <1>9. AddLine(head, M, r[m]) = [M EXCEPT ![n] = new]
    <2>1. M # <<>> /\ Continues(head, r[m].cells)
      BY <1>1, <1>4, <1>5
    <2>2. AddLine(head, M, r[m]) = [M EXCEPT ![n].text = @ \cup r[m].text, ![n].cells = @ \cup {"narration"}]
      BY <1>4, <2>1 DEF AddLine
    <2> QED
      BY <1>4, <1>5, <1>7, <1>8, <2>2
  <1>10. new = Joined(head, r, o[n], m)
    <2>1. PICK q \in Nat \ {0} : q = o[n] /\ q < m /\ q \in DOMAIN r
      BY <1>3, <1>5
    <2>2. ASSUME NEW y \in q + 1..m PROVE Continues(head, r[y].cells)
      <3>1. CASE y = m
        BY <1>1, <3>1
      <3>2. CASE y # m
        <4>1. y \in DOMAIN r /\ y <= m - 1 /\ y # 1 /\ y > q /\ y \in Nat
          BY <1>1, <2>1, <3>2
        <4>2. SUFFICES ASSUME y \in Kept(head, r) PROVE FALSE
          BY <4>1 DEF Kept
        <4>3. PICK i \in 1..n : o[i] = y
          BY <1>2, <4>1, <4>2 DEF Lists
        <4>4. i = n \/ o[i] < o[n]
          <5>1. i = n \/ i < n
            BY <4>3
          <5> QED
            BY <1>2, <1>5, <4>3, <5>1 DEF Lists
        <4> QED
          BY <2>1, <4>1, <4>3, <4>4
      <3> QED
        BY <3>1, <3>2
    <2>3. After(head, r, q, m) = After(head, r, q, m - 1) \cup {m}
      BY <1>1, <2>1, <2>2 DEF After
    <2>4. PICK A, B : A = After(head, r, q, m) /\ B = After(head, r, q, m - 1)
      OBVIOUS
    <2>5. A = B \cup {m} /\ A # {}
      BY <2>3, <2>4
    <2>6. last = [at |-> r[q].at, cells |-> r[q].cells \cup (IF B = {} THEN {} ELSE {"narration"}),
                  text |-> r[q].text \cup UNION {r[x].text : x \in B}]
      BY <1>2, <1>5, <1>7, <2>1, <2>4 DEF MergedTo, Joined
    <2>7. Joined(head, r, q, m) = [at |-> r[q].at, cells |-> r[q].cells \cup {"narration"},
                             text |-> r[q].text \cup UNION {r[x].text : x \in A}]
      BY <2>4, <2>5 DEF Joined
    <2>8. new = [at |-> last.at, cells |-> last.cells \cup {"narration"},
                 text |-> last.text \cup r[m].text]
      BY <1>8, <2>6
    <2>9. last.cells \cup {"narration"} = r[q].cells \cup {"narration"}
      BY <2>6
    <2>10. last.text \cup r[m].text = r[q].text \cup UNION {r[x].text : x \in A}
      <3>1. (UNION {r[x].text : x \in A}) = (UNION {r[x].text : x \in B}) \cup r[m].text
        BY <2>5
      <3> QED
        BY <2>6, <3>1
    <2> QED
      BY <2>1, <2>6, <2>7, <2>8, <2>9, <2>10
  <1>11. ASSUME NEW p \in 1..n, p # n PROVE M[p] = Joined(head, r, o[p], m)
    <2>1. M[p] = Joined(head, r, o[p], m - 1)
      BY <1>2 DEF MergedTo
    <2>2. PICK q \in Nat \ {0}, y \in Nat \ {0} : q = o[p] /\ y = o[n] /\ q < y /\ y < m /\ y \in Kept(head, r)
      <3>1. p < n
        BY <1>11
      <3>2. o[p] < o[n]
        BY <1>2, <1>5, <3>1 DEF Lists
      <3> QED
        BY <1>3, <1>5, <3>2
    <2>3. y \in q + 1..m /\ ~Continues(head, r[y].cells)
      <3>1. y # 1
        BY <2>2
      <3> QED
        BY <1>1, <2>2, <3>1 DEF Kept
    <2>4. Joined(head, r, q, m) = Joined(head, r, q, m - 1)
      BY <1>1, <2>2, <2>3, AfterSame
    <2> QED
      BY <2>1, <2>2, <2>4
  <1> QED
    BY <1>2, <1>4, <1>5, <1>9, <1>10, <1>11 DEF MergedTo

LEMMA Merged ==
  ASSUME NEW head, NEW r \in Seq(LineType), NEW o, o = Ordered(Kept(head, r), Len(r))
  PROVE  MergeContinuationRows(head, r) = [p \in DOMAIN o |-> Joined(head, r, o[p], Len(r))]
  <1>1. PICK n \in Nat : n = Len(r) /\ DOMAIN r = 1..n
    OBVIOUS
  <1>2. Kept(head, r) \subseteq Nat \ {0}
    BY <1>1 DEF Kept
  <1>3. PICK ord : IsOrder(ord, Kept(head, r), n) /\ o = ord[n]
    BY <1>1, OrderedIs
  <1>4. PICK to : IsMerge(head, to, r, n) /\ MergeContinuationRows(head, r) = to[n]
    BY <1>1, MergeIs
  <1>5. \A k \in 0..n : Lists(ord[k], Kept(head, r), k)
    BY <1>2, <1>3, OrderLists
  <1> DEFINE Bad == {k \in 0..n : ~MergedTo(head, to[k], r, ord[k], k)}
  <1>6. Bad = {}
    <2> SUFFICES ASSUME Bad # {} PROVE FALSE
      OBVIOUS
    <2>0. Bad \subseteq Nat
      OBVIOUS
    <2>1. PICK m \in Bad : \A k \in Bad : m <= k
      <3> HIDE DEF Bad
      <3> QED
        BY <2>0, Least
    <2>2. m \in 0..n /\ ord[m] = OrderStep(ord, Kept(head, r), m) /\ to[m] = MergeStep(head, to, r, m)
      BY <1>3, <1>4, <2>1 DEF IsOrder, IsMerge
    <2>3. CASE m = 0
      <3>1. ord[0] = <<>> /\ to[0] = <<>>
        BY <2>2, <2>3 DEF OrderStep, MergeStep
      <3>2. MergedTo(head, <<>>, r, <<>>, 0)
        BY DEF MergedTo
      <3> QED
        BY <2>1, <2>3, <3>1, <3>2
    <2>4. CASE m # 0
      <3>1. m - 1 \in 0..n /\ ~(m <= m - 1) /\ m \in DOMAIN r
        BY <1>1, <2>2, <2>4
      <3>2. PICK p, M : p = ord[m - 1] /\ M = to[m - 1]
        OBVIOUS
      <3>3. MergedTo(head, M, r, p, m - 1) /\ Lists(p, Kept(head, r), m - 1)
        BY <1>5, <2>1, <3>1, <3>2
      <3>4. /\ to[m] = AddLine(head, M, r[m])
            /\ ord[m] = IF m \in Kept(head, r) THEN Append(p, m) ELSE p
        BY <2>2, <2>4, <3>2 DEF OrderStep, MergeStep
      <3>5. MergedTo(head, to[m], r, ord[m], m)
        BY <3>1, <3>3, <3>4, MergeStepKept, MergeStepJoined
      <3> QED
        BY <2>1, <3>5
    <2> QED
      BY <2>3, <2>4
  <1>7. MergedTo(head, to[n], r, o, n)
    BY <1>3, <1>6
  <1> QED
    BY <1>1, <1>4, <1>7 DEF MergedTo

-----------------------------------------------------------------------------
(* Rows and transactions.                                                  *)

Documents == Seq(SUBSET Cell)
FilledSet(rows) == {i \in DOMAIN rows : rows[i] # Blank}

(* A listing is increasing, misses nothing and repeats nothing.            *)
LEMMA Increasing ==
  ASSUME NEW n \in Nat, NEW S, S \subseteq 1..n, NEW s, Lists(s, S, n)
  PROVE  /\ s \in Seq(Nat)
         /\ \A k \in DOMAIN s : s[k] \in S /\ s[k] \in 1..n
         /\ \A x \in S : \E k \in DOMAIN s : s[k] = x
         /\ \A a \in DOMAIN s : \A b \in DOMAIN s : a < b => s[a] < s[b]
         /\ \A a \in DOMAIN s : \A b \in DOMAIN s : s[a] < s[b] => a < b
         /\ \A a \in DOMAIN s : \A b \in DOMAIN s : s[a] = s[b] => a = b
  <1>1. /\ s \in Seq(Nat)
        /\ \A k \in DOMAIN s : s[k] \in S /\ s[k] \in 1..n
        /\ \A a \in DOMAIN s : \A b \in DOMAIN s : a < b => s[a] < s[b]
    BY DEF Lists
  <1>2. \A x \in S : \E k \in DOMAIN s : s[k] = x
    <2>1. \A x \in S : x <= n
      OBVIOUS
    <2> QED
      BY <2>1 DEF Lists
  <1>3. ASSUME NEW a \in DOMAIN s, NEW b \in DOMAIN s
        PROVE  (s[a] < s[b] => a < b) /\ (s[a] = s[b] => a = b)
    <2>1. PICK m \in Nat : DOMAIN s = 1..m
      BY <1>1
    <2>2. PICK x \in 1..n, y \in 1..n : x = s[a] /\ y = s[b]
      BY <1>1
    <2>3. (a < b => x < y) /\ (b < a => y < x) /\ (a = b => x = y)
      BY <1>1, <2>2
    <2>4. a \in Nat /\ b \in Nat /\ x \in Nat /\ y \in Nat
      BY <2>1
    <2> QED
      BY <2>2, <2>3, <2>4
  <1> QED
    BY <1>1, <1>2, <1>3

LEMMA FilledLists ==
  ASSUME NEW rows \in Documents
  PROVE  Lists(Filled(rows), FilledSet(rows), Len(rows)) /\ FilledSet(rows) \subseteq 1..Len(rows)
  <1>1. Len(rows) \in Nat /\ FilledSet(rows) \subseteq 1..Len(rows)
    BY DEF Documents, FilledSet
  <1> QED
    BY <1>1, OrderedLists DEF Filled, FilledSet

LEMMA FilledRows ==
  ASSUME NEW rows \in Documents, NEW F, Lists(F, FilledSet(rows), Len(rows))
  PROVE  /\ F \in Seq(Nat) /\ \A k \in DOMAIN F : F[k] \in DOMAIN rows /\ rows[F[k]] # Blank
         /\ \A j \in DOMAIN rows : rows[j] # Blank => \E k \in DOMAIN F : F[k] = j
         /\ \A a \in DOMAIN F : \A b \in DOMAIN F : a < b => F[a] < F[b]
         /\ \A a \in DOMAIN F : \A b \in DOMAIN F : F[a] < F[b] => a < b
         /\ \A a \in DOMAIN F : \A b \in DOMAIN F : F[a] = F[b] => a = b
  <1>1. Len(rows) \in Nat /\ DOMAIN rows = 1..Len(rows) /\ FilledSet(rows) \subseteq 1..Len(rows)
    BY DEF Documents, FilledSet
  <1>2. PICK n, S : n = Len(rows) /\ S = FilledSet(rows)
    OBVIOUS
  <1>3. n \in Nat /\ S \subseteq 1..n /\ Lists(F, S, n)
    BY <1>1, <1>2
  <1>4. /\ F \in Seq(Nat)
        /\ \A k \in DOMAIN F : F[k] \in S /\ F[k] \in 1..n
        /\ \A x \in S : \E k \in DOMAIN F : F[k] = x
        /\ \A a \in DOMAIN F : \A b \in DOMAIN F : a < b => F[a] < F[b]
        /\ \A a \in DOMAIN F : \A b \in DOMAIN F : F[a] < F[b] => a < b
        /\ \A a \in DOMAIN F : \A b \in DOMAIN F : F[a] = F[b] => a = b
    BY <1>3, Increasing, Zenon
  <1> QED
    BY <1>2, <1>4 DEF FilledSet

(* A filled row stands no earlier than at its place among the filled ones. *)
LEMMA NoEarlier ==
  ASSUME NEW n \in Nat, NEW S, S \subseteq 1..n, NEW s, Lists(s, S, n)
  PROVE  \A k \in DOMAIN s : k <= s[k]
  <1> DEFINE Bad == {k \in DOMAIN s : ~(k <= s[k])}
  <1>1. PICK m \in Nat : DOMAIN s = 1..m
    BY Increasing
  <1>2. \A k \in 1..m : s[k] \in 1..n
    BY <1>1, Increasing
  <1>3. Bad = {}
    <2> SUFFICES ASSUME Bad # {} PROVE FALSE
      OBVIOUS
    <2>1. Bad \subseteq Nat
      BY <1>1
    <2>2. PICK k \in Bad : \A j \in Bad : k <= j
      <3> HIDE DEF Bad
      <3> QED
        BY <2>1, Least
    <2>3. k \in 1..m /\ s[k] \in 1..n /\ ~(k <= s[k])
      BY <1>1, <1>2, <2>2
    <2>4. k # 1
      BY <2>3
    <2>5. k - 1 \in 1..m /\ k - 1 < k
      BY <2>3, <2>4
    <2>6. s[k - 1] < s[k] /\ s[k - 1] \in 1..n
      BY <1>1, <1>2, <2>3, <2>5, Increasing
    <2>7. k - 1 \notin Bad
      BY <2>2, <2>5, <2>3
    <2>8. k - 1 <= s[k - 1]
      BY <1>1, <2>5, <2>7
    <2> QED
      BY <2>3, <2>6, <2>8
  <1> QED
    BY <1>3

(* Between two filled rows there are only the filled ones and blank ones.  *)
LEMMA Between ==
  ASSUME NEW rows \in Documents, NEW F, Lists(F, FilledSet(rows), Len(rows)),
         NEW a \in DOMAIN F, NEW b \in DOMAIN F, a < b
  PROVE  (\A c \in a + 1..b : Joins(rows, F[c])) <=> CarriesOn(rows, F[a], F[b])
  <1>1. PICK n \in Nat : n = Len(rows) /\ DOMAIN rows = 1..n /\ FilledSet(rows) \subseteq 1..n
    BY DEF Documents, FilledSet
  <1>2. PICK m \in Nat : DOMAIN F = 1..m
    BY <1>1, Increasing
  <1>3. \A c \in 1..m : F[c] \in FilledSet(rows) /\ F[c] \in 1..n
    BY <1>1, <1>2, Increasing
  <1>4. PICK i, j : i = F[a] /\ j = F[b]
    OBVIOUS
  <1>5. a \in 1..m /\ b \in 1..m /\ i \in 1..n /\ j \in 1..n
    BY <1>2, <1>3, <1>4
  <1>6. i < j
    BY <1>1, <1>4, Increasing
  <1>7. ASSUME \A c \in a + 1..b : Joins(rows, F[c]) PROVE CarriesOn(rows, i, j)
    <2>1. Joins(rows, j)
      <3>1. b \in a + 1..b
        BY <1>5
      <3> QED
        BY <1>4, <1>7, <3>1
    <2>2. ASSUME NEW k \in i + 1..j PROVE rows[k] = Blank \/ Joins(rows, k)
      <3>1. k \in 1..n /\ i < k
        BY <1>5
      <3>2. CASE rows[k] = Blank
        BY <3>2
      <3>3. CASE rows[k] # Blank
        <4>1. k \in FilledSet(rows)
          BY <1>1, <3>1, <3>3 DEF FilledSet
        <4>2. PICK c \in 1..m : F[c] = k
          BY <1>1, <1>2, <4>1, Increasing
        <4>3. a < c
          BY <1>1, <1>2, <1>4, <1>5, <3>1, <4>2, Increasing
        <4>4. c <= b
          <5>1. SUFFICES ASSUME b < c PROVE FALSE
            BY <1>5, <4>2
          <5>2. F[b] < F[c]
            BY <1>1, <1>2, <1>5, <5>1, Increasing
          <5> QED
            BY <1>4, <1>5, <4>2, <5>2
        <4>5. c \in a + 1..b
          BY <1>5, <4>3, <4>4
        <4> QED
          BY <1>7, <4>2, <4>5
      <3> QED
        BY <3>2, <3>3
    <2> QED
      BY <1>6, <2>1, <2>2 DEF CarriesOn
  <1>8. ASSUME CarriesOn(rows, i, j), NEW c \in a + 1..b PROVE Joins(rows, F[c])
    <2>1. c \in 1..m /\ a < c
      BY <1>5
    <2>2. PICK k \in 1..n : k = F[c] /\ rows[k] # Blank
      BY <1>3, <2>1 DEF FilledSet
    <2>3. i < k
      BY <1>1, <1>2, <1>4, <1>5, <2>1, <2>2, Increasing
    <2>4. k <= j
      <3>1. c = b \/ c < b
        BY <1>5, <2>1
      <3>2. c = b \/ F[c] < F[b]
        BY <1>1, <1>2, <1>5, <2>1, <3>1, Increasing
      <3> QED
        BY <1>4, <1>5, <2>2, <3>2
    <2>5. k \in i + 1..j
      BY <1>5, <2>3, <2>4
    <2> QED
      BY <1>8, <2>2, <2>5 DEF CarriesOn
  <1> QED
    BY <1>4, <1>7, <1>8

-----------------------------------------------------------------------------
(* How parse_rows reads a document: F, its filled rows; h, the header      *)
(* among them; head, its cells; r, the lines below it; o, the lines that begin a merged     *)
(* row; at, the merged rows that are transactions.                         *)
Reading(rows, F, head, h, r, o, at) ==
    /\ F = Filled(rows) /\ Lists(F, FilledSet(rows), Len(rows)) /\ h \in DOMAIN F
    /\ h = DetectColumns([k \in DOMAIN F |-> rows[F[k]]])
    /\ head = rows[F[h]] /\ r \in Seq(LineType) /\ Len(F) = h + Len(r)
    /\ \A k \in DOMAIN r : h + k \in DOMAIN F /\ r[k] = Headed(head, Line(rows, F[h + k]))
    /\ Lists(o, Kept(head, r), Len(r))
    /\ Lists(at, {p \in DOMAIN o : Readable(Joined(head, r, o[p], Len(r)).cells)}, Len(o))
    /\ ParseRows(rows) =
         [n \in DOMAIN at |-> Transaction(at[n], Joined(head, r, o[at[n]], Len(r)), None)]

LEMMA LinesTyped ==
  ASSUME NEW rows \in Documents, NEW F, F = Filled(rows)
  PROVE  /\ Lines(rows) \in Seq(LineType)
         /\ Len(Lines(rows)) = Len(F) /\ DOMAIN Lines(rows) = DOMAIN F
         /\ \A k \in DOMAIN F : Lines(rows)[k] = Line(rows, F[k])
  <1>1. PICK n \in Nat : n = Len(rows) /\ DOMAIN rows = 1..n /\ FilledSet(rows) \subseteq 1..n
    BY DEF Documents, FilledSet
  <1>2. Lists(F, FilledSet(rows), n)
    BY <1>1, FilledLists
  <1>3. PICK m \in Nat : m = Len(F) /\ DOMAIN F = 1..m
    BY <1>1, <1>2, Increasing
  <1>4. \A k \in 1..m : F[k] \in 1..n
    BY <1>1, <1>2, <1>3, Increasing
  <1>5. PICK L : L = Lines(rows)
    OBVIOUS
  <1>6. L = [k \in 1..m |-> Line(rows, F[k])]
    BY <1>3, <1>5 DEF Lines
  <1>7. ASSUME NEW i \in 1..n PROVE Line(rows, i) \in LineType
    <2>1. rows[i] \subseteq Cell
      BY <1>1 DEF Documents
    <2>2. (IF "narration" \in rows[i] THEN {i} ELSE {}) \subseteq Nat
      OBVIOUS
    <2> QED
      BY <2>1, <2>2 DEF Line, LineType
  <1>8. \A k \in 1..m : L[k] \in LineType
    BY <1>4, <1>6, <1>7
  <1>9. L \in Seq(LineType) /\ Len(L) = m /\ DOMAIN L = 1..m
    BY <1>6, <1>8
  <1> QED
    BY <1>3, <1>5, <1>6, <1>9

LEMMA HeadedTyped ==
  ASSUME NEW head, NEW l \in LineType
  PROVE  Headed(head, l) \in LineType
  <1>1. /\ l = [at |-> l.at, cells |-> l.cells, text |-> l.text]
        /\ l.at \in Nat /\ l.cells \subseteq Cell /\ l.text \subseteq Nat
    BY DEF LineType
  <1>2. PICK text : text = IF "narration" \in Lost(head) THEN {} ELSE l.text
    OBVIOUS
  <1>3. PICK cells : cells = Under(head, l.cells)
    OBVIOUS
  <1>4. Headed(head, l) = [at |-> l.at, cells |-> cells, text |-> text]
    BY <1>2, <1>3 DEF Headed
  <1>5. cells \subseteq Cell /\ text \subseteq Nat
    BY <1>1, <1>2, <1>3, UnderTyped
  <1> QED
    BY <1>1, <1>4, <1>5 DEF LineType

LEMMA Header1 ==
  ASSUME NEW rows \in Seq(SUBSET Cell), NEW heads,
         heads = {i \in 1..Len(rows) : i <= HeaderWindow /\ rows[i] = Header}
  PROVE  /\ DetectColumns(rows) = IF heads # {} THEN Min(heads) ELSE IF file.columns THEN 1 ELSE 0
         /\ heads # {} => Min(heads) \in heads /\ \A i \in heads : Min(heads) <= i
  <1>1. DetectColumns(rows) = IF heads # {} THEN Min(heads) ELSE IF file.columns THEN 1 ELSE 0
    BY DEF DetectColumns
  <1>2. ASSUME heads # {} PROVE Min(heads) \in heads /\ \A i \in heads : Min(heads) <= i
    <2>1. heads \subseteq Nat
      OBVIOUS
    <2>2. \E i \in heads : \A j \in heads : i <= j
      BY <1>2, <2>1, Least
    <2> QED
      BY <2>2, Zenon DEF Min
  <1> QED
    BY <1>1, <1>2

LEMMA ReadingIs ==
  ASSUME NEW rows \in Documents, ParseRows(rows) # <<>>
  PROVE  \E F, head, h, r, o, at : Reading(rows, F, head, h, r, o, at)
  <1>1. PICK F, L, cells : F = Filled(rows) /\ L = Lines(rows) /\ cells = [i \in DOMAIN L |-> L[i].cells]
    OBVIOUS
  <1>2. PICK h : h = DetectColumns(cells)
    OBVIOUS
  <1>3. PICK b, head, r : /\ b = SubSeq(L, h + 1, Len(L)) /\ head = L[h].cells
                         /\ r = [k \in DOMAIN b |-> Headed(head, b[k])]
    OBVIOUS
  <1>4. h # 0 /\ L # <<>> /\ ParseRows(rows) = Numbered(MergeContinuationRows(head, r))
    <2>1. ParseRows(rows) = IF h = 0 \/ L = <<>> THEN <<>> ELSE Numbered(MergeContinuationRows(head, r))
      BY <1>1, <1>2, <1>3 DEF ParseRows
    <2> QED
      BY <2>1
  <1>5. /\ L \in Seq(LineType) /\ Len(L) = Len(F) /\ DOMAIN L = DOMAIN F
        /\ \A k \in DOMAIN F : L[k] = Line(rows, F[k])
    BY <1>1, LinesTyped
  <1>6. PICK n \in Nat : n = Len(L) /\ DOMAIN L = 1..n /\ n # 0
    <2>1. Len(L) \in Nat /\ DOMAIN L = 1..Len(L)
      BY <1>5
    <2>2. Len(L) # 0
      BY <1>4, <1>5
    <2> QED
      BY <2>1, <2>2
  <1>7. cells \in Seq(SUBSET Cell) /\ Len(cells) = n /\ cells = [k \in DOMAIN F |-> rows[F[k]]]
    <2>1. ASSUME NEW k \in 1..n PROVE L[k].cells \in SUBSET Cell /\ L[k].cells = rows[F[k]]
      <3>1. L[k] \in LineType
        BY <1>5, <1>6
      <3> QED
        BY <1>5, <1>6, <3>1 DEF LineType, Line
    <2> QED
      BY <1>1, <1>5, <1>6, <2>1
  <1>8. h \in 1..n
    <2>1. PICK heads : heads = {i \in 1..n : i <= HeaderWindow /\ cells[i] = Header}
      OBVIOUS
    <2>2. /\ h = IF heads # {} THEN Min(heads) ELSE IF file.columns THEN 1 ELSE 0
          /\ heads # {} => Min(heads) \in heads
      BY <1>2, <1>7, <2>1, Header1
    <2> QED
      BY <1>4, <1>6, <2>1, <2>2
  <1>9. b \in Seq(LineType) /\ Len(b) = n - h /\ \A k \in 1..n - h : b[k] = L[h + k]
    <2>1. h + 1 \in 1..n + 1 /\ n \in h..n /\ h + 1 <= n + 1
      BY <1>6, <1>8
    <2>2. \A i \in h + 1..n : L[i] \in LineType
      BY <1>5, <1>6, <1>8
    <2>3. b = [i \in 1..n - h |-> L[h + i]]
      <3>1. b = [i \in 1..(1 + n - (h + 1)) |-> L[i + (h + 1) - 1]]
        BY <1>3, <1>6, <1>8
      <3>2. \A i \in 1..n - h : i + (h + 1) - 1 = h + i
        BY <1>6, <1>8
      <3>3. 1..(1 + n - (h + 1)) = 1..n - h
        BY <1>6, <1>8
      <3> QED
        BY <3>1, <3>2, <3>3
    <2>4. \A i \in 1..n - h : b[i] \in LineType /\ b[i] = L[h + i]
      BY <1>6, <1>8, <2>2, <2>3
    <2>5. n - h \in Nat
      BY <1>6, <1>8
    <2> QED
      BY <2>3, <2>4, <2>5
  <1>10. r \in Seq(LineType) /\ Len(r) = n - h /\ DOMAIN r = 1..n - h
    <2>1. n - h \in Nat
      BY <1>6, <1>8
    <2>2. DOMAIN b = 1..n - h /\ \A k \in 1..n - h : b[k] \in LineType
      BY <1>9
    <2>3. r = [k \in 1..n - h |-> Headed(head, b[k])]
      BY <1>3, <2>2
    <2>4. \A k \in 1..n - h : Headed(head, b[k]) \in LineType
      BY <2>2, HeadedTyped
    <2> QED
      BY <2>1, <2>3, <2>4
  <1>11. \A k \in DOMAIN r : h + k \in 1..n /\ r[k] = Headed(head, L[h + k])
    <2>1. \A k \in 1..n - h : h + k \in 1..n
      BY <1>6, <1>8
    <2> QED
      BY <1>3, <1>9, <1>10, <2>1
  <1>12. PICK o : o = Ordered(Kept(head, r), Len(r))
    OBVIOUS
  <1>13. Lists(o, Kept(head, r), Len(r)) /\ Kept(head, r) \subseteq 1..Len(r) /\ Len(r) \in Nat
    <2>1. Kept(head, r) \subseteq 1..Len(r) /\ Len(r) \in Nat
      BY <1>10 DEF Kept
    <2> QED
      BY <1>12, <2>1, OrderedLists
  <1>14. PICK M : M = MergeContinuationRows(head, r)
    OBVIOUS
  <1>15. M = [p \in DOMAIN o |-> Joined(head, r, o[p], Len(r))]
    BY <1>10, <1>12, <1>14, Merged
  <1>16. PICK m \in Nat : DOMAIN o = 1..m /\ Len(o) = m
    BY <1>13, Increasing
  <1>17. DOMAIN M = 1..m /\ Len(M) = m
    <2>1. M \in Seq({M[p] : p \in 1..m})
      BY <1>15, <1>16
    <2> QED
      BY <1>15, <1>16, <2>1
  <1>18. PICK at : at = ReadablePlaces(M)
    OBVIOUS
  <1>19. PICK S : S = {p \in DOMAIN o : Readable(Joined(head, r, o[p], Len(r)).cells)}
    OBVIOUS
  <1>20. {k \in DOMAIN M : Readable(M[k].cells)} = S
    BY <1>15, <1>16, <1>17, <1>19
  <1>21. at = Ordered(S, m) /\ S \subseteq 1..m
    BY <1>16, <1>17, <1>18, <1>19, <1>20 DEF ReadablePlaces
  <1>22. Lists(at, S, m)
    BY <1>21, OrderedLists
  <1>23. ParseRows(rows) = [k \in DOMAIN at |-> Transaction(at[k], Joined(head, r, o[at[k]], Len(r)), None)]
    <2>1. \A k \in DOMAIN at : at[k] \in DOMAIN o
      BY <1>16, <1>21, <1>22, Increasing
    <2>2. \A k \in DOMAIN at : M[at[k]] = Joined(head, r, o[at[k]], Len(r))
      BY <1>15, <2>1
    <2>3. ParseRows(rows) = [k \in DOMAIN at |-> Transaction(at[k], M[at[k]], None)]
      BY <1>4, <1>14, <1>18 DEF Numbered
    <2> QED
      BY <2>2, <2>3
  <1>24. /\ Lists(F, FilledSet(rows), Len(rows)) /\ h \in DOMAIN F /\ Len(F) = h + Len(r)
         /\ head = rows[F[h]]
         /\ \A k \in DOMAIN r : h + k \in DOMAIN F /\ r[k] = Headed(head, Line(rows, F[h + k]))
    <2>1. h \in DOMAIN F /\ h \in DOMAIN L /\ L[h] = Line(rows, F[h])
      BY <1>5, <1>6, <1>8
    <2>2. head = rows[F[h]]
      BY <1>3, <2>1 DEF Line
    <2>3. \A k \in DOMAIN r : h + k \in DOMAIN F /\ L[h + k] = Line(rows, F[h + k])
      BY <1>5, <1>6, <1>11
    <2>4. Len(F) = h + Len(r)
      BY <1>5, <1>6, <1>8, <1>10
    <2> QED
      BY <1>1, <1>11, <2>1, <2>2, <2>3, <2>4, FilledLists
  <1>25. Reading(rows, F, head, h, r, o, at)
    BY <1>1, <1>2, <1>7, <1>10, <1>13, <1>16, <1>19, <1>22, <1>23, <1>24 DEF Reading
  <1> QED
    BY <1>25, Zenon

(* The header parse_rows goes by is the first recognised one.              *)
LEMMA TopIs ==
  ASSUME NEW rows \in Documents, NEW F, NEW head, NEW h, NEW r, NEW o, NEW at, Reading(rows, F, head, h, r, o, at)
  PROVE  Top(rows) = F[h]
  <1>1. /\ F = Filled(rows) /\ h \in DOMAIN F /\ Lists(F, FilledSet(rows), Len(rows))
        /\ h = DetectColumns([k \in DOMAIN F |-> rows[F[k]]])
    BY DEF Reading
  <1>2. Len(rows) \in Nat /\ FilledSet(rows) \subseteq 1..Len(rows) /\ DOMAIN rows = 1..Len(rows)
    BY DEF Documents, FilledSet
  <1>3. F \in Seq(Nat) /\ \A k \in DOMAIN F : F[k] \in DOMAIN rows
    BY <1>1, <1>2, Increasing
  <1>4. PICK cells : cells = [k \in DOMAIN F |-> rows[F[k]]]
    OBVIOUS
  <1>5. PICK m \in Nat : m = Len(F) /\ DOMAIN F = 1..m
    BY <1>3
  <1>6. cells \in Seq(SUBSET Cell) /\ Len(cells) = m
    <2>1. \A k \in 1..m : cells[k] \in SUBSET Cell
      BY <1>3, <1>4, <1>5 DEF Documents
    <2> QED
      BY <1>4, <1>5, <2>1
  <1>7. PICK heads : heads = {i \in 1..m : i <= HeaderWindow /\ cells[i] = Header}
    OBVIOUS
  <1>8. heads = {k \in DOMAIN F : k <= HeaderWindow /\ rows[F[k]] = Header}
    BY <1>4, <1>5, <1>7
  <1>9. h = IF heads # {} THEN Min(heads) ELSE IF file.columns THEN 1 ELSE 0
    BY <1>1, <1>4, <1>6, <1>7, Header1
  <1>10. h = IF heads # {} THEN Min(heads) ELSE 1
    BY <1>1, <1>5, <1>9
  <1> QED
    BY <1>1, <1>8, <1>10 DEF Top

(* What the heading leaves of the rows below it.                           *)
LEMMA ViewIs ==
  ASSUME NEW rows \in Documents, NEW F, NEW head, NEW h, NEW r, NEW o, NEW at, Reading(rows, F, head, h, r, o, at),
         NEW i \in DOMAIN rows
  PROVE  /\ View(rows)[i] = Under(head, rows[i])
         /\ Joins(rows, i) <=> Continues(head, Under(head, rows[i]))
         /\ Told(rows, i) <=> "narration" \in rows[i] /\ "narration" \notin Lost(head)
         /\ Joins(rows, i) => rows[i] # Blank /\ "narration" \in View(rows)[i]
  <1>1. Heading(rows) = head
    <2>1. Top(rows) = F[h]
      BY TopIs
    <2> QED
      BY <2>1 DEF Heading, Reading
  <1>2. PICK cells : cells = rows[i] /\ cells \subseteq Cell
    BY DEF Documents
  <1>3. /\ View(rows)[i] = Under(head, cells)
        /\ Joins(rows, i) <=> Continues(head, Under(head, cells))
        /\ Told(rows, i) <=> "narration" \in cells /\ "narration" \notin Lost(head)
    <2>1. CASE head = Header
      <3>1. View(rows)[i] = cells /\ Under(head, cells) = cells /\ Lost(head) = {}
        BY <1>1, <1>2, <2>1, NothingLost DEF View
      <3>2. Joins(rows, i) <=> Continues(head, cells)
        BY <1>1, <1>2, <2>1, NothingLost DEF Joins
      <3> QED
        BY <1>1, <1>2, <2>1, <3>1, <3>2 DEF Told
    <2>2. CASE head # Header
      <3>1. View(rows)[i] = Under(head, cells)
        BY <1>1, <1>2, <2>2 DEF View
      <3> QED
        BY <1>1, <1>2, <2>2, <3>1 DEF Joins, Told
    <2> QED
      BY <2>1, <2>2
  <1>4. ASSUME Joins(rows, i) PROVE cells # Blank /\ "narration" \in Under(head, cells)
    BY <1>3, <1>4, BlankIsNothing DEF Continues
  <1> QED
    BY <1>2, <1>3, <1>4

(* The lines merged into a line are the rows that carry it on.             *)
LEMMA AfterIs ==
  ASSUME NEW rows \in Documents, NEW F, NEW head, NEW h, NEW r, NEW o, NEW at, Reading(rows, F, head, h, r, o, at),
         NEW q \in DOMAIN r
  PROVE  /\ {r[x].at : x \in After(head, r, q, Len(r))} = {j \in DOMAIN rows : CarriesOn(rows, F[h + q], j)}
         /\ After(head, r, q, Len(r)) \subseteq DOMAIN r
  <1>1. /\ h \in DOMAIN F /\ Lists(F, FilledSet(rows), Len(rows)) /\ Len(F) = h + Len(r)
        /\ r \in Seq(LineType)
        /\ \A k \in DOMAIN r : h + k \in DOMAIN F /\ r[k] = Headed(head, Line(rows, F[h + k]))
    BY DEF Reading
  <1>2. Len(rows) \in Nat /\ FilledSet(rows) \subseteq 1..Len(rows) /\ DOMAIN rows = 1..Len(rows)
    BY DEF Documents, FilledSet
  <1>3. F \in Seq(Nat) /\ \A k \in DOMAIN F : F[k] \in DOMAIN rows
    BY <1>1, <1>2, Increasing
  <1>4. PICK n \in Nat : n = Len(r) /\ DOMAIN r = 1..n
    BY <1>1
  <1>5. DOMAIN F = 1..h + n /\ h \in Nat /\ q \in 1..n
    <2>1. DOMAIN F = 1..Len(F)
      BY <1>3
    <2> QED
      BY <1>1, <1>4, <2>1
  <1>6. \A k \in 1..n : r[k].at = F[h + k] /\ (Continues(head, r[k].cells) <=> Joins(rows, F[h + k]))
    <2> SUFFICES ASSUME NEW k \in 1..n
                 PROVE  r[k].at = F[h + k] /\ (Continues(head, r[k].cells) <=> Joins(rows, F[h + k]))
      OBVIOUS
    <2>1. PICK x \in DOMAIN rows : x = F[h + k]
      BY <1>1, <1>3, <1>4
    <2>2. r[k] = Headed(head, Line(rows, x))
      BY <1>1, <1>4, <2>1
    <2>5. Headed(head, Line(rows, x)).at = x /\ Headed(head, Line(rows, x)).cells = Under(head, rows[x])
      BY DEF Headed, Line
    <2>3. r[k].at = x /\ r[k].cells = Under(head, rows[x])
      BY <2>2, <2>5
    <2>4. Joins(rows, x) <=> Continues(head, Under(head, rows[x]))
      BY ViewIs
    <2> QED
      BY <2>1, <2>3, <2>4
  <1>7. ASSUME NEW x \in q + 1..n
        PROVE  (\A y \in q + 1..x : Continues(head, r[y].cells)) <=> CarriesOn(rows, F[h + q], F[h + x])
    <2>1. PICK a, b : a = h + q /\ b = h + x
      OBVIOUS
    <2>2. a \in DOMAIN F /\ b \in DOMAIN F /\ a < b /\ a \in Nat /\ b \in Nat
      BY <1>5, <1>7, <2>1
    <2>3. (\A c \in a + 1..b : Joins(rows, F[c])) <=> CarriesOn(rows, F[a], F[b])
      BY <1>1, <2>2, Between
    <2>4. ASSUME \A c \in a + 1..b : Joins(rows, F[c]), NEW y \in q + 1..x
          PROVE  Continues(head, r[y].cells)
      <3>1. h + y \in a + 1..b /\ y \in 1..n
        BY <1>5, <2>1
      <3> QED
        BY <1>6, <2>4, <3>1
    <2>5. ASSUME \A y \in q + 1..x : Continues(head, r[y].cells), NEW c \in a + 1..b
          PROVE  Joins(rows, F[c])
      <3>1. PICK y \in q + 1..x : c = h + y /\ y \in 1..n
        <4>1. c - h \in q + 1..x /\ c = h + (c - h) /\ c - h \in 1..n
          BY <1>5, <2>1
        <4> QED
          BY <4>1
      <3> QED
        BY <1>6, <2>5, <3>1
    <2> QED
      BY <2>1, <2>3, <2>4, <2>5
  <1>8. ASSUME NEW x \in After(head, r, q, n) PROVE r[x].at \in DOMAIN rows /\ CarriesOn(rows, F[h + q], r[x].at)
    <2>1. x \in q + 1..n /\ \A y \in q + 1..x : Continues(head, r[y].cells)
      BY DEF After
    <2>2. x \in 1..n /\ h + x \in DOMAIN F
      BY <1>5, <2>1
    <2> QED
      BY <1>3, <1>6, <1>7, <2>1, <2>2
  <1>9. ASSUME NEW j \in DOMAIN rows, CarriesOn(rows, F[h + q], j)
        PROVE  \E x \in After(head, r, q, n) : r[x].at = j
    <2>1. rows[j] # Blank /\ F[h + q] < j
      BY <1>9, ViewIs DEF CarriesOn
    <2>2. PICK c \in DOMAIN F : F[c] = j
      BY <1>1, <2>1, FilledRows
    <2>3. h + q < c
      <3>1. h + q \in DOMAIN F
        BY <1>5
      <3> QED
        BY <1>1, <2>1, <2>2, <3>1, FilledRows
    <2>4. PICK x \in q + 1..n : c = h + x /\ x \in 1..n
      <3>1. c - h \in q + 1..n /\ c = h + (c - h) /\ c - h \in 1..n
        BY <1>5, <2>2, <2>3
      <3> QED
        BY <3>1
    <2>5. x \in After(head, r, q, n)
      BY <1>7, <1>9, <2>2, <2>4 DEF After
    <2> QED
      BY <1>6, <2>2, <2>4, <2>5
  <1>10. After(head, r, q, n) \subseteq 1..n
    BY <1>5 DEF After
  <1> QED
    BY <1>4, <1>8, <1>9, <1>10

(* A merged row: the row it begins with, and the narration of that row.    *)
LEMMA JoinedIs ==
  ASSUME NEW rows \in Documents, NEW F, NEW head, NEW h, NEW r, NEW o, NEW at, Reading(rows, F, head, h, r, o, at),
         NEW q \in DOMAIN r, NEW i, i = F[h + q], NEW l, l = Joined(head, r, q, Len(r))
  PROVE  /\ i \in DOMAIN rows /\ Top(rows) < i /\ l.at = i /\ l.text = Narration(rows, i)
         /\ "date" \in l.cells <=> "date" \in View(rows)[i]
         /\ "narration" \in l.cells <=> Narrated(rows, i)
  <1>1. /\ h \in DOMAIN F /\ Lists(F, FilledSet(rows), Len(rows)) /\ Len(F) = h + Len(r)
        /\ r \in Seq(LineType)
        /\ \A k \in DOMAIN r : h + k \in DOMAIN F /\ r[k] = Headed(head, Line(rows, F[h + k]))
    BY DEF Reading
  <1>2. Len(rows) \in Nat /\ FilledSet(rows) \subseteq 1..Len(rows) /\ DOMAIN rows = 1..Len(rows)
    BY DEF Documents, FilledSet
  <1>3. F \in Seq(Nat) /\ \A k \in DOMAIN F : F[k] \in DOMAIN rows
    BY <1>1, <1>2, Increasing
  <1>4. i \in DOMAIN rows /\ h + q \in DOMAIN F /\ q > 0 /\ q \in Nat /\ h \in Nat
    BY <1>1, <1>3
  <1>5. Top(rows) < i
    <2>1. h < h + q
      BY <1>4
    <2>2. F[h] < F[h + q]
      BY <1>1, <1>4, <2>1, FilledRows
    <2>3. Top(rows) = F[h]
      BY TopIs
    <2> QED
      BY <2>2, <2>3
  <1>6. ASSUME NEW x \in DOMAIN r
        PROVE  /\ r[x].at = F[h + x] /\ r[x].at \in DOMAIN rows
               /\ r[x].cells = View(rows)[r[x].at]
               /\ r[x].text = IF Told(rows, r[x].at) THEN {r[x].at} ELSE {}
    <2>1. PICK y \in DOMAIN rows : y = F[h + x]
      BY <1>1, <1>3
    <2>2. r[x] = Headed(head, Line(rows, y))
      BY <1>1, <2>1
    <2>3. /\ r[x].at = y /\ r[x].cells = Under(head, rows[y])
          /\ r[x].text = IF "narration" \in rows[y] /\ "narration" \notin Lost(head) THEN {y} ELSE {}
      <3>1. /\ Headed(head, Line(rows, y)).at = y /\ Headed(head, Line(rows, y)).cells = Under(head, rows[y])
            /\ Headed(head, Line(rows, y)).text =
                 IF "narration" \in rows[y] /\ "narration" \notin Lost(head) THEN {y} ELSE {}
        BY DEF Headed, Line
      <3> QED
        BY <2>2, <3>1
    <2>4. /\ View(rows)[y] = Under(head, rows[y])
          /\ Told(rows, y) <=> "narration" \in rows[y] /\ "narration" \notin Lost(head)
      BY ViewIs
    <2> QED
      BY <2>1, <2>3, <2>4
  <1>7. PICK A : A = After(head, r, q, Len(r))
    OBVIOUS
  <1>8. PICK C : C = {j \in DOMAIN rows : CarriesOn(rows, i, j)}
    OBVIOUS
  <1>9. {r[x].at : x \in A} = C /\ A \subseteq DOMAIN r
    BY <1>7, <1>8, AfterIs
  <1>10. /\ l.at = r[q].at /\ l.text = r[q].text \cup UNION {r[x].text : x \in A}
         /\ l.cells = r[q].cells \cup (IF A = {} THEN {} ELSE {"narration"})
    BY <1>7 DEF Joined
  <1>11. r[q].at = i
    BY <1>6
  <1>12. UNION {r[x].text : x \in A} = {j \in C : Told(rows, j)}
    <2>1. ASSUME NEW x \in A, NEW j \in r[x].text PROVE j \in C /\ Told(rows, j)
      <3>1. x \in DOMAIN r /\ r[x].at \in C
        BY <1>9
      <3>2. PICK y : y = r[x].at
        OBVIOUS
      <3>3. r[x].text = IF Told(rows, y) THEN {y} ELSE {}
        BY <1>6, <3>1, <3>2
      <3>4. Told(rows, y) /\ j = y
        BY <2>1, <3>3
      <3> QED
        BY <3>1, <3>2, <3>4
    <2>2. ASSUME NEW j \in C, Told(rows, j) PROVE \E x \in A : j \in r[x].text
      <3>1. PICK x \in A : r[x].at = j
        BY <1>9
      <3>2. x \in DOMAIN r
        BY <1>9
      <3> QED
        BY <1>6, <2>2, <3>1, <3>2
    <2> QED
      BY <2>1, <2>2
  <1>13. r[q].text = {j \in {i} : Told(rows, j)}
    BY <1>6, <1>11
  <1>14. Narration(rows, i) = {j \in {i} : Told(rows, j)} \cup {j \in C : Told(rows, j)}
    BY <1>4, <1>8 DEF Narration
  <1>15. "narration" \in l.cells <=> Narrated(rows, i)
    <2>1. r[q].cells = View(rows)[i]
      BY <1>6, <1>11
    <2>2. A = {} <=> C = {}
      BY <1>9
    <2> QED
      BY <1>8, <1>10, <2>1, <2>2 DEF Narrated
  <1>16. "date" \in l.cells <=> "date" \in View(rows)[i]
    <2>1. r[q].cells = View(rows)[i]
      BY <1>6, <1>11
    <2> QED
      BY <1>10, <2>1
  <1> QED
    BY <1>4, <1>5, <1>10, <1>11, <1>12, <1>13, <1>14, <1>15, <1>16

(* The first line below the header is the first filled row below it.       *)
LEMMA FirstBelow ==
  ASSUME NEW rows \in Documents, NEW F, NEW head, NEW h, NEW r, NEW o, NEW at, Reading(rows, F, head, h, r, o, at),
         NEW q \in DOMAIN r
  PROVE  (\A k \in Top(rows) + 1..F[h + q] - 1 : rows[k] = Blank) <=> q = 1
  <1>1. /\ h \in DOMAIN F /\ Lists(F, FilledSet(rows), Len(rows)) /\ r \in Seq(LineType)
        /\ \A k \in DOMAIN r : h + k \in DOMAIN F
    BY DEF Reading
  <1>2. /\ F \in Seq(Nat) /\ \A k \in DOMAIN F : F[k] \in DOMAIN rows /\ rows[F[k]] # Blank
        /\ \A j \in DOMAIN rows : rows[j] # Blank => \E k \in DOMAIN F : F[k] = j
        /\ \A a \in DOMAIN F : \A b \in DOMAIN F : a < b => F[a] < F[b]
        /\ \A a \in DOMAIN F : \A b \in DOMAIN F : F[a] < F[b] => a < b
    BY <1>1, FilledRows
  <1>3. PICK n \in Nat : DOMAIN rows = 1..n
    BY DEF Documents
  <1>4. PICK top \in 1..n, i \in 1..n : top = F[h] /\ i = F[h + q] /\ top = Top(rows)
    BY <1>1, <1>2, <1>3, TopIs
  <1>5. h \in Nat /\ q \in Nat \ {0} /\ h + q \in DOMAIN F
    BY <1>1, <1>2
  <1>6. ASSUME q = 1, NEW k \in top + 1..i - 1 PROVE rows[k] = Blank
    <2>1. SUFFICES ASSUME rows[k] # Blank PROVE FALSE
      OBVIOUS
    <2>2. k \in 1..n /\ top < k /\ k < i
      BY <1>4
    <2>3. PICK c \in DOMAIN F : F[c] = k
      BY <1>2, <1>3, <2>1, <2>2
    <2>4. h < c /\ c < h + q
      BY <1>1, <1>2, <1>4, <1>5, <2>2, <2>3
    <2>5. c \in Nat
      BY <1>2
    <2> QED
      BY <1>5, <1>6, <2>4, <2>5
  <1>7. ASSUME q # 1 PROVE \E k \in top + 1..i - 1 : rows[k] # Blank
    <2>1. 1 \in DOMAIN r /\ 1 < q
      BY <1>1, <1>5, <1>7
    <2>2. h + 1 \in DOMAIN F /\ h < h + 1 /\ h + 1 < h + q
      BY <1>1, <1>5, <2>1
    <2>3. PICK k \in 1..n : k = F[h + 1]
      BY <1>2, <1>3, <2>2
    <2>4. h \in DOMAIN F /\ h + q \in DOMAIN F
      BY <1>1, <1>5
    <2>5. F[h] < F[h + 1] /\ F[h + 1] < F[h + q] /\ rows[F[h + 1]] # Blank
      BY <1>2, <2>2, <2>4
    <2>6. top < k /\ k < i /\ rows[k] # Blank
      BY <1>4, <2>3, <2>5
    <2> QED
      BY <1>4, <2>6
  <1> QED
    BY <1>4, <1>6, <1>7

(* The transactions of the rows, one by one.                               *)
Entries(rows) ==
    {i \in DOMAIN rows : "date" \in View(rows)[i] /\ Narrated(rows, i) /\ Begins(rows, i)}

LEMMA PlacesOf ==
  ASSUME NEW rows, NEW F, NEW head, NEW h, NEW r, NEW o, NEW at, Reading(rows, F, head, h, r, o, at)
  PROVE  /\ o \in Seq(Nat) /\ at \in Seq(Nat)
         /\ \A p \in DOMAIN o : o[p] \in DOMAIN r /\ o[p] \in Kept(head, r)
         /\ \A q \in Kept(head, r) : \E p \in DOMAIN o : o[p] = q
         /\ \A a \in DOMAIN o : \A b \in DOMAIN o : a < b => o[a] < o[b]
         /\ \A a \in DOMAIN o : \A b \in DOMAIN o : o[a] = o[b] => a = b
         /\ \A k \in DOMAIN at : at[k] \in DOMAIN o /\ Readable(Joined(head, r, o[at[k]], Len(r)).cells)
         /\ \A p \in DOMAIN o : Readable(Joined(head, r, o[p], Len(r)).cells) => \E k \in DOMAIN at : at[k] = p
         /\ \A a \in DOMAIN at : \A b \in DOMAIN at : a < b => at[a] < at[b]
  <1>1. PICK n, S : n = Len(r) /\ S = Kept(head, r)
    OBVIOUS
  <1>2. n \in Nat /\ S \subseteq 1..n /\ Lists(o, S, n)
    <2>1. r \in Seq(LineType) /\ Lists(o, Kept(head, r), Len(r))
      BY DEF Reading
    <2> QED
      BY <1>1, <2>1 DEF Kept
  <1>3. /\ o \in Seq(Nat)
        /\ \A p \in DOMAIN o : o[p] \in S /\ o[p] \in 1..n
        /\ \A q \in S : \E p \in DOMAIN o : o[p] = q
        /\ \A a \in DOMAIN o : \A b \in DOMAIN o : a < b => o[a] < o[b]
        /\ \A a \in DOMAIN o : \A b \in DOMAIN o : o[a] < o[b] => a < b
        /\ \A a \in DOMAIN o : \A b \in DOMAIN o : o[a] = o[b] => a = b
    BY <1>2, Increasing, Zenon
  <1>4. PICK m, T : m = Len(o) /\ T = {p \in DOMAIN o : Readable(Joined(head, r, o[p], Len(r)).cells)}
    OBVIOUS
  <1>5. m \in Nat /\ T \subseteq 1..m /\ Lists(at, T, m)
    <2>1. Lists(at, T, m)
      BY <1>4, Zenon DEF Reading
    <2> QED
      BY <1>3, <1>4, <2>1
  <1>6. /\ at \in Seq(Nat)
        /\ \A k \in DOMAIN at : at[k] \in T /\ at[k] \in 1..m
        /\ \A p \in T : \E k \in DOMAIN at : at[k] = p
        /\ \A a \in DOMAIN at : \A b \in DOMAIN at : a < b => at[a] < at[b]
        /\ \A a \in DOMAIN at : \A b \in DOMAIN at : at[a] < at[b] => a < b
        /\ \A a \in DOMAIN at : \A b \in DOMAIN at : at[a] = at[b] => a = b
    BY <1>5, Increasing, Zenon
  <1>7. \A p \in DOMAIN o : o[p] \in DOMAIN r /\ o[p] \in Kept(head, r)
    BY <1>1, <1>3 DEF Kept
  <1>8. \A k \in DOMAIN at : at[k] \in DOMAIN o /\ Readable(Joined(head, r, o[at[k]], Len(r)).cells)
    BY <1>4, <1>6
  <1>9. \A p \in DOMAIN o : Readable(Joined(head, r, o[p], Len(r)).cells) => \E k \in DOMAIN at : at[k] = p
    BY <1>4, <1>6
  <1> QED
    BY <1>1, <1>3, <1>6, <1>7, <1>8, <1>9

LEMMA EachIs ==
  ASSUME NEW rows \in Documents, NEW F, NEW head, NEW h, NEW r, NEW o, NEW at, Reading(rows, F, head, h, r, o, at),
         NEW k \in DOMAIN at, NEW t, t = ParseRows(rows)[k]
  PROVE  /\ t.number = at[k] /\ at[k] \in DOMAIN o /\ o[at[k]] \in DOMAIN r
         /\ t.at = F[h + o[at[k]]] /\ t.at \in Entries(rows) /\ t.text = Narration(rows, t.at)
  <1>1. PICK q : q = o[at[k]]
    OBVIOUS
  <1>2. PICK l : l = Joined(head, r, q, Len(r))
    OBVIOUS
  <1>3. at[k] \in DOMAIN o /\ q \in DOMAIN r /\ Readable(l.cells)
    BY <1>1, <1>2, PlacesOf
  <1>4. t = Transaction(at[k], l, None)
    <2>1. ParseRows(rows) = [n \in DOMAIN at |-> Transaction(at[n], Joined(head, r, o[at[n]], Len(r)), None)]
      BY DEF Reading
    <2> QED
      BY <1>1, <1>2, <2>1
  <1>5. t.number = at[k] /\ t.at = l.at /\ t.text = l.text
    BY <1>4 DEF Transaction
  <1>6. PICK i : i = F[h + q]
    OBVIOUS
  <1>7. /\ i \in DOMAIN rows /\ Top(rows) < i /\ l.at = i /\ l.text = Narration(rows, i)
        /\ "date" \in l.cells <=> "date" \in View(rows)[i]
        /\ "narration" \in l.cells <=> Narrated(rows, i)
    BY <1>2, <1>3, <1>6, JoinedIs
  <1>8. i \in Entries(rows)
    <2>1. "date" \in View(rows)[i] /\ Narrated(rows, i)
      BY <1>3, <1>7 DEF Readable
    <2>2. q = 1 \/ ~Joins(rows, i)
      <3>1. q = 1 \/ ~Continues(head, r[q].cells)
        BY <1>1, <1>3, PlacesOf DEF Kept
      <3>2. r[q] = Headed(head, Line(rows, i))
        BY <1>3, <1>6 DEF Reading
      <3>3. r[q].cells = Under(head, rows[i])
        <4>1. Headed(head, Line(rows, i)).cells = Under(head, rows[i])
          BY DEF Headed, Line
        <4> QED
          BY <3>2, <4>1
      <3>4. Joins(rows, i) <=> Continues(head, Under(head, rows[i]))
        BY <1>7, ViewIs
      <3> QED
        BY <3>1, <3>3, <3>4
    <2>3. Joins(rows, i) => \A x \in Top(rows) + 1..i - 1 : rows[x] = Blank
      BY <1>3, <1>6, <2>2, FirstBelow
    <2>4. i > Top(rows)
      <3>1. i \in Nat /\ Top(rows) \in Nat
        <4>1. DOMAIN rows \subseteq Nat /\ h \in DOMAIN F /\ Lists(F, FilledSet(rows), Len(rows))
          BY DEF Documents, Reading
        <4>2. F[h] \in DOMAIN rows
          BY <4>1, FilledRows
        <4> QED
          BY <1>7, <4>1, <4>2, TopIs
      <3> QED
        BY <1>7, <3>1
    <2> QED
      BY <1>7, <2>1, <2>3, <2>4 DEF Entries, Begins
  <1> QED
    BY <1>1, <1>3, <1>5, <1>6, <1>7, <1>8

LEMMA EachEntry ==
  ASSUME NEW rows \in Documents, NEW F, NEW head, NEW h, NEW r, NEW o, NEW at, Reading(rows, F, head, h, r, o, at),
         NEW i \in Entries(rows)
  PROVE  \E k \in DOMAIN at : F[h + o[at[k]]] = i
  <1>1. /\ h \in DOMAIN F /\ Lists(F, FilledSet(rows), Len(rows)) /\ Len(F) = h + Len(r)
        /\ r \in Seq(LineType)
        /\ \A k \in DOMAIN r : h + k \in DOMAIN F /\ r[k] = Headed(head, Line(rows, F[h + k]))
    BY DEF Reading
  <1>2. i \in DOMAIN rows /\ "date" \in View(rows)[i] /\ Top(rows) < i /\ Narrated(rows, i)
    <2>1. i \in DOMAIN rows /\ "date" \in View(rows)[i] /\ i > Top(rows) /\ Narrated(rows, i)
      BY DEF Entries, Begins
    <2>2. Top(rows) \in Nat /\ i \in Nat
      <3>1. Top(rows) = F[h]
        BY TopIs
      <3>2. F[h] \in DOMAIN rows /\ DOMAIN rows \subseteq Nat
        BY <1>1, FilledRows DEF Documents
      <3> QED
        BY <2>1, <3>1, <3>2
    <2> QED
      BY <2>1, <2>2
  <1>3. PICK c \in DOMAIN F : F[c] = i
    <2>1. rows[i] # Blank
      <3>1. View(rows)[i] = Under(head, rows[i])
        BY <1>2, ViewIs
      <3>2. "date" \in Under(head, rows[i])
        BY <1>2, <3>1
      <3>3. "date" \in rows[i]
        BY <3>2 DEF Under
      <3> QED
        BY <3>3 DEF Blank
    <2> QED
      BY <1>1, <1>2, <2>1, FilledRows
  <1>4. h < c
    <2>1. F[h] < F[c]
      BY <1>2, <1>3, TopIs
    <2> QED
      BY <1>1, <2>1, FilledRows
  <1>5. PICK q \in DOMAIN r : c = h + q
    <2>1. PICK n \in Nat, f \in Nat : n = Len(r) /\ f = Len(F) /\ DOMAIN r = 1..n /\ DOMAIN F = 1..f
      <3>1. Len(r) \in Nat /\ DOMAIN r = 1..Len(r)
        BY <1>1
      <3>2. Len(F) \in Nat /\ DOMAIN F = 1..Len(F)
        BY <1>1, FilledRows
      <3> QED
        BY <3>1, <3>2
    <2>2. f = h + n /\ h \in 1..f /\ c \in 1..f
      BY <1>1, <2>1
    <2>3. c - h \in 1..n /\ c = h + (c - h)
      BY <1>4, <2>1, <2>2
    <2> QED
      BY <2>1, <2>3
  <1>6. q \in Kept(head, r)
    <2>1. r[q] = Headed(head, Line(rows, i))
      BY <1>1, <1>3, <1>5
    <2>2. r[q].cells = Under(head, rows[i])
      <3>1. Headed(head, Line(rows, i)).cells = Under(head, rows[i])
        BY DEF Headed, Line
      <3> QED
        BY <2>1, <3>1
    <2>3. Joins(rows, i) <=> Continues(head, r[q].cells)
      BY <1>2, <2>2, ViewIs
    <2>4. Joins(rows, i) => q = 1
      <3>1. Joins(rows, i) => \A k \in Top(rows) + 1..i - 1 : rows[k] = Blank
        BY DEF Entries, Begins
      <3> QED
        BY <1>3, <1>5, <3>1, FirstBelow
    <2> QED
      BY <2>3, <2>4 DEF Kept
  <1>7. PICK p \in DOMAIN o : o[p] = q
    BY <1>6, PlacesOf
  <1>8. PICK l : l = Joined(head, r, q, Len(r))
    OBVIOUS
  <1>9. Readable(l.cells)
    <2>1. i = F[h + q]
      BY <1>3, <1>5
    <2>2. /\ "date" \in l.cells <=> "date" \in View(rows)[i]
          /\ "narration" \in l.cells <=> Narrated(rows, i)
      BY <1>8, <2>1, JoinedIs
    <2> QED
      BY <1>2, <2>2 DEF Readable
  <1>10. \E k \in DOMAIN at : at[k] = p
    BY <1>7, <1>8, <1>9, PlacesOf
  <1> QED
    BY <1>3, <1>5, <1>7, <1>10

LEMMA RowsAre ==
  ASSUME NEW rows \in Documents, ParseRows(rows) # <<>>
  PROVE  AreRows("rows", ParseRows(rows), rows)
  <1>1. PICK ts : ts = ParseRows(rows)
    OBVIOUS
  <1>2. PICK F, head, h, r, o, at : Reading(rows, F, head, h, r, o, at)
    BY ReadingIs
  <1>3. DOMAIN ts = DOMAIN at
    BY <1>1, <1>2 DEF Reading
  <1>4. \A k \in DOMAIN ts :
          /\ ts[k].number = at[k] /\ at[k] \in DOMAIN o /\ o[at[k]] \in DOMAIN r
          /\ ts[k].at = F[h + o[at[k]]] /\ ts[k].at \in Entries(rows)
          /\ ts[k].text = Narration(rows, ts[k].at)
    BY <1>1, <1>2, <1>3, EachIs
  <1>5. ASSUME NEW k \in DOMAIN ts \ {1}
        PROVE  ts[k - 1].at < ts[k].at /\ ts[k - 1].number < ts[k].number
    <2>1. k - 1 \in DOMAIN at /\ k \in DOMAIN at /\ k - 1 < k
      <3>1. at \in Seq(Nat)
        BY <1>2, PlacesOf
      <3>2. PICK m \in Nat : DOMAIN at = 1..m
        BY <3>1
      <3> QED
        BY <1>3, <3>2
    <2>2. at[k - 1] < at[k]
      BY <1>2, <2>1, PlacesOf
    <2>3. PICK a, b : a = at[k - 1] /\ b = at[k]
      OBVIOUS
    <2>4. a \in DOMAIN o /\ b \in DOMAIN o /\ a < b
      BY <1>3, <1>4, <2>1, <2>2, <2>3
    <2>5. o[a] < o[b] /\ o[a] \in DOMAIN r /\ o[b] \in DOMAIN r
      BY <1>2, <2>4, PlacesOf
    <2>6. /\ h + o[a] < h + o[b] /\ h + o[a] \in DOMAIN F /\ h + o[b] \in DOMAIN F
          /\ Lists(F, FilledSet(rows), Len(rows))
      <3>1. /\ h \in DOMAIN F /\ Lists(F, FilledSet(rows), Len(rows)) /\ r \in Seq(LineType)
            /\ \A q \in DOMAIN r : h + q \in DOMAIN F
        BY <1>2 DEF Reading
      <3>2. F \in Seq(Nat)
        BY <3>1, FilledRows
      <3>3. h \in Nat /\ o[a] \in Nat /\ o[b] \in Nat
        BY <2>5, <3>1, <3>2
      <3> QED
        BY <2>5, <3>1, <3>3
    <2>7. F[h + o[a]] < F[h + o[b]]
      BY <2>6, FilledRows
    <2> QED
      BY <1>3, <1>4, <2>1, <2>2, <2>3, <2>7
  <1>6. {ts[k].at : k \in DOMAIN ts} = Entries(rows)
    <2>1. \A i \in Entries(rows) : \E k \in DOMAIN ts : ts[k].at = i
      BY <1>2, <1>3, <1>4, EachEntry
    <2> QED
      BY <1>4, <2>1
  <1>7. AreRows("rows", ts, rows)
    BY <1>4, <1>5, <1>6 DEF AreRows, Entries
  <1> QED
    BY <1>1, <1>7

(* With nothing shifted above it, a row has the confidence of its own line.*)
LEMMA Unshifted ==
  ASSUME NEW rows \in Documents, NEW F, NEW head, NEW h, NEW r, NEW o, NEW at, Reading(rows, F, head, h, r, o, at),
         NEW p \in DOMAIN o, NEW q, q = o[p], NEW i, i = F[h + q], ~Shifted(rows, i)
  PROVE  /\ h + p = i /\ i <= Len(rows)
         /\ h = IF DetectColumns(rows) = 0 THEN 1 ELSE DetectColumns(rows)
  <1>1. /\ h \in DOMAIN F /\ Lists(F, FilledSet(rows), Len(rows)) /\ Len(F) = h + Len(r)
        /\ r \in Seq(LineType)
        /\ \A k \in DOMAIN r : h + k \in DOMAIN F /\ r[k] = Headed(head, Line(rows, F[h + k]))
        /\ h = DetectColumns([k \in DOMAIN F |-> rows[F[k]]])
        /\ Lists(o, Kept(head, r), Len(r))
    BY DEF Reading
  <1>2. PICK n \in Nat : n = Len(rows) /\ DOMAIN rows = 1..n /\ FilledSet(rows) \subseteq 1..n
    BY DEF Documents, FilledSet
  <1>3. q \in DOMAIN r /\ q \in Nat \ {0} /\ q <= Len(r) /\ Len(r) \in Nat
    BY <1>1, PlacesOf
  <1>4. PICK m \in Nat : DOMAIN F = 1..m /\ F \in Seq(Nat) /\ Len(F) = m
    <2>1. F \in Seq(Nat)
      BY <1>1, FilledRows
    <2>2. Len(F) \in Nat /\ DOMAIN F = 1..Len(F)
      BY <2>1
    <2> QED
      BY <2>1, <2>2
  <1>5. h \in 1..m /\ h + q \in 1..m /\ i \in 1..n
    BY <1>1, <1>2, <1>3, <1>4, FilledRows
  <1>6. \A k \in 1..i : rows[k] # Blank /\ (k < i /\ k > Top(rows) => ~Joins(rows, k))
    <2> SUFFICES ASSUME NEW k \in 1..i PROVE rows[k] # Blank /\ (k < i /\ k > Top(rows) => ~Joins(rows, k))
      OBVIOUS
    <2>1. CASE k = i
      <3>1. PICK c \in DOMAIN F : i = F[c]
        BY <1>4, <1>5
      <3>2. rows[i] # Blank
        BY <1>1, <3>1, FilledRows
      <3> QED
        BY <1>5, <2>1, <3>2
    <2>2. CASE k # i
      <3>1. k \in 1..i - 1
        BY <1>5, <2>2
      <3> QED
        BY <3>1 DEF Shifted
    <2> QED
      BY <2>1, <2>2
  <1>7. \A k \in 1..i : k \in DOMAIN F /\ F[k] = k
    <2>1. 1..i \subseteq FilledSet(rows) /\ i \in 0..n
      BY <1>2, <1>5, <1>6 DEF FilledSet
    <2>2. i <= Len(F) /\ \A k \in 1..i : F[k] = k
      BY <1>1, <1>2, <2>1 DEF Lists
    <2> QED
      BY <1>4, <1>5, <2>2
  <1>8. h + q = i
    <2>1. i \in 1..i /\ h + q \in DOMAIN F
      BY <1>4, <1>5
    <2>2. F[h + q] = F[i] /\ i \in DOMAIN F
      BY <1>7, <2>1
    <2> QED
      BY <1>1, <2>1, <2>2, FilledRows
  <1>9. o[q] = q /\ q \in DOMAIN o
    <2>1. ASSUME NEW y \in 1..q PROVE y \in Kept(head, r)
      <3>1. h + y \in 1..i /\ y \in DOMAIN r /\ y \in Nat \ {0} /\ (y = q \/ h + y < i)
        BY <1>1, <1>3, <1>5, <1>8
      <3>2. CASE y = q
        <4>1. q \in Kept(head, r)
          BY PlacesOf
        <4> QED
          BY <3>2, <4>1
      <3>3. CASE h + y < i
        <4>1. F[h + y] = h + y
          BY <1>7, <3>1
        <4>2. r[y] = Headed(head, Line(rows, h + y))
          BY <1>1, <3>1, <4>1
        <4>3. r[y].cells = Under(head, rows[h + y])
          <5>1. Headed(head, Line(rows, h + y)).cells = Under(head, rows[h + y])
            BY DEF Headed, Line
          <5> QED
            BY <4>2, <5>1
        <4>4. h + y > Top(rows)
          <5>1. Top(rows) = h
            <6>1. h \in 1..i
              BY <1>3, <1>5, <1>8
            <6> QED
              BY <1>7, <6>1, TopIs
          <5> QED
            BY <1>5, <3>1, <5>1
        <4>5. ~Joins(rows, h + y)
          BY <1>6, <3>1, <3>3, <4>4
        <4>6. h + y \in DOMAIN rows
          BY <1>2, <1>5, <3>1
        <4>7. ~Continues(head, r[y].cells)
          BY <4>3, <4>5, <4>6, ViewIs
        <4> QED
          BY <3>1, <4>7 DEF Kept
      <3> QED
        BY <3>1, <3>2, <3>3
    <2>2. q \in 0..Len(r) /\ q \in 1..q
      BY <1>3
    <2>3. q <= Len(o) /\ o[q] = q
      BY <1>1, <2>1, <2>2 DEF Lists
    <2>4. o \in Seq(Nat)
      BY PlacesOf
    <2> QED
      BY <1>3, <2>3, <2>4
  <1>10. p = q
    BY <1>9, PlacesOf
  <1>11. h = IF DetectColumns(rows) = 0 THEN 1 ELSE DetectColumns(rows)
    <2>1. PICK cells : cells = [k \in DOMAIN F |-> rows[F[k]]]
      OBVIOUS
    <2>2. cells \in Seq(SUBSET Cell) /\ Len(cells) = m
      <3>1. \A k \in 1..m : cells[k] \in SUBSET Cell
        <4>1. \A k \in 1..m : F[k] \in DOMAIN rows
          BY <1>1, <1>4, FilledRows
        <4> QED
          BY <1>4, <2>1, <4>1 DEF Documents
      <3> QED
        BY <1>4, <2>1, <3>1
    <2>3. PICK A : A = {k \in 1..m : k <= HeaderWindow /\ cells[k] = Header}
      OBVIOUS
    <2>4. PICK B : B = {k \in 1..n : k <= HeaderWindow /\ rows[k] = Header}
      OBVIOUS
    <2>5. /\ h = IF A # {} THEN Min(A) ELSE IF file.columns THEN 1 ELSE 0
          /\ A # {} => Min(A) \in A /\ \A k \in A : Min(A) <= k
      BY <1>1, <2>1, <2>2, <2>3, Header1
    <2>6. /\ DetectColumns(rows) = IF B # {} THEN Min(B) ELSE IF file.columns THEN 1 ELSE 0
          /\ B # {} => Min(B) \in B /\ \A k \in B : Min(B) <= k
      BY <1>2, <2>4, Header1 DEF Documents
    <2>7. h \in 1..i
      BY <1>3, <1>5, <1>8
    <2>8. \A k \in 1..i : k \in A <=> k \in B
      <3>1. \A k \in 1..i : k \in 1..m /\ cells[k] = rows[k] /\ k \in 1..n
        BY <1>4, <1>5, <1>7, <2>1
      <3> QED
        BY <2>3, <2>4, <3>1
    <2>9. CASE A # {}
      <3>1. h \in A /\ h \in B /\ \A k \in A : h <= k
        BY <2>5, <2>7, <2>8, <2>9
      <3>2. ASSUME NEW k \in B PROVE h <= k
        <4>1. CASE k \in 1..i
          BY <2>8, <3>1, <4>1
        <4>2. CASE k \notin 1..i
          BY <2>4, <2>7, <1>5, <4>2
        <4> QED
          BY <4>1, <4>2
      <3>3. B # {} /\ Min(B) \in B /\ Min(B) <= h /\ h <= Min(B)
        BY <2>6, <3>1, <3>2
      <3>4. h = Min(B) /\ h # 0
        BY <1>5, <2>4, <3>3
      <3> QED
        BY <2>6, <3>3, <3>4
    <2>10. CASE A = {}
      <3>1. h = 1
        BY <1>5, <2>5, <2>10
      <3>2. B = {}
        <4> SUFFICES ASSUME NEW k \in B PROVE FALSE
          OBVIOUS
        <4>1. rows[k] # Blank /\ k \in DOMAIN rows /\ k <= HeaderWindow /\ rows[k] = Header
          BY <1>2, <2>4, HeaderFilled
        <4>2. PICK c \in DOMAIN F : F[c] = k
          BY <1>1, <4>1, FilledRows
        <4>3. c <= k
          <5>1. PICK S : S = FilledSet(rows)
            OBVIOUS
          <5>2. Lists(F, S, n) /\ S \subseteq 1..n
            BY <1>1, <1>2, <5>1
          <5> QED
            BY <4>2, <5>2, NoEarlier
        <4>4. c \in 1..m /\ c <= HeaderWindow
          <5>1. HeaderWindow \in Nat /\ c \in Nat /\ k \in Nat
            BY <1>2, <1>4, <4>1, <4>2, ReadingAssumption
          <5> QED
            BY <1>4, <4>1, <4>3, <5>1
        <4>5. cells[c] = Header
          BY <2>1, <4>1, <4>2
        <4> QED
          BY <2>3, <2>10, <4>4, <4>5
      <3> QED
        BY <2>5, <2>6, <2>10, <3>1, <3>2
    <2> QED
      BY <2>9, <2>10
  <1> QED
    BY <1>2, <1>5, <1>8, <1>10, <1>11

LEMMA OcrAre ==
  ASSUME NEW rows \in Documents, ParseRows(rows) # <<>>
  PROVE  AreRows("ocr", WithConfidence(ParseRows(rows), rows), rows)
  <1>1. PICK ts, us : ts = ParseRows(rows) /\ us = WithConfidence(ts, rows)
    OBVIOUS
  <1>2. PICK F, head, h, r, o, at : Reading(rows, F, head, h, r, o, at)
    BY ReadingIs
  <1>3. PICK top : top = IF DetectColumns(rows) = 0 THEN 1 ELSE DetectColumns(rows)
    OBVIOUS
  <1>4. DOMAIN ts = DOMAIN at
    BY <1>1, <1>2 DEF Reading
  <1>5. \A k \in DOMAIN ts :
          /\ ts[k].number = at[k] /\ at[k] \in DOMAIN o /\ o[at[k]] \in DOMAIN r
          /\ ts[k].at = F[h + o[at[k]]] /\ ts[k].at \in Entries(rows)
          /\ ts[k].text = Narration(rows, ts[k].at)
    BY <1>1, <1>2, <1>4, EachIs
  <1>6. us = [k \in DOMAIN ts |-> [ts[k] EXCEPT !.confidence =
               IF top + ts[k].number <= Len(rows) THEN top + ts[k].number ELSE None]]
    BY <1>1, <1>3 DEF WithConfidence
  <1>7. ASSUME NEW k \in DOMAIN ts
        PROVE  us[k].at = ts[k].at /\ us[k].number = ts[k].number /\ us[k].text = ts[k].text
               /\ us[k].confidence = IF top + ts[k].number <= Len(rows) THEN top + ts[k].number ELSE None
    <2>1. ts[k] = Transaction(at[k], Joined(head, r, o[at[k]], Len(r)), None)
      BY <1>1, <1>2, <1>4 DEF Reading
    <2>2. PICK number, l : number = at[k] /\ l = Joined(head, r, o[at[k]], Len(r))
      OBVIOUS
    <2>3. PICK c : c = IF top + ts[k].number <= Len(rows) THEN top + ts[k].number ELSE None
      OBVIOUS
    <2>4. us[k] = [ts[k] EXCEPT !.confidence = c]
      BY <1>6, <2>3
    <2>5. ts[k] = [number |-> number, at |-> l.at, text |-> l.text, confidence |-> None]
      BY <2>1, <2>2 DEF Transaction
    <2> QED
      BY <2>3, <2>4, <2>5
  <1>8. AreRows("rows", ts, rows)
    BY <1>1, RowsAre
  <1>9. DOMAIN us = DOMAIN ts
    BY <1>6
  <1>10. \A k \in DOMAIN us \ {1} : us[k - 1].at < us[k].at /\ us[k - 1].number < us[k].number
    <2>1. ASSUME NEW k \in DOMAIN ts \ {1} PROVE k - 1 \in DOMAIN ts
      <3>1. at \in Seq(Nat)
        BY <1>2, PlacesOf
      <3>2. PICK m \in Nat : DOMAIN at = 1..m
        BY <3>1
      <3> QED
        BY <1>4, <3>2
    <2>2. \A k \in DOMAIN ts \ {1} : ts[k - 1].at < ts[k].at /\ ts[k - 1].number < ts[k].number
      BY <1>8, Zenon DEF AreRows
    <2> QED
      BY <1>7, <1>9, <2>1, <2>2
  <1>11. {us[k].at : k \in DOMAIN us} = Entries(rows)
    <2>1. \A i \in Entries(rows) : \E k \in DOMAIN ts : ts[k].at = i
      BY <1>2, <1>4, <1>5, EachEntry
    <2> QED
      BY <1>5, <1>7, <1>9, <2>1
  <1>12. ASSUME NEW k \in DOMAIN us
         PROVE  us[k].text = Narration(rows, us[k].at)
                /\ (us[k].confidence = us[k].at \/ Shifted(rows, us[k].at))
    <2>1. us[k].text = Narration(rows, us[k].at)
      BY <1>5, <1>7, <1>9
    <2>2. PICK p, q, i : p = at[k] /\ q = o[p] /\ i = F[h + q]
      OBVIOUS
    <2>3. p \in DOMAIN o /\ ts[k].number = p /\ ts[k].at = i
      BY <1>5, <1>9, <2>2
    <2>4. ASSUME ~Shifted(rows, i) PROVE us[k].confidence = i
      <3>1. h + p = i /\ i <= Len(rows) /\ h = top
        BY <1>2, <1>3, <2>2, <2>3, <2>4, Unshifted
      <3> QED
        BY <1>7, <1>9, <2>3, <3>1
    <2> QED
      BY <1>7, <1>9, <2>1, <2>3, <2>4
  <1>13. AreRows("ocr", us, rows)
    BY <1>10, <1>11, <1>12 DEF AreRows, Entries
  <1> QED
    BY <1>1, <1>13

-----------------------------------------------------------------------------
(* The text layer, and rows without a header.                              *)

LEMMA ListIs ==
  ASSUME NEW rows \in Documents, NEW S, S \subseteq DOMAIN rows, NEW at, Lists(at, S, Len(rows))
  PROVE  /\ \A k \in DOMAIN at : at[k] \in S /\ k \in Nat
         /\ \A x \in S : \E k \in DOMAIN at : at[k] = x
         /\ \A k \in DOMAIN at \ {1} : k - 1 \in DOMAIN at /\ at[k - 1] < at[k]
         /\ at = <<>> <=> S = {}
  <1>1. Len(rows) \in Nat /\ DOMAIN rows = 1..Len(rows)
    BY DEF Documents
  <1>2. PICK n : n = Len(rows)
    OBVIOUS
  <1>3. /\ at \in Seq(Nat)
        /\ \A k \in DOMAIN at : at[k] \in S
        /\ \A x \in S : \E k \in DOMAIN at : at[k] = x
        /\ \A a \in DOMAIN at : \A b \in DOMAIN at : a < b => at[a] < at[b]
    <2>1. n \in Nat /\ S \subseteq 1..n /\ Lists(at, S, n)
      BY <1>1, <1>2
    <2>2. \A x \in S : x <= n
      BY <2>1
    <2> QED
      BY <2>1, <2>2 DEF Lists
  <1>4. PICK m \in Nat : m = Len(at) /\ DOMAIN at = 1..m
    BY <1>3
  <1>5. \A k \in DOMAIN at \ {1} : k - 1 \in DOMAIN at /\ at[k - 1] < at[k]
    <2>1. \A k \in 1..m \ {1} : k - 1 \in 1..m /\ k - 1 < k
      OBVIOUS
    <2> QED
      BY <1>3, <1>4, <2>1
  <1>6. at = <<>> <=> S = {}
    <2>1. S = {} <=> m = 0
      BY <1>3, <1>4
    <2> QED
      BY <1>3, <1>4, <2>1
  <1> QED
    BY <1>3, <1>4, <1>5, <1>6

Entire(rows) == {i \in DOMAIN rows : Complete(rows[i])}
Narrations(rows) == {i \in DOMAIN rows : "narration" \in rows[i]}

LEMMA OwnNarration ==
  ASSUME NEW rows \in Documents, NEW i \in DOMAIN rows
  PROVE  Line(rows, i).text = {i} \cap Narrations(rows) /\ Line(rows, i).at = i
  BY DEF Line, Narrations

LEMMA TextAre ==
  ASSUME NEW rows \in Documents
  PROVE  /\ AreRows("text", ParseText(rows), rows)
         /\ ParseText(rows) = <<>> <=> Entire(rows) = {}
  <1>1. PICK S, at, ts : S = Entire(rows) /\ at = Ordered(S, Len(rows)) /\ ts = ParseText(rows)
    OBVIOUS
  <1>2. ts = [k \in DOMAIN at |-> Transaction(k, Line(rows, at[k]), None)]
    BY <1>1 DEF ParseText, Entire
  <1>3. S \subseteq DOMAIN rows
    BY <1>1 DEF Entire
  <1>4. /\ \A k \in DOMAIN at : at[k] \in S /\ k \in Nat
        /\ \A x \in S : \E k \in DOMAIN at : at[k] = x
        /\ \A k \in DOMAIN at \ {1} : k - 1 \in DOMAIN at /\ at[k - 1] < at[k]
        /\ at = <<>> <=> S = {}
    <2>1. Lists(at, S, Len(rows))
      <3>1. Len(rows) \in Nat /\ DOMAIN rows = 1..Len(rows)
        BY DEF Documents
      <3> QED
        BY <1>1, <1>3, <3>1, OrderedLists
    <2> QED
      BY <1>3, <2>1, ListIs
  <1>5. DOMAIN ts = DOMAIN at
    BY <1>2
  <1>6. ASSUME NEW k \in DOMAIN at
        PROVE  ts[k].number = k /\ ts[k].at = at[k] /\ ts[k].text = {at[k]} \cap Narrations(rows)
    <2>1. PICK l : l = Line(rows, at[k])
      OBVIOUS
    <2>2. l.at = at[k] /\ l.text = {at[k]} \cap Narrations(rows)
      BY <1>3, <1>4, <2>1, OwnNarration
    <2>3. ts[k] = Transaction(k, l, None)
      BY <1>2, <2>1
    <2> QED
      BY <2>2, <2>3 DEF Transaction
  <1>7. \A k \in DOMAIN ts \ {1} : ts[k - 1].at < ts[k].at /\ ts[k - 1].number < ts[k].number
    BY <1>4, <1>5, <1>6
  <1>8. {ts[k].at : k \in DOMAIN ts} = S
    BY <1>4, <1>5, <1>6
  <1>9. S = {i \in Dated(rows) : Complete(rows[i])}
    BY <1>1 DEF Entire, Dated, Complete
  <1>10. \A k \in DOMAIN ts : ts[k].text = {ts[k].at} \cap Narrations(rows)
    BY <1>5, <1>6
  <1>11. AreRows("text", ts, rows)
    BY <1>7, <1>8, <1>9, <1>10 DEF AreRows, Narrations
  <1>12. ts = <<>> <=> S = {}
    <2>1. ts = <<>> <=> DOMAIN ts = {}
      BY <1>2
    <2>2. S = {} <=> DOMAIN at = {}
      BY <1>4
    <2> QED
      BY <1>5, <2>1, <2>2
  <1> QED
    BY <1>1, <1>11, <1>12

LEMMA DatesAre ==
  ASSUME NEW rows \in Documents
  PROVE  /\ AreRows("dates", DatedRows(rows), rows)
         /\ DatedRows(rows) = <<>> <=> Dated(rows) = {}
  <1>1. PICK S, at, ts : S = Dated(rows) /\ at = Ordered(S, Len(rows)) /\ ts = DatedRows(rows)
    OBVIOUS
  <1>2. ts = [k \in DOMAIN at |-> Transaction(k, Line(rows, at[k]), at[k])]
    BY <1>1 DEF DatedRows, Dated
  <1>3. S \subseteq DOMAIN rows
    BY <1>1 DEF Dated
  <1>4. /\ \A k \in DOMAIN at : at[k] \in S /\ k \in Nat
        /\ \A x \in S : \E k \in DOMAIN at : at[k] = x
        /\ \A k \in DOMAIN at \ {1} : k - 1 \in DOMAIN at /\ at[k - 1] < at[k]
        /\ at = <<>> <=> S = {}
    <2>1. Lists(at, S, Len(rows))
      <3>1. Len(rows) \in Nat /\ DOMAIN rows = 1..Len(rows)
        BY DEF Documents
      <3> QED
        BY <1>1, <1>3, <3>1, OrderedLists
    <2> QED
      BY <1>3, <2>1, ListIs
  <1>5. DOMAIN ts = DOMAIN at
    BY <1>2
  <1>6. ASSUME NEW k \in DOMAIN at
        PROVE  /\ ts[k].number = k /\ ts[k].at = at[k] /\ ts[k].text = {at[k]} \cap Narrations(rows)
               /\ ts[k].confidence = at[k]
    <2>1. PICK l : l = Line(rows, at[k])
      OBVIOUS
    <2>2. l.at = at[k] /\ l.text = {at[k]} \cap Narrations(rows)
      BY <1>3, <1>4, <2>1, OwnNarration
    <2>3. ts[k] = Transaction(k, l, at[k])
      BY <1>2, <2>1
    <2> QED
      BY <2>2, <2>3 DEF Transaction
  <1>7. \A k \in DOMAIN ts \ {1} : ts[k - 1].at < ts[k].at /\ ts[k - 1].number < ts[k].number
    BY <1>4, <1>5, <1>6
  <1>8. {ts[k].at : k \in DOMAIN ts} = Dated(rows)
    BY <1>1, <1>4, <1>5, <1>6
  <1>9. \A k \in DOMAIN ts : /\ ts[k].text = {ts[k].at} \cap Narrations(rows)
                             /\ ts[k].confidence = ts[k].at
    BY <1>5, <1>6
  <1>10. AreRows("dates", ts, rows)
    BY <1>7, <1>8, <1>9 DEF AreRows, Narrations
  <1>11. ts = <<>> <=> S = {}
    <2>1. ts = <<>> <=> DOMAIN ts = {}
      BY <1>2
    <2>2. S = {} <=> DOMAIN at = {}
      BY <1>4
    <2> QED
      BY <1>5, <2>1, <2>2
  <1> QED
    BY <1>1, <1>10, <1>11

-----------------------------------------------------------------------------
(* The documents of a reading: its file, what is visible of it, what local *)
(* OCR sees.                                                               *)

LEMMA BlankDocument ==
  ASSUME NEW rows \in Documents, \A i \in DOMAIN rows : rows[i] = Blank
  PROVE  ParseRows(rows) = <<>>
  <1> SUFFICES ASSUME ParseRows(rows) # <<>> PROVE FALSE
    OBVIOUS
  <1>1. PICK F, head, h, r, o, at : Reading(rows, F, head, h, r, o, at)
    BY ReadingIs
  <1>2. h \in DOMAIN F /\ Lists(F, FilledSet(rows), Len(rows))
    BY <1>1 DEF Reading
  <1>3. F[h] \in DOMAIN rows /\ rows[F[h]] # Blank
    BY <1>2, FilledRows
  <1> QED
    BY <1>3

LEMMA Seen ==
  ASSUME file.rows \in Seq(Row)
  PROVE  /\ file.rows \in Documents /\ Visible \in Documents
         /\ pdf.text = "all" => Visible = file.rows
         /\ pdf.text # "all" => \A i \in DOMAIN Visible : Visible[i] = Blank
  <1>1. PICK rows : rows = file.rows
    OBVIOUS
  <1>2. \A row \in Row : row \in SUBSET Cell
    BY ReadingAssumption
  <1>3. rows \in Documents
    <2>1. PICK n \in Nat : DOMAIN rows = 1..n /\ \A i \in 1..n : rows[i] \in Row
      BY <1>1
    <2>2. rows = [i \in 1..n |-> rows[i]] /\ \A i \in 1..n : rows[i] \in SUBSET Cell
      BY <1>1, <1>2, <2>1
    <2> QED
      BY <2>1, <2>2 DEF Documents
  <1>4. CASE pdf.text = "all"
    BY <1>1, <1>3, <1>4 DEF Visible
  <1>5. CASE pdf.text # "all"
    <2>1. Visible = [i \in DOMAIN rows |-> Blank]
      BY <1>1, <1>5 DEF Visible
    <2>2. PICK n \in Nat : DOMAIN rows = 1..n
      BY <1>1
    <2>3. Blank \in SUBSET Cell
      BY DEF Blank
    <2>4. Visible \in Documents
      BY <2>1, <2>2, <2>3 DEF Documents
    <2> QED
      BY <1>1, <1>3, <1>5, <2>1, <2>4
  <1> QED
    BY <1>4, <1>5

LEMMA PickedRows ==
  ASSUME file.rows \in Documents, NEW S, S \subseteq DOMAIN file.rows
  PROVE  /\ Picked(S) \in Documents
         /\ \A i \in S : \E k \in DOMAIN Picked(S) : Picked(S)[k] = file.rows[i]
  <1>1. PICK rows, at, T : rows = file.rows /\ at = Ordered(S, Len(rows)) /\ T = Picked(S)
    OBVIOUS
  <1>2. rows \in Documents /\ S \subseteq DOMAIN rows /\ Lists(at, S, Len(rows))
    <2>1. rows \in Documents /\ S \subseteq DOMAIN rows
      BY <1>1
    <2>2. Len(rows) \in Nat /\ DOMAIN rows = 1..Len(rows)
      BY <2>1 DEF Documents
    <2> QED
      BY <1>1, <2>1, <2>2, OrderedLists
  <1>3. T = [k \in DOMAIN at |-> rows[at[k]]]
    BY <1>1 DEF Picked
  <1>4. /\ \A k \in DOMAIN at : at[k] \in S
        /\ \A x \in S : \E k \in DOMAIN at : at[k] = x
    BY <1>2, ListIs
  <1>5. PICK m \in Nat : DOMAIN at = 1..m
    <2>1. at \in Seq(Nat)
      BY <1>2 DEF Lists
    <2> QED
      BY <2>1
  <1>6. T \in Documents
    <2>1. \A i \in DOMAIN rows : rows[i] \in SUBSET Cell
      BY <1>2 DEF Documents
    <2>2. \A k \in 1..m : rows[at[k]] \in SUBSET Cell
      BY <1>2, <1>4, <1>5, <2>1
    <2> QED
      BY <1>3, <1>5, <2>2 DEF Documents
  <1>7. \A i \in S : \E k \in DOMAIN T : T[k] = rows[i]
    BY <1>3, <1>4
  <1> QED
    BY <1>1, <1>6, <1>7

LEMMA LocalRows ==
  ASSUME file.rows \in Documents
  PROVE  TesseractRows \in Documents /\ (Dated(TesseractRows) = {} => Dated(file.rows) = {})
  <1>1. PICK S, rows, T : S = {i \in DOMAIN file.rows : file.rows[i] # Blank}
                          /\ rows = file.rows /\ T = TesseractRows
    OBVIOUS
  <1>2. T = Picked(S) /\ S \subseteq DOMAIN rows
    BY <1>1 DEF TesseractRows
  <1>3. T \in Documents /\ \A i \in S : \E k \in DOMAIN T : T[k] = rows[i]
    <2>1. S \subseteq DOMAIN file.rows
      BY <1>1
    <2>2. /\ Picked(S) \in Documents
          /\ \A i \in S : \E k \in DOMAIN Picked(S) : Picked(S)[k] = file.rows[i]
      BY <2>1, PickedRows, Zenon
    <2> QED
      BY <1>1, <1>2, <2>2
  <1>4. ASSUME NEW i \in Dated(rows) PROVE Dated(T) # {}
    <2>1. i \in DOMAIN rows /\ "date" \in rows[i] /\ rows[i] # Blank
      BY DEF Dated, Blank
    <2>2. i \in S
      BY <1>1, <2>1
    <2>3. PICK k \in DOMAIN T : T[k] = rows[i]
      BY <1>3, <2>2
    <2> QED
      BY <2>1, <2>3 DEF Dated
  <1> QED
    BY <1>1, <1>3, <1>4

-----------------------------------------------------------------------------
(* The invariant, at the start and at every step.                          *)

LEMMA Starts == Init => IInv
  <1> SUFFICES ASSUME Init PROVE IInv
    OBVIOUS
  <1>1. file.rows \in Seq(Row)
    <2>1. file.rows \in BoundedSeq(Row, MaxRows)
      BY DEF Init
    <2>2. BoundedSeq(Row, MaxRows) \subseteq Seq(Row)
      BY ReadingAssumption DEF BoundedSeq, SeqOf
    <2> QED
      BY <2>1, <2>2
  <1>2. /\ pdf = None /\ pc = "read" /\ object = "none" /\ found = <<>> /\ failed = {}
        /\ result = None
    BY DEF Init
  <1> QED
    BY <1>1, <1>2 DEF IInv, Types, FoundInv, RefusedOnlyUnread, TransactionsAreRows, Ocr

(* The file is the same all along, so rows carry on as before.             *)
LEMMA ContinuesStill ==
  ASSUME file' = file, NEW head, NEW cells
  PROVE  Continues(head, cells)' <=> Continues(head, cells)
  BY Zenon DEF Continues, Keys

LEMMA JoinsStill ==
  ASSUME file' = file, NEW rows, NEW j
  PROVE  Joins(rows, j)' <=> Joins(rows, j)
  <1>1. PICK head, cells : head = Heading(rows) /\ cells = View(rows)[j]
    OBVIOUS
  <1>2. Continues(head, cells)' <=> Continues(head, cells)
    BY ContinuesStill
  <1> QED
    BY <1>1, <1>2 DEF Joins

LEMMA AreRowsStill ==
  ASSUME file' = file, NEW source, NEW ts, NEW rows, AreRows(source, ts, rows)
  PROVE  AreRows(source, ts, rows)'
  <1>1. \A j : Joins(rows, j)' <=> Joins(rows, j)
    BY JoinsStill
  <1>2. \A i, j : CarriesOn(rows, i, j)' <=> CarriesOn(rows, i, j)
    BY <1>1 DEF CarriesOn
  <1>3. \A i : Narration(rows, i)' = Narration(rows, i)
    BY <1>2 DEF Narration
  <1>4. \A i : Narrated(rows, i)' <=> Narrated(rows, i)
    BY <1>2 DEF Narrated
  <1>5. \A i : Begins(rows, i)' <=> Begins(rows, i)
    BY <1>1 DEF Begins
  <1>6. \A i : Shifted(rows, i)' <=> Shifted(rows, i)
    BY <1>1 DEF Shifted
  <1> QED
    BY <1>3, <1>4, <1>5, <1>6 DEF AreRows

LEMMA ReadWell ==
  ASSUME file' = file, NEW source, NEW ts, NEW rows, AreRows(source, ts, rows),
         result' = Read(source, ts),
         rows = IF source \in {"ocr", "dates"} THEN found' ELSE file.rows
  PROVE  TransactionsAreRows'
  <1>1. result'.source = source /\ result'.transactions = ts
    BY DEF Read
  <1>2. Used' = rows
    BY <1>1 DEF Used
  <1>3. AreRows(source, ts, rows)'
    BY AreRowsStill
  <1> QED
    BY <1>1, <1>2, <1>3 DEF TransactionsAreRows

LEMMA NotRead ==
  ASSUME result' = None \/ \E error \in {"parser", "unexpected", "password", "pdf"} : result' = Refused(error)
  PROVE  TransactionsAreRows'
  BY NoneAssumption DEF TransactionsAreRows, Refused

LEMMA SameRead ==
  ASSUME file' = file, found' = found, result' = result, TransactionsAreRows
  PROVE  TransactionsAreRows'
  <1>1. ASSUME result # None, result.error = None
        PROVE  AreRows(result.source, result.transactions, Used)'
    <2>1. PICK source, ts, rows : source = result.source /\ ts = result.transactions /\ rows = Used
      OBVIOUS
    <2>2. AreRows(source, ts, rows)
      BY <1>1, <2>1 DEF TransactionsAreRows
    <2>3. AreRows(source, ts, rows)'
      BY <2>2, AreRowsStill
    <2>4. source = result'.source /\ ts = result'.transactions /\ rows = Used'
      BY <2>1 DEF Used
    <2> QED
      BY <2>3, <2>4
  <1> QED
    BY <1>1 DEF TransactionsAreRows

(* Refused while the file or the text is read: there are no rows to blame. *)
LEMMA ReadRowsKeeps ==
  ASSUME IInv, ReadRows
  PROVE  IInv'
  <1> USE DEF IInv, End, Go, NoOcr
  <1>1. /\ pc = "read" /\ pc' = "done" /\ file' = file /\ pdf' = pdf /\ pdf = None
        /\ env' = env /\ object' = object /\ found' = found /\ failed' = failed
    BY DEF ReadRows, Types
  <1>2. object' # "stored"
    BY <1>1 DEF FoundInv
  <1>3. Types' /\ FoundInv' /\ RefusedOnlyUnread'
    BY <1>1, <1>2 DEF Types, FoundInv, RefusedOnlyUnread, Ocr
  <1>4. TransactionsAreRows'
    <2>1. PICK rows, ts : rows = file.rows /\ ts = ParseRows(rows)
      OBVIOUS
    <2>2. result' = Refused("parser") \/ result' = Refused("unexpected")
          \/ (ts # <<>> /\ result' = Read("rows", ts))
      BY <2>1 DEF ReadRows
    <2>3. rows \in Documents
      BY <2>1, Seen DEF Types
    <2>4. ASSUME ts # <<>>, result' = Read("rows", ts) PROVE TransactionsAreRows'
      <3>1. AreRows("rows", ts, rows)
        BY <2>1, <2>3, <2>4, RowsAre
      <3> QED
        BY <1>1, <2>1, <2>4, <3>1, ReadWell
    <2> QED
      BY <2>2, <2>4, NotRead
  <1> QED
    BY <1>3, <1>4

LEMMA RefusePdfKeeps ==
  ASSUME IInv, RefusePdf
  PROVE  IInv'
  <1> USE DEF IInv, End, Go, NoOcr
  <1>1. /\ pc = "read" /\ pc' = "done" /\ file' = file /\ pdf' = pdf /\ pdf = None
        /\ env' = env /\ object' = object /\ found' = found /\ failed' = failed
        /\ \E error \in {"password", "pdf"} : result' = Refused(error)
    BY DEF RefusePdf, Types
  <1>2. object' # "stored"
    BY <1>1 DEF FoundInv
  <1>3. Types' /\ FoundInv' /\ RefusedOnlyUnread'
    BY <1>1, <1>2 DEF Types, FoundInv, RefusedOnlyUnread, Ocr
  <1> QED
    BY <1>1, <1>3, NotRead

LEMMA OpenPdfKeeps ==
  ASSUME IInv, OpenPdf
  PROVE  IInv'
  <1>1. /\ pc = "read" /\ pc' = "tables" /\ file' = file /\ result' = result
        /\ env' = env /\ object' = object /\ found' = found /\ failed' = failed
        /\ pdf' \in [text : {"none", "margins", "all"}]
    BY DEF OpenPdf, NoOcr
  <1>2. Types' /\ FoundInv' /\ RefusedOnlyUnread'
    BY <1>1 DEF IInv, Types, FoundInv, RefusedOnlyUnread, Ocr
  <1>3. TransactionsAreRows'
    BY <1>1, SameRead DEF IInv
  <1> QED
    BY <1>2, <1>3 DEF IInv

(* The tables or the text layer have what the document has, or nothing.    *)
LEMMA VisibleStill ==
  ASSUME file' = file, pdf' = pdf
  PROVE  Visible' = Visible
  BY DEF Visible

LEMMA TryTablesKeeps ==
  ASSUME IInv, TryTables
  PROVE  IInv'
  <1>1. /\ pc = "tables" /\ file' = file /\ pdf' = pdf
        /\ env' = env /\ object' = object /\ found' = found /\ failed' = failed
        /\ result = None /\ object # "stored"
    BY DEF IInv, TryTables, End, Go, NoOcr, FoundInv
  <1>2. PICK ts : ts = ParseRows(Visible)
    OBVIOUS
  <1>5. (pc' = "text" /\ result' = result) \/ (ts # <<>> /\ pc' = "done" /\ result' = Read("rows", ts))
    BY <1>2 DEF TryTables, Go, End
  <1>3. CASE pc' = "text" /\ result' = result
    <2>1. pc' = "text" /\ result' = result
      BY <1>3
    <2>2. Types' /\ FoundInv' /\ RefusedOnlyUnread'
      BY <1>1, <2>1 DEF IInv, Types, FoundInv, RefusedOnlyUnread, Ocr
    <2> QED
      BY <1>1, <2>1, <2>2, SameRead DEF IInv
  <1>4. CASE ts # <<>> /\ pc' = "done" /\ result' = Read("rows", ts)
    <2>1. pc' = "done" /\ result' = Read("rows", ts) /\ ts = ParseRows(Visible)
      BY <1>2, <1>4
    <2>2. pdf.text = "all"
      <3>1. SUFFICES ASSUME pdf.text # "all" PROVE FALSE
        OBVIOUS
      <3>2. ParseRows(Visible) = <<>>
        BY <3>1, Seen, BlankDocument DEF IInv, Types
      <3> QED
        BY <1>4, <2>1, <3>2
    <2>3. Visible = file.rows /\ Visible \in Documents
      BY <2>2, Seen DEF IInv, Types
    <2>4. PICK rows : rows = file.rows
      OBVIOUS
    <2>5. AreRows("rows", ts, rows)
      BY <1>4, <2>1, <2>3, <2>4, RowsAre
    <2>6. TransactionsAreRows'
      BY <1>1, <2>1, <2>4, <2>5, ReadWell
    <2>7. Types' /\ FoundInv'
      BY <1>1, <2>1 DEF IInv, Types, FoundInv, Ocr
    <2>8. RefusedOnlyUnread'
      BY <1>1, <2>1, NoneAssumption DEF RefusedOnlyUnread, Read
    <2> QED
      BY <2>6, <2>7, <2>8 DEF IInv
  <1> QED
    BY <1>3, <1>4, <1>5

LEMMA TryTextKeeps ==
  ASSUME IInv, TryText
  PROVE  IInv'
  <1>1. /\ pc = "text" /\ file' = file /\ pdf' = pdf
        /\ env' = env /\ object' = object /\ found' = found /\ failed' = failed
        /\ result = None /\ object # "stored"
    BY DEF IInv, TryText, End, Go, NoOcr, FoundInv
  <1>2. PICK ts, seen : ts = ParseText(Visible) /\ seen = Visible
    OBVIOUS
  <1>3. seen \in Documents /\ (ts = <<>> <=> Entire(seen) = {}) /\ AreRows("text", ts, seen)
    BY <1>2, Seen, TextAre DEF IInv, Types
  <1>4. CASE ts = <<>>
    <2>1. pc' = "ocr" /\ result' = result
      BY <1>2, <1>4 DEF TryText, Go, End
    <2>2. \A i \in DOMAIN seen : ~Complete(seen[i])
      BY <1>3, <1>4 DEF Entire
    <2>3. Visible' = seen
      BY <1>1, <1>2, VisibleStill
    <2>4. Types' /\ FoundInv' /\ RefusedOnlyUnread'
      BY <1>1, <2>1, <2>2, <2>3 DEF IInv, Types, FoundInv, RefusedOnlyUnread, Ocr
    <2> QED
      BY <1>1, <2>1, <2>4, SameRead DEF IInv
  <1>5. CASE ts # <<>>
    <2>1. pc' = "done" /\ result' = Read("text", ts)
      BY <1>2, <1>5 DEF TryText, Go, End
    <2>2. pdf.text = "all"
      <3>1. PICK i \in DOMAIN seen : Complete(seen[i])
        BY <1>3, <1>5 DEF Entire
      <3>2. seen[i] # Blank
        BY <3>1 DEF Complete, Blank
      <3> QED
        BY <1>2, <3>1, <3>2, Seen DEF IInv, Types
    <2>3. seen = file.rows
      BY <1>2, <2>2, Seen DEF IInv, Types
    <2>4. TransactionsAreRows'
      BY <1>1, <1>3, <2>1, <2>3, ReadWell
    <2>5. Types' /\ FoundInv'
      BY <1>1, <2>1 DEF IInv, Types, FoundInv, Ocr
    <2>6. RefusedOnlyUnread'
      BY <1>1, <2>1, NoneAssumption DEF RefusedOnlyUnread, Read
    <2> QED
      BY <2>4, <2>5, <2>6 DEF IInv
  <1> QED
    BY <1>4, <1>5

LEMMA ChooseEngineKeeps ==
  ASSUME IInv, ChooseEngine
  PROVE  IInv'
  <1>1. /\ pc = "ocr" /\ file' = file /\ pdf' = pdf
        /\ object' = object /\ found' = found /\ failed' = failed
        /\ result = None /\ object # "stored" /\ found = <<>> /\ failed = {}
        /\ \A i \in DOMAIN Visible : ~Complete(Visible[i])
    BY DEF IInv, ChooseEngine, OcrEnds, End, Go, FoundInv, Ocr
  <1>2. Visible' = Visible
    BY <1>1, VisibleStill
  <1>6. PICK e : env' = e /\
          CASE Engine(e) = "none" -> OcrEnds("runtime")
            [] Engine(e) = "tesseract" -> Go("tesseract") /\ UNCHANGED result
            [] OTHER -> \E async \in BOOLEAN :
                 Go(IF async THEN "upload" ELSE "call") /\ UNCHANGED result
    BY DEF ChooseEngine
  <1>7. Engine(e) \in {"none", "tesseract", "textract"}
    BY DEF Engine
  <1>8. Engine(env)' = Engine(e)
    BY <1>6 DEF Engine
  <1>3. \/ Engine(env)' = "tesseract" /\ pc' = "tesseract" /\ result' = result
        \/ Engine(env)' = "textract" /\ pc' \in {"upload", "call"} /\ result' = result
        \/ Engine(env)' = "none" /\ pc' = "done" /\ result' = Refused("parser")
    <2>1. CASE Engine(e) = "none"
      BY <1>6, <1>8, <2>1 DEF OcrEnds, End, Go
    <2>2. CASE Engine(e) = "tesseract"
      BY <1>6, <1>8, <2>2 DEF Go
    <2>3. CASE Engine(e) = "textract"
      <3>1. \E async \in BOOLEAN : Go(IF async THEN "upload" ELSE "call") /\ UNCHANGED result
        BY <1>6, <2>3
      <3> QED
        BY <1>8, <2>3, <3>1 DEF Go
    <2> QED
      BY <1>7, <2>1, <2>2, <2>3
  <1>4. Types' /\ FoundInv' /\ RefusedOnlyUnread'
    BY <1>1, <1>2, <1>3 DEF IInv, Types, FoundInv, RefusedOnlyUnread, Ocr
  <1>5. TransactionsAreRows'
    BY <1>1, <1>3, NotRead
  <1> QED
    BY <1>4, <1>5 DEF IInv

(* Textract gives up: the local engine, or the end.                        *)
Textract == {"call", "upload", "start", "poll", "pages"}

LEMMA InTextract ==
  ASSUME IInv, pc \in Textract
  PROVE  /\ pc \in Ocr \ {"tesseract"} /\ found = <<>> /\ failed = {} /\ result = None
         /\ \A i \in DOMAIN Visible : ~Complete(Visible[i])
         /\ pc \in {"call", "upload"} => object # "stored"
         /\ Engine(env) = "textract"
  BY DEF IInv, FoundInv, Ocr, Textract

LEMMA FallBackKeeps ==
  ASSUME IInv, pc \in Textract, NEW error, FallBack(error),
         found' = found, env' = env, object' # "stored"
  PROVE  IInv'
  <1>1. /\ pc \in Ocr \ {"tesseract"} /\ found = <<>> /\ failed = {} /\ result = None
        /\ \A i \in DOMAIN Visible : ~Complete(Visible[i])
    BY InTextract
  <1>2. file' = file /\ pdf' = pdf /\ failed' = {"textract"}
    BY <1>1 DEF FallBack, OcrEnds, End, Go
  <1>3. Visible' = Visible
    BY <1>2, VisibleStill
  <1>4. CASE env.mode = "auto" /\ env.local
    <2>1. pc' = "tesseract" /\ result' = result
      BY <1>4 DEF FallBack, Go
    <2>2. Types' /\ FoundInv' /\ RefusedOnlyUnread'
      BY <1>1, <1>2, <1>3, <2>1 DEF IInv, Types, FoundInv, RefusedOnlyUnread, Ocr
    <2> QED
      BY <1>2, <2>1, <2>2, SameRead DEF IInv
  <1>5. CASE ~(env.mode = "auto" /\ env.local)
    <2>1. pc' = "done" /\ (result' = Refused("parser") \/ result' = Refused("unexpected"))
      BY <1>5 DEF FallBack, OcrEnds, End, Go
    <2>2. Types' /\ FoundInv'
      BY <1>1, <1>2, <1>3, <2>1 DEF IInv, Types, FoundInv, Ocr
    <2>3. RefusedOnlyUnread'
      BY <1>1, <1>2, <1>3, <1>5 DEF RefusedOnlyUnread
    <2> QED
      BY <2>1, <2>2, <2>3, NotRead DEF IInv
  <1> QED
    BY <1>4, <1>5

(* What the engines may see stays the same.                                *)
LEMMA PickedStill ==
  ASSUME file' = file
  PROVE  \A S : Picked(S)' = Picked(S)
  BY DEF Picked

LEMMA TextractStill ==
  ASSUME file' = file
  PROVE  TextractRows' = TextractRows /\ TesseractRows' = TesseractRows
  <1>1. \A S : Picked(S)' = Picked(S)
    BY PickedStill
  <1>2. TextractRows' = TextractRows
    BY <1>1 DEF TextractRows
  <1>3. PICK S : S = {i \in DOMAIN file.rows : file.rows[i] # Blank}
    OBVIOUS
  <1>4. TesseractRows = Picked(S) /\ TesseractRows' = Picked(S)'
    BY <1>3 DEF TesseractRows
  <1> QED
    BY <1>1, <1>2, <1>4

(* Textract goes on, or its rows are converted.                            *)
LEMMA GoesOn ==
  ASSUME IInv, pc \in Textract, pc' \in {"start", "poll", "pages"},
         file' = file, pdf' = pdf, env' = env, found' = found, failed' = failed, result' = result
  PROVE  IInv'
  <1>1. /\ pc \in Ocr \ {"tesseract"} /\ found = <<>> /\ failed = {} /\ result = None
        /\ (\A i \in DOMAIN Visible : ~Complete(Visible[i])) /\ Engine(env) = "textract"
    BY InTextract
  <1>2. Visible' = Visible /\ Engine(env)' = Engine(env)
    BY VisibleStill DEF Engine
  <1>3. Types' /\ FoundInv' /\ RefusedOnlyUnread'
    BY <1>1, <1>2 DEF IInv, Types, FoundInv, RefusedOnlyUnread, Ocr
  <1> QED
    BY <1>3, SameRead DEF IInv

LEMMA FindsRows ==
  ASSUME IInv, pc \in Textract, pc' = "convert", file' = file, pdf' = pdf,
         env' = env, found' \in TextractRows, failed' = failed, result' = result, object' # "stored"
  PROVE  IInv'
  <1>1. /\ pc \in Ocr \ {"tesseract"} /\ found = <<>> /\ failed = {} /\ result = None
        /\ (\A i \in DOMAIN Visible : ~Complete(Visible[i])) /\ Engine(env) = "textract"
    BY InTextract
  <1>2. Visible' = Visible /\ Engine(env)' = Engine(env)
    BY VisibleStill DEF Engine
  <1>3. found' \in TextractRows'
    BY TextractStill
  <1>4. Types' /\ FoundInv' /\ RefusedOnlyUnread'
    BY <1>1, <1>2, <1>3 DEF IInv, Types, FoundInv, RefusedOnlyUnread, Ocr
  <1> QED
    BY <1>1, <1>4, NotRead DEF IInv

LEMMA CallTextractKeeps ==
  ASSUME IInv, CallTextract
  PROVE  IInv'
  <1>1. pc \in Textract /\ pc = "call" /\ env' = env /\ object' = object
    BY DEF CallTextract, Textract
  <1>2. object' # "stored"
    BY <1>1, InTextract
  <1>3. \/ /\ found' \in TextractRows /\ pc' = "convert" /\ file' = file /\ pdf' = pdf
           /\ failed' = failed /\ result' = result
        \/ FallBack("runtime") /\ found' = found
    BY DEF CallTextract, Go
  <1> QED
    BY <1>1, <1>2, <1>3, FindsRows, FallBackKeeps

LEMMA UploadKeeps ==
  ASSUME IInv, Upload
  PROVE  IInv'
  <1>1. pc \in Textract /\ pc = "upload" /\ env' = env /\ found' = found
    BY DEF Upload, Textract
  <1>2. object # "stored"
    BY <1>1, InTextract
  <1>3. \/ pc' = "start" /\ file' = file /\ pdf' = pdf /\ failed' = failed /\ result' = result
        \/ FallBack("client") /\ object' # "stored"
    BY DEF Upload, Go
  <1> QED
    BY <1>1, <1>2, <1>3, GoesOn, FallBackKeeps

LEMMA AsyncFailsKeeps ==
  ASSUME IInv, pc \in Textract, NEW error, AsyncFails(error), env' = env
  PROVE  IInv'
  <1>1. FallBack(error) /\ found' = found /\ object' # "stored"
    BY DEF AsyncFails, CleanUp
  <1> QED
    BY <1>1, FallBackKeeps

LEMMA StartJobKeeps ==
  ASSUME IInv, StartJob
  PROVE  IInv'
  <1>1. pc \in Textract /\ env' = env
    BY DEF StartJob, Textract
  <1>2. \/ /\ pc' = "poll" /\ file' = file /\ pdf' = pdf
           /\ found' = found /\ failed' = failed /\ result' = result
        \/ AsyncFails("client")
    BY DEF StartJob, Go
  <1> QED
    BY <1>1, <1>2, GoesOn, AsyncFailsKeeps

LEMMA PollKeeps ==
  ASSUME IInv, Poll
  PROVE  IInv'
  <1>1. pc \in Textract /\ pc = "poll" /\ env' = env
    BY DEF Poll, Textract
  <1>2. \/ /\ pc' \in {"poll", "pages"} /\ file' = file /\ pdf' = pdf
           /\ found' = found /\ failed' = failed /\ result' = result
        \/ \E error \in {"runtime", "client"} : AsyncFails(error)
    BY <1>1 DEF Poll, Go
  <1> QED
    BY <1>1, <1>2, GoesOn, AsyncFailsKeeps

LEMMA PagesKeeps ==
  ASSUME IInv, Pages
  PROVE  IInv'
  <1>1. pc \in Textract /\ env' = env
    BY DEF Pages, Textract
  <1>2. \/ /\ found' \in TextractRows /\ pc' = "convert" /\ file' = file /\ pdf' = pdf
           /\ failed' = failed /\ result' = result /\ object' # "stored"
        \/ AsyncFails("client")
    BY DEF Pages, CleanUp, Go
  <1> QED
    BY <1>1, <1>2, FindsRows, AsyncFailsKeeps

LEMMA TesseractKeeps ==
  ASSUME IInv, Tesseract
  PROVE  IInv'
  <1>1. /\ pc = "tesseract" /\ pc \in Ocr /\ env' = env /\ object' = object /\ object # "stored"
        /\ found = <<>> /\ result = None /\ \A i \in DOMAIN Visible : ~Complete(Visible[i])
    BY DEF IInv, Tesseract, FoundInv, Ocr
  <1>2. \/ /\ found' = TesseractRows /\ pc' = "convert" /\ file' = file /\ pdf' = pdf
           /\ failed' = failed /\ result' = result
        \/ /\ failed' = failed \cup {"tesseract"} /\ found' = found
           /\ pc' = "done" /\ file' = file /\ pdf' = pdf
           /\ (result' = Refused("parser") \/ result' = Refused("unexpected"))
    BY DEF Tesseract, OcrEnds, End, Go
  <1>3. file' = file /\ pdf' = pdf
    BY <1>2
  <1>4. Visible' = Visible
    BY <1>3, VisibleStill
  <1>5. TesseractRows' = TesseractRows
    BY <1>3, TextractStill
  <1>6. Types' /\ RefusedOnlyUnread'
    BY <1>1, <1>2, <1>4 DEF IInv, Types, RefusedOnlyUnread, Ocr
  <1>7. FoundInv'
    BY <1>1, <1>2, <1>4, <1>5 DEF IInv, FoundInv, Ocr
  <1>8. TransactionsAreRows'
    BY <1>1, <1>2, NotRead
  <1> QED
    BY <1>6, <1>7, <1>8 DEF IInv

LEMMA ConvertKeeps ==
  ASSUME IInv, Convert
  PROVE  IInv'
  <1>1. /\ pc = "convert" /\ pc' = "done" /\ file' = file /\ pdf' = pdf /\ env' = env
        /\ object' = object /\ object # "stored" /\ found' = found /\ failed' = failed
        /\ \A i \in DOMAIN Visible : ~Complete(Visible[i])
        /\ \/ found \in TextractRows /\ failed = {} /\ Engine(env) = "textract"
           \/ found = TesseractRows
    BY DEF IInv, Convert, End, Go, NoOcr, FoundInv
  <1>2. Visible' = Visible
    BY <1>1, VisibleStill
  <1>3. PICK rows, ts, ds : rows = found /\ ts = ParseRows(rows) /\ ds = DatedRows(rows)
    OBVIOUS
  <1>4. rows \in Documents
    <2>1. file.rows \in Documents
      BY Seen DEF IInv, Types
    <2>2. \A T \in TextractRows : T \in Documents
      BY <2>1, PickedRows DEF TextractRows
    <2> QED
      BY <1>1, <1>3, <2>1, <2>2, LocalRows
  <1>5. \/ ts # <<>> /\ result' = Read("ocr", WithConfidence(ts, rows))
        \/ ts = <<>> /\ ds # <<>> /\ result' = Read("dates", ds)
        \/ ts = <<>> /\ ds = <<>> /\ result' = Refused("parser")
    BY <1>3 DEF Convert, End
  <1>6. Types' /\ FoundInv'
    BY <1>1 DEF IInv, Types, FoundInv, Ocr
  <1>7. RefusedOnlyUnread'
    <2>1. CASE result' \in {Read("ocr", WithConfidence(ts, rows)), Read("dates", ds)}
      BY <1>1, <2>1, NoneAssumption DEF RefusedOnlyUnread, Read
    <2>2. CASE ds = <<>>
      <3>1. Dated(rows) = {}
        BY <1>4, <2>2, <1>3, DatesAre
      <3>2. CASE found \in TextractRows /\ failed = {} /\ Engine(env) = "textract"
        <4>1. \A i \in DOMAIN found : "date" \notin found[i]
          BY <1>3, <3>1 DEF Dated
        <4>2. Engine(env)' = "textract"
          BY <1>1, <3>2 DEF Engine
        <4> QED
          BY <1>1, <1>2, <3>2, <4>1, <4>2 DEF RefusedOnlyUnread
      <3>3. CASE found = TesseractRows
        <4>1. file.rows \in Documents
          BY Seen DEF IInv, Types
        <4>2. Dated(file.rows) = {}
          BY <1>3, <3>1, <3>3, <4>1, LocalRows
        <4>3. \A i \in DOMAIN file.rows : "date" \notin file.rows[i]
          BY <4>2 DEF Dated
        <4> QED
          BY <1>1, <1>2, <4>3 DEF RefusedOnlyUnread
      <3> QED
        BY <1>1, <3>2, <3>3
    <2> QED
      BY <1>5, <2>1, <2>2
  <1>8. TransactionsAreRows'
    <2>1. ASSUME ts # <<>>, result' = Read("ocr", WithConfidence(ts, rows)) PROVE TransactionsAreRows'
      <3>1. PICK us : us = WithConfidence(ts, rows)
        OBVIOUS
      <3>2. AreRows("ocr", us, rows)
        BY <1>3, <1>4, <2>1, <3>1, OcrAre
      <3> QED
        BY <1>1, <1>3, <2>1, <3>1, <3>2, ReadWell
    <2>2. ASSUME result' = Read("dates", ds) PROVE TransactionsAreRows'
      <3>1. AreRows("dates", ds, rows)
        BY <1>3, <1>4, DatesAre
      <3> QED
        BY <1>1, <1>3, <2>2, <3>1, ReadWell
    <2> QED
      BY <1>5, <2>1, <2>2, NotRead
  <1> QED
    BY <1>6, <1>7, <1>8 DEF IInv

LEMMA StutterKeeps ==
  ASSUME IInv, UNCHANGED vars
  PROVE  IInv'
  <1>1. /\ pc' = pc /\ file' = file /\ pdf' = pdf /\ env' = env /\ object' = object
        /\ found' = found /\ failed' = failed /\ result' = result
    BY DEF vars
  <1>2. /\ Visible' = Visible /\ Engine(env)' = Engine(env)
        /\ TesseractRows' = TesseractRows /\ TextractRows' = TextractRows
    BY <1>1, VisibleStill, TextractStill DEF Engine
  <1>3. Types' /\ FoundInv' /\ RefusedOnlyUnread'
    BY <1>1, <1>2 DEF IInv, Types, FoundInv, RefusedOnlyUnread
  <1> QED
    BY <1>1, <1>3, SameRead DEF IInv

LEMMA Keeps == IInv /\ [Next]_vars => IInv'
  <1> SUFFICES ASSUME IInv, [Next]_vars PROVE IInv'
    OBVIOUS
  <1>1. CASE ReadRows
    BY <1>1, ReadRowsKeeps
  <1>2. CASE RefusePdf
    BY <1>2, RefusePdfKeeps
  <1>3. CASE OpenPdf
    BY <1>3, OpenPdfKeeps
  <1>4. CASE TryTables
    BY <1>4, TryTablesKeeps
  <1>5. CASE TryText
    BY <1>5, TryTextKeeps
  <1>6. CASE ChooseEngine
    BY <1>6, ChooseEngineKeeps
  <1>7. CASE CallTextract
    BY <1>7, CallTextractKeeps
  <1>8. CASE Upload
    BY <1>8, UploadKeeps
  <1>9. CASE StartJob
    BY <1>9, StartJobKeeps
  <1>10. CASE Poll
    BY <1>10, PollKeeps
  <1>11. CASE Pages
    BY <1>11, PagesKeeps
  <1>12. CASE Tesseract
    BY <1>12, TesseractKeeps
  <1>13. CASE Convert
    BY <1>13, ConvertKeeps
  <1>14. CASE Done \/ UNCHANGED vars
    BY <1>14, StutterKeeps DEF Done
  <1> QED
    BY <1>1, <1>2, <1>3, <1>4, <1>5, <1>6, <1>7, <1>8, <1>9, <1>10, <1>11, <1>12, <1>13, <1>14
       DEF Next

-----------------------------------------------------------------------------

(* Every transaction of a reading is a row of the document and every row   *)
(* that should be one is, in order, with its own narration and the rows    *)
(* that carry it on, for documents of any length (parse_rows, the text     *)
(* parser, the OCR fallback).                                              *)
THEOREM TransactionsAreRowsCorrect == Spec => []TransactionsAreRows
  <1>1. IInv => TransactionsAreRows
    BY DEF IInv
  <1> QED
    BY <1>1, Starts, Keeps, PTL DEF Spec

(* A document is refused as unreadable only when no source had anything,   *)
(* and its S3 copy does not outlive the reading (parse_statement and the   *)
(* engines of ocr_worker.py).                                              *)
THEOREM RefusedOnlyUnreadCorrect == Spec => []RefusedOnlyUnread
  <1>1. IInv => RefusedOnlyUnread
    BY DEF IInv
  <1> QED
    BY <1>1, Starts, Keeps, PTL DEF Spec
=============================================================================
