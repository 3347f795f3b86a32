----------------------------- MODULE ReadsProofs -----------------------------
(***************************************************************************)
(* What holds of walks over any number of rows, with any prices, page      *)
(* sizes and precision of the cursor.                                      *)
(***************************************************************************)
EXTENDS Reads, FiniteSetTheorems, WellFoundedInduction, TLAPS

(* Totals.                                                                 *)

(* Rounding to cents moves a number of tenths by half a cent at most, and  *)
(* whole cents not at all.                                                 *)
LEMMA CentsClose ==
  ASSUME NEW t \in Nat
  PROVE  /\ Cents(t) \in Nat
         /\ -5 <= 10 * Cents(t) - t /\ 10 * Cents(t) - t <= 5
         /\ t % 10 = 0 => 10 * Cents(t) = t
  BY DEF Cents

LEMMA CentsOfWhole ==
  ASSUME NEW n \in Nat
  PROVE  Cents(10 * n) = n
  BY DEF Cents

(* The line's total is rounded for each piece.                             *)
LEMMA LineClose ==
  ASSUME NEW c \in Nat, NEW p \in Nat, NEW q \in Nat, -5 <= 10 * c - p, 10 * c - p <= 5
  PROVE  /\ LineTotal(c, q) \in Nat /\ LineTotal(p, q) \in Nat
         /\ Apart(10 * LineTotal(c, q), LineTotal(p, q)) <= 5 * q
<1>1. c * q \in Nat /\ p * q \in Nat
  OBVIOUS
<1>2. PICK d \in Int : d = 10 * c - p /\ -5 <= d /\ d <= 5
  <2>1. 10 * c - p \in Int
    OBVIOUS
  <2> QED
    BY <2>1
<1>3. p = 10 * c - d
  BY <1>2
<1>4. p * q = 10 * (c * q) - d * q
  BY <1>3
<1>5. d * q <= 5 * q /\ -(5 * q) <= d * q
  <2>1. (5 - d) \in Nat /\ (5 + d) \in Nat
    BY <1>2
  <2>2. (5 - d) * q \in Nat /\ (5 + d) * q \in Nat
    BY <2>1
  <2>3. (5 - d) * q = 5 * q - d * q /\ (5 + d) * q = 5 * q + d * q /\ d * q \in Int
    BY <1>2
  <2> QED
    BY <2>2, <2>3
<1>6. PICK x \in Int : x = d * q
  BY <1>2
<1>7. PICK y \in Nat : y = c * q
  BY <1>1
<1>8. PICK z \in Nat : z = p * q
  BY <1>1
<1>9. z = 10 * y - x /\ x <= 5 * q /\ -(5 * q) <= x
  BY <1>4, <1>5, <1>6, <1>7, <1>8
<1>10. Apart(10 * y, z) <= 5 * q
  BY <1>9 DEF Apart
<1> QED
  BY <1>1, <1>7, <1>8, <1>10 DEF LineTotal

(* A price in whole cents is never rounded.                                *)
LEMMA LineOfWhole ==
  ASSUME NEW p \in Nat, NEW q \in Nat, p % 10 = 0
  PROVE  Cents(LineTotal(p, q)) = LineTotal(Cents(p), q)
<1>1. Cents(p) \in Nat /\ 10 * Cents(p) = p
  BY CentsClose
<1>2. PICK c \in Nat : c = Cents(p) /\ p = 10 * c
  BY <1>1
<1>3. c * q \in Nat /\ p * q = 10 * (c * q)
  BY <1>2
<1>4. Cents(10 * (c * q)) = c * q
  BY <1>3, CentsOfWhole
<1> QED
  BY <1>2, <1>3, <1>4 DEF LineTotal

LEMMA ColumnsTypes ==
  ASSUME NEW item \in Items
  PROVE  /\ item.price \in Nat /\ item.quantity \in Nat
         /\ Columns(item).unit = Cents(item.price) /\ Cents(item.price) \in Nat
         /\ Columns(item).event = LineTotal(item.price, item.quantity)
         /\ LineTotal(item.price, item.quantity) \in Nat
         /\ Columns(item).total = Cents(Columns(item).event)
         /\ Columns(item).total \in Nat
<1>1. item.price \in Nat /\ item.quantity \in Nat
  BY ReadsAssumption
<1>2. LineTotal(item.price, item.quantity) \in Nat
  BY <1>1 DEF LineTotal
<1> QED
  BY <1>1, <1>2, CentsClose DEF Columns

LEMMA RowsMakeTotalsClose == RowsSound => TotalsClose
<1> SUFFICES ASSUME RowsSound, table = "orders", NEW i \in Visible
             PROVE  /\ Apart(10 * ShownTotal(i), rows[i].event) <= 5 * rows[i].item.quantity
                    /\ Apart(10 * Charged(i), rows[i].event) <= 5
                    /\ rows[i].total \in {ShownTotal(i), Charged(i)}
                    /\ rows[i].item.price % 10 = 0 => ShownTotal(i) = Charged(i)
  BY DEF TotalsClose
<1>1. /\ rows[i].item \in Items
      /\ rows[i].unit = Columns(rows[i].item).unit
      /\ rows[i].event = Columns(rows[i].item).event
      /\ rows[i].total \in {ShownTotal(i), Charged(i)}
  BY DEF RowsSound, Visible, OrderRow
<1>2. PICK item \in Items : item = rows[i].item
  BY <1>1
<1>3. /\ item.price \in Nat /\ item.quantity \in Nat
      /\ rows[i].unit = Cents(item.price) /\ Cents(item.price) \in Nat
      /\ rows[i].event = LineTotal(item.price, item.quantity)
      /\ LineTotal(item.price, item.quantity) \in Nat
  BY <1>1, <1>2, ColumnsTypes
<1>4. ShownTotal(i) = LineTotal(Cents(item.price), item.quantity)
  BY <1>2, <1>3 DEF ShownTotal
<1>5. Apart(10 * ShownTotal(i), rows[i].event) <= 5 * item.quantity
  BY <1>3, <1>4, CentsClose, LineClose
<1>6. Apart(10 * Charged(i), rows[i].event) <= 5
  <2>1. PICK e \in Nat : e = rows[i].event
    BY <1>3
  <2>2. Apart(10 * Cents(e), e) <= 5
    BY CentsClose DEF Apart
  <2> QED
    BY <2>1, <2>2 DEF Charged
<1>7. item.price % 10 = 0 => ShownTotal(i) = Charged(i)
  BY <1>3, <1>4, LineOfWhole DEF Charged
<1> QED
  BY <1>1, <1>2, <1>5, <1>6, <1>7
-----------------------------------------------------------------------------
(* Rows.                                                                   *)

RowType == IF table = "orders" THEN OrderRow ELSE AuditRow

(* What a step may do to the rows: a row is added, not yet committed; a    *)
(* row is committed; an order's total is written again.                    *)
Added == \E n \in 1..MaxRows :
           /\ DOMAIN rows = 1..(n - 1) /\ DOMAIN rows' = 1..n
           /\ \A i \in 1..(n - 1) : rows'[i] = rows[i]
           /\ ~ rows'[n].committed /\ rows'[n].at = clock

LEMMA RowTypes ==
  ASSUME RowsSound
  PROVE  /\ \E n \in 0..MaxRows : DOMAIN rows = 1..n /\ rows \in [1..n -> RowType]
         /\ \A i \in DOMAIN rows :
              /\ i \in 1..MaxRows /\ rows[i] \in RowType
              /\ rows[i].at \in 0..MaxClock /\ rows[i].committed \in BOOLEAN
         /\ Visible \subseteq 1..MaxRows /\ IsFiniteSet(Visible)
         /\ \A i \in Visible : i \in Nat /\ rows[i].at \in Nat
<1>0. MaxRows \in Nat /\ MaxClock \in Nat
  BY ReadsAssumption
<1>1. PICK n \in 0..MaxRows : rows \in [1..n -> RowType]
  BY DEF RowsSound, RowType
<1>2. n \in Nat /\ 1..n \subseteq 1..MaxRows /\ DOMAIN rows = 1..n
  BY <1>0, <1>1
<1>3. ASSUME NEW i \in 1..n
      PROVE  rows[i] \in RowType /\ rows[i].at \in 0..MaxClock /\ rows[i].committed \in BOOLEAN
  BY <1>1, <1>3 DEF RowType, OrderRow, AuditRow
<1>4. Visible \subseteq 1..MaxRows
  BY <1>2 DEF Visible
<1>5. IsFiniteSet(1..MaxRows)
  BY <1>0, FS_Interval
<1>6. IsFiniteSet(Visible)
  BY <1>4, <1>5, FS_Subset
<1>7. \A i \in Visible : i \in Nat /\ rows[i].at \in Nat
  BY <1>0, <1>2, <1>3 DEF Visible
<1> QED
  BY <1>1, <1>2, <1>3, <1>4, <1>6, <1>7

(* A row that is inserted gets the next number.                            *)
LEMMA InsertAdds ==
  ASSUME RowsSound, NEW row \in RowType, ~ row.committed, Insert(row)
  PROVE  \E n \in 1..MaxRows :
           /\ n - 1 \in 0..MaxRows
           /\ rows \in [1..(n - 1) -> RowType]
           /\ rows' = [i \in 1..n |-> IF i = n THEN row ELSE rows[i]]
<1>0. MaxRows \in Nat
  BY ReadsAssumption
<1>1. PICK n \in 0..MaxRows : DOMAIN rows = 1..n /\ rows \in [1..n -> RowType]
  BY RowTypes
<1>2. n \in Nat
  BY <1>0
<1>3. Cardinality(1..n) = n
  BY <1>2, FS_Interval
<1>4. Cardinality(DOMAIN rows) = Cardinality(1..n)
  BY <1>1, Zenon
<1>5. /\ n + 1 <= MaxRows
      /\ rows' = [i \in DOMAIN rows \cup {n + 1} |-> IF i = n + 1 THEN row ELSE rows[i]]
  BY <1>3, <1>4 DEF Insert
<1>6. DOMAIN rows \cup {n + 1} = 1..(n + 1)
  BY <1>1, <1>2
<1>7. rows' = [i \in 1..(n + 1) |-> IF i = n + 1 THEN row ELSE rows[i]]
  BY <1>5, <1>6, Zenon
<1>8. PICK k \in 1..MaxRows : k = n + 1 /\ k - 1 = n
  BY <1>0, <1>2, <1>5
<1>9. rows' = [i \in 1..k |-> IF i = k THEN row ELSE rows[i]]
  BY <1>7, <1>8
<1>10. rows \in [1..(k - 1) -> RowType] /\ k - 1 \in 0..MaxRows
  BY <1>1, <1>8
<1> QED
  BY <1>9, <1>10

LEMMA InsertSound ==
  ASSUME RowsSound, NEW row \in RowType, ~ row.committed, row.at = clock, Insert(row),
         table = "orders" => /\ row.unit = Columns(row.item).unit
                             /\ row.event = Columns(row.item).event
                             /\ row.total = Cents(row.event)
  PROVE  RowsSound' /\ Added
<1>0. MaxRows \in Nat
  BY ReadsAssumption
<1>1. PICK n \in 1..MaxRows :
           /\ n - 1 \in 0..MaxRows
           /\ rows \in [1..(n - 1) -> RowType]
           /\ rows' = [i \in 1..n |-> IF i = n THEN row ELSE rows[i]]
  BY InsertAdds
<1>2. n \in Nat /\ n \in 1..n /\ 1..(n - 1) \subseteq 1..n
      /\ \A i \in 1..n : i = n \/ i \in 1..(n - 1)
  BY <1>0
<1>3. rows'[n] = row /\ \A i \in 1..(n - 1) : rows'[i] = rows[i]
  BY <1>1, <1>2
<1>4. rows' \in [1..n -> RowType]
  BY <1>1, <1>2
<1>5. UNCHANGED table
  BY DEF Insert
<1>6. DOMAIN rows = 1..(n - 1) /\ DOMAIN rows' = 1..n
  BY <1>1
<1>7. Added
  BY <1>3, <1>6 DEF Added
<1>8. ASSUME table = "orders", NEW i \in 1..n
      PROVE  /\ rows'[i].unit = Columns(rows'[i].item).unit
             /\ rows'[i].event = Columns(rows'[i].item).event
             /\ rows'[i].total \in {ShownTotal(i)', Charged(i)'}
  <2>1. CASE i = n
    BY <1>3, <1>8, <2>1 DEF Charged
  <2>2. CASE i \in 1..(n - 1)
    <3>1. i \in DOMAIN rows
      BY <1>6, <2>2
    <3>2. /\ rows[i].unit = Columns(rows[i].item).unit
          /\ rows[i].event = Columns(rows[i].item).event
          /\ rows[i].total \in {ShownTotal(i), Charged(i)}
      BY <1>8, <3>1 DEF RowsSound
    <3> QED
      BY <1>3, <2>2, <3>2 DEF ShownTotal, Charged
  <2> QED
    BY <1>2, <2>1, <2>2
<1>9. n \in 0..MaxRows
  BY <1>0
<1> QED
  BY <1>4, <1>5, <1>7, <1>8, <1>9 DEF RowsSound, RowType

LEMMA SaveSound ==
  ASSUME RowsSound, clock \in 0..MaxClock, NEW item \in Items, Save(item)
  PROVE  RowsSound' /\ Added
<1> DEFINE row == [at |-> clock, committed |-> FALSE, item |-> item, unit |-> Columns(item).unit,
                   total |-> Columns(item).total, event |-> Columns(item).event]
<1>1. table = "orders" /\ Insert(row)
  BY DEF Save
<1>2. row \in RowType
  BY <1>1, ColumnsTypes DEF RowType, OrderRow
<1>3. /\ row.unit = Columns(row.item).unit
      /\ row.event = Columns(row.item).event
      /\ row.total = Cents(row.event)
      /\ ~ row.committed /\ row.at = clock
  BY ColumnsTypes
<1> HIDE DEF row
<1> QED
  BY <1>1, <1>2, <1>3, InsertSound

LEMMA RecordSound ==
  ASSUME RowsSound, clock \in 0..MaxClock, Record
  PROVE  RowsSound' /\ Added
<1> DEFINE row == [at |-> clock, committed |-> FALSE]
<1>1. table = "audit" /\ Insert(row)
  BY DEF Record
<1>2. row \in RowType /\ ~ row.committed /\ row.at = clock
  BY <1>1 DEF RowType, AuditRow
<1> HIDE DEF row
<1> QED
  BY <1>1, <1>2, InsertSound

(* A row that changes keeps its timestamp.                                 *)
Rewritten(i) ==
  /\ i \in DOMAIN rows /\ DOMAIN rows' = DOMAIN rows
  /\ \A j \in DOMAIN rows \ {i} : rows'[j] = rows[j]
  /\ rows'[i].at = rows[i].at
  /\ rows[i].committed => rows'[i].committed

LEMMA CommitSound ==
  ASSUME RowsSound, NEW i \in DOMAIN rows, Commit(i)
  PROVE  RowsSound' /\ Rewritten(i)
<1>1. PICK n \in 0..MaxRows : DOMAIN rows = 1..n /\ rows \in [1..n -> RowType]
  BY RowTypes
<1> DEFINE row == [rows[i] EXCEPT !.committed = TRUE]
<1>2. rows' = [rows EXCEPT ![i] = row] /\ UNCHANGED table
  BY DEF Commit
<1>3. rows[i] \in RowType
  BY RowTypes
<1>4. row \in RowType /\ row.at = rows[i].at /\ row.committed
  BY <1>3 DEF RowType, OrderRow, AuditRow
<1>5. table = "orders" => /\ row.unit = rows[i].unit /\ row.total = rows[i].total
                          /\ row.event = rows[i].event /\ row.item = rows[i].item
  BY <1>3 DEF RowType, OrderRow
<1> HIDE DEF row
<1>6. rows' \in [1..n -> RowType] /\ rows'[i] = row
      /\ \A j \in DOMAIN rows \ {i} : rows'[j] = rows[j]
  BY <1>1, <1>2, <1>4
<1>7. ASSUME table = "orders", NEW j \in 1..n
      PROVE  /\ rows'[j].unit = Columns(rows'[j].item).unit
             /\ rows'[j].event = Columns(rows'[j].item).event
             /\ rows'[j].total \in {ShownTotal(j)', Charged(j)'}
  <2>1. /\ rows'[j].unit = rows[j].unit /\ rows'[j].total = rows[j].total
        /\ rows'[j].event = rows[j].event /\ rows'[j].item = rows[j].item
    BY <1>1, <1>5, <1>6, <1>7
  <2>2. /\ rows[j].unit = Columns(rows[j].item).unit
        /\ rows[j].event = Columns(rows[j].item).event
        /\ rows[j].total \in {ShownTotal(j), Charged(j)}
    BY <1>1, <1>7 DEF RowsSound
  <2> QED
    BY <2>1, <2>2 DEF ShownTotal, Charged
<1>8. RowsSound'
  BY <1>2, <1>6, <1>7 DEF RowsSound, RowType
<1>9. Rewritten(i)
  BY <1>1, <1>4, <1>6 DEF Rewritten
<1> QED
  BY <1>8, <1>9

LEMMA UpdateSound ==
  ASSUME RowsSound, NEW i \in DOMAIN rows, Update(i)
  PROVE  RowsSound' /\ Rewritten(i)
<1>1. PICK n \in 0..MaxRows : DOMAIN rows = 1..n /\ rows \in [1..n -> RowType]
  BY RowTypes
<1> DEFINE row == [rows[i] EXCEPT !.total = ShownTotal(i)]
<1>2. rows' = [rows EXCEPT ![i] = row] /\ UNCHANGED table /\ table = "orders"
  BY DEF Update
<1>3. rows[i] \in OrderRow
  BY <1>2, RowTypes DEF RowType
<1>4. ShownTotal(i) \in Nat
  <2>1. rows[i].unit \in Nat /\ rows[i].item \in Items
    BY <1>3 DEF OrderRow
  <2>2. rows[i].item.quantity \in Nat
    BY <2>1, ColumnsTypes
  <2> QED
    BY <2>1, <2>2 DEF ShownTotal, LineTotal
<1>5. /\ row \in OrderRow /\ row.at = rows[i].at /\ row.committed = rows[i].committed
      /\ row.unit = rows[i].unit /\ row.event = rows[i].event /\ row.item = rows[i].item
      /\ row.total = ShownTotal(i)
  BY <1>3, <1>4 DEF OrderRow
<1> HIDE DEF row
<1>6. rows' \in [1..n -> RowType] /\ rows'[i] = row
      /\ \A j \in DOMAIN rows \ {i} : rows'[j] = rows[j]
  BY <1>1, <1>2, <1>5 DEF RowType
<1>7. ASSUME NEW j \in 1..n
      PROVE  /\ rows'[j].unit = Columns(rows'[j].item).unit
             /\ rows'[j].event = Columns(rows'[j].item).event
             /\ rows'[j].total \in {ShownTotal(j)', Charged(j)'}
  <2>1. /\ rows'[j].unit = rows[j].unit /\ rows'[j].event = rows[j].event
        /\ rows'[j].item = rows[j].item
        /\ rows'[j].total = rows[j].total \/ rows'[j].total = ShownTotal(j)
    BY <1>1, <1>5, <1>6, <1>7
  <2>2. /\ rows[j].unit = Columns(rows[j].item).unit
        /\ rows[j].event = Columns(rows[j].item).event
        /\ rows[j].total \in {ShownTotal(j), Charged(j)}
    BY <1>1, <1>2, <1>7 DEF RowsSound
  <2> QED
    BY <2>1, <2>2 DEF ShownTotal, Charged
<1>8. RowsSound'
  BY <1>2, <1>6, <1>7 DEF RowsSound, RowType
<1>9. Rewritten(i)
  BY <1>1, <1>5, <1>6 DEF Rewritten
<1> QED
  BY <1>8, <1>9
-----------------------------------------------------------------------------
(* Pages.                                                                  *)

(* A page that is not empty has a first timestamp.                         *)
LEMMA LeastOf ==
  ASSUME NEW S \in SUBSET Nat, S # {}
  PROVE  Min(S) \in S /\ \A y \in S : Min(S) <= y
<1>1. \E x \in S : \A y \in S : x <= y
  <2> DEFINE R == OpToRel(<, Nat)
  <2>1. IsWellFoundedOn(R, Nat)
    BY NatLessThanWellFounded
  <2>2. \A x, y \in Nat : x < y => <<x, y>> \in R
    BY DEF OpToRel
  <2> HIDE DEF R
  <2>3. PICK x \in S : \A y \in S : ~ (<<y, x>> \in R)
    BY <2>1, WFMin
  <2>4. ASSUME NEW y \in S PROVE x <= y
    <3>1. x \in Nat /\ y \in Nat
      OBVIOUS
    <3>2. ~ (y < x)
      BY <2>2, <2>3, <3>1
    <3> QED
      BY <3>1, <3>2
  <2> QED
    BY <2>4
<1> QED
  BY <1>1 DEF Min

(* A cursor is a whole millisecond, not after its page.                    *)
LEMMA WholeMillisecond ==
  ASSUME NEW t \in Nat
  PROVE  LET m == (t \div Millisecond) * Millisecond IN
         m \in Nat /\ m <= t /\ m % Millisecond = 0
<1>1. Millisecond \in Nat /\ Millisecond > 0
  BY ReadsAssumption
<1>2. PICK q \in Nat : q = t \div Millisecond
  BY <1>1
<1>3. PICK r \in Nat : r = t % Millisecond
  BY <1>1
<1>4. t = Millisecond * q + r
  BY <1>1, <1>2, <1>3
<1>5. q * Millisecond \in Nat /\ q * Millisecond <= t
  BY <1>1, <1>4
<1>6. (q * Millisecond) % Millisecond = 0
  BY <1>1
<1> QED
  BY <1>2, <1>5, <1>6

(* What a page shows: fewer rows than were asked for only when it shows    *)
(* the rest.                                                               *)
LEMMA PageFull ==
  ASSUME NEW set, IsFiniteSet(set), NEW n \in Nat, NEW page, NEW order,
         IsFirst(page, set, n, order)
  PROVE  /\ IsFiniteSet(page) /\ Cardinality(page) \in Nat /\ Cardinality(set) \in Nat
         /\ Cardinality(page) <= n
         /\ page # set => Cardinality(page) = n /\ n < Cardinality(set)
<1>1. /\ page \subseteq set
      /\ Cardinality(page) = IF Cardinality(set) < n THEN Cardinality(set) ELSE n
  BY DEF IsFirst
<1>2. /\ IsFiniteSet(page) /\ Cardinality(page) <= Cardinality(set)
      /\ Cardinality(set) = Cardinality(page) => set = page
  BY <1>1, FS_Subset
<1>3. Cardinality(page) \in Nat /\ Cardinality(set) \in Nat
  BY <1>2, FS_CardinalityType
<1> QED
  BY <1>1, <1>2, <1>3

(* The walk after a page.                                                  *)
LEMMA WalkTypes ==
  ASSUME TypeOK, walk.pc # "none"
  PROVE  /\ walk \in Walk
         /\ walk.pc \in {"walking", "ended"} /\ walk.limit \in Nat \ {0}
         /\ walk.offset \in Nat /\ walk.offset <= MaxRows
         /\ walk.cursor \in Nat
         /\ \A i \in 1..MaxRows : walk.times[i] \in 0..MaxRows + 1 /\ walk.times[i] \in Nat
<1>0. MaxRows \in Nat /\ MaxClock \in Nat
  BY ReadsAssumption
<1>1. walk \in Walk
  BY DEF TypeOK, NoWalk
<1>2. walk.limit \in Limits /\ walk.offset \in 0..MaxRows /\ walk.times \in Times
      /\ walk.cursor \in {t \in 0..MaxClock : t % Millisecond = 0} \cup {MaxClock + 1}
      /\ walk.pc \in {"walking", "ended"}
  BY <1>1 DEF Walk
<1>3. walk.limit \in Nat \ {0} /\ walk.offset \in Nat /\ walk.offset <= MaxRows
  <2>1. Limits \subseteq Nat \ {0}
    BY ReadsAssumption
  <2>2. PICK offset \in 0..MaxRows : offset = walk.offset
    BY <1>2
  <2>3. PICK limit \in Limits : limit = walk.limit
    BY <1>2
  <2> QED
    BY <1>0, <2>1, <2>2, <2>3
<1>4. walk.cursor \in Nat
  BY <1>0, <1>2
<1>5. ASSUME NEW i \in 1..MaxRows
      PROVE  walk.times[i] \in 0..MaxRows + 1 /\ walk.times[i] \in Nat
  <2>1. walk.times[i] \in 0..(MaxRows + 1)
    BY <1>2 DEF Times
  <2> QED
    BY <1>0, <2>1
<1> QED
  BY <1>1, <1>2, <1>3, <1>4, <1>5

LEMMA GoesOn ==
  ASSUME TypeOK, walk.pc # "none", NEW page, NEW more, NEW offset, NEW cursor,
         Goes(page, more, offset, cursor)
  PROVE  /\ walk' = [pc |-> IF more THEN "walking" ELSE "ended", limit |-> walk.limit,
                     began |-> walk.began, offset |-> offset, cursor |-> cursor,
                     times |-> [i \in 1..MaxRows |->
                                  walk.times[i] + IF i \in page THEN 1 ELSE 0]]
         /\ walk' # NoWalk
<1>1. walk \in Walk
  BY WalkTypes
<1> DEFINE times == [i \in 1..MaxRows |-> walk.times[i] + IF i \in page THEN 1 ELSE 0]
           pc    == IF more THEN "walking" ELSE "ended"
<1>2. walk' = [walk EXCEPT !.pc = pc, !.offset = offset, !.cursor = cursor, !.times = times]
  BY <1>1 DEF Goes, Walk
<1> HIDE DEF times, pc
<1>3. walk' = [pc |-> pc, limit |-> walk.limit, began |-> walk.began, offset |-> offset,
               cursor |-> cursor, times |-> times]
  BY <1>1, <1>2 DEF Walk
<1>4. walk'.pc = pc
  BY <1>3
<1>5. pc # "none"
  BY DEF pc
<1>6. walk' # NoWalk
  BY <1>4, <1>5 DEF NoWalk
<1> QED
  BY <1>3, <1>6 DEF pc, times
-----------------------------------------------------------------------------
(* Rows that are written while a client walks.                             *)

(* Rows turn up and none goes; timestamps stay.                            *)
Grows ==
  /\ Visible \subseteq Visible'
  /\ \A i \in Visible : rows'[i].at = rows[i].at
  /\ UNCHANGED <<table, walk>>

LEMMA RowsGrow ==
  ASSUME RowsSound, UNCHANGED <<table, walk>>,
         Added \/ (\E i \in DOMAIN rows : Rewritten(i)) \/ UNCHANGED rows
  PROVE  Grows
<1>1. CASE Added
  <2>1. PICK n \in 1..MaxRows : /\ DOMAIN rows = 1..(n - 1) /\ DOMAIN rows' = 1..n
                                /\ \A i \in 1..(n - 1) : rows'[i] = rows[i]
    BY <1>1 DEF Added
  <2>2. n \in Nat
    BY ReadsAssumption
  <2>3. 1..(n - 1) \subseteq 1..n
    BY <2>2
  <2> QED
    BY <2>1, <2>3 DEF Grows, Visible
<1>2. CASE \E i \in DOMAIN rows : Rewritten(i)
  BY <1>2 DEF Grows, Visible, Rewritten
<1>3. CASE UNCHANGED rows
  BY <1>3 DEF Grows, Visible
<1> QED
  BY <1>1, <1>2, <1>3

LEMMA VisibleNext ==
  ASSUME RowsSound'
  PROVE  Visible' \subseteq 1..MaxRows /\ IsFiniteSet(Visible')
<1>0. MaxRows \in Nat
  BY ReadsAssumption
<1>1. \A n \in 0..MaxRows : 1..n \subseteq 1..MaxRows
  BY <1>0
<1>2. DOMAIN rows' \subseteq 1..MaxRows
  BY <1>1 DEF RowsSound
<1>3. Visible' \subseteq 1..MaxRows
  BY <1>2 DEF Visible
<1>4. IsFiniteSet(1..MaxRows)
  BY <1>0, FS_Interval
<1> QED
  BY <1>3, <1>4, FS_Subset

LEMMA AloneBefore ==
  ASSUME RowsSound, RowsSound', Grows, NEW i \in Visible
  PROVE  /\ Alone(i)' => Alone(i)
         /\ Before(i) \subseteq Before(i)'
         /\ Before(i)' \cap Visible = Before(i)
         /\ IsFiniteSet(Before(i)) /\ IsFiniteSet(Before(i)')
<1>1. \A j \in Visible : rows'[j].at = rows[j].at /\ j \in Visible'
  BY DEF Grows
<1>2. UNCHANGED table
  BY DEF Grows
<1>3. \A j \in Visible : Tied(i, j)' <=> Tied(i, j)
  BY <1>1, <1>2 DEF Tied
<1>4. Alone(i)' => Alone(i)
  BY <1>1, <1>3 DEF Alone
<1>5. Before(i) \subseteq Before(i)' /\ Before(i)' \cap Visible = Before(i)
  BY <1>1 DEF Before
<1>6. IsFiniteSet(Visible) /\ IsFiniteSet(Visible')
  BY RowTypes, VisibleNext
<1>7. Before(i) \subseteq Visible /\ Before(i)' \subseteq Visible'
  BY DEF Before
<1>8. IsFiniteSet(Before(i)) /\ IsFiniteSet(Before(i)')
  BY <1>6, <1>7, FS_Subset
<1> QED
  BY <1>4, <1>5, <1>8

LEMMA GrowthKeepsWalk ==
  ASSUME TypeOK, RowsSound, RowsSound', WalkSound, Grows
  PROVE  WalkSound'
<1> SUFFICES ASSUME walk # NoWalk PROVE WalkSound'
  BY DEF WalkSound, Grows
<1>0. walk \in Walk /\ walk.pc # "none"
  BY DEF TypeOK, Walk
<1>1. /\ UNCHANGED <<table, walk>>
      /\ Visible \subseteq Visible'
      /\ \A i \in Visible : rows'[i].at = rows[i].at
  BY DEF Grows
<1>2. /\ walk.began \subseteq Visible
      /\ \A i \in 1..MaxRows : walk.times[i] > 0 => i \in Visible
  BY DEF WalkSound
<1>3. Visible' \subseteq 1..MaxRows
  BY VisibleNext
<1>4. \A i \in Visible' : walk.times[i] \in Nat /\ (walk.times[i] > 0 => i \in Visible)
  BY <1>0, <1>2, <1>3, WalkTypes
<1>5. /\ walk.began \subseteq Visible'
      /\ \A i \in 1..MaxRows : walk'.times[i] > 0 => i \in Visible'
  BY <1>1, <1>2
<1>6. CASE table = "orders"
  <2>1. CursorSound
    BY <1>6 DEF WalkSound
  <2>2. ASSUME NEW i \in Visible'
        PROVE  walk.times[i] <= 1 /\ (walk.times[i] > 0 => rows'[i].at >= walk.cursor)
    <3>1. CASE i \in Visible
      BY <1>1, <2>1, <3>1 DEF CursorSound
    <3>2. CASE walk.times[i] = 0
      BY <3>2
    <3> QED
      BY <1>4, <3>1, <3>2
  <2>3. ASSUME NEW i \in walk.began, walk.times[i] = 0, Alone(i)'
        PROVE  walk.pc = "walking" /\ rows'[i].at < walk.cursor
    <3>1. i \in Visible /\ Alone(i)
      BY <1>2, <2>3, AloneBefore
    <3> QED
      BY <1>1, <2>1, <2>3, <3>1 DEF CursorSound
  <2>4. CursorSound'
    BY <1>1, <2>2, <2>3 DEF CursorSound
  <2> QED
    BY <1>1, <1>5, <1>6, <2>4 DEF WalkSound
<1>7. CASE table # "orders"
  <2>1. OffsetSound
    BY <1>7 DEF WalkSound
  <2>0. walk.offset \in Nat
    BY <1>0, WalkTypes
  <2>2. ASSUME NEW i \in Visible'
        PROVE  /\ walk.times[i] <= walk.offset
               /\ Alone(i)' /\ Before(i)' \subseteq walk.began =>
                    walk.times[i] <= 1
                    /\ (walk.times[i] > 0 => Cardinality(Before(i)') < walk.offset)
    <3>1. CASE i \in Visible
      <4>1. walk.times[i] <= walk.offset
        BY <2>1, <3>1 DEF OffsetSound
      <4>2. ASSUME Alone(i)', Before(i)' \subseteq walk.began
            PROVE  walk.times[i] <= 1
                   /\ (walk.times[i] > 0 => Cardinality(Before(i)') < walk.offset)
        <5>1. Before(i)' = Before(i)
          BY <1>2, <3>1, <4>2, AloneBefore
        <5>2. Alone(i) /\ Before(i) \subseteq walk.began
          BY <3>1, <4>2, <5>1, AloneBefore
        <5>3. Cardinality(Before(i)') = Cardinality(Before(i))
          BY <5>1, Zenon
        <5> QED
          BY <2>1, <3>1, <5>2, <5>3 DEF OffsetSound
      <4> QED
        BY <4>1, <4>2
    <3>2. CASE walk.times[i] = 0
      BY <2>0, <3>2
    <3> QED
      BY <1>4, <3>1, <3>2
  <2>3. ASSUME NEW i \in walk.began, walk.times[i] = 0, Alone(i)'
        PROVE  walk.pc = "walking" /\ Cardinality(Before(i)') >= walk.offset
    <3>1. /\ i \in Visible /\ Alone(i) /\ Before(i) \subseteq Before(i)'
          /\ IsFiniteSet(Before(i)) /\ IsFiniteSet(Before(i)')
      BY <1>2, <2>3, AloneBefore
    <3>2. walk.pc = "walking" /\ Cardinality(Before(i)) >= walk.offset
      BY <2>1, <2>3, <3>1 DEF OffsetSound
    <3>3. /\ Cardinality(Before(i)) <= Cardinality(Before(i)')
          /\ Cardinality(Before(i)) \in Nat /\ Cardinality(Before(i)') \in Nat
      BY <3>1, FS_Subset, FS_CardinalityType
    <3> QED
      BY <2>0, <3>2, <3>3
  <2>4. OffsetSound'
    BY <1>1, <2>2, <2>3 DEF OffsetSound
  <2> QED
    BY <1>1, <1>5, <1>7, <2>4 DEF WalkSound
<1> QED
  BY <1>6, <1>7
-----------------------------------------------------------------------------
(* A page of orders.                                                       *)

LEMMA SameMillisecond ==
  ASSUME NEW s \in Nat, NEW t \in Nat, (t \div Millisecond) * Millisecond <= s, s <= t
  PROVE  s \div Millisecond = t \div Millisecond
<1>1. Millisecond \in Nat /\ Millisecond > 0
  BY ReadsAssumption
<1>2. PICK q \in Nat : q = t \div Millisecond
  BY <1>1
<1>3. PICK r \in Nat : r = t % Millisecond /\ r < Millisecond
  BY <1>1
<1>4. t = Millisecond * q + r
  BY <1>1, <1>2, <1>3
<1>5. PICK p \in Nat : p = s \div Millisecond
  BY <1>1
<1>6. PICK u \in Nat : u = s % Millisecond /\ u < Millisecond
  BY <1>1
<1>7. s = Millisecond * p + u
  BY <1>1, <1>5, <1>6
<1>8. Millisecond * q <= Millisecond * p + u /\ Millisecond * p + u <= Millisecond * q + r
  BY <1>1, <1>2, <1>4, <1>7
<1>9. q <= p
  <2>1. SUFFICES ASSUME p + 1 <= q PROVE FALSE
    OBVIOUS
  <2>2. Millisecond * (p + 1) <= Millisecond * q
    BY <1>1, <2>1
  <2>3. Millisecond * (p + 1) = Millisecond * p + Millisecond
    BY <1>1
  <2> QED
    BY <1>1, <1>6, <1>8, <2>2, <2>3
<1>10. p <= q
  <2>1. SUFFICES ASSUME q + 1 <= p PROVE FALSE
    OBVIOUS
  <2>2. Millisecond * (q + 1) <= Millisecond * p
    BY <1>1, <2>1
  <2>3. Millisecond * (q + 1) = Millisecond * q + Millisecond
    BY <1>1
  <2> QED
    BY <1>1, <1>3, <1>8, <2>2, <2>3
<1> QED
  BY <1>2, <1>5, <1>9, <1>10

(* The cursor after a page is the millisecond of one of its rows, and not  *)
(* after any of them.                                                      *)
LEMMA CursorOfPage ==
  ASSUME RowsSound, NEW page \in SUBSET Visible, page # {}
  PROVE  /\ \E j \in page : CursorOf(page) = (rows[j].at \div Millisecond) * Millisecond
         /\ \A i \in page : CursorOf(page) <= rows[i].at
         /\ CursorOf(page) \in {t \in 0..MaxClock : t % Millisecond = 0}
<1> DEFINE whole(i) == (rows[i].at \div Millisecond) * Millisecond
           S == {whole(i) : i \in page}
<1>1. \A i \in page : rows[i].at \in Nat /\ rows[i].at <= MaxClock
  <2>1. \A i \in Visible : rows[i].at \in 0..MaxClock
    BY RowTypes DEF Visible
  <2>2. MaxClock \in Nat
    BY ReadsAssumption
  <2> QED
    BY <2>1, <2>2
<1>2. \A i \in page : whole(i) \in Nat /\ whole(i) <= rows[i].at /\ whole(i) % Millisecond = 0
  BY <1>1, WholeMillisecond
<1> HIDE DEF whole
<1>3. S \in SUBSET Nat /\ S # {}
  BY <1>2
<1>4. Min(S) \in S /\ \A y \in S : Min(S) <= y
  <2> HIDE DEF S
  <2> QED
    BY <1>3, LeastOf
<1>5. CursorOf(page) = Min(S)
  BY DEF CursorOf, whole
<1>6. PICK j \in page : CursorOf(page) = whole(j)
  BY <1>4, <1>5
<1>7. ASSUME NEW i \in page PROVE CursorOf(page) <= rows[i].at
  <2>1. CursorOf(page) <= whole(i)
    BY <1>4, <1>5
  <2> QED
    BY <1>1, <1>2, <1>6, <2>1
<1>8. CursorOf(page) \in {t \in 0..MaxClock : t % Millisecond = 0}
  <2>1. MaxClock \in Nat
    BY ReadsAssumption
  <2> QED
    BY <1>1, <1>2, <1>6, <2>1
<1> QED
  BY <1>6, <1>7, <1>8 DEF whole

LEMMA ClampedType ==
  ASSUME NEW limit \in Nat \ {0}
  PROVE  Clamped(limit) \in Nat \ {0}
  BY ReadsAssumption DEF Clamped

(* While the rows stay, so does what is said of them.                      *)
LEMMA SameRows ==
  ASSUME UNCHANGED <<table, rows>>
  PROVE  /\ Visible' = Visible
         /\ \A i : Alone(i)' <=> Alone(i)
         /\ \A i : Before(i)' = Before(i)
         /\ RowsSound => RowsSound'
<1>1. Visible' = Visible
  BY DEF Visible
<1>2. \A i : Before(i)' = Before(i)
  BY <1>1 DEF Before
<1>3. \A i : Alone(i)' <=> Alone(i)
  BY <1>1 DEF Alone, Tied
<1>4. RowsSound => RowsSound'
  BY DEF RowsSound, ShownTotal, Charged
<1> QED
  BY <1>1, <1>2, <1>3, <1>4

LEMMA OrdersPageSound ==
  ASSUME TypeOK, RowsSound, WalkSound, NEW page \in SUBSET Visible, OrdersPage(page)
  PROVE  WalkSound' /\ walk' \in Walk
<1> DEFINE limit  == Clamped(walk.limit)
           cursor == IF page = {} THEN walk.cursor ELSE CursorOf(page)
           more   == Cardinality(AfterCursor) > limit
<1>0. MaxRows \in Nat \ {0} /\ MaxClock \in Nat
  BY ReadsAssumption
<1>1. /\ table = "orders" /\ walk.pc = "walking"
      /\ IsFirst(page, AfterCursor, limit, Newer)
      /\ Goes(page, more, 0, cursor)
      /\ UNCHANGED <<table, rows>>
  BY DEF OrdersPage
<1>2. walk # NoWalk /\ walk.pc # "none"
  BY <1>1 DEF NoWalk
<1>3. /\ walk \in Walk /\ walk.limit \in Nat \ {0} /\ walk.cursor \in Nat
      /\ \A i \in 1..MaxRows : walk.times[i] \in Nat
  BY <1>2, WalkTypes
<1>4. limit \in Nat \ {0}
  BY <1>3, ClampedType
<1>5. /\ walk.began \subseteq Visible
      /\ \A i \in 1..MaxRows : walk.times[i] > 0 => i \in Visible
      /\ CursorSound
  BY <1>1, <1>2 DEF WalkSound
<1>6. /\ Visible \subseteq 1..MaxRows /\ IsFiniteSet(Visible)
      /\ \A i \in Visible : rows[i].at \in Nat
  BY RowTypes
<1>7. AfterCursor \subseteq Visible /\ IsFiniteSet(AfterCursor)
  <2>1. AfterCursor \subseteq Visible
    BY DEF AfterCursor
  <2> QED
    BY <1>6, <2>1, FS_Subset
<1>8. /\ page \subseteq AfterCursor
      /\ page # AfterCursor => Cardinality(page) = limit /\ more
  BY <1>1, <1>4, <1>7, PageFull DEF IsFirst
<1>9. page # AfterCursor => page # {}
  BY <1>4, <1>8, FS_EmptySet
<1>10. page # {} =>
         /\ \E j \in page : cursor = (rows[j].at \div Millisecond) * Millisecond
         /\ \A i \in page : cursor <= rows[i].at
         /\ cursor \in {t \in 0..MaxClock : t % Millisecond = 0}
  BY CursorOfPage
<1>11. cursor \in Nat /\ cursor <= walk.cursor
       /\ cursor \in {t \in 0..MaxClock : t % Millisecond = 0} \cup {MaxClock + 1}
  <2>1. CASE page = {}
    BY <1>3, <2>1 DEF Walk
  <2>2. CASE page # {}
    <3>1. PICK i \in page : cursor <= rows[i].at
      BY <1>10, <2>2
    <3>2. rows[i].at < walk.cursor /\ rows[i].at \in Nat
      BY <1>6, <1>8, <3>1 DEF AfterCursor
    <3>3. cursor \in {t \in 0..MaxClock : t % Millisecond = 0}
      BY <1>10, <2>2
    <3>4. cursor \in Nat
      BY <1>0, <3>3
    <3> QED
      BY <1>3, <3>1, <3>2, <3>3, <3>4
  <2> QED
    BY <2>1, <2>2
<1> HIDE DEF cursor, limit, more
<1>12. /\ walk' = [pc |-> IF more THEN "walking" ELSE "ended", limit |-> walk.limit,
                   began |-> walk.began, offset |-> 0, cursor |-> cursor,
                   times |-> [i \in 1..MaxRows |-> walk.times[i] + IF i \in page THEN 1 ELSE 0]]
       /\ walk' # NoWalk
  BY <1>1, <1>2, GoesOn
<1>13. /\ walk'.began = walk.began /\ walk'.cursor = cursor
       /\ more => walk'.pc = "walking"
       /\ \A i \in 1..MaxRows :
            walk'.times[i] = IF i \in page THEN walk.times[i] + 1 ELSE walk.times[i]
  <2>1. \A i \in 1..MaxRows :
          walk'.times[i] = walk.times[i] + (IF i \in page THEN 1 ELSE 0)
    BY <1>12
  <2> QED
    BY <1>3, <1>12, <2>1
<1>14. Visible' = Visible /\ \A i : Alone(i)' <=> Alone(i)
  BY <1>1, SameRows
<1>15. ASSUME NEW i \in Visible
       PROVE  walk'.times[i] <= 1 /\ (walk'.times[i] > 0 => rows[i].at >= cursor)
  <2>1. /\ walk.times[i] \in Nat /\ walk.times[i] <= 1
        /\ walk.times[i] > 0 => rows[i].at >= walk.cursor
        /\ rows[i].at \in Nat
    BY <1>3, <1>5, <1>6 DEF CursorSound
  <2>2. CASE i \in page
    <3>1. rows[i].at < walk.cursor
      BY <1>8, <2>2 DEF AfterCursor
    <3>2. walk.times[i] = 0
      BY <1>3, <2>1, <3>1
    <3>3. walk'.times[i] = 1
      BY <1>6, <1>13, <2>2, <3>2
    <3>4. cursor <= rows[i].at
      BY <1>10, <2>2
    <3> QED
      BY <1>11, <2>1, <3>3, <3>4
  <2>3. CASE i \notin page
    <3>1. walk'.times[i] = walk.times[i]
      BY <1>6, <1>13, <2>3
    <3> QED
      BY <1>3, <1>11, <2>1, <3>1
  <2> QED
    BY <2>2, <2>3
<1>16. ASSUME NEW i \in walk.began, walk'.times[i] = 0, Alone(i)
       PROVE  walk'.pc = "walking" /\ rows[i].at < cursor
  <2>1. i \in Visible /\ i \in 1..MaxRows
    BY <1>5, <1>6
  <2>2. walk.times[i] = 0 /\ i \notin page
    BY <1>3, <1>13, <1>16, <2>1
  <2>3. rows[i].at < walk.cursor
    BY <1>5, <1>16, <2>2 DEF CursorSound
  <2>4. i \in AfterCursor
    BY <2>1, <2>3 DEF AfterCursor
  <2>5. more /\ page # {}
    BY <1>8, <1>9, <2>2, <2>4
  <2>6. PICK j \in page : cursor = (rows[j].at \div Millisecond) * Millisecond
    BY <1>10, <2>5
  <2>7. rows[i].at \in Nat /\ rows[j].at \in Nat /\ j \in Visible /\ j # i
    BY <1>6, <2>1, <2>2
  <2>8. rows[i].at <= rows[j].at
    <3>1. <<i, j>> \notin Newer
      BY <1>1, <2>2, <2>4 DEF IsFirst
    <3> QED
      BY <2>1, <2>7, <3>1 DEF Newer
  <2>9. rows[i].at < cursor
    <3>1. SUFFICES ASSUME cursor <= rows[i].at PROVE FALSE
      BY <1>11, <2>7
    <3>2. rows[i].at \div Millisecond = rows[j].at \div Millisecond
      BY <2>6, <2>7, <2>8, <3>1, SameMillisecond
    <3> QED
      BY <1>1, <1>16, <2>7, <3>2 DEF Alone, Tied
  <2> QED
    BY <1>13, <2>5, <2>9
<1>17. CursorSound'
  BY <1>1, <1>13, <1>14, <1>15, <1>16 DEF CursorSound
<1>18. \A i \in 1..MaxRows : walk'.times[i] > 0 => i \in Visible
  BY <1>5, <1>13
<1>19. WalkSound'
  BY <1>1, <1>5, <1>13, <1>14, <1>17, <1>18 DEF WalkSound
<1>20. walk' \in Walk
  <2>1. [i \in 1..MaxRows |-> walk.times[i] + IF i \in page THEN 1 ELSE 0] \in Times
    <3>1. ASSUME NEW i \in 1..MaxRows
          PROVE  walk.times[i] + (IF i \in page THEN 1 ELSE 0) \in 0..(MaxRows + 1)
      <4>1. walk'.times[i] = walk.times[i] + (IF i \in page THEN 1 ELSE 0)
        BY <1>12
      <4>2. walk'.times[i] \in Nat
        BY <1>3, <1>13
      <4>3. walk'.times[i] <= 1
        BY <1>15, <1>18, <4>2
      <4> QED
        BY <1>0, <4>1, <4>2, <4>3
    <3> QED
      BY <3>1 DEF Times
  <2>2. /\ walk.limit \in Limits /\ walk.began \in SUBSET (1..MaxRows)
        /\ 0 \in 0..MaxRows
    BY <1>0, <1>3 DEF Walk
  <2> QED
    BY <1>11, <1>12, <2>1, <2>2 DEF Walk
<1> QED
  BY <1>19, <1>20
-----------------------------------------------------------------------------
(* A page of the audit log.                                                *)

(* A part that lacks an element of the whole is smaller.                   *)
LEMMA ProperPart ==
  ASSUME NEW whole, IsFiniteSet(whole), NEW part \in SUBSET whole,
         NEW x \in whole, x \notin part
  PROVE  /\ Cardinality(part) \in Nat /\ Cardinality(whole) \in Nat
         /\ Cardinality(part) < Cardinality(whole)
<1>1. /\ IsFiniteSet(part) /\ Cardinality(part) <= Cardinality(whole)
      /\ Cardinality(whole) = Cardinality(part) => whole = part
  BY FS_Subset
<1>2. Cardinality(part) \in Nat /\ Cardinality(whole) \in Nat
  BY <1>1, FS_CardinalityType
<1>3. whole # part
  OBVIOUS
<1> QED
  BY <1>1, <1>2, <1>3

(* Where a row that no other is tied with stands towards the offset says   *)
(* on which side of the page it is.                                        *)
LEMMA AuditWindow ==
  ASSUME RowsSound, table = "audit",
         NEW offset \in Nat, NEW limit \in Nat \ {0},
         NEW skipped \in SUBSET Visible, NEW page \in SUBSET Visible,
         IsFirst(skipped, Visible, offset, Older),
         IsFirst(page, Visible \ skipped, limit, Older)
  PROVE  /\ Cardinality(page) \in Nat
         /\ page # {} =>
              Cardinality(page) >= 1 /\ offset + Cardinality(page) <= MaxRows
         /\ page = {} => Cardinality(page) = 0
         /\ \A i \in Visible : Cardinality(Before(i)) \in Nat
         /\ \A i \in skipped : Cardinality(Before(i)) < offset
         /\ \A i \in page : Alone(i) =>
              /\ Cardinality(Before(i)) >= offset
              /\ Cardinality(Before(i)) < offset + Cardinality(page)
         /\ \A i \in Visible \ (skipped \cup page) :
              /\ Cardinality(Visible \ skipped) > limit
              /\ Alone(i) => Cardinality(Before(i)) >= offset + Cardinality(page)
<1> DEFINE rest  == Visible \ skipped
           shown == skipped \cup page
<1>0. MaxRows \in Nat
  BY ReadsAssumption
<1>1. /\ Visible \subseteq 1..MaxRows /\ IsFiniteSet(Visible)
      /\ \A i \in Visible : rows[i].at \in Nat
  BY RowTypes
<1>2. IsFiniteSet(rest) /\ IsFiniteSet(shown) /\ IsFiniteSet(skipped)
  <2>1. rest \in SUBSET Visible /\ shown \in SUBSET Visible
    OBVIOUS
  <2> QED
    BY <1>1, <2>1, FS_Subset
<1>3. /\ Cardinality(skipped) \in Nat /\ Cardinality(skipped) <= offset
      /\ skipped # Visible => Cardinality(skipped) = offset
  BY <1>1, PageFull
<1>4. /\ IsFiniteSet(page) /\ Cardinality(page) \in Nat /\ page \subseteq rest
      /\ page # rest => Cardinality(page) = limit /\ limit < Cardinality(rest)
  <2>1. limit \in Nat /\ IsFirst(page, rest, limit, Older)
    OBVIOUS
  <2> HIDE DEF rest
  <2>2. page \subseteq rest
    BY <2>1 DEF IsFirst
  <2> QED
    BY <1>2, <2>1, <2>2, PageFull
<1>5. Cardinality(shown) = Cardinality(skipped) + Cardinality(page)
  <2>1. skipped \cap page = {}
    BY <1>4
  <2>2. Cardinality(skipped \cap page) = 0
    <3>1. Cardinality(skipped \cap page) = Cardinality({})
      BY <2>1, Zenon
    <3> QED
      BY <3>1, FS_EmptySet
  <2>3. Cardinality(shown) =
          Cardinality(skipped) + Cardinality(page) - Cardinality(skipped \cap page)
    BY <1>2, <1>4, FS_Union
  <2> QED
    BY <1>3, <1>4, <2>2, <2>3
<1>6. \A i \in Visible : /\ Before(i) \subseteq Visible /\ i \notin Before(i)
                         /\ IsFiniteSet(Before(i)) /\ Cardinality(Before(i)) \in Nat
  <2>1. ASSUME NEW i \in Visible PROVE Before(i) \subseteq Visible /\ i \notin Before(i)
    <3>1. ~ (rows[i].at < rows[i].at)
      <4>1. PICK t \in Nat : t = rows[i].at
        BY <1>1
      <4> QED
        BY <4>1
    <3> QED
      BY <3>1 DEF Before
  <2> QED
    BY <1>1, <2>1, FS_Subset, FS_CardinalityType
<1>7. /\ \A i \in skipped, j \in Visible \ skipped : <<j, i>> \notin Older
      /\ \A i \in page, j \in rest \ page : <<j, i>> \notin Older
  BY DEF IsFirst
<1>8. \A i, j \in Visible : (j \in Before(i) <=> <<j, i>> \in Older)
  BY DEF Before, Older
<1>9. \A i, j \in Visible : i # j /\ Alone(i) /\ <<i, j>> \notin Older => j \in Before(i)
  <2> SUFFICES ASSUME NEW i \in Visible, NEW j \in Visible, i # j, Alone(i),
                      <<i, j>> \notin Older
               PROVE  j \in Before(i)
    OBVIOUS
  <2>1. rows[i].at # rows[j].at
    BY DEF Alone, Tied
  <2>2. ~ (rows[i].at < rows[j].at)
    BY DEF Older
  <2> QED
    BY <1>1, <2>1, <2>2 DEF Before
<1>10. page # {} => Cardinality(page) >= 1 /\ offset + Cardinality(page) <= MaxRows
  <2> SUFFICES ASSUME page # {}
               PROVE  Cardinality(page) >= 1 /\ offset + Cardinality(page) <= MaxRows
    OBVIOUS
  <2>1. Cardinality(page) # 0
    BY <1>4, FS_EmptySet
  <2>2. Cardinality(skipped) = offset
    BY <1>3, <1>4
  <2>3. Cardinality(shown) <= Cardinality(Visible)
    <3>1. shown \in SUBSET Visible
      OBVIOUS
    <3> QED
      BY <1>1, <3>1, FS_Subset
  <2>4. Cardinality(Visible) <= MaxRows
    <3>1. IsFiniteSet(1..MaxRows) /\ Cardinality(1..MaxRows) = MaxRows
      BY <1>0, FS_Interval
    <3> QED
      BY <1>1, <3>1, FS_Subset
  <2>5. Cardinality(Visible) \in Nat
    BY <1>1, FS_CardinalityType
  <2> QED
    BY <1>0, <1>3, <1>4, <1>5, <2>1, <2>2, <2>3, <2>4, <2>5
<1>11. page = {} => Cardinality(page) = 0
  BY <1>4, FS_EmptySet
<1>12. ASSUME NEW i \in skipped PROVE Cardinality(Before(i)) < offset
  <2>1. Before(i) \subseteq skipped /\ i \notin Before(i)
    BY <1>6, <1>7, <1>8
  <2>2. Cardinality(Before(i)) < Cardinality(skipped)
    BY <1>2, <2>1, ProperPart
  <2> QED
    BY <1>3, <1>6, <2>2
<1>13. ASSUME NEW i \in page, Alone(i)
       PROVE  /\ Cardinality(Before(i)) >= offset
              /\ Cardinality(Before(i)) < offset + Cardinality(page)
  <2>1. i \in Visible /\ i \notin skipped
    BY <1>4
  <2>2. Cardinality(skipped) = offset
    BY <1>3, <2>1
  <2>3. skipped \subseteq Before(i)
    BY <1>7, <1>9, <1>13, <2>1
  <2>4. Cardinality(skipped) <= Cardinality(Before(i))
    BY <1>6, <2>1, <2>3, FS_Subset
  <2>5. Before(i) \subseteq shown /\ i \in shown /\ i \notin Before(i)
    BY <1>6, <1>7, <1>8, <2>1
  <2>6. Cardinality(Before(i)) < Cardinality(shown)
    <3> HIDE DEF shown
    <3> QED
      BY <1>2, <2>5, ProperPart
  <2> QED
    BY <1>3, <1>4, <1>5, <1>6, <2>1, <2>2, <2>4, <2>6
<1>14. ASSUME NEW i \in Visible \ (skipped \cup page)
       PROVE  /\ Cardinality(Visible \ skipped) > limit
              /\ Alone(i) => Cardinality(Before(i)) >= offset + Cardinality(page)
  <2>1. Cardinality(skipped) = offset
    BY <1>3
  <2>2. i \in rest \ page
    OBVIOUS
  <2>3. limit < Cardinality(rest) /\ Cardinality(rest) \in Nat
    BY <1>2, <1>4, <2>2, FS_CardinalityType
  <2>4. ASSUME Alone(i) PROVE Cardinality(Before(i)) >= offset + Cardinality(page)
    <3>1. ASSUME NEW j \in shown PROVE j \in Before(i)
      BY <1>7, <1>9, <2>2, <2>4, <3>1
    <3>2. Cardinality(shown) <= Cardinality(Before(i))
      <4>1. shown \in SUBSET Before(i)
        BY <3>1
      <4> QED
        BY <1>6, <4>1, FS_Subset
    <3>3. Cardinality(Before(i)) \in Nat
      BY <1>6
    <3> QED
      BY <1>3, <1>4, <1>5, <2>1, <3>2, <3>3
  <2> QED
    BY <2>3, <2>4
<1> QED
  BY <1>4, <1>6, <1>10, <1>11, <1>12, <1>13, <1>14

LEMMA AuditPageSound ==
  ASSUME TypeOK, RowsSound, WalkSound,
         NEW skipped \in SUBSET Visible, NEW page \in SUBSET Visible,
         AuditPage(skipped, page)
  PROVE  WalkSound' /\ walk' \in Walk
<1> DEFINE limit  == Clamped(walk.limit)
           more   == Cardinality(Visible \ skipped) > limit
           offset == walk.offset + Cardinality(page)
<1>0. MaxRows \in Nat
  BY ReadsAssumption
<1>1. /\ table = "audit" /\ walk.pc = "walking"
      /\ IsFirst(skipped, Visible, walk.offset, Older)
      /\ IsFirst(page, Visible \ skipped, limit, Older)
      /\ Goes(page, more, offset, walk.cursor)
      /\ UNCHANGED <<table, rows>>
  BY DEF AuditPage
<1>2. walk # NoWalk /\ walk.pc # "none"
  BY <1>1 DEF NoWalk
<1>3. /\ walk \in Walk /\ walk.limit \in Nat \ {0}
      /\ walk.offset \in Nat /\ walk.offset <= MaxRows
      /\ \A i \in 1..MaxRows : walk.times[i] \in Nat
  BY <1>2, WalkTypes
<1>4. limit \in Nat \ {0}
  BY <1>3, ClampedType
<1>5. /\ walk.began \subseteq Visible
      /\ \A i \in 1..MaxRows : walk.times[i] > 0 => i \in Visible
      /\ OffsetSound
  BY <1>1, <1>2 DEF WalkSound
<1>6. Visible \subseteq 1..MaxRows
  BY RowTypes
<1> HIDE DEF limit
<1>7. /\ Cardinality(page) \in Nat
      /\ page # {} => Cardinality(page) >= 1 /\ offset <= MaxRows
      /\ page = {} => Cardinality(page) = 0
      /\ \A i \in Visible : Cardinality(Before(i)) \in Nat
      /\ \A i \in skipped : Cardinality(Before(i)) < walk.offset
      /\ \A i \in page : Alone(i) =>
           Cardinality(Before(i)) >= walk.offset /\ Cardinality(Before(i)) < offset
      /\ \A i \in Visible \ (skipped \cup page) :
           more /\ (Alone(i) => Cardinality(Before(i)) >= offset)
  BY <1>1, <1>3, <1>4, AuditWindow
<1>8. /\ offset \in Nat /\ offset >= walk.offset /\ offset <= MaxRows
      /\ page # {} => offset >= walk.offset + 1
  BY <1>0, <1>3, <1>7
<1> HIDE DEF more, offset
<1>9. /\ walk' = [pc |-> IF more THEN "walking" ELSE "ended", limit |-> walk.limit,
                  began |-> walk.began, offset |-> offset, cursor |-> walk.cursor,
                  times |-> [i \in 1..MaxRows |-> walk.times[i] + IF i \in page THEN 1 ELSE 0]]
      /\ walk' # NoWalk
  BY <1>1, <1>2, GoesOn
<1>10. /\ walk'.began = walk.began /\ walk'.offset = offset
       /\ more => walk'.pc = "walking"
       /\ \A i \in 1..MaxRows :
            walk'.times[i] = IF i \in page THEN walk.times[i] + 1 ELSE walk.times[i]
  <2>1. \A i \in 1..MaxRows :
          walk'.times[i] = walk.times[i] + (IF i \in page THEN 1 ELSE 0)
    BY <1>9
  <2> QED
    BY <1>3, <1>9, <2>1
<1>11. /\ Visible' = Visible
       /\ \A i : Alone(i)' <=> Alone(i)
       /\ \A i : Before(i)' = Before(i)
  BY <1>1, SameRows
<1>12. ASSUME NEW i \in Visible
       PROVE  /\ walk'.times[i] <= offset
              /\ Alone(i) /\ Before(i) \subseteq walk.began =>
                   walk'.times[i] <= 1
                   /\ (walk'.times[i] > 0 => Cardinality(Before(i)) < offset)
  <2>1. /\ i \in 1..MaxRows /\ walk.times[i] \in Nat /\ walk.times[i] <= walk.offset
        /\ Cardinality(Before(i)) \in Nat
    BY <1>3, <1>5, <1>6, <1>7 DEF OffsetSound
  <2>2. Alone(i) /\ Before(i) \subseteq walk.began =>
          walk.times[i] <= 1
          /\ (walk.times[i] > 0 => Cardinality(Before(i)) < walk.offset)
    BY <1>5 DEF OffsetSound
  <2>3. CASE i \in page
    <3>1. walk'.times[i] = walk.times[i] + 1
      BY <1>10, <2>1, <2>3
    <3>2. walk'.times[i] <= offset
      BY <1>3, <1>8, <2>1, <2>3, <3>1
    <3>3. ASSUME Alone(i), Before(i) \subseteq walk.began
          PROVE  walk'.times[i] <= 1 /\ Cardinality(Before(i)) < offset
      <4>1. Cardinality(Before(i)) >= walk.offset /\ Cardinality(Before(i)) < offset
        BY <1>7, <2>3, <3>3
      <4>2. walk.times[i] = 0
        BY <1>3, <2>1, <2>2, <3>3, <4>1
      <4> QED
        BY <3>1, <4>1, <4>2
    <3> QED
      BY <3>2, <3>3
  <2>4. CASE i \notin page
    <3>1. walk'.times[i] = walk.times[i]
      BY <1>10, <2>1, <2>4
    <3> QED
      BY <1>3, <1>8, <2>1, <2>2, <3>1
  <2> QED
    BY <2>3, <2>4
<1>13. ASSUME NEW i \in walk.began, walk'.times[i] = 0, Alone(i)
       PROVE  walk'.pc = "walking" /\ Cardinality(Before(i)) >= offset
  <2>1. i \in Visible /\ i \in 1..MaxRows
    BY <1>5, <1>6
  <2>2. walk.times[i] = 0 /\ i \notin page
    BY <1>3, <1>10, <1>13, <2>1
  <2>3. Cardinality(Before(i)) >= walk.offset
    BY <1>5, <1>13, <2>2 DEF OffsetSound
  <2>4. i \notin skipped
    BY <1>3, <1>7, <2>1, <2>3
  <2> QED
    BY <1>7, <1>10, <1>13, <2>1, <2>2, <2>4
<1>14. OffsetSound'
  <2>1. \A i \in Visible' :
          /\ walk'.times[i] <= walk'.offset
          /\ Alone(i)' /\ Before(i)' \subseteq walk'.began =>
               walk'.times[i] <= 1
               /\ (walk'.times[i] > 0 => Cardinality(Before(i)') < walk'.offset)
    <3> SUFFICES ASSUME NEW i \in Visible
                 PROVE  /\ walk'.times[i] <= offset
                        /\ Alone(i)' /\ Before(i)' \subseteq walk'.began =>
                             walk'.times[i] <= 1
                             /\ (walk'.times[i] > 0 => Cardinality(Before(i)') < offset)
      BY <1>10, <1>11
    <3>1. Cardinality(Before(i)') = Cardinality(Before(i))
      BY <1>11, Zenon
    <3> QED
      BY <1>10, <1>11, <1>12, <3>1
  <2>2. \A i \in walk'.began : walk'.times[i] = 0 /\ Alone(i)' =>
          walk'.pc = "walking" /\ Cardinality(Before(i)') >= walk'.offset
    <3> SUFFICES ASSUME NEW i \in walk.began, walk'.times[i] = 0, Alone(i)'
                 PROVE  walk'.pc = "walking" /\ Cardinality(Before(i)') >= offset
      BY <1>10
    <3>1. Cardinality(Before(i)') = Cardinality(Before(i))
      BY <1>11, Zenon
    <3> QED
      BY <1>11, <1>13, <3>1
  <2> QED
    BY <2>1, <2>2 DEF OffsetSound
<1>15. \A i \in 1..MaxRows : walk'.times[i] > 0 => i \in Visible
  BY <1>5, <1>10
<1>16. WalkSound'
  BY <1>1, <1>5, <1>10, <1>11, <1>14, <1>15 DEF WalkSound
<1>17. walk' \in Walk
  <2>1. [i \in 1..MaxRows |-> walk.times[i] + IF i \in page THEN 1 ELSE 0] \in Times
    <3>1. ASSUME NEW i \in 1..MaxRows
          PROVE  walk.times[i] + (IF i \in page THEN 1 ELSE 0) \in 0..(MaxRows + 1)
      <4>1. walk'.times[i] = walk.times[i] + (IF i \in page THEN 1 ELSE 0)
        BY <1>9
      <4>2. walk'.times[i] \in Nat
        BY <1>3, <1>10
      <4>3. walk'.times[i] <= offset
        BY <1>8, <1>12, <1>15, <4>2
      <4> QED
        BY <1>0, <1>8, <4>1, <4>2, <4>3
    <3> QED
      BY <3>1 DEF Times
  <2>2. /\ walk.limit \in Limits /\ walk.began \in SUBSET (1..MaxRows)
        /\ walk.cursor \in {t \in 0..MaxClock : t % Millisecond = 0} \cup {MaxClock + 1}
        /\ offset \in 0..MaxRows
    <3>1. offset \in 0..MaxRows
      BY <1>0, <1>8
    <3> QED
      BY <1>3, <3>1 DEF Walk
  <2> HIDE DEF Times
  <2> QED
    BY <1>9, <2>1, <2>2 DEF Walk
<1> QED
  BY <1>16, <1>17
-----------------------------------------------------------------------------
(* A walk that begins has shown nothing, and has every row before it.      *)
LEMMA BeginSound ==
  ASSUME RowsSound, NEW limit \in Limits, Begin(limit)
  PROVE  WalkSound' /\ walk' \in Walk
<1>0. MaxRows \in Nat /\ MaxClock \in Nat
  BY ReadsAssumption
<1>1. /\ Visible \subseteq 1..MaxRows /\ IsFiniteSet(Visible)
      /\ \A i \in Visible : rows[i].at \in 0..MaxClock
  BY RowTypes DEF Visible
<1>2. UNCHANGED <<table, rows>>
  BY DEF Begin
<1>3. Visible' = Visible /\ \A i : Before(i)' = Before(i)
  BY <1>2, SameRows
<1> DEFINE times == [i \in 1..MaxRows |-> 0]
<1>4. /\ times \in Times
      /\ \A i \in 1..MaxRows : times[i] = 0
  BY <1>0 DEF Times
<1> HIDE DEF times
<1>5. walk' = [pc |-> "walking", limit |-> limit, began |-> Visible, offset |-> 0,
               cursor |-> MaxClock + 1, times |-> times]
  BY DEF Begin, times
<1>6. /\ walk'.pc = "walking" /\ walk'.began = Visible /\ walk'.offset = 0
      /\ walk'.cursor = MaxClock + 1
      /\ \A i \in 1..MaxRows : walk'.times[i] = 0
  BY <1>4, <1>5
<1>7. walk' \in Walk
  BY <1>0, <1>1, <1>4, <1>5 DEF Walk
<1>8. CursorSound'
  <2>1. \A i \in Visible : rows[i].at < MaxClock + 1
    BY <1>0, <1>1
  <2>2. \A i \in Visible : walk'.times[i] <= 1 /\ ~ (walk'.times[i] > 0)
    BY <1>1, <1>6
  <2> QED
    BY <1>2, <1>3, <1>6, <2>1, <2>2 DEF CursorSound
<1>9. OffsetSound'
  <2>1. \A i \in Visible' : walk'.times[i] <= 1 /\ walk'.times[i] <= walk'.offset
                            /\ ~ (walk'.times[i] > 0)
    BY <1>1, <1>3, <1>6
  <2>2. ASSUME NEW i \in walk'.began PROVE Cardinality(Before(i)') >= walk'.offset
    <3>1. IsFiniteSet(Before(i))
      <4>1. Before(i) \subseteq Visible
        BY DEF Before
      <4> QED
        BY <1>1, <4>1, FS_Subset
    <3>2. Cardinality(Before(i)') = Cardinality(Before(i))
      BY <1>3, Zenon
    <3>3. Cardinality(Before(i)) \in Nat
      BY <3>1, FS_CardinalityType
    <3> QED
      BY <1>6, <3>2, <3>3
  <2> QED
    BY <1>6, <2>1, <2>2 DEF OffsetSound
<1>10. \A i \in 1..MaxRows : ~ (walk'.times[i] > 0)
  BY <1>6
<1>11. WalkSound'
  BY <1>3, <1>6, <1>8, <1>9, <1>10 DEF WalkSound
<1> QED
  BY <1>7, <1>11
-----------------------------------------------------------------------------
(* The invariant: how the rows come about, and what a walk's place says of *)
(* what it has shown.                                                      *)
IInv == TypeOK /\ RowsSound /\ WalkSound

LEMMA InitSound == Init => IInv
<1> SUFFICES ASSUME Init PROVE IInv
  OBVIOUS
<1>1. MaxRows \in Nat /\ MaxClock \in Nat
  BY ReadsAssumption
<1>2. /\ table \in {"orders", "audit"} /\ clock = 0 /\ walk = NoWalk
      /\ rows = [i \in {} |-> {}] /\ DOMAIN rows = {}
  BY DEF Init
<1>3. TypeOK
  BY <1>1, <1>2 DEF TypeOK
<1>4. RowsSound
  <2>1. 0 \in 0..MaxRows /\ 1..0 = {}
    BY <1>1
  <2>2. rows \in [1..0 -> IF table = "orders" THEN OrderRow ELSE AuditRow]
    BY <1>2, <2>1
  <2> QED
    BY <2>1, <2>2 DEF RowsSound
<1>5. WalkSound
  BY <1>2 DEF WalkSound
<1> QED
  BY <1>3, <1>4, <1>5 DEF IInv

(* Rows have been there since before now.                                  *)
LEMMA TypesNext ==
  ASSUME TypeOK, RowsSound', UNCHANGED table,
         clock' \in 0..MaxClock, clock <= clock',
         UNCHANGED rows \/ Added \/ (\E i \in DOMAIN rows : Rewritten(i)),
         walk' \in {NoWalk} \cup Walk
  PROVE  TypeOK'
<1>0. MaxRows \in Nat /\ MaxClock \in Nat
  BY ReadsAssumption
<1>1. clock \in Nat /\ clock' \in Nat
  BY <1>0 DEF TypeOK
<1>2. \A i \in DOMAIN rows' : rows'[i].committed \in BOOLEAN /\ rows'[i].at \in Nat
  <2>1. PICK n \in 0..MaxRows :
          rows' \in [1..n -> IF table' = "orders" THEN OrderRow ELSE AuditRow]
    BY DEF RowsSound
  <2>2. \A x \in OrderRow \cup AuditRow : x.committed \in BOOLEAN /\ x.at \in 0..MaxClock
    BY DEF OrderRow, AuditRow
  <2>3. DOMAIN rows' = 1..n /\ \A i \in 1..n : rows'[i] \in OrderRow \cup AuditRow
    <3> HIDE DEF OrderRow, AuditRow
    <3> QED
      BY <2>1
  <2>4. 0..MaxClock \subseteq Nat
    BY <1>0
  <2> QED
    BY <2>2, <2>3, <2>4, Zenon
<1>3. \A i \in DOMAIN rows : rows[i].at \in Nat /\ rows[i].at <= clock'
  BY <1>1 DEF TypeOK
<1>4. ASSUME NEW i \in DOMAIN rows' PROVE rows'[i].at <= clock'
  <2>1. CASE UNCHANGED rows
    BY <1>3, <2>1
  <2>2. CASE Added
    <3>1. PICK n \in 1..MaxRows :
            /\ DOMAIN rows = 1..(n - 1) /\ DOMAIN rows' = 1..n
            /\ \A j \in 1..(n - 1) : rows'[j] = rows[j]
            /\ rows'[n].at = clock
      BY <2>2 DEF Added
    <3>2. i = n \/ i \in DOMAIN rows
      BY <1>0, <3>1
    <3>3. CASE i = n
      BY <3>1, <3>3
    <3>4. CASE i \in DOMAIN rows
      BY <1>3, <3>1, <3>4
    <3> QED
      BY <3>2, <3>3, <3>4
  <2>3. CASE \E j \in DOMAIN rows : Rewritten(j)
    <3>1. PICK j \in DOMAIN rows : Rewritten(j)
      BY <2>3
    <3>2. i \in DOMAIN rows /\ rows'[i].at = rows[i].at
      BY <3>1 DEF Rewritten
    <3> QED
      BY <1>3, <3>2
  <2> QED
    BY <2>1, <2>2, <2>3
<1>5. \A i \in DOMAIN rows' : rows'[i].at \in 0..clock'
  BY <1>1, <1>2, <1>4
<1>6. table' \in {"orders", "audit"}
  BY DEF TypeOK
<1> QED
  BY <1>2, <1>5, <1>6 DEF TypeOK

LEMMA NextSound == IInv /\ [Next]_vars => IInv'
<1> SUFFICES ASSUME TypeOK, RowsSound, WalkSound, [Next]_vars PROVE IInv'
  BY DEF IInv
<1>0. clock \in 0..MaxClock /\ clock \in Nat /\ MaxClock \in Nat
      /\ walk \in {NoWalk} \cup Walk
  BY ReadsAssumption DEF TypeOK
<1>1. ASSUME RowsSound', UNCHANGED <<table, walk>>,
             clock' \in 0..MaxClock, clock <= clock',
             UNCHANGED rows \/ Added \/ (\E i \in DOMAIN rows : Rewritten(i))
      PROVE  IInv'
  <2>1. Grows
    BY <1>1, RowsGrow
  <2>2. WalkSound'
    BY <1>1, <2>1, GrowthKeepsWalk
  <2>3. TypeOK'
    BY <1>0, <1>1, TypesNext
  <2> QED
    BY <1>1, <2>2, <2>3 DEF IInv
<1>2. ASSUME UNCHANGED <<table, clock, rows>>, WalkSound', walk' \in Walk
      PROVE  IInv'
  <2>1. RowsSound'
    BY <1>2, SameRows
  <2>2. TypeOK'
    BY <1>0, <1>2, <2>1, TypesNext
  <2> QED
    BY <1>2, <2>1, <2>2 DEF IInv
<1>3. ASSUME NEW item \in Items, Save(item) PROVE IInv'
  <2>1. RowsSound' /\ Added
    BY <1>0, <1>3, SaveSound
  <2>2. UNCHANGED <<table, clock, walk>>
    BY <1>3 DEF Save, Insert
  <2> QED
    BY <1>0, <1>1, <2>1, <2>2
<1>4. ASSUME Record PROVE IInv'
  <2>1. RowsSound' /\ Added
    BY <1>0, <1>4, RecordSound
  <2>2. UNCHANGED <<table, clock, walk>>
    BY <1>4 DEF Record, Insert
  <2> QED
    BY <1>0, <1>1, <2>1, <2>2
<1>5. ASSUME NEW i \in DOMAIN rows, Commit(i) \/ Update(i) PROVE IInv'
  <2>1. RowsSound' /\ Rewritten(i)
    BY <1>5, CommitSound, UpdateSound
  <2>2. UNCHANGED <<table, clock, walk>>
    BY <1>5 DEF Commit, Update
  <2> QED
    BY <1>0, <1>1, <2>1, <2>2
<1>6. ASSUME Tick PROVE IInv'
  <2>1. UNCHANGED <<table, rows, walk>> /\ clock' = clock + 1 /\ clock < MaxClock
    BY <1>6 DEF Tick
  <2>2. RowsSound'
    BY <2>1, SameRows
  <2> QED
    BY <1>0, <1>1, <2>1, <2>2
<1>7. ASSUME NEW limit \in Limits, Begin(limit) PROVE IInv'
  <2>1. WalkSound' /\ walk' \in Walk
    BY <1>7, BeginSound
  <2> QED
    BY <1>2, <1>7, <2>1 DEF Begin
<1>8. ASSUME NEW page \in SUBSET Visible, OrdersPage(page) PROVE IInv'
  <2>1. WalkSound' /\ walk' \in Walk
    BY <1>8, OrdersPageSound
  <2> QED
    BY <1>2, <1>8, <2>1 DEF OrdersPage
<1>9. ASSUME NEW skipped \in SUBSET Visible, NEW page \in SUBSET Visible,
             AuditPage(skipped, page)
      PROVE  IInv'
  <2>1. WalkSound' /\ walk' \in Walk
    BY <1>9, AuditPageSound
  <2> QED
    BY <1>2, <1>9, <2>1 DEF AuditPage
<1>10. ASSUME UNCHANGED vars PROVE IInv'
  <2>1. UNCHANGED <<table, clock, rows, walk>>
    BY <1>10 DEF vars
  <2>2. RowsSound'
    BY <2>1, SameRows
  <2> QED
    BY <1>0, <1>1, <2>1, <2>2
<1> QED
  BY <1>3, <1>4, <1>5, <1>6, <1>7, <1>8, <1>9, <1>10 DEF Next

(* Rows keep their types and the prices their columns were made from, and  *)
(* what a walk has behind its place is what it has shown: the invariant    *)
(* that the theorems below follow from.                                    *)
THEOREM Invariance == Spec => []IInv
<1>1. Init => IInv
  BY InitSound
<1>2. IInv /\ [Next]_vars => IInv'
  BY NextSound
<1> QED
  BY <1>1, <1>2, PTL DEF Spec

(* Rows and walks have their types in every state, and the cursor that     *)
(* findByCustomerId gives out is a whole millisecond.                      *)
THEOREM TypeCorrect == Spec => []TypeOK
<1>1. IInv => TypeOK
  BY DEF IInv
<1> QED
  BY <1>1, Invariance, PTL

(* A walk that ends has shown every row that was there when it began and   *)
(* that no other row is tied with, whatever findByCustomerId and search    *)
(* saw committed between two pages.                                        *)
THEOREM NothingSkipped == Spec => []NoneSkipped
<1>1. IInv => NoneSkipped
  <2> SUFFICES ASSUME IInv, walk.pc = "ended", NEW i \in walk.began,
                      ~ \E j \in Visible \ {i} : Tied(i, j)
               PROVE  walk.times[i] > 0
    BY DEF NoneSkipped
  <2>1. TypeOK /\ RowsSound /\ WalkSound
    BY DEF IInv
  <2>2. walk.pc # "none" /\ walk # NoWalk /\ walk.pc # "walking"
    BY DEF NoWalk
  <2>3. /\ walk.began \subseteq Visible
        /\ IF table = "orders" THEN CursorSound ELSE OffsetSound
    BY <2>1, <2>2 DEF WalkSound
  <2>4. Alone(i)
    BY DEF Alone
  <2>5. walk.times[i] # 0
    BY <2>2, <2>3, <2>4 DEF CursorSound, OffsetSound
  <2>6. i \in 1..MaxRows
    BY <2>1, <2>3, RowTypes
  <2>7. walk.times[i] \in Nat
    BY <2>1, <2>2, <2>6, WalkTypes
  <2> QED
    BY <2>5, <2>7
<1> QED
  BY <1>1, Invariance, PTL

(* findByCustomerId shows no order twice; search shows a row of the audit  *)
(* log again only when rows that were committed late have pushed it over   *)
(* the offset, or when it is tied.                                         *)
THEOREM RepeatsHaveCause == Spec => []RepeatedForCause
<1>1. IInv => RepeatedForCause
  <2> SUFFICES ASSUME IInv, walk # NoWalk, NEW i \in Visible, walk.times[i] > 1
               PROVE  /\ table = "audit"
                      /\ \E j \in Visible \ {i} :
                           Tied(i, j) \/ (rows[j].at < rows[i].at /\ j \notin walk.began)
    BY DEF RepeatedForCause
  <2>1. TypeOK /\ RowsSound /\ WalkSound
    BY DEF IInv
  <2>2. walk \in Walk /\ walk.pc # "none"
    BY <2>1 DEF TypeOK, Walk
  <2>3. i \in 1..MaxRows /\ rows[i].at \in Nat
    BY <2>1, RowTypes
  <2>4. walk.times[i] \in Nat /\ ~ (walk.times[i] <= 1)
    BY <2>1, <2>2, <2>3, WalkTypes
  <2>5. table = "audit"
    <3>1. table # "orders"
      BY <2>1, <2>4 DEF WalkSound, CursorSound
    <3> QED
      BY <2>1, <3>1 DEF TypeOK
  <2>6. ~ (Alone(i) /\ Before(i) \subseteq walk.began)
    BY <2>1, <2>4, <2>5 DEF WalkSound, OffsetSound
  <2>7. CASE ~ Alone(i)
    BY <2>5, <2>7 DEF Alone
  <2>8. CASE ~ (Before(i) \subseteq walk.began)
    <3>1. PICK j \in Visible : rows[j].at < rows[i].at /\ j \notin walk.began
      BY <2>8 DEF Before
    <3>2. j # i
      BY <2>3, <3>1
    <3> QED
      BY <2>5, <3>1, <3>2
  <2> QED
    BY <2>6, <2>7, <2>8
<1> QED
  BY <1>1, Invariance, PTL

(* The total that a customer is shown, the total column and the amount     *)
(* charged are one for prices in whole cents, and otherwise no farther     *)
(* apart than rounding each piece, or their sum, makes them.               *)
THEOREM TotalsAgree == Spec => []TotalsClose
<1>1. IInv => TotalsClose
  BY RowsMakeTotalsClose DEF IInv
<1> QED
  BY <1>1, Invariance, PTL
=============================================================================
