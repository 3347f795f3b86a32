--------------------------------- MODULE Reads ---------------------------------
(***************************************************************************)
(* What a client reads back, page by page, while rows are being written:   *)
(* a customer's orders, newest first, by a cursor (ListOrdersQuery,        *)
(* KnexOrderRepository), or the audit log, oldest first, by an offset      *)
(* (AuditQueryHandler, KnexAuditRepository).  A run is about one of the    *)
(* two tables.                                                             *)
(*                                                                         *)
(* A row gets its timestamp when its transaction starts and is seen when   *)
(* it commits, so that rows may turn up behind rows already read.  The     *)
(* database keeps microseconds (ticks here); a JavaScript Date, and with   *)
(* it the cursor, keeps milliseconds.  Rows of one timestamp come in any   *)
(* order, in every query anew.                                             *)
(*                                                                         *)
(* An order has a price in tenths of a cent and a quantity: clients may    *)
(* send any positive number, the columns hold cents.  The created event,   *)
(* by which the payment is charged, is built from the order as it was sent,*)
(* the responses from the columns.                                         *)
(***************************************************************************)
EXTENDS Integers, FiniteSets, FiniteSetsExt

CONSTANTS
  Items,        (* what is ordered: [price |-> tenths of a cent, quantity]   *)
  Limits,       (* page sizes that clients ask for                           *)
  MaxLimit,     (* the handlers' greatest page                               *)
  Millisecond,  (* in ticks                                                  *)
  MaxRows,      (* bound: rows ever written                                  *)
  MaxClock      (* bound: how long the clock runs                            *)

ASSUME ReadsAssumption ==
  /\ \A i \in Items : {i.price, i.quantity} \subseteq Nat \ {0}
  /\ Limits \subseteq Nat \ {0}
  /\ {MaxLimit, Millisecond, MaxRows} \subseteq Nat \ {0}
  /\ MaxClock \in Nat

VARIABLES
  table,  (* "orders" or "audit"                                             *)
  clock,
  rows,   (* by number, the rows written: when, whether committed, and for   *)
          (* an order its item, its columns and the total of its event       *)
  walk    (* the client's walk: its limit, the rows that were there when it  *)
          (* began, its place, how often it was shown each row               *)

vars == <<table, clock, rows, walk>>

Visible == {i \in DOMAIN rows : rows[i].committed}

NoWalk == [pc |-> "none"]

Init ==
  /\ table \in {"orders", "audit"}
  /\ clock = 0
  /\ rows = [i \in {} |-> {}]
  /\ walk = NoWalk
-----------------------------------------------------------------------------
(* Money.toFixed: to cents, half up.  OrderItem: the price of the line.    *)

(* A mutant of Cents: what is less than a cent is cut off.                 *)
CentsCut(tenths) == tenths \div 10

Cents(tenths) == (tenths + 5) \div 10

LineTotal(price, quantity) == price * quantity

(* The unit price column must be positive, and the saved row is read back  *)
(* before the commit, where OrderItem refuses a price of zero.             *)
Storable(item) == Cents(item.price) > 0

(* The columns of an order, and the total of its created event.            *)
Columns(item) ==
  [unit  |-> Cents(item.price),
   total |-> Cents(LineTotal(item.price, item.quantity)),
   event |-> LineTotal(item.price, item.quantity)]

(* formatOrderResponse, of an order as toDomain makes it from its row.     *)
ShownTotal(i) == LineTotal(rows[i].unit, rows[i].item.quantity)

(* The payment of an order.created event's total, to the cent.             *)
Charged(i) == Cents(rows[i].event)

Insert(row) ==
  LET n == Cardinality(DOMAIN rows) + 1 IN
  /\ n <= MaxRows
  /\ rows' = [i \in DOMAIN rows \cup {n} |-> IF i = n THEN row ELSE rows[i]]
  /\ UNCHANGED <<table, clock, walk>>

(* save: an order's transaction inserts its row.                           *)
Save(item) ==
  /\ table = "orders" /\ Storable(item)
  /\ LET columns == Columns(item) IN
     Insert([at |-> clock, committed |-> FALSE, item |-> item, unit |-> columns.unit,
             total |-> columns.total, event |-> columns.event])

(* append: an event is recorded.                                           *)
Record == table = "audit" /\ Insert([at |-> clock, committed |-> FALSE])

Commit(i) ==
  /\ ~ rows[i].committed
  /\ rows' = [rows EXCEPT ![i].committed = TRUE]
  /\ UNCHANGED <<table, clock, walk>>

(* update: a status change writes the total of the order as it was loaded. *)
Update(i) ==
  /\ table = "orders" /\ i \in Visible
  /\ rows' = [rows EXCEPT ![i].total = ShownTotal(i)]
  /\ UNCHANGED <<table, clock, walk>>

Tick == clock < MaxClock /\ clock' = clock + 1 /\ UNCHANGED <<table, rows, walk>>
-----------------------------------------------------------------------------
(* The handlers clamp the page size.                                       *)
Clamped(limit) == IF limit < MaxLimit THEN limit ELSE MaxLimit

Begin(limit) ==
  /\ walk = NoWalk
  /\ walk' = [pc |-> "walking", limit |-> limit, began |-> Visible, offset |-> 0,
              cursor |-> MaxClock + 1, times |-> [i \in 1..MaxRows |-> 0]]
  /\ UNCHANGED <<table, clock, rows>>

(* The first n of set, where before relates the rows as the query orders   *)
(* them; ties fall in any way.                                             *)
IsFirst(page, set, n, before) ==
  /\ page \subseteq set
  /\ Cardinality(page) = IF Cardinality(set) < n THEN Cardinality(set) ELSE n
  /\ \A i \in page, j \in set \ page : <<j, i>> \notin before

(* A mutant of Newer: the oldest come first.                               *)
NewerReversed == {p \in Visible \X Visible : rows[p[1]].at < rows[p[2]].at}

Newer == {p \in Visible \X Visible : rows[p[1]].at > rows[p[2]].at}
Older == {p \in Visible \X Visible : rows[p[1]].at < rows[p[2]].at}

(* The extra row beyond the page is there: the walk goes on.               *)
Goes(page, more, offset, cursor) ==
  walk' = [walk EXCEPT
    !.pc     = IF more THEN "walking" ELSE "ended",
    !.offset = offset,
    !.cursor = cursor,
    !.times  = [i \in 1..MaxRows |-> @[i] + IF i \in page THEN 1 ELSE 0]]

(* A mutant of AfterCursor: rows of the cursor's millisecond come again.   *)
AfterCursorAgain == {i \in Visible : rows[i].at < walk.cursor + Millisecond}

AfterCursor == {i \in Visible : rows[i].at < walk.cursor}

(* created_at of the page's last row, as a Date prints itself.             *)
CursorOf(page) == Min({(rows[i].at \div Millisecond) * Millisecond : i \in page})

(* findByCustomerId                                                        *)
OrdersPage(page) ==
  LET limit == Clamped(walk.limit) IN
  /\ table = "orders" /\ walk.pc = "walking"
  /\ IsFirst(page, AfterCursor, limit, Newer)
  /\ Goes(page, Cardinality(AfterCursor) > limit, 0,
          IF page = {} THEN walk.cursor ELSE CursorOf(page))
  /\ UNCHANGED <<table, clock, rows>>

(* search and findByAggregateId: skip offset rows, show limit of the rest. *)
AuditPage(skipped, page) ==
  LET limit == Clamped(walk.limit)
      rest  == Visible \ skipped
  IN
  /\ table = "audit" /\ walk.pc = "walking"
  /\ IsFirst(skipped, Visible, walk.offset, Older)
  /\ IsFirst(page, rest, limit, Older)
  /\ Goes(page, Cardinality(rest) > limit, walk.offset + Cardinality(page), walk.cursor)
  /\ UNCHANGED <<table, clock, rows>>
-----------------------------------------------------------------------------
Next ==
  \/ \E item \in Items : Save(item)
  \/ Record
  \/ \E i \in DOMAIN rows : Commit(i) \/ Update(i)
  \/ Tick
  \/ \E limit \in Limits : Begin(limit)
  \/ \E page \in SUBSET Visible : OrdersPage(page)
  \/ \E skipped, page \in SUBSET Visible : AuditPage(skipped, page)

Spec == Init /\ [][Next]_vars
-----------------------------------------------------------------------------
Times == [1..MaxRows -> 0..MaxRows + 1]

Walk ==
  [pc : {"walking", "ended"}, limit : Limits, began : SUBSET (1..MaxRows),
   offset : 0..MaxRows,
   cursor : {t \in 0..MaxClock : t % Millisecond = 0} \cup {MaxClock + 1}, times : Times]

(* Rows and walk have their types; a cursor is a whole millisecond.        *)
TypeOK ==
  /\ table \in {"orders", "audit"}
  /\ clock \in 0..MaxClock
  /\ \A i \in DOMAIN rows : rows[i].at \in 0..clock /\ rows[i].committed \in BOOLEAN
  /\ walk \in {NoWalk} \cup Walk

(* Rows that a walk cannot tell apart: orders of one millisecond, as the   *)
(* cursor has no more; audit rows of one timestamp.                        *)
Tied(i, j) ==
  IF table = "orders"
  THEN rows[i].at \div Millisecond = rows[j].at \div Millisecond
  ELSE rows[i].at = rows[j].at

(* A walk that has come to its end has shown every row that was there when *)
(* it began, whatever was written meanwhile (ADR-003: "No row skipping/    *)
(* duplication under concurrent inserts"), except rows tied with others.   *)
NoneSkipped ==
  walk.pc = "ended" =>
    \A i \in walk.began :
      walk.times[i] > 0 \/ \E j \in Visible \ {i} : Tied(i, j)

(* No order is shown twice.  An audit row is, when a row with an earlier   *)
(* timestamp has been committed since the walk began and has pushed it on, *)
(* or when it is tied.                                                     *)
RepeatedForCause ==
  walk # NoWalk =>
    \A i \in Visible : walk.times[i] > 1 =>
      /\ table = "audit"
      /\ \E j \in Visible \ {i} :
           Tied(i, j) \/ (rows[j].at < rows[i].at /\ j \notin walk.began)

(* What the rows hold, and how an order's columns come from its item.      *)
OrderRow ==
  [at : 0..MaxClock, committed : BOOLEAN, item : Items, unit : Nat, total : Nat, event : Nat]

AuditRow == [at : 0..MaxClock, committed : BOOLEAN]

RowsSound ==
  \E n \in 0..MaxRows :
    /\ rows \in [1..n -> IF table = "orders" THEN OrderRow ELSE AuditRow]
    /\ table = "orders" =>
         \A i \in 1..n :
           /\ rows[i].unit = Columns(rows[i].item).unit
           /\ rows[i].event = Columns(rows[i].item).event
           /\ rows[i].total \in {ShownTotal(i), Charged(i)}

(* Why no page skips or repeats a row: what the cursor, or the offset, has *)
(* behind it are the rows that were shown.                                 *)
Alone(i)  == \A j \in Visible \ {i} : ~ Tied(i, j)
Before(i) == {j \in Visible : rows[j].at < rows[i].at}

CursorSound ==
  /\ \A i \in Visible : walk.times[i] <= 1 /\ (walk.times[i] > 0 => rows[i].at >= walk.cursor)
  /\ \A i \in walk.began : walk.times[i] = 0 /\ Alone(i) =>
       walk.pc = "walking" /\ rows[i].at < walk.cursor

OffsetSound ==
  /\ \A i \in Visible :
       /\ walk.times[i] <= walk.offset
       /\ Alone(i) /\ Before(i) \subseteq walk.began =>
            walk.times[i] <= 1 /\ (walk.times[i] > 0 => Cardinality(Before(i)) < walk.offset)
  /\ \A i \in walk.began : walk.times[i] = 0 /\ Alone(i) =>
       walk.pc = "walking" /\ Cardinality(Before(i)) >= walk.offset

WalkSound ==
  walk # NoWalk =>
    /\ walk.began \subseteq Visible
    /\ \A i \in 1..MaxRows : walk.times[i] > 0 => i \in Visible
    /\ IF table = "orders" THEN CursorSound ELSE OffsetSound

Apart(a, b) == IF a < b THEN b - a ELSE a - b

(* The total a customer is shown, the column's and the amount charged are  *)
(* one, when the price is in whole cents ("Total amount is always          *)
(* consistent with items").  Otherwise each cent of the price is rounded   *)
(* before it is multiplied in the first, and after in the last, and they   *)
(* may be apart by half a cent for each piece and half a cent more.        *)
TotalsClose ==
  table = "orders" =>
    \A i \in Visible :
      LET item == rows[i].item IN
      /\ Apart(10 * ShownTotal(i), rows[i].event) <= 5 * item.quantity
      /\ Apart(10 * Charged(i), rows[i].event) <= 5
      /\ rows[i].total \in {ShownTotal(i), Charged(i)}
      /\ item.price % 10 = 0 => ShownTotal(i) = Charged(i)
=============================================================================
