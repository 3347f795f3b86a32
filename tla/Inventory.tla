----------------------------- MODULE Inventory -----------------------------
(***************************************************************************)
(* The inventory service: its inventory and reservations tables, and the   *)
(* database transactions of all its replicas that are in flight.           *)
(*                                                                         *)
(* A transaction locks inventory rows one at a time (SELECT ... FOR UPDATE)*)
(* and keeps them locked to its end; what it changes is seen by the others *)
(* when it commits.  reserve goes through the lines of an order in SKU     *)
(* order and gives up at the first line it cannot satisfy; release and the *)
(* expiry sweep first lock the ACTIVE reservations they are to end and     *)
(* then go through them in the order the database returned them, which no  *)
(* ORDER BY fixes.                                                         *)
(*                                                                         *)
(* The locking of the reservation rows is one statement here: it waits     *)
(* until none of the rows is locked by another transaction.  An order's    *)
(* lines name different SKUs.  A SKU without an inventory row makes        *)
(* reserve fail like any other failed statement (Crash).                   *)
(***************************************************************************)
EXTENDS Integers, FiniteSets

CONSTANTS
  Orders,
  Skus,       (* SKUs, as numbers whose order is the order of localeCompare  *)
  Demand,     (* Demand[o][s]: units of s that order o asks for, 0 if none   *)
  Initial,    (* Initial[s]: units of s in stock at the start                *)
  Workers,    (* requests and deliveries that may hold a transaction         *)
  Replicas    (* replicas of the service; each runs one expiry sweeper       *)

Nobody == "nobody"
Procs  == Workers \cup Replicas

ASSUME StockAssumption ==
  /\ IsFiniteSet(Orders)
  /\ IsFiniteSet(Skus) /\ Skus \subseteq Nat
  /\ Demand \in [Orders -> [Skus -> Nat]]
  /\ Initial \in [Skus -> Nat]
  /\ Nobody \notin Procs
  /\ Workers \cap Replicas = {}

VARIABLES
  available,    (* inventory.available_qty                                   *)
  reserved,     (* inventory.reserved_qty                                    *)
  resv,         (* reservations.status by order and SKU; "none" is no row    *)
  due,          (* the orders whose reservations are past expires_at         *)
  holder,       (* the transaction that has locked each inventory row        *)
  txn           (* the transaction each process is in                        *)

tables == <<available, reserved, resv>>
vars   == <<available, reserved, resv, due, holder, txn>>

Idle     == [kind |-> "idle"]
Nothing  == [s \in Skus |-> 0]
LinesOf(o) == {o} \X {s \in Skus : Demand[o][s] > 0}
AllLines == UNION {LinesOf(o) : o \in Orders}
Qty(l)   == Demand[l[1]][l[2]]

Init ==
  /\ available = Initial
  /\ reserved  = Nothing
  /\ resv      = [l \in Orders \X Skus |-> "none"]
  /\ due       = {}
  /\ holder    = [s \in Skus |-> Nobody]
  /\ txn       = [p \in Procs |-> Idle]
-----------------------------------------------------------------------------
(* A transaction over the given lines: those left to do, and per SKU the   *)
(* units it has moved so far from available to reserved.                   *)
Begin(p, kind, lines) ==
  /\ txn[p] = Idle
  /\ lines # {}
  /\ txn' = [txn EXCEPT ![p] =
       [kind |-> kind, lines |-> lines, left |-> lines, moved |-> Nothing]]
  /\ UNCHANGED <<tables, due, holder>>

(* The reservation rows that are locked by a release or a sweep.           *)
LockedLines ==
  UNION {txn[p].lines : p \in {q \in Procs : txn[q].kind \in {"RELEASED", "EXPIRED"}}}

BeginReserve(w, o) == Begin(w, "ACTIVE", LinesOf(o))

(* A mutant of BeginSweep: the sweep reads the reservations without        *)
(* locking them.                                                           *)
BeginSweepUnlocked(r) ==
  Begin(r, "EXPIRED", {l \in AllLines : resv[l] = "ACTIVE" /\ l[1] \in due})

(* release(orderId): without ACTIVE reservations nothing changes.          *)
BeginRelease(w, o) ==
  LET lines == {l \in LinesOf(o) : resv[l] = "ACTIVE"} IN
  /\ lines \cap LockedLines = {}
  /\ Begin(w, "RELEASED", lines)

(* ReservationExpiryJob.runOnce: the reentrancy guard keeps a replica to   *)
(* one sweep at a time, other replicas sweep on their own.                 *)
BeginSweep(r) ==
  LET lines == {l \in AllLines : resv[l] = "ACTIVE" /\ l[1] \in due} IN
  /\ lines \cap LockedLines = {}
  /\ Begin(r, "EXPIRED", lines)

(* A mutant of Comes: reserve takes the lines as the request names them.   *)
ComesUnsorted(p, l) == l \in txn[p].left

(* Line l is the one the transaction comes to now.                         *)
Comes(p, l) ==
  /\ l \in txn[p].left
  /\ txn[p].kind = "ACTIVE" => \A m \in txn[p].left : l[2] <= m[2]

(* A mutant of Satisfiable: reservations without a unique (order_id, sku). *)
SatisfiableAgain(p, l) ==
  IF txn[p].kind = "ACTIVE"
  THEN Qty(l) <= available[l[2]] - txn[p].moved[l[2]] /\ resv[l] # "ACTIVE"
  ELSE Qty(l) <= reserved[l[2]] + txn[p].moved[l[2]]

(* Inventory.reserve and Inventory.release, and the unique index on        *)
(* (order_id, sku), on the row as this transaction sees it.                *)
Satisfiable(p, l) ==
  LET s == l[2] IN
  IF txn[p].kind = "ACTIVE"
  THEN /\ Qty(l) <= available[s] - txn[p].moved[s]
       /\ resv[l] = "none"
  ELSE Qty(l) <= reserved[s] + txn[p].moved[s]

(* Transaction p, when it has moved the units of line l.                   *)
AndThen(p, l) ==
  LET t == txn[p] IN
  [kind |-> t.kind, lines |-> t.lines, left |-> t.left \ {l},
   moved |-> [t.moved EXCEPT ![l[2]] = IF t.kind = "ACTIVE" THEN @ + Qty(l) ELSE @ - Qty(l)]]

(* A mutant of Take: the row is read without FOR UPDATE.                   *)
TakeUnlocked(p, l) ==
  /\ txn[p] # Idle
  /\ Comes(p, l) /\ Satisfiable(p, l)
  /\ txn' = [txn EXCEPT ![p] = AndThen(p, l)]
  /\ UNCHANGED <<tables, due, holder>>

Take(p, l) ==
  /\ txn[p] # Idle
  /\ Comes(p, l)
  /\ holder[l[2]] \in {Nobody, p}
  /\ Satisfiable(p, l)
  /\ holder' = [holder EXCEPT ![l[2]] = p]
  /\ txn' = [txn EXCEPT ![p] = AndThen(p, l)]
  /\ UNCHANGED <<tables, due>>

(* The end of a transaction: its locks are released.                       *)
End(p) ==
  /\ txn'    = [txn EXCEPT ![p] = Idle]
  /\ holder' = [s \in Skus |-> IF holder[s] = p THEN Nobody ELSE holder[s]]
  /\ UNCHANGED due

(* What a transaction has done becomes the content of the tables.          *)
Write(p, lines) ==
  LET t == txn[p] IN
  /\ available' = [s \in Skus |-> available[s] - t.moved[s]]
  /\ reserved'  = [s \in Skus |-> reserved[s] + t.moved[s]]
  /\ resv'      = [l \in Orders \X Skus |-> IF l \in lines THEN t.kind ELSE resv[l]]

Refused(p, l) ==
  /\ txn[p] # Idle
  /\ Comes(p, l)
  /\ holder[l[2]] \in {Nobody, p}
  /\ ~ Satisfiable(p, l)

(* A mutant of Refuse: the lines taken before the refused one are kept.    *)
RefuseInPart(p, l) ==
  /\ Refused(p, l)
  /\ Write(p, txn[p].lines \ txn[p].left)
  /\ End(p)

(* The domain entity or the database refuses a line: all is rolled back.   *)
Refuse(p, l) ==
  /\ Refused(p, l)
  /\ End(p)
  /\ UNCHANGED tables

Commit(p) ==
  /\ txn[p] # Idle
  /\ txn[p].left = {}
  /\ Write(p, txn[p].lines)
  /\ End(p)

(* The process dies, a statement fails or the database breaks a deadlock   *)
(* by aborting this transaction.                                           *)
Crash(p) ==
  /\ txn[p] # Idle
  /\ End(p)
  /\ UNCHANGED tables

(* Time passes expires_at of an order's reservations.                      *)
FallDue(o) ==
  /\ \E l \in LinesOf(o) : resv[l] = "ACTIVE"
  /\ o \notin due
  /\ due' = due \cup {o}
  /\ UNCHANGED <<tables, holder, txn>>
-----------------------------------------------------------------------------
Next ==
  \/ \E w \in Workers, o \in Orders : BeginReserve(w, o) \/ BeginRelease(w, o)
  \/ \E r \in Replicas : BeginSweep(r)
  \/ \E p \in Procs : \E l \in AllLines : Take(p, l) \/ Refuse(p, l)
  \/ \E p \in Procs : Commit(p) \/ Crash(p)
  \/ \E o \in Orders : FallDue(o)

Spec == Init /\ [][Next]_vars
-----------------------------------------------------------------------------
Kinds == {"ACTIVE", "RELEASED", "EXPIRED"}

Txn ==
  {Idle} \cup [kind : Kinds, lines : SUBSET AllLines, left : SUBSET AllLines,
               moved : [Skus -> Int]]

(* Every variable has the type its column has in the database, where both  *)
(* quantities have a CHECK (... >= 0).                                     *)
TypeOK ==
  /\ available \in [Skus -> Nat]
  /\ reserved  \in [Skus -> Nat]
  /\ resv      \in [Orders \X Skus -> Kinds \cup {"none"}]
  /\ due       \in SUBSET Orders
  /\ holder    \in [Skus -> Procs \cup {Nobody}]
  /\ txn       \in [Procs -> Txn]

(* Stock is never oversold and never lost: whatever commits or aborts, no  *)
(* count goes below zero and the units of a SKU stay what they were.       *)
StockSound ==
  \A s \in Skus :
     /\ available[s] >= 0 /\ reserved[s] >= 0
     /\ available[s] + reserved[s] = Initial[s]

(* The units of s that the orders S ask for.                               *)
Units(S, s) == UNION {{o} \X (1..Demand[o][s]) : o \in S}

HoldingOf(s) == {o \in Orders : resv[<<o, s>>] = "ACTIVE"}

(* The two tables agree: the reserved units of a SKU are those of its      *)
(* ACTIVE reservations, so no unit is returned twice by a cancellation and *)
(* a sweep that race, and none is left reserved for nobody.                *)
ReservedIsActive == \A s \in Skus : reserved[s] = Cardinality(Units(HoldingOf(s), s))

(* All or nothing: the lines of an order are reserved together and end     *)
(* together, whatever interrupts the transaction (KnexInventoryRepository: *)
(* "guaranteeing all-or-nothing semantics").                               *)
LinesTogether ==
  \A o \in Orders : \A l, m \in LinesOf(o) : resv[l] = resv[m]

(* What a transaction has moved and not committed is covered by the tables *)
(* and by the row locks it holds, so no other transaction can spend it.    *)
MovesCovered ==
  \A p \in Procs : txn[p] # Idle =>
     \A s \in Skus :
        /\ txn[p].moved[s] # 0 => holder[s] = p
        /\ txn[p].moved[s] <= available[s]
        /\ 0 <= reserved[s] + txn[p].moved[s]

(* A transaction is about whole orders.                                    *)
WholeOrders ==
  \A p \in Procs : txn[p] # Idle =>
     \A o \in Orders : LinesOf(o) \cap txn[p].lines # {} => LinesOf(o) \subseteq txn[p].lines

(* The inductive invariant behind StockSound and LinesTogether             *)
(* (InventoryProofs).                                                      *)
IInv == TypeOK /\ StockSound /\ LinesTogether /\ MovesCovered /\ WholeOrders

(* The lines a transaction has taken.                                      *)
Taken(p) == txn[p].lines \ txn[p].left

(* A transaction is about lines: those of one order, unless it is a sweep. *)
LinesKnown ==
  \A p \in Procs : txn[p] # Idle =>
     /\ txn[p].left \subseteq txn[p].lines
     /\ txn[p].kind # "EXPIRED" => \E o \in Orders : txn[p].lines = LinesOf(o)

(* A transaction has locked the rows of the lines it has taken, no others. *)
LocksTaken ==
  \A p \in Procs, s \in Skus :
     holder[s] = p <=> txn[p] # Idle /\ \E l \in Taken(p) : l[2] = s

(* What a transaction has read of its lines stays true until its end.      *)
ReadsHold ==
  \A p \in Procs : txn[p] # Idle =>
     IF txn[p].kind = "ACTIVE"
     THEN \A l \in Taken(p) : resv[l] = "none"
     ELSE \A l \in txn[p].lines : resv[l] = "ACTIVE"

(* No two transactions are ending the same reservation.                    *)
EndsApart ==
  \A p, q \in Procs :
     p # q /\ {txn[p].kind, txn[q].kind} \subseteq {"RELEASED", "EXPIRED"}
       => txn[p].lines \cap txn[q].lines = {}

(* It has moved the units of the lines it has taken.                       *)
TakenOf(p, s) == {o \in Orders : <<o, s>> \in Taken(p)}

MovedTaken ==
  \A p \in Procs : txn[p] # Idle =>
     \A s \in Skus :
        LET n == Cardinality(Units(TakenOf(p, s), s)) IN
        txn[p].moved[s] = IF txn[p].kind = "ACTIVE" THEN n ELSE -n

(* A reservation has the lines with greater SKUs still before it.          *)
InSkuOrder ==
  \A p \in Procs : txn[p] # Idle /\ txn[p].kind = "ACTIVE" =>
     \A l \in Taken(p), m \in txn[p].left : l[2] < m[2]

(* The inductive invariant, on top of IInv, behind ReservedIsActive, the   *)
(* refinement and the absence of circles (InventoryProofs).                *)
TxnsSound ==
  /\ LinesKnown /\ LocksTaken /\ ReadsHold /\ EndsApart /\ MovedTaken /\ InSkuOrder
  /\ ReservedIsActive

(* The service implements the ledger of whole-order reservations.          *)
OrderState(o) ==
  IF \E l \in LinesOf(o) : resv[l] # "none"
  THEN resv[CHOOSE l \in LinesOf(o) : resv[l] # "none"]
  ELSE "none"
Ledger == INSTANCE StockLedger WITH reservation <- [o \in Orders |-> OrderState(o)]
ImplementsLedger == Ledger!Spec

(* Where transactions wait for each other in a circle, a release or a      *)
(* sweep is among them: reservations lock in SKU order and never block     *)
(* each other (KnexInventoryRepository: "Rows are locked in SKU order to   *)
(* avoid deadlocks"), which release and sweep do not.                      *)
Awaited(p) == {holder[l[2]] : l \in {m \in txn[p].left : Comes(p, m)}}
Circle(P)  == \A p \in P : /\ txn[p] # Idle
                           /\ Awaited(p) # {}
                           /\ Awaited(p) \subseteq P \ {p}
NoCircleOfReservations ==
  \A P \in (SUBSET Procs) \ {{}} : Circle(P) => \E p \in P : txn[p].kind # "ACTIVE"
=============================================================================
