-------------------------- MODULE InventoryProofs --------------------------
(***************************************************************************)
(* Proofs about the inventory service, for any orders, SKUs, demands,      *)
(* stock, workers and replicas.  The inductive invariant is IInv of        *)
(* Inventory: between the check of a line and the commit of its            *)
(* transaction the row lock keeps the stock that was checked in place, and *)
(* a transaction that ends reservations has locked whole orders.           *)
(***************************************************************************)
EXTENDS Inventory, FiniteSetTheorems, WellFoundedInduction, TLAPS

(* A line is an order's demand for a SKU.                                  *)
LEMMA LineFields ==
  ASSUME NEW l \in AllLines
  PROVE  l[1] \in Orders /\ l[2] \in Skus /\ Qty(l) \in Nat /\ l \in Orders \X Skus
<1>1. PICK o \in Orders : l \in {o} \X {s \in Skus : Demand[o][s] > 0}
  BY DEF AllLines, LinesOf
<1>2. l \in Orders \X Skus /\ l[1] \in Orders /\ l[2] \in Skus
  BY <1>1
<1>3. Demand[l[1]] \in [Skus -> Nat]
  BY <1>2, StockAssumption
<1> QED
  BY <1>2, <1>3 DEF Qty

(* The fields a transaction has, by whether there is one.                  *)
LEMMA TxnFields ==
  ASSUME NEW t \in Txn, t # Idle
  PROVE  /\ t.kind \in Kinds /\ t.lines \in SUBSET AllLines
         /\ t.left \in SUBSET AllLines /\ t.moved \in [Skus -> Int]
         /\ t = [kind |-> t.kind, lines |-> t.lines, left |-> t.left, moved |-> t.moved]
  BY DEF Txn

(* Nothing is moved by the transaction that moves nothing.                 *)
LEMMA NothingMoved == Nothing \in [Skus -> Int] /\ \A s \in Skus : Nothing[s] = 0
  BY DEF Nothing

(* The invariant holds of the stocked warehouse.                           *)
LEMMA InitIInv == Init => IInv
<1> SUFFICES ASSUME Init PROVE IInv
  OBVIOUS
<1>1. TypeOK
  BY StockAssumption DEF Init, TypeOK, Nothing, Txn
<1>2. StockSound
  BY StockAssumption DEF Init, StockSound, Nothing
<1>3. LinesTogether
  BY DEF Init, LinesTogether, LinesOf
<1>4. MovesCovered /\ WholeOrders
  BY DEF Init, MovesCovered, WholeOrders
<1> QED
  BY <1>1, <1>2, <1>3, <1>4 DEF IInv

-----------------------------------------------------------------------------
(* A transaction begins, over whole orders.                                *)
LEMMA BeginIInv ==
  ASSUME IInv, NEW p \in Procs, NEW kind \in Kinds, NEW lines \in SUBSET AllLines,
         Begin(p, kind, lines),
         \A o \in Orders : LinesOf(o) \cap lines # {} => LinesOf(o) \subseteq lines
  PROVE  IInv'
<1> DEFINE t == [kind |-> kind, lines |-> lines, left |-> lines, moved |-> Nothing]
<1>1. txn' = [txn EXCEPT ![p] = t] /\ UNCHANGED <<tables, due, holder>>
  BY DEF Begin
<1>2. t \in Txn
  BY NothingMoved DEF Txn
<1>3. TypeOK'
  BY <1>1, <1>2 DEF IInv, TypeOK, tables
<1>4. StockSound' /\ LinesTogether'
  BY <1>1 DEF IInv, StockSound, LinesTogether, tables
<1>5. MovesCovered'
  BY <1>1, NothingMoved DEF IInv, TypeOK, MovesCovered, tables
<1>6. WholeOrders'
  BY <1>1 DEF IInv, TypeOK, WholeOrders
<1> QED
  BY <1>3, <1>4, <1>5, <1>6 DEF IInv

(* The lines of an order are an order's lines or none of them.             *)
LEMMA LinesOfOrders ==
  ASSUME NEW o \in Orders, NEW p \in Orders, NEW l \in LinesOf(o), l \in LinesOf(p)
  PROVE  o = p
  BY DEF LinesOf

(* Lines chosen by their order and by what is reserved are whole orders.   *)
LEMMA ActiveLinesWhole ==
  ASSUME LinesTogether, NEW S \in SUBSET Orders
  PROVE  LET lines == {l \in AllLines : resv[l] = "ACTIVE" /\ l[1] \in S}
         IN  \A o \in Orders : LinesOf(o) \cap lines # {} => LinesOf(o) \subseteq lines
<1> DEFINE lines == {l \in AllLines : resv[l] = "ACTIVE" /\ l[1] \in S}
<1> SUFFICES ASSUME NEW o \in Orders, NEW l \in LinesOf(o), l \in lines, NEW m \in LinesOf(o)
             PROVE  m \in lines
  OBVIOUS
<1>1. m \in AllLines /\ m[1] = o /\ l[1] = o
  BY DEF AllLines, LinesOf
<1>2. resv[m] = resv[l]
  BY DEF LinesTogether
<1> QED
  BY <1>1, <1>2

(* Each of the three transactions begins over whole orders.                *)
LEMMA BeginsIInv ==
  ASSUME IInv, NEW p \in Procs, NEW o \in Orders,
         BeginReserve(p, o) \/ BeginRelease(p, o) \/ BeginSweep(p)
  PROVE  IInv'
<1>1. CASE BeginReserve(p, o)
  <2>1. LinesOf(o) \in SUBSET AllLines
    BY DEF AllLines
  <2>2. \A q \in Orders : LinesOf(q) \cap LinesOf(o) # {} => LinesOf(q) \subseteq LinesOf(o)
    BY LinesOfOrders
  <2> QED
    BY <1>1, <2>1, <2>2, BeginIInv DEF BeginReserve, Kinds
<1>2. CASE BeginRelease(p, o)
  <2> DEFINE lines == {l \in LinesOf(o) : resv[l] = "ACTIVE"}
  <2>1. lines = {l \in AllLines : resv[l] = "ACTIVE" /\ l[1] \in {o}}
    BY DEF AllLines, LinesOf
  <2>2. \A q \in Orders : LinesOf(q) \cap lines # {} => LinesOf(q) \subseteq lines
    BY <2>1, ActiveLinesWhole, {o} \in SUBSET Orders DEF IInv
  <2>3. lines \in SUBSET AllLines /\ Begin(p, "RELEASED", lines)
    BY <1>2, <2>1 DEF BeginRelease
  <2> QED
    BY <2>2, <2>3, BeginIInv DEF Kinds
<1>3. CASE BeginSweep(p)
  <2> DEFINE lines == {l \in AllLines : resv[l] = "ACTIVE" /\ l[1] \in due}
  <2>1. \A q \in Orders : LinesOf(q) \cap lines # {} => LinesOf(q) \subseteq lines
    BY ActiveLinesWhole DEF IInv, TypeOK
  <2>2. lines \in SUBSET AllLines /\ Begin(p, "EXPIRED", lines)
    BY <1>3 DEF BeginSweep
  <2> QED
    BY <2>1, <2>2, BeginIInv DEF Kinds
<1> QED
  BY <1>1, <1>2, <1>3

-----------------------------------------------------------------------------
(* A line is taken: it is covered, and no other transaction had moved      *)
(* units of its SKU, because the row was not locked by it.                 *)
LEMMA TakeIInv ==
  ASSUME IInv, NEW p \in Procs, NEW l \in AllLines, Take(p, l)
  PROVE  IInv'
<1> DEFINE t == txn[p]
           s == l[2]
           n == IF t.kind = "ACTIVE" THEN t.moved[s] + Qty(l) ELSE t.moved[s] - Qty(l)
           u == [kind |-> t.kind, lines |-> t.lines, left |-> t.left \ {l},
                 moved |-> [t.moved EXCEPT ![s] = n]]
<1>1. /\ t \in Txn /\ t # Idle /\ s \in Skus /\ Qty(l) \in Nat
      /\ t.kind \in Kinds /\ t.lines \in SUBSET AllLines /\ t.left \in SUBSET AllLines
      /\ t.moved \in [Skus -> Int]
  <2>1. t \in Txn /\ t # Idle
    BY DEF Take, IInv, TypeOK
  <2> QED
    BY <2>1, TxnFields, LineFields
<1>2. /\ txn' = [txn EXCEPT ![p] = u] /\ holder' = [holder EXCEPT ![s] = p]
      /\ UNCHANGED <<tables, due>> /\ holder[s] \in {Nobody, p}
  BY DEF Take, AndThen
<1>3. u \in Txn /\ u.lines = t.lines /\ u.moved = [t.moved EXCEPT ![s] = n] /\ n \in Int
  BY <1>1 DEF Txn
<1>4. n <= available[s] /\ 0 <= reserved[s] + n
  <2>1. /\ t.moved[s] <= available[s] /\ 0 <= reserved[s] + t.moved[s]
        /\ available[s] \in Nat /\ reserved[s] \in Nat /\ t.moved[s] \in Int
    BY <1>1 DEF IInv, TypeOK, MovesCovered
  <2>2. IF t.kind = "ACTIVE" THEN Qty(l) <= available[s] - t.moved[s]
                             ELSE Qty(l) <= reserved[s] + t.moved[s]
    BY DEF Take, Satisfiable
  <2> HIDE DEF t, s
  <2> QED
    BY <2>1, <2>2, <1>1
<1> HIDE DEF u, n, s
<1>5. TypeOK'
  BY <1>1, <1>2, <1>3 DEF IInv, TypeOK, tables
<1>6. StockSound' /\ LinesTogether'
  BY <1>2 DEF IInv, StockSound, LinesTogether, tables
<1>7. WholeOrders'
  BY <1>1, <1>2, <1>3 DEF IInv, TypeOK, WholeOrders
<1>8. MovesCovered'
  <2> SUFFICES ASSUME NEW q \in Procs, txn'[q] # Idle, NEW r \in Skus
               PROVE  /\ txn'[q].moved[r] # 0 => holder'[r] = q
                      /\ txn'[q].moved[r] <= available[r]
                      /\ 0 <= reserved[r] + txn'[q].moved[r]
    BY <1>2 DEF MovesCovered, tables
  <2>1. CASE q = p
    <3>1. txn'[q].moved[r] = IF r = s THEN n ELSE t.moved[r]
      BY <1>1, <1>2, <1>3, <2>1 DEF IInv, TypeOK
    <3>2. holder'[r] = IF r = s THEN p ELSE holder[r]
      BY <1>1, <1>2 DEF IInv, TypeOK
    <3> QED
      BY <3>1, <3>2, <2>1, <1>1, <1>4 DEF IInv, MovesCovered
  <2>2. CASE q # p
    <3>1. txn'[q] = txn[q]
      BY <1>2, <2>2 DEF IInv, TypeOK
    <3>2. txn[q].moved[r] # 0 => r # s
      BY <3>1, <2>2, <1>2, StockAssumption DEF IInv, MovesCovered
    <3>3. r # s => holder'[r] = holder[r]
      BY <1>2 DEF IInv, TypeOK
    <3> QED
      BY <3>1, <3>2, <3>3 DEF IInv, MovesCovered
  <2> QED
    BY <2>1, <2>2
<1> QED
  BY <1>5, <1>6, <1>7, <1>8 DEF IInv

(* The end of a transaction that changes the tables as it moved stock, or  *)
(* not at all, and in either case treats the lines of an order alike.      *)
LEMMA EndIInv ==
  ASSUME IInv, NEW p \in Procs, txn[p] # Idle, End(p),
         LinesTogether', resv' \in [Orders \X Skus -> Kinds \cup {"none"}],
         NEW d \in [Skus -> Int],
         d \in {txn[p].moved, Nothing},
         available' = [s \in Skus |-> available[s] - d[s]],
         reserved'  = [s \in Skus |-> reserved[s] + d[s]]
  PROVE  IInv'
<1>1. \A s \in Skus : /\ d[s] # 0 => holder[s] = p
                      /\ d[s] <= available[s] /\ 0 <= reserved[s] + d[s]
                      /\ available[s] \in Nat /\ reserved[s] \in Nat /\ d[s] \in Int
  <2>1. CASE d = txn[p].moved
    BY <2>1 DEF IInv, TypeOK, MovesCovered
  <2>2. CASE d = Nothing
    BY <2>2, NothingMoved DEF IInv, TypeOK
  <2> QED
    BY <2>1, <2>2
<1>2. txn' = [txn EXCEPT ![p] = Idle] /\ Idle \in Txn /\ UNCHANGED due
  BY DEF End, Txn
<1>3. \A s \in Skus : holder'[s] = IF holder[s] = p THEN Nobody ELSE holder[s]
  BY DEF End
<1>4. TypeOK'
  <2>1. available' \in [Skus -> Nat] /\ reserved' \in [Skus -> Nat]
    BY <1>1
  <2>2. holder' \in [Skus -> Procs \cup {Nobody}]
    BY DEF End, IInv, TypeOK
  <2> QED
    BY <1>2, <2>1, <2>2 DEF IInv, TypeOK
<1>5. StockSound'
  <2> SUFFICES ASSUME NEW s \in Skus
               PROVE  /\ available'[s] >= 0 /\ reserved'[s] >= 0
                      /\ available'[s] + reserved'[s] = Initial[s]
    BY DEF StockSound
  <2>1. available'[s] = available[s] - d[s] /\ reserved'[s] = reserved[s] + d[s]
    OBVIOUS
  <2>2. available[s] + reserved[s] = Initial[s] /\ Initial[s] \in Nat
    BY StockAssumption DEF IInv, StockSound
  <2> QED
    BY <2>1, <2>2, <1>1
<1>6. WholeOrders'
  BY <1>2 DEF IInv, TypeOK, WholeOrders
<1>7. MovesCovered'
  <2> SUFFICES ASSUME NEW q \in Procs, txn'[q] # Idle, NEW s \in Skus
               PROVE  /\ txn'[q].moved[s] # 0 => holder'[s] = q
                      /\ txn'[q].moved[s] <= available'[s]
                      /\ 0 <= reserved'[s] + txn'[q].moved[s]
    BY DEF MovesCovered
  <2>1. q # p /\ txn'[q] = txn[q]
    BY <1>2 DEF IInv, TypeOK
  <2>2. txn[q].moved[s] \in Int
    <3>1. txn[q] \in Txn
      BY DEF IInv, TypeOK
    <3> QED
      BY <2>1, <3>1, TxnFields
  <2>3. /\ txn[q].moved[s] # 0 => holder[s] = q
        /\ txn[q].moved[s] <= available[s] /\ 0 <= reserved[s] + txn[q].moved[s]
    BY <2>1 DEF IInv, MovesCovered
  <2>4. available'[s] = available[s] - d[s] /\ reserved'[s] = reserved[s] + d[s]
    OBVIOUS
  <2>5. CASE txn[q].moved[s] = 0
    BY <2>1, <2>4, <2>5, <1>1
  <2>6. CASE txn[q].moved[s] # 0
    <3>1. holder[s] = q /\ d[s] = 0
      BY <2>1, <2>3, <2>6, <1>1
    <3> QED
      BY <3>1, <2>1, <2>2, <2>3, <2>4, <1>1, <1>3
  <2> QED
    BY <2>5, <2>6
<1> QED
  BY <1>4, <1>5, <1>6, <1>7 DEF IInv

(* A transaction that is rolled back leaves the tables as they were.       *)
LEMMA RollbackIInv ==
  ASSUME IInv, NEW p \in Procs, txn[p] # Idle, End(p), UNCHANGED tables
  PROVE  IInv'
<1>1. LinesTogether' /\ resv' \in [Orders \X Skus -> Kinds \cup {"none"}]
  BY DEF IInv, TypeOK, LinesTogether, tables
<1>2. available' = [s \in Skus |-> available[s] - Nothing[s]]
  BY NothingMoved DEF IInv, TypeOK, tables
<1>3. reserved' = [s \in Skus |-> reserved[s] + Nothing[s]]
  BY NothingMoved DEF IInv, TypeOK, tables
<1> QED
  BY <1>1, <1>2, <1>3, NothingMoved, EndIInv

(* A transaction that commits treats the lines of an order alike, since it *)
(* is about whole orders.                                                  *)
LEMMA CommitIInv ==
  ASSUME IInv, NEW p \in Procs, Commit(p)
  PROVE  IInv'
<1> DEFINE t == txn[p]
<1>1. t \in Txn /\ t # Idle /\ t.kind \in Kinds /\ t.moved \in [Skus -> Int]
  BY TxnFields DEF Commit, IInv, TypeOK
<1>2. resv' = [l \in Orders \X Skus |-> IF l \in t.lines THEN t.kind ELSE resv[l]]
  BY DEF Commit, Write
<1>3. resv' \in [Orders \X Skus -> Kinds \cup {"none"}]
  BY <1>1, <1>2 DEF IInv, TypeOK
<1>4. LinesTogether'
  <2> SUFFICES ASSUME NEW o \in Orders, NEW l \in LinesOf(o), NEW m \in LinesOf(o)
               PROVE  resv'[l] = resv'[m]
    BY DEF LinesTogether
  <2>1. l \in AllLines /\ m \in AllLines
    BY DEF AllLines
  <2>2. l \in Orders \X Skus /\ m \in Orders \X Skus
    BY <2>1, LineFields
  <2>3. l \in t.lines <=> m \in t.lines
    BY <1>1 DEF IInv, WholeOrders
  <2>4. resv[l] = resv[m]
    BY DEF IInv, LinesTogether
  <2> QED
    BY <1>2, <2>2, <2>3, <2>4
<1> QED
  BY <1>1, <1>3, <1>4, EndIInv DEF Commit, Write

-----------------------------------------------------------------------------
(* Every step preserves the invariant.                                     *)
LEMMA NextIInv == IInv /\ [Next]_vars => IInv'
<1> SUFFICES ASSUME IInv, [Next]_vars PROVE IInv'
  OBVIOUS
<1>1. CASE UNCHANGED vars
  BY <1>1 DEF vars, tables, IInv, TypeOK, StockSound, LinesTogether, MovesCovered, WholeOrders
<1>2. CASE \E w \in Workers, o \in Orders : BeginReserve(w, o) \/ BeginRelease(w, o)
  BY <1>2, BeginsIInv DEF Procs
<1>3. ASSUME NEW r \in Replicas, BeginSweep(r) PROVE IInv'
  <2>1. PICK l \in AllLines : TRUE
    BY <1>3 DEF BeginSweep, Begin
  <2> QED
    BY <1>3, <2>1, LineFields, BeginsIInv DEF Procs
<1>4. CASE \E p \in Procs : \E l \in AllLines : Take(p, l) \/ Refuse(p, l)
  BY <1>4, TakeIInv, RollbackIInv DEF Refuse, Refused
<1>5. CASE \E p \in Procs : Commit(p) \/ Crash(p)
  BY <1>5, CommitIInv, RollbackIInv DEF Crash
<1>6. ASSUME NEW o \in Orders, FallDue(o) PROVE IInv'
  BY <1>6 DEF FallDue, tables, IInv, TypeOK, StockSound, LinesTogether, MovesCovered, WholeOrders
<1> QED
  BY <1>1, <1>2, <1>3, <1>4, <1>5, <1>6 DEF Next

(* The inductive invariant is an invariant of the inventory service.       *)
THEOREM Invariance == Spec => []IInv
  BY InitIInv, NextIInv, PTL DEF Spec

(* Every variable always has its type; no quantity is ever negative.       *)
THEOREM TypeCorrect == Spec => []TypeOK
<1>1. IInv => TypeOK
  BY DEF IInv
<1> QED
  BY Invariance, <1>1, PTL

(* Stock is never oversold and never lost, for any orders, SKUs and number *)
(* of concurrent transactions and crashes.                                 *)
THEOREM NeverOversold == Spec => []StockSound
<1>1. IInv => StockSound
  BY DEF IInv
<1> QED
  BY Invariance, <1>1, PTL

(* The lines of an order are reserved and end together, although no step   *)
(* locks the order.                                                        *)
THEOREM AllOrNothing == Spec => []LinesTogether
<1>1. IInv => LinesTogether
  BY DEF IInv
<1> QED
  BY Invariance, <1>1, PTL

-----------------------------------------------------------------------------
(* Units: how many units some orders ask for, and how that adds up.        *)

(* A demand is a number of units.                                          *)
LEMMA DemandType == \A o \in Orders, s \in Skus : Demand[o][s] \in Nat
  BY StockAssumption

(* The units that orders ask for are finitely many.                        *)
LEMMA UnitsFinite ==
  ASSUME NEW S \in SUBSET Orders, NEW s \in Skus
  PROVE  IsFiniteSet(Units(S, s)) /\ Cardinality(Units(S, s)) \in Nat
<1> DEFINE f == [o \in S |-> {o} \X (1..Demand[o][s])]
           T == {{o} \X (1..Demand[o][s]) : o \in S}
<1>1. IsFiniteSet(S)
  BY FS_Subset, StockAssumption
<1>2. f \in Surjection(S, T)
  BY DEF Surjection
<1>3. IsFiniteSet(T)
  <2> HIDE DEF f, T
  <2> QED
    BY <1>1, <1>2, FS_Surjection
<1>4. \A U \in T : IsFiniteSet(U)
  <2> SUFFICES ASSUME NEW o \in S PROVE IsFiniteSet({o} \X (1..Demand[o][s]))
    OBVIOUS
  <2>1. PICK n \in Nat : n = Demand[o][s]
    BY DemandType
  <2>2. IsFiniteSet({o})
    BY FS_Singleton
  <2>3. IsFiniteSet(1..n)
    BY FS_Interval
  <2>4. IsFiniteSet({o} \X (1..n))
    BY <2>2, <2>3, FS_Product
  <2> QED
    BY <2>1, <2>4, Zenon
<1>5. IsFiniteSet(UNION T)
  <2> HIDE DEF T
  <2> QED
    BY <1>3, <1>4, FS_UNION
<1> QED
  BY <1>5, FS_CardinalityType DEF Units

(* No order asks for nothing, one order for its demand.                    *)
LEMMA UnitsOfOne ==
  ASSUME NEW s \in Skus
  PROVE  /\ Cardinality(Units({}, s)) = 0
         /\ \A o \in Orders : Cardinality(Units({o}, s)) = Demand[o][s]
<1>1. Units({}, s) = {}
  BY DEF Units
<1>2. ASSUME NEW o \in Orders PROVE Cardinality(Units({o}, s)) = Demand[o][s]
  <2>1. Units({o}, s) = {o} \X (1..Demand[o][s])
    BY DEF Units
  <2>2. PICK n \in Nat : n = Demand[o][s]
    BY DemandType
  <2>3. IsFiniteSet(1..n) /\ Cardinality(1..n) = n
    BY FS_Interval
  <2>4. IsFiniteSet({o}) /\ Cardinality({o}) = 1
    BY FS_Singleton
  <2>5. Cardinality({o} \X (1..n)) = 1 * n
    <3>1. Cardinality({o} \X (1..n)) = Cardinality({o}) * Cardinality(1..n)
      BY <2>3, <2>4, FS_Product, Zenon
    <3> QED
      BY <2>3, <2>4, <3>1
  <2>6. Cardinality(Units({o}, s)) = Cardinality({o} \X (1..n))
    BY <2>1, <2>2, Zenon
  <2> QED
    BY <2>2, <2>5, <2>6
<1> QED
  BY <1>1, <1>2, FS_EmptySet

(* Different orders ask for different units.                               *)
LEMMA UnitsAdd ==
  ASSUME NEW s \in Skus, NEW S \in SUBSET Orders, NEW T \in SUBSET Orders, S \cap T = {}
  PROVE  Cardinality(Units(S \cup T, s)) = Cardinality(Units(S, s)) + Cardinality(Units(T, s))
<1>1. Units(S \cup T, s) = Units(S, s) \cup Units(T, s)
  BY DEF Units
<1>2. Units(S, s) \cap Units(T, s) = {}
  BY DEF Units
<1>3. /\ IsFiniteSet(Units(S, s)) /\ Cardinality(Units(S, s)) \in Nat
      /\ IsFiniteSet(Units(T, s)) /\ Cardinality(Units(T, s)) \in Nat
  BY UnitsFinite
<1>4. Cardinality(Units(S, s) \cup Units(T, s)) =
        Cardinality(Units(S, s)) + Cardinality(Units(T, s))
        - Cardinality(Units(S, s) \cap Units(T, s))
  BY <1>3, FS_Union
<1>5. Cardinality(Units(S, s) \cap Units(T, s)) = 0
  BY <1>2, FS_EmptySet
<1>6. Cardinality(Units(S \cup T, s)) = Cardinality(Units(S, s) \cup Units(T, s))
  BY <1>1, Zenon
<1> QED
  BY <1>3, <1>4, <1>5, <1>6

(* What some of the orders ask for is taken away from what all ask for.    *)
LEMMA UnitsSubtract ==
  ASSUME NEW s \in Skus, NEW S \in SUBSET Orders, NEW T \in SUBSET S
  PROVE  Cardinality(Units(S \ T, s)) = Cardinality(Units(S, s)) - Cardinality(Units(T, s))
<1>1. Cardinality(Units((S \ T) \cup T, s))
        = Cardinality(Units(S \ T, s)) + Cardinality(Units(T, s))
  BY UnitsAdd
<1>2. (S \ T) \cup T = S
  OBVIOUS
<1> QED
  BY <1>1, <1>2, UnitsFinite
-----------------------------------------------------------------------------
(* TxnsSound: what each transaction has locked, read and moved.            *)

(* A line is its order and its SKU.                                        *)
LEMMA LineParts ==
  ASSUME NEW l \in AllLines
  PROVE  l = <<l[1], l[2]>> /\ l \in LinesOf(l[1])
  BY DEF AllLines, LinesOf

(* At the start nothing is locked, read or moved.                          *)
LEMMA InitTxns == Init => TxnsSound
<1> SUFFICES ASSUME Init PROVE TxnsSound
  OBVIOUS
<1>1. \A p \in Procs : txn[p] = Idle /\ txn[p].kind = "idle"
  BY DEF Init, Idle
<1>2. LinesKnown /\ ReadsHold /\ MovedTaken /\ InSkuOrder
  BY <1>1 DEF LinesKnown, ReadsHold, MovedTaken, InSkuOrder
<1>3. LocksTaken
  BY <1>1, StockAssumption DEF Init, LocksTaken
<1>4. EndsApart
  BY <1>1 DEF EndsApart
<1>5. ASSUME NEW s \in Skus PROVE reserved[s] = Cardinality(Units(HoldingOf(s), s))
  <2>1. HoldingOf(s) = {}
    BY DEF Init, HoldingOf
  <2>2. Cardinality(Units(HoldingOf(s), s)) = 0
    BY <2>1, UnitsOfOne, Zenon
  <2> QED
    BY <2>2 DEF Init, Nothing
<1> QED
  BY <1>2, <1>3, <1>4, <1>5 DEF TxnsSound, ReservedIsActive

(* A transaction begins: it has taken nothing, and what it is to end is    *)
(* ACTIVE and being ended by no other.                                     *)
LEMMA BeginTxns ==
  ASSUME IInv, TxnsSound,
         NEW p \in Procs, NEW kind \in Kinds, NEW lines \in SUBSET AllLines,
         Begin(p, kind, lines),
         kind # "EXPIRED" => \E o \in Orders : lines = LinesOf(o),
         kind # "ACTIVE" => /\ \A l \in lines : resv[l] = "ACTIVE"
                            /\ lines \cap LockedLines = {}
  PROVE  TxnsSound'
<1> DEFINE t == [kind |-> kind, lines |-> lines, left |-> lines, moved |-> Nothing]
<1>1. /\ txn[p] = Idle /\ txn' = [txn EXCEPT ![p] = t]
      /\ UNCHANGED <<available, reserved, resv, holder>>
  BY DEF Begin, tables
<1>2. txn'[p] = t /\ txn'[p] # Idle /\ \A q \in Procs : q # p => txn'[q] = txn[q]
  BY <1>1 DEF IInv, TypeOK, Idle
<1>3. \A q \in Procs : Taken(q)' = IF q = p THEN {} ELSE Taken(q)
  BY <1>2 DEF Taken
<1> HIDE DEF t
<1>4. LinesKnown'
  BY <1>2 DEF TxnsSound, LinesKnown, t
<1>5. LocksTaken'
  BY <1>1, <1>2, <1>3 DEF TxnsSound, LocksTaken
<1>6. ReadsHold'
  BY <1>1, <1>2, <1>3 DEF TxnsSound, ReadsHold, t
<1>7. EndsApart'
  <2> SUFFICES ASSUME NEW q \in Procs, q # p, kind # "ACTIVE",
                      txn[q].kind \in {"RELEASED", "EXPIRED"}
               PROVE  lines \cap txn[q].lines = {}
    BY <1>2 DEF TxnsSound, EndsApart, t, Kinds
  <2> QED
    BY DEF LockedLines
<1>8. MovedTaken'
  <2> SUFFICES ASSUME NEW q \in Procs, txn'[q] # Idle, NEW s \in Skus
               PROVE  LET n == Cardinality(Units(TakenOf(q, s)', s)) IN
                      txn'[q].moved[s] = IF txn'[q].kind = "ACTIVE" THEN n ELSE -n
    BY DEF MovedTaken
  <2>1. CASE q = p
    <3>1. TakenOf(q, s)' = {}
      BY <2>1, <1>3 DEF TakenOf
    <3>2. Cardinality(Units(TakenOf(q, s)', s)) = 0
      BY <3>1, UnitsOfOne, Zenon
    <3> QED
      BY <2>1, <3>2, <1>2, NothingMoved DEF t
  <2>2. CASE q # p
    <3>1. TakenOf(q, s)' = TakenOf(q, s)
      BY <2>2, <1>3 DEF TakenOf
    <3>2. Cardinality(Units(TakenOf(q, s)', s)) = Cardinality(Units(TakenOf(q, s), s))
      BY <3>1, Zenon
    <3> QED
      BY <2>2, <3>2, <1>2 DEF TxnsSound, MovedTaken
  <2> QED
    BY <2>1, <2>2
<1>9. InSkuOrder'
  BY <1>2, <1>3 DEF TxnsSound, InSkuOrder
<1>10. ReservedIsActive'
  BY <1>1 DEF TxnsSound, ReservedIsActive, HoldingOf
<1> QED
  BY <1>4, <1>5, <1>6, <1>7, <1>8, <1>9, <1>10 DEF TxnsSound

(* Each of the three kinds of transaction begins like that.                *)
LEMMA BeginsTxns ==
  ASSUME IInv, TxnsSound, NEW p \in Procs, NEW o \in Orders,
         BeginReserve(p, o) \/ BeginRelease(p, o) \/ BeginSweep(p)
  PROVE  TxnsSound'
<1>1. CASE BeginReserve(p, o)
  BY <1>1, BeginTxns DEF BeginReserve, AllLines, Kinds
<1>2. CASE BeginRelease(p, o)
  <2> DEFINE lines == {l \in LinesOf(o) : resv[l] = "ACTIVE"}
  <2>1. lines # {} /\ lines \cap LockedLines = {} /\ Begin(p, "RELEASED", lines)
    BY <1>2 DEF BeginRelease, Begin
  <2>2. lines = LinesOf(o)
    BY <2>1 DEF IInv, LinesTogether
  <2>3. lines \in SUBSET AllLines
    BY DEF AllLines
  <2>4. \A l \in lines : resv[l] = "ACTIVE"
    OBVIOUS
  <2> HIDE DEF lines
  <2> QED
    BY <2>1, <2>2, <2>3, <2>4, BeginTxns DEF Kinds
<1>3. CASE BeginSweep(p)
  <2> DEFINE lines == {l \in AllLines : resv[l] = "ACTIVE" /\ l[1] \in due}
  <2>1. /\ lines \in SUBSET AllLines /\ \A l \in lines : resv[l] = "ACTIVE"
        /\ lines \cap LockedLines = {} /\ Begin(p, "EXPIRED", lines)
    BY <1>3 DEF BeginSweep
  <2> HIDE DEF lines
  <2> QED
    BY <2>1, BeginTxns DEF Kinds
<1> QED
  BY <1>1, <1>2, <1>3

(* A line is taken: its row was free or its own, it was the least one left *)
(* of a reservation, and what was read of it holds now.                    *)
LEMMA TakeTxns ==
  ASSUME IInv, TxnsSound, NEW p \in Procs, NEW l \in AllLines, Take(p, l)
  PROVE  TxnsSound'
<1> DEFINE s == l[2]
           t == txn[p]
           n == IF t.kind = "ACTIVE" THEN t.moved[s] + Qty(l) ELSE t.moved[s] - Qty(l)
           u == [kind |-> t.kind, lines |-> t.lines, left |-> t.left \ {l},
                 moved |-> [t.moved EXCEPT ![s] = n]]
<1>1. /\ t # Idle /\ t \in Txn /\ s \in Skus /\ l[1] \in Orders /\ l = <<l[1], s>>
      /\ t.kind \in Kinds /\ t.moved \in [Skus -> Int]
      /\ l \in t.left /\ t.left \subseteq t.lines
  <2>1. t # Idle /\ t \in Txn /\ l \in t.left
    BY DEF Take, Comes, IInv, TypeOK
  <2> QED
    BY <2>1, TxnFields, LineFields, LineParts DEF TxnsSound, LinesKnown
<1>2. /\ txn' = [txn EXCEPT ![p] = u] /\ holder' = [holder EXCEPT ![s] = p]
      /\ UNCHANGED <<available, reserved, resv>> /\ holder[s] \in {Nobody, p}
  BY DEF Take, AndThen, tables
<1>3. /\ txn'[p] = u /\ u # Idle /\ u.kind = t.kind /\ u.lines = t.lines
      /\ u.left = t.left \ {l} /\ u.moved = [t.moved EXCEPT ![s] = n]
      /\ \A q \in Procs : q # p => txn'[q] = txn[q]
  BY <1>1, <1>2 DEF IInv, TypeOK, Idle, Kinds
<1>4. \A r \in Skus : holder'[r] = IF r = s THEN p ELSE holder[r]
  BY <1>1, <1>2 DEF IInv, TypeOK
<1> HIDE DEF u
<1>5. \A q \in Procs : Taken(q)' = IF q = p THEN Taken(p) \cup {l} ELSE Taken(q)
  BY <1>1, <1>3 DEF Taken
<1>6. l \notin Taken(p)
  BY <1>1 DEF Taken
<1>7. LinesKnown'
  BY <1>1, <1>3 DEF TxnsSound, LinesKnown
<1>8. LocksTaken'
  <2> SUFFICES ASSUME NEW q \in Procs, NEW r \in Skus
               PROVE  holder'[r] = q <=> txn'[q] # Idle /\ \E m \in Taken(q)' : m[2] = r
    BY DEF LocksTaken
  <2>1. holder[r] = q <=> txn[q] # Idle /\ \E m \in Taken(q) : m[2] = r
    BY DEF TxnsSound, LocksTaken
  <2>2. CASE q = p
    BY <2>1, <2>2, <1>1, <1>3, <1>4, <1>5
  <2>3. CASE q # p
    <3>1. r = s => holder[r] # q
      BY <2>3, <1>2, StockAssumption
    <3> QED
      BY <2>1, <2>3, <3>1, <1>3, <1>4, <1>5
  <2> QED
    BY <2>2, <2>3
<1>9. ReadsHold'
  <2>1. t.kind = "ACTIVE" => resv[l] = "none"
    BY DEF Take, Satisfiable
  <2> SUFFICES ASSUME NEW q \in Procs, txn'[q] # Idle
               PROVE  IF txn'[q].kind = "ACTIVE" THEN \A m \in Taken(q)' : resv[m] = "none"
                                                 ELSE \A m \in txn'[q].lines : resv[m] = "ACTIVE"
    BY <1>2 DEF ReadsHold
  <2>2. txn[q] # Idle /\ txn'[q].kind = txn[q].kind /\ txn'[q].lines = txn[q].lines
    BY <1>1, <1>3
  <2>3. IF txn[q].kind = "ACTIVE" THEN \A m \in Taken(q) : resv[m] = "none"
                                  ELSE \A m \in txn[q].lines : resv[m] = "ACTIVE"
    BY <2>2 DEF TxnsSound, ReadsHold
  <2> QED
    BY <2>1, <2>2, <2>3, <1>5
<1>10. EndsApart'
  BY <1>3 DEF TxnsSound, EndsApart
<1>11. MovedTaken'
  <2> SUFFICES ASSUME NEW q \in Procs, txn'[q] # Idle, NEW r \in Skus
               PROVE  LET k == Cardinality(Units(TakenOf(q, r)', r)) IN
                      txn'[q].moved[r] = IF txn'[q].kind = "ACTIVE" THEN k ELSE -k
    BY DEF MovedTaken
  <2>1. CASE q = p /\ r = s
    <3> DEFINE S == TakenOf(p, s)
    <3>1. TakenOf(q, r)' = S \cup {l[1]}
      BY <2>1, <1>1, <1>5 DEF TakenOf
    <3>2. S \cap {l[1]} = {} /\ S \in SUBSET Orders
      BY <1>1, <1>6 DEF TakenOf
    <3> HIDE DEF S
    <3>3. Cardinality(Units(S \cup {l[1]}, s))
            = Cardinality(Units(S, s)) + Cardinality(Units({l[1]}, s))
      BY <3>2, <1>1, UnitsAdd
    <3>4. Cardinality(Units({l[1]}, s)) = Qty(l) /\ Qty(l) \in Nat
      BY <1>1, UnitsOfOne, LineFields DEF Qty
    <3>5. Cardinality(Units(TakenOf(q, r)', r)) = Cardinality(Units(S \cup {l[1]}, s))
      BY <3>1, <2>1, Zenon
    <3>6. t.moved[s] = IF t.kind = "ACTIVE" THEN Cardinality(Units(S, s))
                                            ELSE -Cardinality(Units(S, s))
      BY <1>1 DEF S, TxnsSound, MovedTaken
    <3>7. Cardinality(Units(S, s)) \in Nat
      BY <3>2, <1>1, UnitsFinite
    <3>8. txn'[q].moved[r] = n /\ txn'[q].kind = t.kind
      BY <2>1, <1>1, <1>3
    <3> QED
      BY <3>3, <3>4, <3>5, <3>6, <3>7, <3>8
  <2>2. CASE q # p \/ r # s
    <3>1. TakenOf(q, r)' = TakenOf(q, r)
      BY <2>2, <1>1, <1>5 DEF TakenOf
    <3>2. Cardinality(Units(TakenOf(q, r)', r)) = Cardinality(Units(TakenOf(q, r), r))
      BY <3>1, Zenon
    <3>3. txn[q] # Idle /\ txn'[q].kind = txn[q].kind /\ txn'[q].moved[r] = txn[q].moved[r]
      BY <2>2, <1>1, <1>3
    <3> QED
      BY <3>2, <3>3 DEF TxnsSound, MovedTaken
  <2> QED
    BY <2>1, <2>2
<1>12. InSkuOrder'
  <2> SUFFICES ASSUME NEW q \in Procs, txn'[q] # Idle, txn'[q].kind = "ACTIVE",
                      NEW k \in Taken(q)', NEW m \in txn'[q].left
               PROVE  k[2] < m[2]
    BY DEF InSkuOrder
  <2>1. CASE q = p /\ k = l
    <3>1. m \in t.left /\ m # l /\ t.kind = "ACTIVE"
      BY <2>1, <1>3
    <3>2. l[2] <= m[2]
      BY <3>1 DEF Take, Comes
    <3>3. PICK o \in Orders : t.lines = LinesOf(o)
      BY <3>1, <1>1 DEF TxnsSound, LinesKnown
    <3>4. l[2] # m[2] /\ l[2] \in Skus /\ m[2] \in Skus
      BY <3>1, <3>3, <1>1 DEF LinesOf
    <3>5. l[2] \in Nat /\ m[2] \in Nat
      BY <3>4, StockAssumption
    <3> HIDE DEF t
    <3> QED
      BY <3>2, <3>4, <3>5, <2>1
  <2>2. CASE q # p \/ k # l
    <3>1. k \in Taken(q) /\ m \in txn[q].left /\ txn[q] # Idle /\ txn[q].kind = "ACTIVE"
      BY <2>2, <1>1, <1>3, <1>5
    <3> QED
      BY <3>1 DEF TxnsSound, InSkuOrder
  <2> QED
    BY <2>1, <2>2
<1>13. ReservedIsActive'
  BY <1>2 DEF TxnsSound, ReservedIsActive, HoldingOf
<1> QED
  BY <1>7, <1>8, <1>9, <1>10, <1>11, <1>12, <1>13 DEF TxnsSound

(* The end of a transaction leaves the others what they have locked and    *)
(* moved.                                                                  *)
LEMMA EndTxns ==
  ASSUME IInv, TxnsSound, NEW p \in Procs, End(p)
  PROVE  LinesKnown' /\ LocksTaken' /\ EndsApart' /\ MovedTaken' /\ InSkuOrder'
<1>1. /\ txn'[p] = Idle /\ txn'[p].kind = "idle"
      /\ \A q \in Procs : q # p => txn'[q] = txn[q] /\ Taken(q)' = Taken(q)
  BY DEF End, IInv, TypeOK, Taken, Idle
<1>2. \A r \in Skus : holder'[r] = IF holder[r] = p THEN Nobody ELSE holder[r]
  BY DEF End
<1>3. LinesKnown' /\ InSkuOrder'
  BY <1>1 DEF TxnsSound, LinesKnown, InSkuOrder
<1>4. EndsApart'
  BY <1>1 DEF TxnsSound, EndsApart
<1>5. LocksTaken'
  BY <1>1, <1>2, StockAssumption DEF TxnsSound, LocksTaken
<1>6. MovedTaken'
  <2> SUFFICES ASSUME NEW q \in Procs, txn'[q] # Idle, NEW r \in Skus
               PROVE  LET k == Cardinality(Units(TakenOf(q, r)', r)) IN
                      txn'[q].moved[r] = IF txn'[q].kind = "ACTIVE" THEN k ELSE -k
    BY DEF MovedTaken
  <2>1. TakenOf(q, r)' = TakenOf(q, r) /\ txn'[q] = txn[q]
    BY <1>1 DEF TakenOf
  <2>2. Cardinality(Units(TakenOf(q, r)', r)) = Cardinality(Units(TakenOf(q, r), r))
    BY <2>1, Zenon
  <2> QED
    BY <2>1, <2>2 DEF TxnsSound, MovedTaken
<1> QED
  BY <1>3, <1>4, <1>5, <1>6

(* A transaction that is rolled back changes nothing that others read.     *)
LEMMA RollbackTxns ==
  ASSUME IInv, TxnsSound, NEW p \in Procs, End(p), UNCHANGED tables
  PROVE  TxnsSound'
<1>1. /\ txn'[p] = Idle
      /\ \A q \in Procs : q # p => txn'[q] = txn[q] /\ Taken(q)' = Taken(q)
  BY DEF End, IInv, TypeOK, Taken
<1>2. ReadsHold'
  BY <1>1 DEF TxnsSound, ReadsHold, tables
<1>3. ReservedIsActive'
  BY DEF TxnsSound, ReservedIsActive, HoldingOf, tables
<1> QED
  BY <1>2, <1>3, EndTxns DEF TxnsSound

(* A transaction commits: no other has read what it changes, and it        *)
(* changes the two tables by the same units.                               *)
LEMMA CommitTxns ==
  ASSUME IInv, TxnsSound, NEW p \in Procs, Commit(p)
  PROVE  TxnsSound'
<1> DEFINE t == txn[p]
<1>1. /\ t # Idle /\ t.kind \in Kinds /\ t.lines \in SUBSET AllLines /\ Taken(p) = t.lines
      /\ t.moved \in [Skus -> Int]
  <2>1. t # Idle /\ t.left = {} /\ t \in Txn
    BY DEF Commit, IInv, TypeOK
  <2> QED
    BY <2>1, TxnFields DEF Taken
<1>2. /\ resv' = [l \in Orders \X Skus |-> IF l \in t.lines THEN t.kind ELSE resv[l]]
      /\ reserved' = [s \in Skus |-> reserved[s] + t.moved[s]]
      /\ End(p)
  BY DEF Commit, Write
<1>3. /\ txn'[p] = Idle
      /\ \A q \in Procs : q # p => txn'[q] = txn[q] /\ Taken(q)' = Taken(q)
  BY <1>2 DEF End, IInv, TypeOK, Taken
<1> HIDE DEF t
<1>4. IF t.kind = "ACTIVE" THEN \A l \in t.lines : resv[l] = "none"
                           ELSE \A l \in t.lines : resv[l] = "ACTIVE"
  BY <1>1 DEF TxnsSound, ReadsHold, t
<1>5. ReadsHold'
  <2> SUFFICES ASSUME NEW q \in Procs, q # p, txn[q] # Idle
               PROVE  IF txn[q].kind = "ACTIVE"
                      THEN \A l \in Taken(q) : resv'[l] = "none"
                      ELSE \A l \in txn[q].lines : resv'[l] = "ACTIVE"
    BY <1>3 DEF ReadsHold
  <2>1. /\ txn[q].kind \in Kinds /\ txn[q].lines \in SUBSET AllLines
        /\ Taken(q) \subseteq txn[q].lines
    BY TxnFields DEF IInv, TypeOK, Taken
  <2>2. IF txn[q].kind = "ACTIVE" THEN \A l \in Taken(q) : resv[l] = "none"
                                  ELSE \A l \in txn[q].lines : resv[l] = "ACTIVE"
    BY DEF TxnsSound, ReadsHold
  <2>3. CASE txn[q].kind = "ACTIVE"
    <3> SUFFICES ASSUME NEW l \in Taken(q) PROVE resv'[l] = "none"
      BY <2>3
    <3>1. l \in AllLines /\ l \in Orders \X Skus /\ l[2] \in Skus /\ resv[l] = "none"
      BY <2>1, <2>2, <2>3, LineFields
    <3>2. holder[l[2]] = q
      BY <3>1 DEF TxnsSound, LocksTaken
    <3>3. l \notin Taken(p)
      BY <3>1, <3>2, <1>1 DEF TxnsSound, LocksTaken, t
    <3> QED
      BY <3>1, <3>3, <1>1, <1>2
  <2>4. CASE txn[q].kind # "ACTIVE"
    <3> SUFFICES ASSUME NEW l \in txn[q].lines PROVE resv'[l] = "ACTIVE"
      BY <2>4
    <3>1. l \in Orders \X Skus /\ resv[l] = "ACTIVE"
      BY <2>1, <2>2, <2>4, LineFields
    <3>2. l \notin t.lines
      <4>1. CASE t.kind = "ACTIVE"
        BY <4>1, <3>1, <1>4
      <4>2. CASE t.kind # "ACTIVE"
        BY <4>2, <2>1, <2>4, <1>1 DEF TxnsSound, EndsApart, Kinds, t
      <4> QED
        BY <4>1, <4>2
    <3> QED
      BY <3>1, <3>2, <1>2
  <2> QED
    BY <2>3, <2>4
<1>6. ReservedIsActive'
  <2> SUFFICES ASSUME NEW s \in Skus
               PROVE  reserved'[s] = Cardinality(Units(HoldingOf(s)', s))
    BY DEF ReservedIsActive
  <2> DEFINE H == HoldingOf(s)
             T == TakenOf(p, s)
  <2>1. /\ H \in SUBSET Orders /\ T \in SUBSET Orders
        /\ \A o \in Orders : o \in H <=> resv[<<o, s>>] = "ACTIVE"
        /\ \A o \in Orders : o \in T <=> <<o, s>> \in t.lines
    BY <1>1 DEF HoldingOf, TakenOf
  <2>2. reserved[s] = Cardinality(Units(H, s)) /\ reserved'[s] = reserved[s] + t.moved[s]
    BY <1>2 DEF TxnsSound, ReservedIsActive
  <2>3. t.moved[s] = IF t.kind = "ACTIVE" THEN Cardinality(Units(T, s))
                                          ELSE -Cardinality(Units(T, s))
    BY <1>1 DEF TxnsSound, MovedTaken, t
  <2>4. \A o \in Orders : resv'[<<o, s>>] = IF o \in T THEN t.kind ELSE resv[<<o, s>>]
    BY <1>2, <2>1
  <2>5. HoldingOf(s)' = {o \in Orders : resv'[<<o, s>>] = "ACTIVE"}
    BY DEF HoldingOf
  <2> HIDE DEF H, T
  <2>6. Cardinality(Units(H, s)) \in Nat /\ Cardinality(Units(T, s)) \in Nat
    BY <2>1, UnitsFinite
  <2>7. CASE t.kind = "ACTIVE"
    <3>1. H \cap T = {}
      BY <2>1, <2>7, <1>4
    <3>2. HoldingOf(s)' = H \cup T
      BY <2>1, <2>4, <2>5, <2>7
    <3>3. Cardinality(Units(H \cup T, s)) = Cardinality(Units(H, s)) + Cardinality(Units(T, s))
      BY <2>1, <3>1, UnitsAdd
    <3>4. Cardinality(Units(HoldingOf(s)', s)) = Cardinality(Units(H \cup T, s))
      BY <3>2, Zenon
    <3> QED
      BY <2>2, <2>3, <2>6, <2>7, <3>3, <3>4
  <2>8. CASE t.kind # "ACTIVE"
    <3>1. T \in SUBSET H
      BY <2>1, <2>8, <1>4
    <3>2. HoldingOf(s)' = H \ T
      BY <2>1, <2>4, <2>5, <2>8
    <3>3. Cardinality(Units(H \ T, s)) = Cardinality(Units(H, s)) - Cardinality(Units(T, s))
      BY <2>1, <3>1, UnitsSubtract
    <3>4. Cardinality(Units(HoldingOf(s)', s)) = Cardinality(Units(H \ T, s))
      BY <3>2, Zenon
    <3> QED
      BY <2>2, <2>3, <2>6, <2>8, <3>3, <3>4
  <2> QED
    BY <2>7, <2>8
<1> QED
  BY <1>2, <1>5, <1>6, EndTxns DEF TxnsSound

(* Every step preserves what is known of the transactions.                 *)
LEMMA NextTxns == IInv /\ TxnsSound /\ [Next]_vars => TxnsSound'
<1> SUFFICES ASSUME IInv, TxnsSound, [Next]_vars PROVE TxnsSound'
  OBVIOUS
<1>1. CASE UNCHANGED <<available, reserved, resv, holder, txn>>
  <2>1. UNCHANGED <<LinesKnown, LocksTaken, ReadsHold, EndsApart, InSkuOrder, ReservedIsActive>>
    BY <1>1 DEF LinesKnown, LocksTaken, ReadsHold, EndsApart, InSkuOrder, Taken,
                ReservedIsActive, HoldingOf
  <2>2. UNCHANGED MovedTaken
    BY <1>1 DEF MovedTaken, TakenOf, Taken
  <2> QED
    BY <2>1, <2>2 DEF TxnsSound
<1>2. CASE \E w \in Workers, o \in Orders : BeginReserve(w, o) \/ BeginRelease(w, o)
  BY <1>2, BeginsTxns DEF Procs
<1>3. ASSUME NEW r \in Replicas, BeginSweep(r) PROVE TxnsSound'
  <2>1. PICK l \in AllLines : TRUE
    BY <1>3 DEF BeginSweep, Begin
  <2> QED
    BY <1>3, <2>1, LineFields, BeginsTxns DEF Procs
<1>4. CASE \E p \in Procs : \E l \in AllLines : Take(p, l) \/ Refuse(p, l)
  BY <1>4, TakeTxns, RollbackTxns DEF Refuse
<1>5. CASE \E p \in Procs : Commit(p) \/ Crash(p)
  BY <1>5, CommitTxns, RollbackTxns DEF Crash
<1>6. CASE \E o \in Orders : FallDue(o)
  BY <1>6, <1>1 DEF FallDue, tables
<1> QED
  BY <1>1, <1>2, <1>3, <1>4, <1>5, <1>6 DEF Next, vars, tables

(* What is known of the transactions holds always.                         *)
THEOREM TxnsInvariance == Spec => []TxnsSound
  BY InitTxns, NextTxns, Invariance, PTL DEF Spec

(* The two tables agree, whatever transactions race and crash: the reserved *)
(* units of a SKU are those of its ACTIVE reservations.                    *)
THEOREM TablesAgree == Spec => []ReservedIsActive
<1>1. TxnsSound => ReservedIsActive
  BY DEF TxnsSound
<1> QED
  BY TxnsInvariance, <1>1, PTL

-----------------------------------------------------------------------------
(* The absence of circles of reservations.                                 *)

(* There are finitely many SKUs, so among some of them one is the greatest. *)
LEMMA GreatestSku ==
  ASSUME NEW W \in SUBSET Skus, W # {}
  PROVE  \E x \in W : \A y \in W : y <= x
<1> DEFINE Above(x) == {s \in Skus : s > x}
           F == {Above(x) : x \in W}
<1>1. IsWellFoundedOn(StrictSubsetOrdering(Skus), FiniteSubsetsOf(Skus))
  BY FS_StrictSubsetOrderingWellFounded
<1>2. F \subseteq FiniteSubsetsOf(Skus) /\ F # {}
  <2>1. FiniteSubsetsOf(Skus) = SUBSET Skus
    BY FS_FiniteSubsetsOfFinite, StockAssumption
  <2>2. \A x \in W : Above(x) \in SUBSET Skus
    OBVIOUS
  <2>3. \E x \in W : Above(x) \in F
    <3> HIDE DEF Above
    <3> QED
      OBVIOUS
  <2> HIDE DEF Above
  <2>4. F \subseteq SUBSET Skus
    BY <2>2, Zenon
  <2> HIDE DEF F
  <2> QED
    BY <2>1, <2>3, <2>4, Zenon
<1>3. PICK A \in F : \A B \in F : ~ (<<B, A>> \in StrictSubsetOrdering(Skus))
  <2> HIDE DEF F
  <2> QED
    BY <1>1, <1>2, WFMin
<1>4. PICK x \in W : A = Above(x)
  BY <1>3
<1>5. ASSUME NEW y \in W, ~ (y <= x) PROVE FALSE
  <2>1. x \in Nat /\ y \in Nat /\ y > x /\ y \in Skus
    BY <1>5, StockAssumption
  <2>2. y \in Above(x) /\ y \notin Above(y)
    BY <2>1
  <2>3. Above(y) \subseteq Above(x)
    <3>1. \A s \in Skus : s > y => s > x
      <4> SUFFICES ASSUME NEW s \in Skus, s > y PROVE s > x
        OBVIOUS
      <4>1. s \in Nat
        BY StockAssumption
      <4> QED
        BY <2>1, <4>1
    <3> QED
      BY <3>1
  <2>4. Above(y) \in SUBSET Skus /\ Above(x) \in SUBSET Skus
    BY Zenon
  <2>5. <<Above(y), Above(x)>> \in StrictSubsetOrdering(Skus)
    <3> HIDE DEF Above
    <3>1. Above(y) # Above(x)
      BY <2>2
    <3> QED
      BY <2>3, <2>4, <3>1 DEF StrictSubsetOrdering
  <2>6. Above(y) \in F
    <3> HIDE DEF Above
    <3> QED
      OBVIOUS
  <2>7. <<Above(y), A>> \in StrictSubsetOrdering(Skus)
    BY <2>5, <1>4, Zenon
  <2> HIDE DEF F, Above
  <2> QED
    BY <2>6, <2>7, <1>3
<1> QED
  BY <1>5

(* A reservation that waits for a row that another transaction has locked  *)
(* and that is itself waiting for a row of a reservation: the second row   *)
(* has the greater SKU.                                                    *)
LEMMA WaitsUpwards ==
  ASSUME IInv, TxnsSound, NEW q \in Procs, txn[q] # Idle, txn[q].kind = "ACTIVE",
         NEW s \in Skus, holder[s] = q, NEW m \in txn[q].left
  PROVE  s < m[2]
<1>1. PICK l \in Taken(q) : l[2] = s
  BY DEF TxnsSound, LocksTaken
<1> QED
  BY <1>1 DEF TxnsSound, InSkuOrder

(* Reservations never wait for each other in a circle: of the rows they    *)
(* wait for, the one with the greatest SKU is locked by a reservation that *)
(* waits for no row of another one.                                        *)
LEMMA NoCircle == IInv /\ TxnsSound => NoCircleOfReservations
<1> SUFFICES ASSUME IInv, TxnsSound, NEW P \in (SUBSET Procs) \ {{}}, Circle(P),
                    \A p \in P : txn[p].kind = "ACTIVE"
             PROVE  FALSE
  BY DEF NoCircleOfReservations
<1> DEFINE W == {s \in Skus : holder[s] \in P
                   /\ \E p \in P : \E l \in txn[p].left : l[2] = s}
<1>1. ASSUME NEW p \in P
      PROVE  /\ p \in Procs /\ txn[p] # Idle
             /\ \E l \in txn[p].left : l[2] \in W
  <2>1. p \in Procs /\ txn[p] # Idle /\ Awaited(p) # {} /\ Awaited(p) \subseteq P
    BY DEF Circle
  <2>2. PICK l \in txn[p].left : holder[l[2]] \in P
    BY <2>1 DEF Awaited
  <2>3. txn[p].left \in SUBSET AllLines
    BY <2>1, TxnFields DEF IInv, TypeOK
  <2>4. l[2] \in Skus
    BY <2>3, LineFields
  <2> QED
    BY <2>1, <2>2, <2>4
<1>2. W \in SUBSET Skus /\ W # {}
  BY <1>1
<1>3. PICK x \in W : \A y \in W : y <= x
  <2> HIDE DEF W
  <2> QED
    BY <1>2, GreatestSku
<1>4. PICK m \in txn[holder[x]].left : m[2] \in W
  BY <1>1, <1>3
<1>5. x < m[2]
  BY <1>1, <1>3, <1>4, WaitsUpwards
<1>6. m[2] <= x /\ x \in Nat /\ m[2] \in Nat
  BY <1>2, <1>3, <1>4, StockAssumption
<1> QED
  BY <1>5, <1>6

(* Where transactions wait in a circle, a release or a sweep is among them *)
(* (KnexInventoryRepository: "Rows are locked in SKU order to avoid        *)
(* deadlocks").                                                            *)
THEOREM ReservationsNeverDeadlock == Spec => []NoCircleOfReservations
  BY NoCircle, Invariance, TxnsInvariance, PTL

-----------------------------------------------------------------------------
(* The refinement: the service implements StockLedger.                     *)

(* The orders that hold stock, by their lines or by their lines of one     *)
(* SKU: an order that does not ask for the SKU has no units of it.         *)
LEMMA UnitsOfHolders ==
  ASSUME NEW r, NEW s \in Skus, NEW H \in SUBSET Orders,
         \A o \in Orders : \A l \in LinesOf(o) : o \in H <=> r[l] = "ACTIVE"
  PROVE  Units(H, s) = Units({o \in Orders : r[<<o, s>>] = "ACTIVE"}, s)
<1> DEFINE G == {o \in Orders : r[<<o, s>>] = "ACTIVE"}
<1>1. ASSUME NEW o \in Orders, NEW k \in 1..Demand[o][s]
      PROVE  o \in H <=> r[<<o, s>>] = "ACTIVE"
  <2>1. Demand[o][s] > 0
    BY <1>1, DemandType
  <2>2. <<o, s>> \in LinesOf(o)
    BY <2>1 DEF LinesOf
  <2> QED
    BY <2>2
<1>2. \A o \in Orders : {o} \X (1..Demand[o][s]) # {} => (o \in H <=> o \in G)
  BY <1>1
<1>3. H \subseteq Orders /\ G \subseteq Orders
  OBVIOUS
<1> HIDE DEF G
<1>4. Units(H, s) = Units(G, s)
  BY <1>2, <1>3 DEF Units
<1> QED
  BY <1>4 DEF G

(* The state of an order's reservation is that of any of its lines.        *)
LEMMA StateOfLines ==
  ASSUME LinesTogether, NEW o \in Orders
  PROVE  /\ \A l \in LinesOf(o) : OrderState(o) = resv[l]
         /\ LinesOf(o) = {} => OrderState(o) = "none"
<1>1. CASE \E l \in LinesOf(o) : resv[l] # "none"
  <2>1. PICK l \in LinesOf(o) : OrderState(o) = resv[l]
    BY <1>1 DEF OrderState
  <2> QED
    BY <2>1 DEF LinesTogether
<1>2. CASE ~ \E l \in LinesOf(o) : resv[l] # "none"
  BY <1>2 DEF OrderState
<1> QED
  BY <1>1, <1>2

(* And so it is after a step.                                              *)
LEMMA StateOfLinesNext ==
  ASSUME LinesTogether', NEW o \in Orders
  PROVE  /\ \A l \in LinesOf(o) : OrderState(o)' = resv'[l]
         /\ LinesOf(o) = {} => OrderState(o)' = "none"
<1>1. CASE \E l \in LinesOf(o) : resv'[l] # "none"
  <2>1. PICK l \in LinesOf(o) : OrderState(o)' = resv'[l]
    BY <1>1 DEF OrderState
  <2> QED
    BY <2>1 DEF LinesTogether
<1>2. CASE ~ \E l \in LinesOf(o) : resv'[l] # "none"
  BY <1>2 DEF OrderState
<1> QED
  BY <1>1, <1>2

(* What a commit does to the reservations of the orders: those with lines  *)
(* in the transaction had the state it has read, and get its kind.         *)
LEMMA CommitOrders ==
  ASSUME IInv, TxnsSound, NEW p \in Procs, Commit(p), IInv', NEW o \in Orders
  PROVE  IF LinesOf(o) \cap txn[p].lines = {}
         THEN OrderState(o)' = OrderState(o)
         ELSE /\ OrderState(o)  = IF txn[p].kind = "ACTIVE" THEN "none" ELSE "ACTIVE"
              /\ OrderState(o)' = txn[p].kind
<1> DEFINE t == txn[p]
<1>1. t # Idle /\ t.left = {} /\ t.kind \in Kinds /\ t.lines \in SUBSET AllLines
  <2>1. t # Idle /\ t.left = {} /\ t \in Txn
    BY DEF Commit, IInv, TypeOK
  <2> QED
    BY <2>1, TxnFields
<1>2. resv' = [l \in Orders \X Skus |-> IF l \in t.lines THEN t.kind ELSE resv[l]]
  BY DEF Commit, Write
<1>3. /\ \A l \in LinesOf(o) : OrderState(o) = resv[l]
      /\ LinesOf(o) = {} => OrderState(o) = "none"
  BY StateOfLines DEF IInv
<1>4. \A l \in LinesOf(o) : l \in AllLines /\ l \in Orders \X Skus
  BY LineFields DEF AllLines
<1> HIDE DEF t
<1>5. /\ \A l \in LinesOf(o) : OrderState(o)' = resv'[l]
      /\ LinesOf(o) = {} => OrderState(o)' = "none"
  BY StateOfLinesNext DEF IInv
<1>6. CASE LinesOf(o) \cap t.lines = {}
  BY <1>2, <1>3, <1>4, <1>5, <1>6 DEF t
<1>7. CASE LinesOf(o) \cap t.lines # {}
  <2>1. PICK l \in LinesOf(o) : l \in t.lines
    BY <1>7
  <2>2. IF t.kind = "ACTIVE" THEN resv[l] = "none" ELSE resv[l] = "ACTIVE"
    BY <2>1, <1>1 DEF TxnsSound, ReadsHold, Taken, t
  <2> QED
    BY <2>1, <2>2, <1>2, <1>3, <1>4, <1>5, <1>7 DEF t
<1> QED
  BY <1>6, <1>7

(* A commit is one step of the ledger, or none.                            *)
LEMMA CommitIsLedgerStep ==
  ASSUME IInv, TxnsSound, NEW p \in Procs, Commit(p), IInv', TxnsSound'
  PROVE  [Ledger!Next]_(Ledger!vars)
<1> DEFINE t == txn[p]
           Was == [o \in Orders |-> OrderState(o)]
           Is  == [o \in Orders |-> OrderState(o)']
           Told(o) == LinesOf(o) \cap t.lines # {}
<1>1. t # Idle /\ t.kind \in Kinds /\ t.lines \in SUBSET AllLines
  <2>1. t # Idle /\ t \in Txn
    BY DEF Commit, IInv, TypeOK
  <2> QED
    BY <2>1, TxnFields
<1>2. \A o \in Orders :
        IF Told(o) THEN /\ Was[o] = IF t.kind = "ACTIVE" THEN "none" ELSE "ACTIVE"
                        /\ Is[o] = t.kind
                   ELSE Is[o] = Was[o]
  BY CommitOrders
<1>3. CASE \A o \in Orders : ~ Told(o)
  BY <1>2, <1>3 DEF Ledger!vars
<1>4. ASSUME NEW o \in Orders, Told(o), t.kind # "EXPIRED" PROVE Ledger!Next
  <2>1. PICK q \in Orders : t.lines = LinesOf(q)
    BY <1>1, <1>4 DEF TxnsSound, LinesKnown
  <2>2. \A r \in Orders : Told(r) => r = o
    BY <2>1, <1>4, LinesOfOrders
  <2> HIDE DEF Told, t
  <2>3. Is = [Was EXCEPT ![o] = t.kind] /\ Was[o] = (IF t.kind = "ACTIVE" THEN "none" ELSE "ACTIVE")
    BY <2>2, <1>2, <1>4
  <2>4. CASE t.kind = "RELEASED"
    BY <2>3, <2>4 DEF Ledger!Next, Ledger!Release
  <2>5. CASE t.kind = "ACTIVE"
    <3>1. ASSUME NEW s \in Skus
          PROVE  Cardinality(Ledger!Units(Ledger!Holding \cup {o}, s)) <= Initial[s]
      <4> DEFINE H == {r \in Orders : Is[r] = "ACTIVE"}
      <4>1. Ledger!Holding \cup {o} = H
        BY <2>3, <2>5 DEF Ledger!Holding
      <4>2. \A r \in Orders : \A l \in LinesOf(r) : r \in H <=> resv'[l] = "ACTIVE"
        <5>1. \A r \in Orders : \A l \in LinesOf(r) : OrderState(r)' = resv'[l]
          BY StateOfLinesNext DEF IInv
        <5> QED
          BY <5>1
      <4>3. HoldingOf(s)' = {r \in Orders : resv'[<<r, s>>] = "ACTIVE"}
        BY DEF HoldingOf
      <4> HIDE DEF H
      <4>4. H \in SUBSET Orders
        BY DEF H
      <4>5. Units(H, s) = Units({r \in Orders : resv'[<<r, s>>] = "ACTIVE"}, s)
        BY <4>2, <4>4, UnitsOfHolders
      <4>6. Ledger!Units(Ledger!Holding \cup {o}, s) = Units(H, s)
        BY <4>1 DEF Ledger!Units, Units
      <4>7. Cardinality(Ledger!Units(Ledger!Holding \cup {o}, s))
              = Cardinality(Units(HoldingOf(s)', s))
        BY <4>3, <4>5, <4>6, Zenon
      <4>8. reserved'[s] = Cardinality(Units(HoldingOf(s)', s))
        BY DEF TxnsSound, ReservedIsActive
      <4>9. available'[s] \in Nat /\ reserved'[s] \in Nat
            /\ available'[s] + reserved'[s] = Initial[s]
        BY DEF IInv, TypeOK, StockSound
      <4> QED
        BY <4>7, <4>8, <4>9
    <3>2. \A S : Ledger!Cardinality(S) = Cardinality(S)
      BY Zenon DEF Ledger!Cardinality, Cardinality
    <3>3. Ledger!CanReserve(o)
      BY <2>3, <2>5, <3>1, <3>2 DEF Ledger!CanReserve
    <3>4. Ledger!Reserve(o)
      BY <2>3, <2>5, <3>3 DEF Ledger!Reserve
    <3> QED
      BY <3>4 DEF Ledger!Next
  <2> QED
    BY <2>4, <2>5, <1>1, <1>4 DEF Kinds, t
<1>5. CASE t.kind = "EXPIRED"
  <2> DEFINE S == {o \in Orders : Told(o)}
  <2>1. S \in SUBSET Orders
    OBVIOUS
  <2> HIDE DEF Told, t
  <2>2. S \subseteq Ledger!Holding
    BY <1>2, <1>5 DEF Ledger!Holding
  <2>3. Is = [o \in Orders |-> IF o \in S THEN "EXPIRED" ELSE Was[o]]
    BY <1>2, <1>5
  <2> HIDE DEF S
  <2>4. Ledger!Expire(S)
    BY <2>2, <2>3 DEF Ledger!Expire
  <2> QED
    BY <2>1, <2>4 DEF Ledger!Next
<1> QED
  BY <1>3, <1>4, <1>5

(* No other step changes what is reserved.                                 *)
LEMMA OnlyCommitsWrite == Next => UNCHANGED resv \/ \E p \in Procs : Commit(p)
  BY DEF Next, BeginReserve, BeginRelease, BeginSweep, Begin, Take, Refuse, Crash, FallDue,
         tables

(* The service implements the ledger of whole-order reservations: however  *)
(* its transactions interleave, wait, abort and crash, orders are reserved *)
(* in one step and at most once, and never beyond the stock.               *)
THEOREM Refinement == Spec => ImplementsLedger
<1>1. Init => Ledger!Init
  <2> SUFFICES ASSUME Init PROVE \A o \in Orders : OrderState(o) = "none"
    BY DEF Ledger!Init
  <2>1. \A o \in Orders : \A l \in LinesOf(o) : resv[l] = "none"
    BY DEF Init, LinesOf
  <2> QED
    BY <2>1 DEF OrderState
<1>2. IInv /\ TxnsSound /\ IInv' /\ TxnsSound' /\ [Next]_vars => [Ledger!Next]_(Ledger!vars)
  <2> SUFFICES ASSUME IInv, TxnsSound, IInv', TxnsSound', [Next]_vars
               PROVE  [Ledger!Next]_(Ledger!vars)
    OBVIOUS
  <2>1. CASE UNCHANGED resv
    BY <2>1 DEF Ledger!vars, OrderState
  <2>2. CASE \E p \in Procs : Commit(p)
    BY <2>2, CommitIsLedgerStep
  <2> QED
    BY <2>1, <2>2, OnlyCommitsWrite DEF vars, tables
<1> QED
  BY <1>1, <1>2, Invariance, TxnsInvariance, PTL DEF Spec, Ledger!Spec, ImplementsLedger
=============================================================================
