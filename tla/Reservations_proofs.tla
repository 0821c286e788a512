------------------------- MODULE Reservations_proofs -------------------------
(***************************************************************************)
(* Proofs about Reservations, for any lines, products and readers, however *)
(* the readers overlap, whoever stops and in whatever order the counts of  *)
(* the warehouses arrive. Only the last theorem assumes one reader.        *)
(***************************************************************************)
EXTENDS Reservations, TLAPS, FiniteSetTheorems

Doings == {"NOTHING", "INSERT", "INSERT_SHIPPED", "RELEASE", "CONSUME", "REPORT_SHIPPED"}

LEMMA DoesTyped ==
  ASSUME NEW status, NEW seen
  PROVE  Does(status, seen) \in Doings
  BY DEF Does, Doings

LEMMA DoesToTyped ==
  ASSUME NEW r \in Readers, NEW l \in Lines
  PROVE  DoesTo(r, l) \in Doings
  BY DoesTyped DEF DoesTo, Doings

(* What a statement the database accepts leaves of a row.                  *)
LEMMA OutcomeRow ==
  ASSUME ReservationsAssumption, TypeOK, NEW l \in Lines, NEW does \in Doings, Allowed(does, l)
  PROVE  LET row == Outcome(does, l)
         IN /\ row \in Reservations
            /\ row.confirmedAt \in {0, res[l].confirmedAt}
            /\ res[l].status = "CONSUMED" => row.status = "CONSUMED"
            /\ ProductOf[l] \in Inbound /\ row.status \in {"CONFIRMED_BY_SOURCE", "CONSUMED"}
                 => /\ res[l].status \in {"CONFIRMED_BY_SOURCE", "CONSUMED"}
                    /\ row.confirmedAt = res[l].confirmedAt
            /\ does = "NOTHING" => row = res[l]
<1>1. res[l] \in Reservations /\ now \in Nat /\ now <= MaxClock /\ Ttl \in Nat /\ MaxClock \in Nat
  BY DEF TypeOK, ReservationsAssumption, Instants
<1>2. NoReservation \in Reservations /\ now + Ttl \in 0 .. MaxClock + Ttl
  BY <1>1 DEF NoReservation, Reservations, Statuses, Open, Instants
<1>3. CASE does = "NOTHING"
  BY <1>1, <1>3 DEF Outcome
<1>4. CASE does \in {"INSERT", "INSERT_SHIPPED"}
  <2>1. res[l].status = "NONE"
    BY <1>4 DEF Allowed
  <2>2. \E b \in BOOLEAN : Outcome(does, l) = Inserted(ProductOf[l], b)
    BY <1>4 DEF Outcome
  <2>3. PICK b \in BOOLEAN : Outcome(does, l) = Inserted(ProductOf[l], b)
    BY <2>2
  <2>4. /\ Inserted(ProductOf[l], b) \in Reservations
        /\ Inserted(ProductOf[l], b).confirmedAt = 0
        /\ ProductOf[l] \in Inbound => Inserted(ProductOf[l], b).status = "CREATED"
    BY <1>2 DEF Inserted, NoReservation, Reservations, Statuses, Open
  <2> QED
    BY <1>4, <2>1, <2>3, <2>4
<1>5. CASE does = "CONSUME"
  BY <1>1, <1>5 DEF Outcome, Allowed, Reservations, Statuses
<1>6. CASE does = "RELEASE"
  BY <1>1, <1>6 DEF Outcome, Allowed, Reservations, Statuses, Open
<1>7. CASE does = "REPORT_SHIPPED"
  BY <1>1, <1>7 DEF Outcome, Reservations, Statuses, Open
<1> QED
  BY <1>3, <1>4, <1>5, <1>6, <1>7 DEF Doings

(* A pool with another count is a pool.                                    *)
LEMMA PoolRow ==
  ASSUME TypeOK, NEW p \in Products, NEW q \in Nat
  PROVE  /\ pool[p] \in Pools /\ pool[p].onHand \in Nat
         /\ [pool[p] EXCEPT !.onHand = q] \in Pools
         /\ [pool[p] EXCEPT !.onHand = q].asOf = pool[p].asOf
         /\ [pool[p] EXCEPT !.onHand = q].without = pool[p].without
         /\ [pool[p] EXCEPT !.onHand = q].onHand = q
<1>1. pool[p] \in Pools
  BY DEF TypeOK
<1> QED
  BY <1>1 DEF Pools

(* Sets of lines are finite, and what is published is a natural number.    *)
LEMMA LinesFinite ==
  ASSUME ReservationsAssumption, NEW S, S \subseteq Lines
  PROVE  IsFiniteSet(S) /\ Cardinality(S) \in Nat
  BY FS_Subset, FS_CardinalityType DEF ReservationsAssumption

LEMMA TargetNat ==
  ASSUME ReservationsAssumption, TypeOK, NEW p \in Products
  PROVE  Target(p) \in Nat
<1> DEFINE S == {l \in LinesOf(p) : Reserved(l)}
<1>1. Cardinality(S) \in Nat
  BY LinesFinite DEF LinesOf
<1>2. pool[p].onHand \in Nat /\ Buffer \in Nat
  BY PoolRow DEF ReservationsAssumption
<1> DEFINE a == Less(pool[p].onHand, Cardinality(S))
<1>3. a \in Nat
  BY <1>1, <1>2 DEF Less
<1>4. Target(p) = Less(a, Buffer)
  BY DEF Target
<1> HIDE DEF a
<1> QED
  BY <1>2, <1>3, <1>4 DEF Less

LEMMA RecalculatedTyped ==
  ASSUME ReservationsAssumption, TypeOK, NEW P
  PROVE  Recalculated(P) \in [Products -> Nat]
  BY TargetNat DEF Recalculated, TypeOK

LEMMA IdleTyped == IdleReader \in Reading
<1>1. {} \in SUBSET Lines
  OBVIOUS
<1>2. [l \in {} |-> "NONE"] \in [{} -> OrderStatuses] /\ [l \in {} |-> "NONE"] \in [{} -> Statuses]
  OBVIOUS
<1>3. [l \in {} |-> "NONE"] \in Partial(OrderStatuses) /\ [l \in {} |-> "NONE"] \in Partial(Statuses)
  BY <1>1, <1>2 DEF Partial
<1> QED
  BY <1>3 DEF IdleReader, Reading, Phases

-----------------------------------------------------------------------------
(* Types *)

LEMMA TypeInit ==
  ASSUME ReservationsAssumption, Init
  PROVE  TypeOK
<1>1. Stock \in Nat /\ Buffer \in Nat /\ MaxClock \in Nat /\ MaxClock >= 1
  BY DEF ReservationsAssumption
<1>2. NoReservation \in Reservations
  BY <1>1 DEF NoReservation, Reservations, Statuses, Open, Instants, ReservationsAssumption
<1>3. Less(Stock, Buffer) \in Nat
  BY <1>1 DEF Less
<1> QED
  BY <1>1, <1>2, <1>3, IdleTyped DEF Init, TypeOK, Instants, Pools, OrderStatuses, ReservationsAssumption

(* A line is reported: its status changes, and the window contains it.     *)
LEMMA TypeChannel ==
  ASSUME ReservationsAssumption, TypeOK, NEW l \in Lines, Place(l) \/ Progress(l) \/ Register(l)
  PROVE  TypeOK'
<1>1. CASE Place(l)
  BY <1>1 DEF Place, TypeOK, OrderStatuses, Figures, Instants
<1>2. CASE Progress(l)
  <2>1. Follows[order[l]] \subseteq OrderStatuses
    BY <1>2 DEF Progress, Follows, OrderStatuses
  <2> QED
    BY <1>2, <2>1 DEF Progress, TypeOK
<1>3. CASE Register(l)
  BY <1>3 DEF Register, TypeOK
<1> QED
  BY <1>1, <1>2, <1>3

LEMMA TypeFigures ==
  ASSUME ReservationsAssumption, TypeOK,
         \/ \E p \in Inbound : SendFigure(p)
         \/ \E f \in figures : InboundStock(f)
  PROVE  TypeOK'
<1>1. ASSUME NEW p \in Inbound, SendFigure(p) PROVE TypeOK'
  <2>1. [product |-> p, asOf |-> now, without |-> registered \intersect LinesOf(p)] \in Figures
    BY DEF Figures, TypeOK
  <2> QED
    BY <1>1, <2>1 DEF SendFigure, TypeOK
<1>2. ASSUME NEW f \in figures, InboundStock(f) PROVE TypeOK'
  <2>1. f \in Figures /\ f.product \in Products /\ f.asOf \in Instants /\ f.without \subseteq Lines
    BY DEF TypeOK, Figures, ReservationsAssumption
  <2>2. Less(Stock, Cardinality(f.without)) \in Nat
    BY <2>1, LinesFinite DEF Less, ReservationsAssumption
  <2>3. pool' \in [Products -> Pools]
    BY <1>2, <2>1, <2>2 DEF InboundStock, TypeOK, Pools
  <2> QED
    BY <1>2, <2>1, <2>3 DEF InboundStock, TypeOK
<1> QED
  BY <1>1, <1>2

LEMMA ConfirmationRow ==
  ASSUME ReservationsAssumption, TypeOK, NEW l \in Lines
  PROVE  LET row == Confirmation(l)
         IN /\ row \in Reservations
            /\ row.confirmedAt \in {now, res[l].confirmedAt}
            /\ res[l].status # "CREATED" => row.confirmedAt = res[l].confirmedAt
            /\ row.status \in {"CONFIRMED_BY_SOURCE", "CONSUMED"} =>
                 \/ res[l].status = "CREATED" /\ row.confirmedAt = now
                 \/ res[l].status \in {"CONFIRMED_BY_SOURCE", "CONSUMED"}
            /\ row.status = "CONSUMED" \/ row.status = res[l].status \/ res[l].status = "CREATED"
            /\ res[l].status = "CONSUMED" => row.status = "CONSUMED"
<1>1. res[l] \in Reservations /\ now \in Instants /\ 0 \in 0 .. MaxClock + Ttl
  BY DEF TypeOK, ReservationsAssumption
<1> QED
  BY <1>1 DEF Confirmation, Reservations, Statuses, Open

LEMMA TypeRequests ==
  ASSUME ReservationsAssumption, TypeOK,
         \/ \E orders \in SUBSET registered : ConfirmInboundOrders(orders)
         \/ \E p \in Internal, quantity \in 0 .. Stock : Stocktake(p, quantity)
         \/ \E l \in Lines, accept \in BOOLEAN : DecideReturn(l, accept)
         \/ \E p \in Products : Propagate(p) \/ RequestDies(p)
  PROVE  TypeOK'
<1>1. ASSUME NEW orders \in SUBSET registered, ConfirmInboundOrders(orders) PROVE TypeOK'
  <2>1. \A l \in Lines : Confirmation(l) \in Reservations /\ res[l] \in Reservations
    BY ConfirmationRow DEF TypeOK
  <2>2. res' \in [Lines -> Reservations]
    BY <1>1, <2>1 DEF ConfirmInboundOrders
  <2> QED
    BY <1>1, <2>2 DEF ConfirmInboundOrders, TypeOK
<1>2. ASSUME NEW p \in Internal, NEW quantity \in 0 .. Stock, Stocktake(p, quantity) PROVE TypeOK'
  <2>1. p \in Products /\ quantity \in Nat /\ pool[p].onHand \in Nat /\ counted[p] \in [sum : Int, times : Nat]
    BY DEF Internal, ReservationsAssumption, TypeOK, Pools
  <2>2. pool' \in [Products -> Pools]
    BY <1>2, <2>1, PoolRow DEF Stocktake, TypeOK
  <2>3. counted' \in [Products -> [sum : Int, times : Nat]]
    <3>0. counted[p].sum + quantity - pool[p].onHand \in Int /\ counted[p].times + 1 \in Nat
      BY <2>1
    <3>1. [counted[p] EXCEPT !.sum = @ + quantity - pool[p].onHand, !.times = @ + 1] \in [sum : Int, times : Nat]
      BY <2>1, <3>0
    <3>2. counted' = [counted EXCEPT ![p] = [counted[p] EXCEPT !.sum = @ + quantity - pool[p].onHand, !.times = @ + 1]]
      BY <1>2 DEF Stocktake
    <3>3. counted \in [Products -> [sum : Int, times : Nat]]
      BY DEF TypeOK
    <3> QED
      BY <2>1, <3>1, <3>2, <3>3
  <2> QED
    BY <1>2, <2>1, <2>2, <2>3 DEF Stocktake, TypeOK
<1>3. ASSUME NEW l \in Lines, NEW accept \in BOOLEAN, DecideReturn(l, accept) PROVE TypeOK'
  <2>1. ProductOf[l] \in Products /\ pool[ProductOf[l]].onHand \in Nat
    BY DEF ReservationsAssumption, TypeOK, Pools
  <2>2. pool[ProductOf[l]].onHand + 1 \in Nat
    BY <2>1
  <2>3. [pool[ProductOf[l]] EXCEPT !.onHand = @ + 1] \in Pools
    BY <2>1, <2>2, PoolRow
  <2>4. pool' = pool \/ pool' = [pool EXCEPT ![ProductOf[l]] = [pool[ProductOf[l]] EXCEPT !.onHand = @ + 1]]
    BY <1>3 DEF DecideReturn
  <2>5. pool' \in [Products -> Pools]
    BY <2>1, <2>3, <2>4 DEF TypeOK
  <2> QED
    BY <1>3, <2>1, <2>5 DEF DecideReturn, TypeOK
<1>4. ASSUME NEW p \in Products, Propagate(p) \/ RequestDies(p) PROVE TypeOK'
  BY <1>4, RecalculatedTyped DEF Propagate, RequestDies, TypeOK
<1> QED
  BY <1>1, <1>2, <1>3, <1>4

LEMMA TypeReader ==
  ASSUME ReservationsAssumption, TypeOK, NEW r \in Readers,
         ReadPage(r) \/ Look(r) \/ Record(r) \/ Recalculate(r) \/ Crash(r)
  PROVE  TypeOK'
<1>1. reader[r] \in Reading /\ reader \in [Readers -> Reading]
  BY DEF TypeOK
<1>2. CASE ReadPage(r)
  <2>1. PICK S \in SUBSET Lines :
          reader' = [reader EXCEPT ![r] = [IdleReader EXCEPT !.at = "READ", !.page = [l \in S |-> order[l]]]]
    BY <1>2 DEF ReadPage, TypeOK
  <2>2. [l \in S |-> order[l]] \in [S -> OrderStatuses]
    BY DEF TypeOK
  <2>3. [l \in S |-> order[l]] \in Partial(OrderStatuses)
    BY <2>2 DEF Partial
  <2>4. reader' \in [Readers -> Reading]
    BY <1>1, <2>1, <2>3, IdleTyped DEF Reading, Phases
  <2> QED
    BY <1>2, <2>4 DEF ReadPage, TypeOK
<1>3. CASE Look(r)
  <2>1. DOMAIN reader[r].page \subseteq Lines
    BY <1>1 DEF Reading, Partial
  <2>2. [l \in DOMAIN reader[r].page |-> res[l].status] \in [DOMAIN reader[r].page -> Statuses]
    BY <2>1 DEF TypeOK, Reservations
  <2>3. [l \in DOMAIN reader[r].page |-> res[l].status] \in Partial(Statuses)
    BY <2>1, <2>2 DEF Partial
  <2>4. reader' \in [Readers -> Reading]
    BY <1>1, <1>3, <2>3 DEF Look, Reading, Phases
  <2> QED
    BY <1>3, <2>4 DEF Look, TypeOK
<1>4. CASE Record(r)
  <2>1. reader' \in [Readers -> Reading]
    <3>1. [reader[r] EXCEPT !.at = "RECORDED"] \in Reading
      BY <1>1 DEF Reading, Phases
    <3> QED
      BY <1>1, <1>4, <3>1, IdleTyped DEF Record
  <2>2. CASE ~ Accepted(r)
    BY <1>4, <2>1, <2>2 DEF Record, TypeOK
  <2>3. CASE Accepted(r)
    <3>1. Rows(r) \in [Lines -> Reservations]
      BY <2>3, OutcomeRow, DoesToTyped DEF Rows, Accepted
    <3>2. \A p \in Products : pool[p].onHand - Cardinality(Leaving(p, Rows(r))) \in Nat
      <4>1. TAKE p \in Products
      <4>2. Cardinality(Leaving(p, Rows(r))) \in Nat
        BY LinesFinite DEF Leaving, LinesOf
      <4>3. Cardinality(Leaving(p, Rows(r))) <= pool[p].onHand /\ pool[p].onHand \in Nat
        BY <2>3, PoolRow DEF Accepted
      <4> QED
        BY <4>2, <4>3
    <3>3. pool' \in [Products -> Pools]
      <4>1. \A p \in Products : [pool[p] EXCEPT !.onHand = @ - Cardinality(Leaving(p, Rows(r)))] \in Pools
        BY <3>2, PoolRow
      <4> QED
        BY <1>4, <2>3, <4>1 DEF Record
    <3>4. returned' \in [Lines -> {"NONE", "PENDING", "ACCEPTED", "DISMISSED", "INFO_ONLY"}]
      BY <1>4, <2>3 DEF Record, Return, TypeOK
    <3>5. res' = Rows(r)
      BY <1>4, <2>3 DEF Record
    <3> QED
      BY <1>4, <2>1, <3>1, <3>3, <3>4, <3>5 DEF Record, TypeOK
  <2> QED
    BY <2>2, <2>3
<1>5. CASE Recalculate(r)
  <2>1. reader' \in [Readers -> Reading]
    BY <1>1, <1>5, IdleTyped DEF Recalculate
  <2> QED
    BY <1>5, <2>1, RecalculatedTyped DEF Recalculate, TypeOK
<1>6. CASE Crash(r)
  <2>1. reader' \in [Readers -> Reading]
    BY <1>1, <1>6, IdleTyped DEF Crash
  <2> QED
    BY <1>6, <2>1 DEF Crash, TypeOK
<1> QED
  BY <1>2, <1>3, <1>4, <1>5, <1>6

LEMMA TypeTime ==
  ASSUME ReservationsAssumption, TypeOK, ReleaseExpired \/ Tick
  PROVE  TypeOK'
<1>1. CASE ReleaseExpired
  <2>1. ASSUME NEW l \in Lines
        PROVE  [res[l] EXCEPT !.status = "RELEASED"] \in Reservations /\ res[l] \in Reservations
    <3>1. res[l] \in Reservations
      BY DEF TypeOK
    <3> QED
      BY <3>1 DEF Reservations, Statuses
  <2>2. res' \in [Lines -> Reservations]
    BY <1>1, <2>1 DEF ReleaseExpired
  <2> QED
    BY <1>1, <2>2 DEF ReleaseExpired, TypeOK
<1>2. CASE Tick
  BY <1>2 DEF Tick, TypeOK, Instants, ReservationsAssumption
<1> QED
  BY <1>1, <1>2

LEMMA TypeStep ==
  ASSUME ReservationsAssumption, TypeOK, [Next]_vars
  PROVE  TypeOK'
<1>1. CASE UNCHANGED vars
  BY <1>1 DEF vars, TypeOK
<1>2. CASE Next
  BY <1>2, TypeChannel, TypeFigures, TypeRequests, TypeReader, TypeTime DEF Next
<1> QED
  BY <1>1, <1>2

(* Every variable keeps to its range; no count of a pool and no published  *)
(* quantity is ever below zero.                                            *)
THEOREM TypeCorrect == Spec => []TypeOK
<1>1. Init => TypeOK
  BY ReservationsAssumption, TypeInit
<1>2. TypeOK /\ [Next]_vars => TypeOK'
  BY ReservationsAssumption, TypeStep
<1> QED
  BY <1>1, <1>2, PTL DEF Spec

-----------------------------------------------------------------------------
(* What is sold is held back *)

Sold(l) == order[l] \in {"OPEN", "SHIPPED"}
Known == {"CONFIRMED_BY_SOURCE", "CONSUMED"}

(***************************************************************************)
(* Nothing has a time of its own that is later than the clock; a line that *)
(* was not placed has left no trace; and a line the warehouse has          *)
(* confirmed, and that is still sold, is registered there and missing in   *)
(* every count that is newer than the confirmation, delivered or not.      *)
(***************************************************************************)
ClockInv ==
    /\ \A l \in Lines : res[l].confirmedAt <= now
    /\ \A f \in figures : f.asOf <= now
    /\ \A p \in Products : pool[p].asOf <= now

PlacedInv ==
    \A l \in Lines : order[l] = "NONE" =>
        /\ res[l].status = "NONE"
        /\ l \notin unread
        /\ \A r \in Readers : l \notin DOMAIN reader[r].page

KnownInv ==
    \A l \in Lines :
        ProductOf[l] \in Inbound /\ Sold(l) /\ res[l].status \in Known =>
            /\ l \in registered
            /\ \A f \in figures :
                  f.product = ProductOf[l] /\ f.asOf > res[l].confirmedAt => l \in f.without
            /\ pool[ProductOf[l]].asOf > res[l].confirmedAt => l \in pool[ProductOf[l]].without

HeldInv == TypeOK /\ ClockInv /\ PlacedInv /\ KnownInv

LEMMA HeldIsHeld ==
  ASSUME HeldInv
  PROVE  SoldIsHeld
<1> SUFFICES ASSUME NEW l \in Lines, ProductOf[l] \in Inbound, Sold(l),
                    res[l].status \in Open \union {"CONSUMED"}
             PROVE  Reserved(l) \/ l \in pool[ProductOf[l]].without
  BY DEF SoldIsHeld, Sold
<1>1. CASE res[l].status \in Open
  BY <1>1 DEF Reserved
<1>2. CASE res[l].status = "CONSUMED"
  BY <1>2 DEF Reserved, HeldInv, KnownInv, Known
<1> QED
  BY <1>1, <1>2

LEMMA HeldInit ==
  ASSUME ReservationsAssumption, Init
  PROVE  HeldInv
<1>1. DOMAIN IdleReader.page = {}
  BY DEF IdleReader
<1> QED
  BY <1>1, TypeInit DEF Init, HeldInv, ClockInv, PlacedInv, KnownInv, Known, NoReservation

(* A step that leaves the channel and the warehouses alone, confirms       *)
(* nothing and takes over no count.                                        *)
LEMMA HeldFrame ==
  ASSUME HeldInv, TypeOK', UNCHANGED <<now, order, registered, figures>>,
         \A l \in unread' : order[l] # "NONE",
         \A r \in Readers : \A l \in DOMAIN reader'[r].page : order[l] # "NONE",
         \A p \in Products : pool'[p].asOf = pool[p].asOf /\ pool'[p].without = pool[p].without,
         \A l \in Lines :
            /\ res'[l].confirmedAt <= now
            /\ order[l] = "NONE" => res'[l].status = "NONE"
            /\ ProductOf[l] \in Inbound /\ res'[l].status \in Known =>
                  res[l].status \in Known /\ res'[l].confirmedAt = res[l].confirmedAt
  PROVE  HeldInv'
<1>1. ClockInv'
  BY DEF HeldInv, ClockInv
<1>2. PlacedInv'
  BY DEF HeldInv, PlacedInv
<1>3. KnownInv'
  BY ReservationsAssumption DEF HeldInv, KnownInv, Sold, ReservationsAssumption
<1> QED
  BY <1>1, <1>2, <1>3 DEF HeldInv

LEMMA HeldChannel ==
  ASSUME HeldInv, TypeOK', NEW l \in Lines, Place(l) \/ Progress(l) \/ Register(l)
  PROVE  HeldInv'
<1> USE DEF HeldInv
<1>1. ClockInv'
  BY DEF ClockInv, Place, Progress, Register
<1>2. CASE Place(l)
  <2>1. PlacedInv'
    BY <1>2 DEF Place, PlacedInv, TypeOK
  <2>2. KnownInv'
    BY <1>2 DEF Place, PlacedInv, KnownInv, Known, Sold, TypeOK
  <2> QED
    BY <1>1, <2>1, <2>2
<1>3. CASE Progress(l)
  <2>1. /\ order[l] # "NONE" /\ order'[l] # "NONE"
        /\ order'[l] = "SHIPPED" => order[l] = "OPEN"
        /\ order'[l] # "OPEN"
        /\ \A k \in Lines \ {l} : order'[k] = order[k]
    BY <1>3 DEF Progress, Follows, TypeOK
  <2>2. PlacedInv'
    BY <1>3, <2>1 DEF Progress, PlacedInv
  <2>3. \A k \in Lines : Sold(k)' => Sold(k)
    BY <2>1 DEF Sold
  <2>4. KnownInv'
    BY <1>3, <2>3 DEF Progress, KnownInv
  <2> QED
    BY <1>1, <2>2, <2>4
<1>4. CASE Register(l)
  <2>1. PlacedInv'
    BY <1>4 DEF Register, PlacedInv
  <2>2. \A k \in Lines : Sold(k) /\ k \in registered => k \in registered'
    BY <1>4 DEF Register, Sold
  <2>3. KnownInv'
    BY <1>4, <2>2 DEF Register, KnownInv, Sold
  <2> QED
    BY <1>1, <2>1, <2>3
<1> QED
  BY <1>2, <1>3, <1>4

LEMMA HeldFigures ==
  ASSUME HeldInv, TypeOK',
         \/ \E p \in Inbound : SendFigure(p)
         \/ \E f \in figures : InboundStock(f)
  PROVE  HeldInv'
<1> USE DEF HeldInv
<1>1. ASSUME NEW p \in Inbound, SendFigure(p) PROVE HeldInv'
  <2> DEFINE g == [product |-> p, asOf |-> now, without |-> registered \intersect LinesOf(p)]
  <2>1. figures' = figures \union {g}
    BY <1>1 DEF SendFigure
  <2>2. now \in Int
    BY DEF TypeOK, Instants
  <2>3. ClockInv'
    BY <1>1, <2>1, <2>2 DEF SendFigure, ClockInv
  <2>4. PlacedInv'
    BY <1>1 DEF SendFigure, PlacedInv
  <2>5. KnownInv'
    BY <1>1, <2>1 DEF SendFigure, KnownInv, Sold, LinesOf
  <2> QED
    BY <2>3, <2>4, <2>5
<1>2. ASSUME NEW f \in figures, InboundStock(f) PROVE HeldInv'
  <2>1. f \in Figures /\ f.product \in Products
    BY ReservationsAssumption DEF TypeOK, Figures, ReservationsAssumption
  <2>2. \A p \in Products :
          \/ pool'[p].asOf = pool[p].asOf /\ pool'[p].without = pool[p].without
          \/ p = f.product /\ pool'[p].asOf = f.asOf /\ pool'[p].without = f.without
    BY <1>2, <2>1 DEF InboundStock, TypeOK
  <2>3. ClockInv'
    <3>1. UNCHANGED <<now, res>> /\ figures' \subseteq figures
      BY <1>2 DEF InboundStock
    <3>2. f.asOf <= now
      BY <1>2 DEF ClockInv
    <3> QED BY <2>2, <3>1, <3>2 DEF ClockInv
  <2>4. PlacedInv'
    BY <1>2 DEF InboundStock, PlacedInv
  <2>5. KnownInv'
    BY <1>2, <2>2, ReservationsAssumption DEF InboundStock, KnownInv, Sold, ReservationsAssumption
  <2> QED
    BY <2>3, <2>4, <2>5
<1> QED
  BY <1>1, <1>2

LEMMA HeldConfirm ==
  ASSUME HeldInv, TypeOK', NEW orders \in SUBSET registered, ConfirmInboundOrders(orders)
  PROVE  HeldInv'
<1> USE DEF HeldInv
<1>1. orders \subseteq Lines /\ now \in Int
  BY DEF TypeOK, Instants
<1>2. \A l \in Lines :
        \/ res'[l] = res[l]
        \/ l \in orders /\ res'[l] = Confirmation(l)
  BY DEF ConfirmInboundOrders
<1>3. \A l \in Lines :
        /\ res'[l].confirmedAt \in {now, res[l].confirmedAt}
        /\ res'[l].status \in Known =>
              \/ l \in registered /\ res'[l].confirmedAt = now
              \/ res[l].status \in Known /\ res'[l].confirmedAt = res[l].confirmedAt
        /\ res[l].status = "NONE" => res'[l].status = "NONE"
  BY <1>2, ConfirmationRow, ReservationsAssumption DEF Known, Confirmation
<1>4. ClockInv'
  BY <1>1, <1>3 DEF ConfirmInboundOrders, ClockInv
<1>5. PlacedInv'
  BY <1>3 DEF ConfirmInboundOrders, PlacedInv
<1>6. KnownInv'
  <2> SUFFICES ASSUME NEW l \in Lines, ProductOf[l] \in Inbound, Sold(l), res'[l].status \in Known
               PROVE  /\ l \in registered
                      /\ \A f \in figures :
                            f.product = ProductOf[l] /\ f.asOf > res'[l].confirmedAt => l \in f.without
                      /\ pool[ProductOf[l]].asOf > res'[l].confirmedAt => l \in pool[ProductOf[l]].without
    BY DEF KnownInv, Sold, ConfirmInboundOrders
  <2>1. CASE res[l].status \in Known /\ res'[l].confirmedAt = res[l].confirmedAt
    BY <2>1 DEF KnownInv
  <2>2. CASE l \in registered /\ res'[l].confirmedAt = now
    <3>1. ProductOf[l] \in Products
      BY ReservationsAssumption DEF ReservationsAssumption
    <3>2. pool[ProductOf[l]].asOf \in Int /\ \A f \in figures : f.asOf \in Int
      BY <3>1 DEF TypeOK, Pools, Figures, Instants
    <3> QED
      BY <1>1, <2>2, <3>1, <3>2 DEF ClockInv
  <2> QED
    BY <1>3, <2>1, <2>2
<1> QED
  BY <1>4, <1>5, <1>6

LEMMA HeldPeople ==
  ASSUME HeldInv, TypeOK',
         \/ \E p \in Internal, quantity \in 0 .. Stock : Stocktake(p, quantity)
         \/ \E l \in Lines, accept \in BOOLEAN : DecideReturn(l, accept)
         \/ \E p \in Products : Propagate(p) \/ RequestDies(p)
         \/ UNCHANGED vars
  PROVE  HeldInv'
<1> USE DEF HeldInv
<1>1. \A p \in Products : pool'[p].asOf = pool[p].asOf /\ pool'[p].without = pool[p].without
  <2>1. \/ pool' = pool
        \/ \E p \in Products : \E q : pool' = [pool EXCEPT ![p] = [pool[p] EXCEPT !.onHand = q]]
    BY ReservationsAssumption
       DEF Stocktake, DecideReturn, Propagate, RequestDies, vars, Internal, ReservationsAssumption
  <2>2. pool \in [Products -> Pools]
    BY DEF TypeOK
  <2> QED
    BY <2>1, <2>2 DEF Pools
<1>2. UNCHANGED <<now, order, registered, figures, unread, reader, res>>
  BY DEF Stocktake, DecideReturn, Propagate, RequestDies, vars
<1>3. \A l \in unread' : order[l] # "NONE"
  BY <1>2 DEF PlacedInv, TypeOK
<1>4. \A r \in Readers : \A l \in DOMAIN reader'[r].page : order[l] # "NONE"
  BY <1>2 DEF PlacedInv, TypeOK, Reading, Partial
<1>5. \A l \in Lines :
        /\ res'[l].confirmedAt <= now
        /\ order[l] = "NONE" => res'[l].status = "NONE"
  BY <1>2 DEF ClockInv, PlacedInv
<1> QED
  BY <1>1, <1>2, <1>3, <1>4, <1>5, HeldFrame

LEMMA HeldReader ==
  ASSUME HeldInv, TypeOK', NEW r \in Readers,
         ReadPage(r) \/ Look(r) \/ Record(r) \/ Recalculate(r) \/ Crash(r)
  PROVE  HeldInv'
<1> USE DEF HeldInv
<1>1. /\ reader \in [Readers -> Reading] /\ DOMAIN IdleReader.page = {}
      /\ \A q \in Readers : DOMAIN reader[q].page \subseteq Lines
  BY DEF TypeOK, Reading, Partial, IdleReader
<1>2. \A q \in Readers : \A l \in DOMAIN reader[q].page : order[l] # "NONE"
  BY <1>1 DEF PlacedInv
<1>3. \A l \in unread : order[l] # "NONE"
  BY DEF PlacedInv, TypeOK
<1>4. UNCHANGED <<now, order, registered, figures>> /\ unread' \subseteq unread
  BY DEF ReadPage, Look, Record, Recalculate, Crash
<1>5. \A q \in Readers : \A l \in DOMAIN reader'[q].page : order[l] # "NONE"
  <2>1. CASE ReadPage(r)
    <3>1. PICK more \in SUBSET {l \in Lines \ unread : order[l] # "NONE"} :
            reader' = [reader EXCEPT ![r] = [IdleReader EXCEPT
                         !.at = "READ", !.page = [l \in unread \union more |-> order[l]]]]
      BY <2>1 DEF ReadPage
    <3> DEFINE page == [l \in unread \union more |-> order[l]]
    <3>2. reader'[r].page = page
      <4>1. reader'[r] = [IdleReader EXCEPT !.at = "READ", !.page = page]
        BY <1>1, <3>1
      <4> HIDE DEF page
      <4> QED BY <4>1 DEF IdleReader
    <3>3. \A l \in unread \union more : order[l] # "NONE"
      BY <1>3
    <3>4. \A q \in Readers : q # r => reader'[q] = reader[q]
      BY <1>1, <3>1
    <3>5. DOMAIN page = unread \union more
      OBVIOUS
    <3> HIDE DEF page
    <3>6. \A l \in DOMAIN reader'[r].page : order[l] # "NONE"
      BY <3>2, <3>3, <3>5
    <3> QED
      BY <1>2, <3>4, <3>6
  <2>2. CASE Look(r) \/ Record(r) \/ Recalculate(r) \/ Crash(r)
    <3>1. \A q \in Readers : DOMAIN reader'[q].page \subseteq DOMAIN reader[q].page
      <4>1. CASE Look(r)
        BY <1>1, <4>1 DEF Look, Reading
      <4>2. CASE Record(r)
        BY <1>1, <4>2 DEF Record, Reading
      <4>3. CASE Recalculate(r) \/ Crash(r)
        BY <1>1, <4>3 DEF Recalculate, Crash
      <4> QED BY <2>2, <4>1, <4>2, <4>3
    <3> QED
      BY <1>2, <3>1
  <2> QED
    BY <2>1, <2>2
<1>6. CASE Record(r) /\ Accepted(r)
  <2>1. \A l \in Lines : res'[l] = Outcome(DoesTo(r, l), l)
    BY <1>6 DEF Record, Rows
  <2>2. \A l \in Lines : DoesTo(r, l) \in Doings /\ Allowed(DoesTo(r, l), l)
    BY <1>6, DoesToTyped DEF Accepted
  <2>3. \A l \in Lines : order[l] = "NONE" => DoesTo(r, l) = "NOTHING"
    BY <1>2 DEF DoesTo
  <2>4. 0 <= now /\ \A l \in Lines : res[l].confirmedAt <= now
    BY DEF ClockInv, TypeOK, Instants
  <2>5. \A l \in Lines :
          /\ res'[l].confirmedAt <= now
          /\ order[l] = "NONE" => res'[l].status = "NONE"
          /\ ProductOf[l] \in Inbound /\ res'[l].status \in Known =>
                res[l].status \in Known /\ res'[l].confirmedAt = res[l].confirmedAt
    <3>1. TAKE l \in Lines
    <3>2. /\ res'[l].confirmedAt \in {0, res[l].confirmedAt}
          /\ DoesTo(r, l) = "NOTHING" => res'[l] = res[l]
          /\ ProductOf[l] \in Inbound /\ res'[l].status \in Known =>
                res[l].status \in Known /\ res'[l].confirmedAt = res[l].confirmedAt
      BY <2>1, <2>2, OutcomeRow, ReservationsAssumption DEF Known
    <3> QED
      BY <2>3, <2>4, <3>2 DEF PlacedInv
  <2>6. \A p \in Products : pool'[p].asOf = pool[p].asOf /\ pool'[p].without = pool[p].without
    BY <1>6 DEF Record, TypeOK, Pools
  <2> QED
    BY <1>3, <1>4, <1>5, <2>5, <2>6, HeldFrame
<1>7. CASE ~ (Record(r) /\ Accepted(r))
  <2>1. UNCHANGED <<res, pool>>
    BY <1>7 DEF ReadPage, Look, Record, Recalculate, Crash
  <2>2. \A l \in Lines :
        /\ res'[l].confirmedAt <= now
        /\ order[l] = "NONE" => res'[l].status = "NONE"
    BY <2>1 DEF ClockInv, PlacedInv
  <2> QED
    BY <1>3, <1>4, <1>5, <2>1, <2>2, HeldFrame
<1> QED
  BY <1>6, <1>7

LEMMA HeldTime ==
  ASSUME HeldInv, TypeOK', ReleaseExpired \/ Tick
  PROVE  HeldInv'
<1> USE DEF HeldInv
<1>1. CASE ReleaseExpired
  <2>1. UNCHANGED <<now, order, registered, figures, unread, reader, pool>>
    BY <1>1 DEF ReleaseExpired
  <2>2. \A l \in Lines :
        /\ res'[l].confirmedAt = res[l].confirmedAt
        /\ res'[l].status = res[l].status \/ (res[l].status = "CREATED" /\ res'[l].status = "RELEASED")
    BY <1>1 DEF ReleaseExpired, Expired, TypeOK, Reservations
  <2>3. \A l \in Lines :
        /\ res'[l].confirmedAt <= now
        /\ order[l] = "NONE" => res'[l].status = "NONE"
        /\ ProductOf[l] \in Inbound /\ res'[l].status \in Known =>
              res[l].status \in Known /\ res'[l].confirmedAt = res[l].confirmedAt
    BY <2>2 DEF ClockInv, PlacedInv, Known
  <2>4. \A l \in unread' : order[l] # "NONE"
    BY <2>1 DEF PlacedInv, TypeOK
  <2>5. \A r \in Readers : \A l \in DOMAIN reader'[r].page : order[l] # "NONE"
    BY <2>1 DEF PlacedInv, TypeOK, Reading, Partial
  <2> QED
    BY <2>1, <2>3, <2>4, <2>5, HeldFrame
<1>2. CASE Tick
  <2>1. now \in Int /\ now' = now + 1
    BY <1>2 DEF Tick, TypeOK, Instants
  <2>2. /\ \A l \in Lines : res[l].confirmedAt \in Int
        /\ \A f \in figures : f.asOf \in Int
        /\ \A p \in Products : pool[p].asOf \in Int
    BY DEF TypeOK, Reservations, Figures, Pools, Instants
  <2>3. ClockInv'
    BY <1>2, <2>1, <2>2 DEF Tick, ClockInv
  <2>4. PlacedInv' /\ KnownInv'
    BY <1>2 DEF Tick, PlacedInv, KnownInv, Sold
  <2> QED
    BY <2>3, <2>4
<1> QED
  BY <1>1, <1>2

(* A piece sold from the pool of a warehouse is held back until the        *)
(* warehouse's own count is without it: RESERVED_SQL, the instants of      *)
(* confirm_reservations_by_source and the guard of stock_pool together.    *)
THEOREM SoldStaysHeld == Spec => []SoldIsHeld
<1>1. Init => HeldInv
  BY ReservationsAssumption, HeldInit
<1>2. HeldInv /\ [Next]_vars => HeldInv'
  <2> SUFFICES ASSUME HeldInv, [Next]_vars PROVE HeldInv'
    OBVIOUS
  <2>1. TypeOK'
    BY ReservationsAssumption, TypeStep DEF HeldInv
  <2> QED
    BY <2>1, HeldChannel, HeldFigures, HeldConfirm, HeldPeople, HeldReader, HeldTime DEF Next
<1>3. HeldInv => SoldIsHeld
  BY HeldIsHeld
<1> QED
  BY <1>1, <1>2, <1>3, PTL DEF Spec

-----------------------------------------------------------------------------
(* The books of a pool of our own *)

Consumed(p) == {l \in LinesOf(p) : res[l].status = "CONSUMED"}
TakenBack(p) == {l \in LinesOf(p) : returned[l] = "ACCEPTED"}

(* Only lines of a warehouse are registered there.                         *)
BookInv ==
    /\ TypeOK
    /\ \A l \in registered : ProductOf[l] \in Inbound
    /\ BooksBalance

Balanced(p) ==
    pool[p].onHand + Cardinality(Consumed(p)) = counted[p].sum + Cardinality(TakenBack(p))

LEMMA BalancedIsBooks == BooksBalance <=> \A p \in Internal : Balanced(p)
  BY DEF BooksBalance, Balanced, Consumed, TakenBack

LEMMA BookInit ==
  ASSUME ReservationsAssumption, Init
  PROVE  BookInv
<1>1. ASSUME NEW p \in Internal PROVE Balanced(p)
  <2>1. Consumed(p) = {} /\ TakenBack(p) = {}
    BY <1>1 DEF Init, Consumed, TakenBack, LinesOf, NoReservation
  <2>2. pool[p].onHand = Stock /\ counted[p].sum = Stock /\ Stock \in Nat
    BY <1>1 DEF Init, Internal, ReservationsAssumption
  <2> QED
    BY <2>1, <2>2, FS_EmptySet DEF Balanced
<1> QED
  BY <1>1, BalancedIsBooks, TypeInit DEF Init, BookInv

(* A step that moves nothing: the reservations that become CONSUMED, if    *)
(* any, are of warehouses.                                                 *)
LEMMA BookFrame ==
  ASSUME BookInv, NEW p \in Internal,
         pool'[p].onHand = pool[p].onHand, counted'[p] = counted[p],
         \A l \in LinesOf(p) : /\ res'[l].status = "CONSUMED" <=> res[l].status = "CONSUMED"
                               /\ returned'[l] = "ACCEPTED" <=> returned[l] = "ACCEPTED"
  PROVE  Balanced(p)'
<1>1. Consumed(p)' = Consumed(p) /\ TakenBack(p)' = TakenBack(p)
  BY DEF Consumed, TakenBack, LinesOf
<1> QED
  BY <1>1, BalancedIsBooks DEF Balanced, BookInv

LEMMA BookQuiet ==
  ASSUME BookInv, TypeOK', NEW p \in Internal,
         \/ \E l \in Lines : Place(l) \/ Progress(l) \/ Register(l)
         \/ \E q \in Inbound : SendFigure(q)
         \/ \E q \in Products : Propagate(q) \/ RequestDies(q)
         \/ \E r \in Readers : ReadPage(r) \/ Look(r) \/ Recalculate(r) \/ Crash(r)
         \/ \E r \in Readers : Record(r) /\ ~ Accepted(r)
         \/ Tick
         \/ UNCHANGED vars
  PROVE  Balanced(p)'
<1>1. UNCHANGED <<pool, counted, res, returned>>
  BY DEF Place, Progress, Register, SendFigure, Propagate, RequestDies, ReadPage, Look, Recalculate,
         Crash, Record, Tick, vars
<1> QED
  BY <1>1, BookFrame

LEMMA BookInbound ==
  ASSUME ReservationsAssumption, BookInv, TypeOK', NEW p \in Internal,
         \/ \E f \in figures : InboundStock(f)
         \/ \E orders \in SUBSET registered : ConfirmInboundOrders(orders)
         \/ ReleaseExpired
  PROVE  Balanced(p)'
<1>1. \A l \in LinesOf(p) : l \in Lines /\ l \notin registered
  BY DEF LinesOf, BookInv, Internal
<1>2. CASE \E f \in figures : InboundStock(f)
  <2>1. PICK f \in figures : InboundStock(f)
    BY <1>2
  <2>2. f.product # p /\ p \in Products
    BY DEF BookInv, TypeOK, Figures, Internal
  <2>3. pool'[p] = pool[p] /\ UNCHANGED <<counted, res, returned>>
    BY <2>1, <2>2 DEF InboundStock, BookInv, TypeOK
  <2> QED
    BY <2>3, BookFrame
<1>3. CASE \E orders \in SUBSET registered : ConfirmInboundOrders(orders)
  <2>1. \A l \in LinesOf(p) : res'[l] = res[l]
    BY <1>1, <1>3 DEF ConfirmInboundOrders
  <2>2. UNCHANGED <<pool, counted, returned>>
    BY <1>3 DEF ConfirmInboundOrders
  <2> QED
    BY <2>1, <2>2, BookFrame
<1>4. CASE ReleaseExpired
  <2>1. \A l \in LinesOf(p) : \/ res'[l] = res[l]
                              \/ res[l].status = "CREATED" /\ res'[l].status = "RELEASED"
    BY <1>1, <1>4 DEF ReleaseExpired, Expired, BookInv, TypeOK, Reservations
  <2>2. UNCHANGED <<pool, counted, returned>>
    BY <1>4 DEF ReleaseExpired
  <2> QED
    BY <2>1, <2>2, BookFrame
<1> QED
  BY <1>2, <1>3, <1>4

LEMMA BookStocktake ==
  ASSUME ReservationsAssumption, BookInv, NEW p \in Internal,
         NEW q \in Internal, NEW quantity \in 0 .. Stock, Stocktake(q, quantity)
  PROVE  Balanced(p)'
<1>1. p \in Products /\ q \in Products /\ UNCHANGED <<res, returned>>
  BY DEF Stocktake, Internal
<1>2. pool \in [Products -> Pools] /\ counted \in [Products -> [sum : Int, times : Nat]]
  BY DEF BookInv, TypeOK
<1>3. CASE p # q
  <2>1. pool'[p] = pool[p] /\ counted'[p] = counted[p]
    BY <1>1, <1>2, <1>3 DEF Stocktake
  <2> QED
    BY <1>1, <2>1, BookFrame
<1>4. CASE p = q
  <2>1. pool'[p].onHand = quantity
    BY <1>1, <1>2, <1>4 DEF Stocktake, Pools
  <2>2. counted'[p].sum = counted[p].sum + quantity - pool[p].onHand
    BY <1>1, <1>2, <1>4 DEF Stocktake
  <2>3. Consumed(p)' = Consumed(p) /\ TakenBack(p)' = TakenBack(p)
    BY <1>1 DEF Consumed, TakenBack, LinesOf
  <2>4. Cardinality(Consumed(p)) \in Nat /\ Cardinality(TakenBack(p)) \in Nat
    BY LinesFinite DEF Consumed, TakenBack, LinesOf
  <2>5. pool[p].onHand \in Int /\ counted[p].sum \in Int /\ quantity \in Int
    BY <1>1, <1>2, ReservationsAssumption DEF Pools, ReservationsAssumption
  <2>6. pool[p].onHand + Cardinality(Consumed(p)) = counted[p].sum + Cardinality(TakenBack(p))
    BY BalancedIsBooks DEF BookInv, Balanced
  <2>7. quantity + Cardinality(Consumed(p))
          = counted[p].sum + quantity - pool[p].onHand + Cardinality(TakenBack(p))
    BY <2>4, <2>5, <2>6
  <2> QED
    BY <2>1, <2>2, <2>3, <2>7 DEF Balanced
<1> QED
  BY <1>3, <1>4

LEMMA BookReturn ==
  ASSUME ReservationsAssumption, BookInv, NEW p \in Internal,
         NEW l \in Lines, NEW accept \in BOOLEAN, DecideReturn(l, accept)
  PROVE  Balanced(p)'
<1>1. p \in Products /\ ProductOf[l] \in Products /\ UNCHANGED <<res, counted>>
  BY DEF DecideReturn, Internal, ReservationsAssumption
<1>2. pool \in [Products -> Pools] /\ returned[l] = "PENDING"
  BY DEF BookInv, TypeOK, DecideReturn
<1>3. \A k \in Lines : /\ k # l => returned'[k] = returned[k]
                       /\ k = l => returned'[k] = IF accept THEN "ACCEPTED" ELSE "DISMISSED"
  BY DEF DecideReturn, BookInv, TypeOK
<1>4. CASE ~ accept \/ ProductOf[l] # p
  <2>1. pool'[p] = pool[p]
    BY <1>1, <1>2, <1>4 DEF DecideReturn
  <2>2. \A k \in LinesOf(p) : returned'[k] = "ACCEPTED" <=> returned[k] = "ACCEPTED"
    BY <1>2, <1>3, <1>4 DEF LinesOf
  <2> QED
    BY <1>1, <2>1, <2>2, BookFrame
<1>5. CASE accept /\ ProductOf[l] = p
  <2>1. pool'[p].onHand = pool[p].onHand + 1
    BY <1>1, <1>2, <1>5 DEF DecideReturn, Pools
  <2>2. Consumed(p)' = Consumed(p)
    BY <1>1 DEF Consumed, LinesOf
  <2>3. TakenBack(p)' = TakenBack(p) \union {l} /\ l \notin TakenBack(p)
    BY <1>2, <1>3, <1>5 DEF TakenBack, LinesOf
  <2>4. IsFiniteSet(TakenBack(p)) /\ Cardinality(TakenBack(p)) \in Nat /\ Cardinality(Consumed(p)) \in Nat
    BY LinesFinite DEF Consumed, TakenBack, LinesOf
  <2>5. Cardinality(TakenBack(p)') = Cardinality(TakenBack(p)) + 1
    BY <2>3, <2>4, FS_AddElement
  <2>6. pool[p].onHand \in Int /\ counted[p].sum \in Int
    BY <1>1, <1>2 DEF Pools, BookInv, TypeOK
  <2>7. pool[p].onHand + Cardinality(Consumed(p)) = counted[p].sum + Cardinality(TakenBack(p))
    BY BalancedIsBooks DEF BookInv, Balanced
  <2> QED
    BY <1>1, <2>1, <2>2, <2>4, <2>5, <2>6, <2>7 DEF Balanced
<1> QED
  BY <1>4, <1>5

LEMMA BookRecord ==
  ASSUME ReservationsAssumption, BookInv, NEW p \in Internal, NEW r \in Readers, Record(r), Accepted(r)
  PROVE  Balanced(p)'
<1> DEFINE L == Leaving(p, Rows(r))
<1>1. p \in Products /\ counted' = counted /\ res' = Rows(r) /\ pool \in [Products -> Pools]
  BY DEF Record, Internal, BookInv, TypeOK
<1>2. \A l \in Lines : /\ res'[l] = Outcome(DoesTo(r, l), l)
                       /\ DoesTo(r, l) \in Doings /\ Allowed(DoesTo(r, l), l)
  BY <1>1, DoesToTyped DEF Rows, Accepted
<1>3. \A l \in Lines : res[l].status = "CONSUMED" => res'[l].status = "CONSUMED"
  BY <1>2, OutcomeRow DEF BookInv
<1>4. Consumed(p)' = Consumed(p) \union L /\ Consumed(p) \intersect L = {}
  BY <1>1, <1>3 DEF Consumed, LinesOf, Leaving
<1>5. TakenBack(p)' = TakenBack(p)
  <2>1. \A l \in Lines : returned'[l] = "ACCEPTED" <=> returned[l] = "ACCEPTED"
    BY DEF Record, Return
  <2> QED
    BY <2>1 DEF TakenBack, LinesOf
<1>6. /\ IsFiniteSet(Consumed(p)) /\ Cardinality(Consumed(p)) \in Nat
      /\ IsFiniteSet(L) /\ Cardinality(L) \in Nat /\ Cardinality(TakenBack(p)) \in Nat
  BY LinesFinite DEF Consumed, TakenBack, LinesOf, Leaving
<1>7. Cardinality(Consumed(p)') = Cardinality(Consumed(p)) + Cardinality(L)
  <2>1. Cardinality(Consumed(p) \union L)
          = Cardinality(Consumed(p)) + Cardinality(L) - Cardinality(Consumed(p) \intersect L)
    BY <1>6, FS_Union
  <2>2. Cardinality(Consumed(p) \intersect L) = 0
    BY <1>4, FS_EmptySet
  <2> QED
    BY <1>4, <1>6, <2>1, <2>2
<1>8. pool'[p].onHand = pool[p].onHand - Cardinality(L)
  BY <1>1 DEF Record, Pools
<1>9. pool[p].onHand \in Int /\ counted[p].sum \in Int
  BY <1>1 DEF Pools, BookInv, TypeOK
<1>10. pool[p].onHand + Cardinality(Consumed(p)) = counted[p].sum + Cardinality(TakenBack(p))
  BY BalancedIsBooks DEF BookInv, Balanced
<1> HIDE DEF L
<1> QED
  BY <1>1, <1>5, <1>6, <1>7, <1>8, <1>9, <1>10 DEF Balanced

(* The count of a pool of our own is its journal, whatever readers overlap *)
(* and whichever transactions fail: no line leaves it twice, and no return *)
(* enters it twice.                                                        *)
THEOREM BooksAlwaysBalance == Spec => []BooksBalance
<1>1. Init => BookInv
  BY ReservationsAssumption, BookInit
<1>2. BookInv /\ [Next]_vars => BookInv'
  <2> SUFFICES ASSUME BookInv, [Next]_vars PROVE BookInv'
    OBVIOUS
  <2>1. TypeOK'
    BY ReservationsAssumption, TypeStep DEF BookInv
  <2>2. \A l \in registered' : ProductOf[l] \in Inbound
    <3>1. registered' = registered \/ \E l \in Lines : Register(l)
      BY DEF Next, vars, Place, Progress, SendFigure, InboundStock, ConfirmInboundOrders, Stocktake,
             DecideReturn, Propagate, RequestDies, ReadPage, Look, Record, Recalculate, Crash,
             ReleaseExpired, Tick
    <3> QED
      BY <3>1 DEF BookInv, Register
  <2>3. ASSUME NEW p \in Internal PROVE Balanced(p)'
    BY <2>1, ReservationsAssumption, BookQuiet, BookInbound, BookStocktake, BookReturn, BookRecord DEF Next
  <2> QED
    BY <2>1, <2>2, <2>3 DEF BookInv, BooksBalance, Balanced, Consumed, TakenBack
<1>3. BookInv => BooksBalance
  BY DEF BookInv
<1> QED
  BY <1>1, <1>2, <1>3, PTL DEF Spec

-----------------------------------------------------------------------------
(* What is published too high is still owed *)

(* One order job at a time: no other one reads a page meanwhile.           *)
OneReader == \A r, s \in Readers : r = s

Closed == {"CANCELLED", "RETURNED"}

(* A line that the next window does not contain has its reservation, or    *)
(* needs none; so has every line of a page that the window does not        *)
(* contain, and every line of a page that was recorded.                    *)
ReadInv ==
    /\ \A l \in Lines : l \in unread \/ res[l].status # "NONE" \/ order[l] \in Closed \union {"NONE"}
    /\ \A r \in Readers : \A l \in DOMAIN reader[r].page :
         /\ reader[r].at \in {"READ", "SEEN"} =>
              l \in unread \/ res[l].status # "NONE" \/ reader[r].page[l] \in Closed
         /\ reader[r].at = "SEEN" => (reader[r].seen[l] # "NONE" => res[l].status # "NONE")
         /\ reader[r].at = "RECORDED" => res[l].status # "NONE" \/ reader[r].page[l] \in Closed

Told(p) == p \in owed \union refused \/ \E l \in LinesOf(p) : l \in unread

(* More is published than is left only while a request still owes the      *)
(* recalculation or the next window brings it: a page that is being worked *)
(* on may be lost.                                                         *)
OwedInv == \A p \in Products : published[p] > Target(p) => Told(p)

(* A reservation is never taken out of the table.                          *)
LEMMA KeptOnce ==
  ASSUME ReservationsAssumption, TypeOK, [Next]_vars, NEW l \in Lines, res[l].status # "NONE"
  PROVE  res'[l].status # "NONE"
<1>0. res \in [Lines -> Reservations] /\ res[l] \in Reservations
  BY DEF TypeOK
<1>1. CASE res' = res
  BY <1>1
<1>2. ASSUME NEW orders \in SUBSET registered, ConfirmInboundOrders(orders) PROVE res'[l].status # "NONE"
  <2>1. res'[l] \in {res[l], Confirmation(l)}
    BY <1>2 DEF ConfirmInboundOrders
  <2>2. Confirmation(l).status # "NONE"
    BY <1>0 DEF Confirmation, Reservations
  <2> QED BY <2>1, <2>2
<1>3. ASSUME NEW r \in Readers, Record(r), Accepted(r) PROVE res'[l].status # "NONE"
  <2>1. res'[l] = Outcome(DoesTo(r, l), l) /\ Allowed(DoesTo(r, l), l) /\ DoesTo(r, l) \in Doings
    BY <1>3, DoesToTyped DEF Record, Rows, Accepted
  <2> DEFINE does == DoesTo(r, l)
  <2> HIDE DEF does
  <2>2. does \notin {"INSERT", "INSERT_SHIPPED"}
    BY <2>1 DEF Allowed, does
  <2>3. Outcome(does, l).status # "NONE"
    BY <1>0, <2>1, <2>2 DEF Outcome, Doings, Reservations, does
  <2> QED BY <2>1, <2>3 DEF does
<1>4. CASE ReleaseExpired
  BY <1>0, <1>4 DEF ReleaseExpired, Reservations
<1>5. res' = res \/ (\E orders \in SUBSET registered : ConfirmInboundOrders(orders))
        \/ (\E r \in Readers : Record(r) /\ Accepted(r)) \/ ReleaseExpired
  BY DEF Next, vars, Place, Progress, Register, SendFigure, InboundStock, Stocktake, DecideReturn,
         Propagate, RequestDies, ReadPage, Look, Record, Recalculate, Crash, Tick
<1> QED
  BY <1>1, <1>2, <1>3, <1>4, <1>5

LEMMA ReadInit == ASSUME Init PROVE ReadInv
  BY DEF Init, ReadInv, IdleReader, NoReservation

(* Steps of others: an order that changes comes into the next window.      *)
LEMMA ReadOthers ==
  ASSUME ReservationsAssumption, TypeOK, [Next]_vars, ReadInv, UNCHANGED reader, unread \subseteq unread',
         \A l \in Lines : order'[l] = order[l] \/ l \in unread'
  PROVE  ReadInv'
<1>1. \A l \in Lines : res[l].status # "NONE" => res'[l].status # "NONE"
  BY KeptOnce
<1>2. \A r \in Readers : DOMAIN reader[r].page \subseteq Lines
  BY DEF TypeOK, Reading, Partial
<1>3. \A l \in Lines : l \in unread' \/ res'[l].status # "NONE" \/ order'[l] \in Closed \union {"NONE"}
  BY <1>1 DEF ReadInv
<1>4. ASSUME NEW r \in Readers, NEW l \in DOMAIN reader[r].page
      PROVE  /\ reader[r].at \in {"READ", "SEEN"} =>
                  l \in unread' \/ res'[l].status # "NONE" \/ reader[r].page[l] \in Closed
             /\ reader[r].at = "SEEN" => (reader[r].seen[l] # "NONE" => res'[l].status # "NONE")
             /\ reader[r].at = "RECORDED" => res'[l].status # "NONE" \/ reader[r].page[l] \in Closed
  BY <1>1, <1>2, <1>4 DEF ReadInv
<1> QED
  BY <1>3, <1>4 DEF ReadInv

(* Steps of the one reader.                                                *)
LEMMA ReadReader ==
  ASSUME ReservationsAssumption, OneReader, TypeOK, [Next]_vars, ReadInv, NEW r \in Readers,
         ReadPage(r) \/ Look(r) \/ Record(r) \/ Recalculate(r) \/ Crash(r)
  PROVE  ReadInv'
<1>1. \A l \in Lines : res[l].status # "NONE" => res'[l].status # "NONE"
  BY KeptOnce
<1>2. /\ reader \in [Readers -> Reading] /\ reader[r] \in Reading
      /\ DOMAIN reader[r].page \subseteq Lines /\ unread \subseteq Lines
      /\ \A s \in Readers : s = r
  BY DEF TypeOK, Reading, Partial, OneReader
<1>3. UNCHANGED order
  BY DEF ReadPage, Look, Record, Recalculate, Crash
<1> DEFINE job == reader'[r]
<1>4. (\A l \in DOMAIN job.page :
         /\ job.at \in {"READ", "SEEN"} => l \in unread' \/ res'[l].status # "NONE" \/ job.page[l] \in Closed
         /\ job.at = "SEEN" => (job.seen[l] # "NONE" => res'[l].status # "NONE")
         /\ job.at = "RECORDED" => res'[l].status # "NONE" \/ job.page[l] \in Closed)
  => (unread \subseteq unread' => ReadInv')
  <2>1. \A l \in Lines : unread \subseteq unread' =>
           l \in unread' \/ res'[l].status # "NONE" \/ order'[l] \in Closed \union {"NONE"}
    BY <1>1, <1>3 DEF ReadInv
  <2> QED BY <1>2, <2>1 DEF ReadInv
<1>5. CASE ReadPage(r)
  <2>1. PICK more \in SUBSET {l \in Lines \ unread : order[l] # "NONE"} :
          reader' = [reader EXCEPT ![r] = [IdleReader EXCEPT
                       !.at = "READ", !.page = [l \in unread \union more |-> order[l]]]]
    BY <1>5 DEF ReadPage
  <2>2. job.at = "READ" /\ job.page = [l \in unread \union more |-> order[l]] /\ UNCHANGED <<unread, res>>
    BY <1>2, <1>5, <2>1 DEF IdleReader, ReadPage
  <2>3. \A l \in more : l \in unread \/ res[l].status # "NONE" \/ order[l] \in Closed
    BY DEF ReadInv
  <2> HIDE DEF job
  <2> QED BY <1>4, <2>2, <2>3
<1>6. CASE Look(r)
  <2>1. /\ reader[r].at = "READ" /\ job.at = "SEEN" /\ job.page = reader[r].page
        /\ job.seen = [l \in DOMAIN reader[r].page |-> res[l].status] /\ UNCHANGED <<unread, res>>
    BY <1>2, <1>6 DEF Look, Reading
  <2> HIDE DEF job
  <2> QED BY <1>4, <2>1 DEF ReadInv
<1>7. CASE Record(r) /\ ~ Accepted(r)
  <2>1. job = IdleReader /\ UNCHANGED <<unread, res>>
    BY <1>2, <1>7 DEF Record
  <2>2. DOMAIN job.page = {}
    BY <2>1 DEF IdleReader
  <2> HIDE DEF job
  <2> QED BY <1>4, <2>1, <2>2
<1>8. CASE Record(r) /\ Accepted(r)
  <2>1. /\ reader[r].at = "SEEN" /\ job.at = "RECORDED" /\ job.page = reader[r].page /\ UNCHANGED unread
        /\ res' = Rows(r)
    BY <1>2, <1>8 DEF Record, Reading
  <2>2. ASSUME NEW l \in DOMAIN reader[r].page PROVE res'[l].status # "NONE" \/ reader[r].page[l] \in Closed
    <3>1. CASE reader[r].seen[l] # "NONE"
      BY <1>1, <1>2, <2>1, <3>1 DEF ReadInv
    <3>2. CASE reader[r].seen[l] = "NONE" /\ reader[r].page[l] \notin Closed
      <4>1. l \in Lines /\ DoesTo(r, l) \in {"INSERT", "INSERT_SHIPPED"}
        BY <1>2, <3>2 DEF DoesTo, Does, Closed
      <4>2. res'[l] = Outcome(DoesTo(r, l), l)
        BY <2>1, <4>1 DEF Rows
      <4>3. \A b \in BOOLEAN : Inserted(ProductOf[l], b).status # "NONE"
        BY DEF Inserted, NoReservation
      <4>4. res'[l].status # "NONE"
        BY <4>1, <4>2, <4>3 DEF Outcome
      <4> QED BY <4>4
    <3> QED BY <3>1, <3>2
  <2> HIDE DEF job
  <2> QED BY <1>4, <2>1, <2>2
<1>9. CASE Recalculate(r)
  <2>1. /\ reader[r].at = "RECORDED" /\ job = IdleReader /\ UNCHANGED res
        /\ unread' = {l \in unread : ~ (l \in DOMAIN reader[r].page /\ reader[r].page[l] = order[l])}
    BY <1>2, <1>9 DEF Recalculate
  <2>2. DOMAIN job.page = {}
    BY <2>1 DEF IdleReader
  <2>3. \A l \in Lines : l \in unread' \/ res'[l].status # "NONE" \/ order'[l] \in Closed \union {"NONE"}
    BY <1>3, <2>1 DEF ReadInv
  <2> HIDE DEF job
  <2>4. \A s \in Readers : DOMAIN reader'[s].page = {}
    BY <1>2, <2>2 DEF job
  <2> QED BY <2>3, <2>4 DEF ReadInv
<1>10. CASE Crash(r)
  <2>1. job = IdleReader /\ UNCHANGED <<unread, res>>
    BY <1>2, <1>10 DEF Crash
  <2>2. DOMAIN job.page = {}
    BY <2>1 DEF IdleReader
  <2> HIDE DEF job
  <2> QED BY <1>4, <2>1, <2>2
<1> QED
  BY <1>5, <1>6, <1>7, <1>8, <1>9, <1>10

LEMMA ReadStep ==
  ASSUME ReservationsAssumption, OneReader, TypeOK, ReadInv, [Next]_vars
  PROVE  ReadInv'
<1>1. CASE \E r \in Readers : ReadPage(r) \/ Look(r) \/ Record(r) \/ Recalculate(r) \/ Crash(r)
  BY <1>1, ReadReader
<1>2. CASE \E l \in Lines : Place(l) \/ Progress(l)
  BY <1>2, ReadOthers DEF Place, Progress, TypeOK
<1>3. CASE UNCHANGED <<reader, unread, order>>
  BY <1>3, ReadOthers
<1> QED
  BY <1>1, <1>2, <1>3 DEF Next, vars, Register, SendFigure, InboundStock, ConfirmInboundOrders, Stocktake,
     DecideReturn, Propagate, RequestDies, ReleaseExpired, Tick

LEMMA LessLess ==
  ASSUME NEW a \in Nat, NEW h \in Nat, NEW b \in Nat, NEW k \in Nat, NEW g \in Nat, k <= a, g <= h - k
  PROVE  Less(Less(a - k, g), b) >= Less(Less(a, h), b)
<1> DEFINE x == Less(a - k, g)
           y == Less(a, h)
<1>1. x \in Nat /\ y \in Nat /\ x >= y
  BY DEF Less
<1> HIDE DEF x, y
<1>2. Less(x, b) >= Less(y, b)
  BY <1>1 DEF Less
<1> QED BY <1>2 DEF x, y

HeldLines(p) == {l \in LinesOf(p) : Reserved(l)}

(* What is left does not shrink when pieces leave together with what held  *)
(* them back.                                                              *)
LEMMA TargetGrows ==
  ASSUME ReservationsAssumption, TypeOK, NEW p \in Products, NEW L \in SUBSET Lines,
         L \subseteq HeldLines(p), Cardinality(L) <= pool[p].onHand,
         pool'[p].onHand = pool[p].onHand - Cardinality(L),
         HeldLines(p)' \subseteq HeldLines(p) \ L
  PROVE  Target(p)' >= Target(p)
<1> DEFINE H == HeldLines(p)
           G == HeldLines(p)'
<1>1. H \subseteq Lines /\ G \subseteq Lines
  BY DEF HeldLines, LinesOf
<1>2. /\ IsFiniteSet(H) /\ Cardinality(H) \in Nat /\ IsFiniteSet(G) /\ Cardinality(G) \in Nat
      /\ IsFiniteSet(L) /\ Cardinality(L) \in Nat
      /\ IsFiniteSet(G \union L) /\ Cardinality(G \union L) \in Nat
  <2>1. G \union L \subseteq Lines
    BY <1>1
  <2> QED BY <1>1, <2>1, LinesFinite
<1>3. Cardinality(G \union L) = Cardinality(G) + Cardinality(L)
  <2>1. G \intersect L = {}
    OBVIOUS
  <2>2. Cardinality(G \union L) = Cardinality(G) + Cardinality(L) - Cardinality(G \intersect L)
    BY <1>2, FS_Union
  <2>3. Cardinality(G \intersect L) = 0
    BY <2>1, FS_EmptySet
  <2> QED BY <1>2, <2>2, <2>3
<1>4. Cardinality(G \union L) <= Cardinality(H)
  <2>1. G \union L \subseteq H
    OBVIOUS
  <2> QED BY <1>2, <2>1, FS_Subset
<1>5. pool[p].onHand \in Nat /\ Buffer \in Nat
  BY PoolRow DEF ReservationsAssumption
<1>6. Cardinality(G) <= Cardinality(H) - Cardinality(L)
  BY <1>2, <1>3, <1>4
<1>7. Target(p) = Less(Less(pool[p].onHand, Cardinality(H)), Buffer)
  BY DEF Target, HeldLines
<1>8. Target(p)' = Less(Less(pool[p].onHand - Cardinality(L), Cardinality(G)), Buffer)
  BY DEF Target, HeldLines
<1> DEFINE a == pool[p].onHand
           h == Cardinality(H)
           g == Cardinality(G)
           k == Cardinality(L)
<1>9. a \in Nat /\ h \in Nat /\ g \in Nat /\ k \in Nat /\ k <= a /\ g <= h - k
  BY <1>2, <1>5, <1>6
<1>10. Target(p) = Less(Less(a, h), Buffer) /\ Target(p)' = Less(Less(a - k, g), Buffer)
  BY <1>7, <1>8
<1> HIDE DEF a, h, g, k
<1>11. Less(Less(a - k, g), Buffer) >= Less(Less(a, h), Buffer)
  BY <1>5, <1>9, LessLess
<1> QED BY <1>10, <1>11

(* A product whose published quantity stays and of which nothing is sold,  *)
(* counted or given back stays accounted for.                              *)
LEMMA OwedFrame ==
  ASSUME ReservationsAssumption, TypeOK, TypeOK', OwedInv, NEW p \in Products,
         published'[p] <= published[p], Told(p) => Told(p)',
         pool'[p].onHand = pool[p].onHand, HeldLines(p)' \subseteq HeldLines(p)
  PROVE  published'[p] > Target(p)' => Told(p)'
<1>1. Target(p)' >= Target(p)
  <2>1. Cardinality({}) = 0 /\ pool[p].onHand \in Nat
    BY FS_EmptySet, PoolRow
  <2>2. {} \in SUBSET Lines /\ {} \subseteq HeldLines(p) /\ HeldLines(p)' \subseteq HeldLines(p) \ {}
    OBVIOUS
  <2> QED BY <2>1, <2>2, TargetGrows
<1>2. Target(p) \in Nat /\ published[p] \in Nat /\ published'[p] \in Nat
  BY TargetNat DEF TypeOK
<1>3. Target(p)' \in Nat
  <2>1. TypeOK' => Target(p)' \in Nat
    <3>1. Cardinality(HeldLines(p)') \in Nat
      BY LinesFinite DEF HeldLines, LinesOf
    <3>2. TypeOK' => pool'[p].onHand \in Nat
      BY DEF TypeOK, Pools
    <3>3. Target(p)' = Less(Less(pool'[p].onHand, Cardinality(HeldLines(p)')), Buffer)
      BY DEF Target, HeldLines
    <3> DEFINE c == Cardinality(HeldLines(p)')
               h == pool'[p].onHand
    <3> HIDE DEF c, h
    <3>4. c \in Nat /\ (TypeOK' => h \in Nat) /\ Target(p)' = Less(Less(h, c), Buffer) /\ Buffer \in Nat
      BY <3>1, <3>2, <3>3 DEF c, h, ReservationsAssumption
    <3> QED BY <3>4 DEF Less
  <2> QED BY <2>1
<1>4. published[p] > Target(p) => Told(p)
  BY DEF OwedInv
<1> QED BY <1>1, <1>2, <1>3, <1>4

(* Nothing that the target is made of changes.                             *)
LEMMA OwedSame ==
  ASSUME ReservationsAssumption, TypeOK, TypeOK', OwedInv, UNCHANGED <<pool, res, published>>,
         owed \union refused \subseteq owed' \union refused', unread \subseteq unread'
  PROVE  OwedInv'
<1>1. ASSUME NEW p \in Products PROVE published'[p] > Target(p)' => Told(p)'
  <2>1. HeldLines(p)' = HeldLines(p)
    BY DEF HeldLines, Reserved
  <2>2. Told(p) => Told(p)'
    BY DEF Told
  <2>3. published'[p] <= published[p]
    BY DEF TypeOK
  <2> QED BY <2>1, <2>2, <2>3, OwedFrame
<1> QED BY <1>1 DEF OwedInv

(* Counts and returned goods: what changes is owed.                        *)
LEMMA OwedRequests ==
  ASSUME ReservationsAssumption, TypeOK, TypeOK', OwedInv, NEW q \in Products,
         UNCHANGED <<res, published, unread>>, \A p \in Products : p # q => pool'[p] = pool[p],
         q \in owed', owed \subseteq owed', refused \ {q} \subseteq refused'
  PROVE  OwedInv'
<1>1. ASSUME NEW p \in Products PROVE published'[p] > Target(p)' => Told(p)'
  <2>1. CASE p = q
    BY <2>1 DEF Told
  <2>2. CASE p # q
    <3>1. \A l \in LinesOf(p) : ProductOf[l] = p
      BY DEF LinesOf
    <3>2. HeldLines(p)' = HeldLines(p)
      BY <2>2, <3>1 DEF HeldLines, Reserved
    <3>3. Told(p) => Told(p)'
      BY <2>2 DEF Told
    <3>4. published'[p] <= published[p]
      BY DEF TypeOK
    <3> QED BY <2>2, <3>2, <3>3, <3>4, OwedFrame
  <2> QED BY <2>1, <2>2
<1> QED BY <1>1 DEF OwedInv

(* Confirmations and expiry only let go of what is held.                   *)
LEMMA OwedLetsGo ==
  ASSUME ReservationsAssumption, TypeOK, TypeOK', OwedInv,
         UNCHANGED <<pool, published, owed, refused, unread>>,
         \A l \in Lines : res'[l] = res[l] \/ res[l].status \in Open
  PROVE  OwedInv'
<1>1. ASSUME NEW p \in Products PROVE published'[p] > Target(p)' => Told(p)'
  <2>1. HeldLines(p)' \subseteq HeldLines(p)
    BY DEF HeldLines, Reserved, LinesOf
  <2>2. Told(p) => Told(p)'
    BY DEF Told
  <2>3. published'[p] <= published[p]
    BY DEF TypeOK
  <2> QED BY <2>1, <2>2, <2>3, OwedFrame
<1> QED BY <1>1 DEF OwedInv

(* A recalculation publishes what is left.                                 *)
LEMMA OwedRecalculated ==
  ASSUME ReservationsAssumption, TypeOK, TypeOK', OwedInv, NEW P,
         published' = Recalculated(P), UNCHANGED <<pool, res>>,
         \A p \in Products \ P : Told(p) => Told(p)'
  PROVE  OwedInv'
<1>1. ASSUME NEW p \in Products PROVE published'[p] > Target(p)' => Told(p)'
  <2>1. HeldLines(p)' = HeldLines(p) /\ Target(p)' = Target(p)
    BY DEF HeldLines, Reserved, Target
  <2>2. CASE p \in P
    <3>1. published'[p] = Target(p) /\ Target(p) \in Nat
      BY <2>2, TargetNat DEF Recalculated
    <3> QED BY <2>1, <3>1
  <2>3. CASE p \notin P
    <3>1. published'[p] = published[p] /\ published[p] \in Nat
      BY <2>3 DEF Recalculated, TypeOK
    <3> QED BY <2>1, <2>3, <3>1 DEF OwedInv
  <2> QED BY <2>2, <2>3
<1> QED BY <1>1 DEF OwedInv

(* A recorded page: a line that is reserved anew is one of the next window *)
(* until its product has been recalculated; a shipped one takes its piece  *)
(* from the pool and from what is held at once.                            *)
LEMMA OwedRecord ==
  ASSUME ReservationsAssumption, TypeOK, TypeOK', ReadInv, OwedInv,
         NEW r \in Readers, Record(r), Accepted(r)
  PROVE  OwedInv'
<1>1. /\ reader[r].at = "SEEN" /\ res' = Rows(r) /\ UNCHANGED <<unread, owed, refused, published>>
      /\ pool' = [p \in Products |-> [pool[p] EXCEPT !.onHand = @ - Cardinality(Leaving(p, Rows(r)))]]
      /\ \A l \in Lines : Allowed(DoesTo(r, l), l) /\ DoesTo(r, l) \in Doings
  BY DoesToTyped DEF Record, Accepted
<1>2. \A l \in Lines : res'[l] = Outcome(DoesTo(r, l), l) /\ res[l] \in Reservations
  BY <1>1 DEF Rows, TypeOK
<1>3. ASSUME NEW p \in Products PROVE published'[p] > Target(p)' => Told(p)'
  <2>1. CASE \E l \in LinesOf(p) : DoesTo(r, l) \in {"INSERT", "INSERT_SHIPPED"}
    <3>1. PICK l \in LinesOf(p) : DoesTo(r, l) \in {"INSERT", "INSERT_SHIPPED"}
      BY <2>1
    <3>2. l \in Lines /\ l \in DOMAIN reader[r].page /\ res[l].status = "NONE" /\ reader[r].page[l] \notin Closed
      BY <1>1, <3>1 DEF LinesOf, DoesTo, Does, Allowed, Closed
    <3>3. l \in unread
      BY <1>1, <3>2 DEF ReadInv
    <3> QED BY <1>1, <3>1, <3>3 DEF Told
  <2>2. CASE \A l \in LinesOf(p) : DoesTo(r, l) \notin {"INSERT", "INSERT_SHIPPED"}
    <3> DEFINE L == Leaving(p, Rows(r))
    <3>1. ASSUME NEW l \in LinesOf(p)
          PROVE  /\ res'[l].status \in Open => res[l].status \in Open
                 /\ res'[l].status = "CONSUMED" =>
                      \/ res[l].status \in Open
                      \/ res[l].status = "CONSUMED" /\ res'[l].confirmedAt = res[l].confirmedAt
      <4>1. l \in Lines /\ res[l] \in Reservations
        BY <1>2 DEF LinesOf
      <4> DEFINE does == DoesTo(r, l)
      <4>2. does \in Doings \ {"INSERT", "INSERT_SHIPPED"} /\ res'[l] = Outcome(does, l) /\ Allowed(does, l)
        BY <1>1, <1>2, <2>2, <4>1
      <4> HIDE DEF does
      <4>3. CASE does = "NOTHING"
        BY <4>2, <4>3 DEF Outcome
      <4>4. CASE does = "CONSUME"
        BY <4>1, <4>2, <4>4 DEF Outcome, Allowed, Open, Reservations
      <4>5. CASE does = "RELEASE"
        BY <4>1, <4>2, <4>5 DEF Outcome, Open, Reservations
      <4>6. CASE does = "REPORT_SHIPPED"
        BY <4>1, <4>2, <4>6 DEF Outcome, Open, Reservations
      <4> QED BY <4>2, <4>3, <4>4, <4>5, <4>6 DEF Doings
    <3>2. pool[p] \in Pools /\ pool'[p].asOf = pool[p].asOf
          /\ pool'[p].onHand = pool[p].onHand - Cardinality(L)
      BY <1>1, PoolRow DEF Pools, TypeOK
    <3>3. \A l \in LinesOf(p) : ProductOf[l] = p /\ l \in Lines
      BY DEF LinesOf
    <3>4. L \subseteq HeldLines(p) /\ L \in SUBSET Lines
      <4>1. \A l \in L : l \in LinesOf(p) /\ res'[l].status = "CONSUMED" /\ res[l].status # "CONSUMED"
        BY <1>1 DEF Leaving
      <4> QED BY <3>1, <3>3, <4>1 DEF HeldLines, Reserved
    <3>5. HeldLines(p)' \subseteq HeldLines(p) \ L
      <4>1. ASSUME NEW l \in LinesOf(p), Reserved(l)' PROVE Reserved(l) /\ l \notin L
        <5>1. CASE res'[l].status \in Open
          <6>1. l \notin L
            BY <1>1, <5>1 DEF Leaving, Open
          <6> QED BY <3>1, <5>1, <6>1 DEF Reserved
        <5>2. CASE res'[l].status = "CONSUMED" /\ p \in Inbound
          <6>1. L = {}
            BY <5>2 DEF Leaving, Internal
          <6> QED BY <3>1, <3>2, <3>3, <4>1, <5>2, <6>1 DEF Reserved, Open
        <5> QED BY <3>3, <4>1, <5>1, <5>2 DEF Reserved
      <4> QED BY <4>1 DEF HeldLines
    <3>6. Cardinality(L) <= pool[p].onHand
      BY DEF Accepted
    <3> HIDE DEF L
    <3>7. Target(p)' >= Target(p)
      BY <3>2, <3>4, <3>5, <3>6, TargetGrows
    <3>8. Target(p) \in Nat /\ published[p] \in Nat /\ Target(p)' \in Int
      <4>1. TypeOK' => Target(p)' \in Nat
        <5>1. Cardinality(HeldLines(p)') \in Nat
          BY LinesFinite DEF HeldLines, LinesOf
        <5>2. TypeOK' => pool'[p].onHand \in Nat
          BY DEF TypeOK, Pools
        <5>3. Target(p)' = Less(Less(pool'[p].onHand, Cardinality(HeldLines(p)')), Buffer)
          BY DEF Target, HeldLines
        <5> DEFINE c == Cardinality(HeldLines(p)')
                   h == pool'[p].onHand
        <5> HIDE DEF c, h
        <5>4. c \in Nat /\ (TypeOK' => h \in Nat) /\ Target(p)' = Less(Less(h, c), Buffer) /\ Buffer \in Nat
          BY <5>1, <5>2, <5>3 DEF c, h, ReservationsAssumption
        <5> QED BY <5>4 DEF Less
      <4> QED BY <4>1, TargetNat DEF TypeOK
    <3>9. Told(p) => Told(p)'
      BY <1>1 DEF Told
    <3> QED BY <1>1, <3>7, <3>8, <3>9 DEF OwedInv
  <2> QED BY <2>1, <2>2
<1> QED BY <1>3 DEF OwedInv

LEMMA OwedStep ==
  ASSUME ReservationsAssumption, OneReader, TypeOK, TypeOK', ReadInv, OwedInv, [Next]_vars
  PROVE  OwedInv'
<1>1. CASE \/ \E l \in Lines : Place(l) \/ Progress(l) \/ Register(l)
           \/ \E p \in Inbound : SendFigure(p)
           \/ \E p \in Products : RequestDies(p)
           \/ \E r \in Readers : ReadPage(r) \/ Look(r) \/ Crash(r) \/ (Record(r) /\ ~ Accepted(r))
           \/ Tick \/ UNCHANGED vars
  BY <1>1, OwedSame DEF Place, Progress, Register, SendFigure, RequestDies, ReadPage, Look, Crash, Record, Tick, vars
<1>2. ASSUME NEW f \in figures, InboundStock(f) PROVE OwedInv'
  <2>1. f.product \in Products
    BY DEF TypeOK, Figures, ReservationsAssumption
  <2>2. \A p \in Products : p # f.product => pool'[p] = pool[p]
    BY <1>2, <2>1 DEF InboundStock, TypeOK
  <2> QED BY <1>2, <2>1, <2>2, OwedRequests DEF InboundStock
<1>3. ASSUME NEW q \in Internal, NEW quantity \in 0 .. Stock, Stocktake(q, quantity) PROVE OwedInv'
  <2>1. q \in Products /\ \A p \in Products : p # q => pool'[p] = pool[p]
    BY <1>3 DEF Stocktake, TypeOK, Internal
  <2> QED BY <1>3, <2>1, OwedRequests DEF Stocktake
<1>4. ASSUME NEW l \in Lines, NEW accept \in BOOLEAN, DecideReturn(l, accept) PROVE OwedInv'
  <2>1. CASE accept
    <3>1. ProductOf[l] \in Products /\ \A p \in Products : p # ProductOf[l] => pool'[p] = pool[p]
      BY <1>4, <2>1 DEF DecideReturn, TypeOK, ReservationsAssumption
    <3>2. ProductOf[l] \in owed' /\ owed \subseteq owed' /\ UNCHANGED <<res, published, unread, refused>>
      BY <1>4, <2>1 DEF DecideReturn
    <3> QED BY <3>1, <3>2, OwedRequests
  <2>2. CASE ~ accept
    BY <1>4, <2>2, OwedSame DEF DecideReturn
  <2> QED BY <2>1, <2>2
<1>5. ASSUME NEW orders \in SUBSET registered, ConfirmInboundOrders(orders) PROVE OwedInv'
  <2>1. \A l \in Lines : res'[l] = res[l] \/ res[l].status \in Open
    BY <1>5 DEF ConfirmInboundOrders, Confirmation, Open
  <2> QED BY <1>5, <2>1, OwedLetsGo DEF ConfirmInboundOrders
<1>6. CASE ReleaseExpired
  <2>1. \A l \in Lines : res'[l] = res[l] \/ res[l].status \in Open
    BY <1>6 DEF ReleaseExpired, Expired, Open
  <2> QED BY <1>6, <2>1, OwedLetsGo DEF ReleaseExpired
<1>7. ASSUME NEW q \in Products, Propagate(q) PROVE OwedInv'
  <2>1. \A p \in Products \ {q} : Told(p) => Told(p)'
    BY <1>7 DEF Propagate, Told
  <2> QED BY <1>7, <2>1, OwedRecalculated DEF Propagate
<1>8. ASSUME NEW r \in Readers, Recalculate(r) PROVE OwedInv'
  <2> DEFINE P == {ProductOf[l] : l \in DOMAIN reader[r].page}
  <2>1. \A p \in Products \ P : Told(p) => Told(p)'
    <3>1. ASSUME NEW p \in Products \ P, NEW l \in LinesOf(p), l \in unread PROVE l \in unread'
      <4>1. l \notin DOMAIN reader[r].page
        BY <3>1 DEF LinesOf
      <4> QED BY <1>8, <3>1, <4>1 DEF Recalculate
    <3> QED BY <1>8, <3>1 DEF Recalculate, Told
  <2> QED BY <1>8, <2>1, OwedRecalculated DEF Recalculate
<1>9. ASSUME NEW r \in Readers, Record(r), Accepted(r) PROVE OwedInv'
  BY <1>9, OwedRecord
<1> QED
  BY <1>1, <1>2, <1>3, <1>4, <1>5, <1>6, <1>7, <1>8, <1>9 DEF Next

(* The channel never shows more than is left without somebody who will     *)
(* recalculate, for one order job at a time and whatever dies: the page    *)
(* that was recorded is still in the next window.                          *)
THEOREM NeverSilentlyOverstated ==
  ASSUME OneReader
  PROVE  Spec => []NoSilentOverstatement
<1>1. Init => TypeOK /\ ReadInv /\ OwedInv
  <2> SUFFICES ASSUME Init PROVE TypeOK /\ ReadInv /\ OwedInv
    OBVIOUS
  <2>1. TypeOK /\ ReadInv
    BY ReservationsAssumption, TypeInit, ReadInit
  <2>2. ASSUME NEW p \in Products PROVE Target(p) = Less(Stock, Buffer)
    <3>1. {l \in LinesOf(p) : Reserved(l)} = {}
      BY DEF Init, LinesOf, Reserved, Open, NoReservation
    <3>2. Stock \in Nat /\ pool[p].onHand = Stock /\ Cardinality({}) = 0
      <4>1. Stock \in Nat
        BY ReservationsAssumption DEF ReservationsAssumption
      <4>2. pool[p].onHand = Stock
        BY DEF Init
      <4>3. Cardinality({}) = 0
        BY FS_EmptySet
      <4> QED BY <4>1, <4>2, <4>3
    <3>3. Less(Stock, 0) = Stock
      BY <3>2 DEF Less
    <3> QED BY <3>1, <3>2, <3>3 DEF Target
  <2>3. \A p \in Products : published[p] = Less(Stock, Buffer) /\ published[p] \in Nat
    BY <2>1 DEF Init, TypeOK
  <2> QED BY <2>1, <2>2, <2>3 DEF OwedInv
<1>2. TypeOK /\ ReadInv /\ OwedInv /\ [Next]_vars => (TypeOK /\ ReadInv /\ OwedInv)'
  BY ReservationsAssumption, TypeStep, ReadStep, OwedStep
<1>3. OwedInv => NoSilentOverstatement
  BY DEF OwedInv, NoSilentOverstatement, Told, Recalculating
<1> QED
  BY <1>1, <1>2, <1>3, PTL DEF Spec

=============================================================================
