---------------------------- MODULE Reservations ----------------------------
(***************************************************************************)
(* Orders of a channel become reservations, reservations hold back stock,  *)
(* and the stock that is left is published (pricing-store-pg/src/stock.ts, *)
(* stock-sync/src/pipeline.ts, migrations 0007, 0020, 0122, 0156).         *)
(*                                                                         *)
(* A product has one pool: an internal one, whose count is ours, or one of *)
(* a warehouse with the Inbound API, which sends its count and confirms    *)
(* the orders it has taken into account.  Order lines are read from the    *)
(* channel again and again, by readers that may overlap (a job whose lease *)
(* was lost goes on); a reader looks at the reservations of its page,      *)
(* records the page and recalculates what is published, and other          *)
(* transactions come in between.  A line is of one piece.                  *)
(***************************************************************************)
EXTENDS Integers, FiniteSets

CONSTANTS
    Lines,          \* order lines of the channel
    Products,
    Inbound,        \* the products whose pool belongs to an Inbound API source
    ProductOf,      \* the product of a line
    Stock,          \* pieces in every pool at the start
    Buffer,         \* pieces of a pool that are never published
    Readers,        \* processes that may run the order job
    Ttl,            \* life of an unconfirmed reservation (24 hours)
    MaxClock,       \* bound: instants
    MaxCrashes,     \* bound: readers that stop, requests that die
    MaxFigures,     \* bound: counts the warehouses send
    MaxStocktakes   \* bound: counts of internal pools by people

ASSUME ReservationsAssumption ==
    /\ IsFiniteSet(Lines)
    /\ Inbound \subseteq Products
    /\ ProductOf \in [Lines -> Products]
    /\ {Stock, Buffer, MaxCrashes, MaxFigures, MaxStocktakes} \subseteq Nat
    /\ Ttl \in Nat \ {0}
    /\ MaxClock \in Nat \ {0}

VARIABLES
    now,        \* the clock of the database
    order,      \* what the channel says of a line
    unread,     \* lines the next window of the order job still contains
    res,        \* channel_data.reservation
    returned,   \* channel_data.order_return
    pool,       \* tenant_data.stock_pool: pieces, and the figure it comes from
    counted,    \* sum of the STOCKTAKE movements of an internal pool
    registered, \* lines a warehouse has taken into account
    figures,    \* counts sent by the warehouses, delivered in any order
    published,  \* the quantity of the last recalculation
    owed,       \* requests that have changed the stock and not recalculated yet
    refused,    \* requests that died before that; their sender has no answer
    reader,     \* where a reader is, with its page and what it has looked at
    crashes

vars == <<now, order, unread, res, returned, pool, counted, registered, figures,
          published, owed, refused, reader, crashes>>

Internal == Products \ Inbound
Instants == 0 .. MaxClock
OrderStatuses == {"NONE", "OPEN", "SHIPPED", "CANCELLED", "RETURNED"}
Open == {"CREATED", "CONFIRMED_BY_SOURCE"}
Statuses == Open \union {"NONE", "CONSUMED", "RELEASED"}
Reservations == [status : Statuses, shipped : BOOLEAN,
                 confirmedAt : Instants, expiresAt : 0 .. MaxClock + Ttl]
NoReservation == [status |-> "NONE", shipped |-> FALSE, confirmedAt |-> 0, expiresAt |-> 0]
LinesOf(p) == {l \in Lines : ProductOf[l] = p}
Pools == [onHand : Nat, asOf : Instants, without : SUBSET Lines]
\* A count of a warehouse: its instant, and the lines already taken off it.
Figures == [product : Inbound, asOf : Instants, without : SUBSET Lines]

Phases == {"IDLE", "READ", "SEEN", "RECORDED"}
Partial(S) == UNION {[D -> S] : D \in SUBSET Lines}  \* functions of some lines
Reading == [at : Phases, page : Partial(OrderStatuses), seen : Partial(Statuses)]
IdleReader == [at |-> "IDLE", page |-> [l \in {} |-> "NONE"], seen |-> [l \in {} |-> "NONE"]]

-----------------------------------------------------------------------------
(* What is published *)

(* Mutant: a count of the instant of the confirmation is taken for newer.  *)
ReservedUntilSame(l) ==
    \/ res[l].status \in Open
    \/ /\ res[l].status = "CONSUMED"
       /\ ProductOf[l] \in Inbound
       /\ ~ pool[ProductOf[l]].asOf >= res[l].confirmedAt

\* RESERVED_SQL: open reservations, and those shipped from a warehouse until
\* it has sent a count that is newer than its confirmation.
Reserved(l) ==
    \/ res[l].status \in Open
    \/ /\ res[l].status = "CONSUMED"
       /\ ProductOf[l] \in Inbound
       /\ ~ pool[ProductOf[l]].asOf > res[l].confirmedAt

(* Mutant: orders that come before the stock make a debt.                  *)
LessOrDebt(a, b) == a - b

Less(a, b) == IF a > b THEN a - b ELSE 0

\* PUBLISHED_SQL without a ceiling and a listing threshold.
Target(p) ==
    Less(Less(pool[p].onHand, Cardinality({l \in LinesOf(p) : Reserved(l)})), Buffer)

\* recalculate: the transaction waits for the lock of the tenant and then reads.
Recalculated(P) == [p \in Products |-> IF p \in P THEN Target(p) ELSE published[p]]

-----------------------------------------------------------------------------
(* The channel and the warehouses *)

Place(l) ==
    /\ order[l] = "NONE"
    /\ order' = [order EXCEPT ![l] = "OPEN"]
    /\ unread' = unread \union {l}
    /\ UNCHANGED <<now, res, returned, pool, counted, registered, figures, published, owed, refused, reader, crashes>>

Follows == [OPEN |-> {"SHIPPED", "CANCELLED"}, SHIPPED |-> {"RETURNED"}]

Progress(l) ==
    /\ order[l] \in DOMAIN Follows
    /\ \E s \in Follows[order[l]] : order' = [order EXCEPT ![l] = s]
    /\ unread' = unread \union {l}
    /\ UNCHANGED <<now, res, returned, pool, counted, registered, figures, published, owed, refused, reader, crashes>>

\* The warehouse learns of an order from the seller's own system, and forgets
\* it when it is cancelled or the goods are back on the shelf.
Register(l) ==
    /\ ProductOf[l] \in Inbound
    /\ \/ order[l] \in {"OPEN", "SHIPPED"} /\ registered' = registered \union {l}
       \/ order[l] \in {"CANCELLED", "RETURNED"} /\ registered' = registered \ {l}
    /\ registered' # registered
    /\ UNCHANGED <<now, order, unread, res, returned, pool, counted, figures, published, owed, refused, reader, crashes>>

SendFigure(p) ==
    /\ Cardinality(figures) < MaxFigures
    /\ figures' = figures \union
           {[product |-> p, asOf |-> now, without |-> registered \intersect LinesOf(p)]}
    /\ figures' # figures
    /\ UNCHANGED <<now, order, unread, res, returned, pool, counted, registered, published, owed, refused, reader, crashes>>

-----------------------------------------------------------------------------
(* Requests of the warehouses and of people *)

\* inboundStock: stock_pool_guard refuses a count that is not newer; what was
\* recognized is recalculated either way, in a second transaction.
InboundStock(f) ==
    /\ f \in figures
    /\ pool' = IF f.asOf > pool[f.product].asOf
               THEN [pool EXCEPT ![f.product] =
                        [onHand |-> Less(Stock, Cardinality(f.without)),
                         asOf |-> f.asOf, without |-> f.without]]
               ELSE pool
    /\ owed' = owed \union {f.product}
    /\ refused' = refused \ {f.product}
    /\ UNCHANGED <<now, order, unread, res, returned, counted, registered, figures, published, reader, crashes>>

Expired(l) == res[l].status = "CREATED" /\ now >= res[l].expiresAt

\* confirm_reservations_by_source for the orders of one call: created
\* reservations are confirmed, then confirmed ones that were reported as
\* shipped are consumed.  An expired one rejects the whole call.
Confirmation(l) ==
    LET confirmed == IF res[l].status = "CREATED"
                     THEN [res[l] EXCEPT !.status = "CONFIRMED_BY_SOURCE", !.confirmedAt = now,
                                         !.expiresAt = 0]  \* not read any more
                     ELSE res[l]
    IN  IF confirmed.status = "CONFIRMED_BY_SOURCE" /\ confirmed.shipped
        THEN [confirmed EXCEPT !.status = "CONSUMED"]
        ELSE confirmed

ConfirmInboundOrders(orders) ==
    /\ orders \subseteq registered
    /\ \A l \in orders : ~ Expired(l)
    /\ res' = [l \in Lines |-> IF l \in orders THEN Confirmation(l) ELSE res[l]]
    /\ res' # res
    /\ UNCHANGED <<now, order, unread, returned, pool, counted, registered, figures, published, owed, refused, reader, crashes>>

\* A person counts an internal pool: a STOCKTAKE movement by the difference.
Stocktake(p, quantity) ==
    /\ quantity # pool[p].onHand
    /\ counted' = [counted EXCEPT ![p].sum = @ + quantity - pool[p].onHand, ![p].times = @ + 1]
    /\ pool' = [pool EXCEPT ![p].onHand = quantity]
    /\ owed' = owed \union {p}
    /\ refused' = refused \ {p}
    /\ counted[p].times < MaxStocktakes
    /\ UNCHANGED <<now, order, unread, res, returned, registered, figures, published, reader, crashes>>

(* Mutant: an answer that was given is not looked at.                      *)
DecideReturnAgain(l, accept) ==
    /\ returned[l] \in {"PENDING", "ACCEPTED", "DISMISSED"}
    /\ returned' = [returned EXCEPT ![l] = IF accept THEN "ACCEPTED" ELSE "DISMISSED"]
    /\ pool' = IF accept THEN [pool EXCEPT ![ProductOf[l]].onHand = @ + 1] ELSE pool
    /\ owed' = IF accept THEN owed \union {ProductOf[l]} ELSE owed
    /\ UNCHANGED <<now, order, unread, res, counted, registered, figures, published, refused, reader, crashes>>

\* decideReturn: once, from PENDING; accepted goods enter by a RETURN movement.
DecideReturn(l, accept) ==
    /\ returned[l] = "PENDING"
    /\ returned' = [returned EXCEPT ![l] = IF accept THEN "ACCEPTED" ELSE "DISMISSED"]
    /\ pool' = IF accept THEN [pool EXCEPT ![ProductOf[l]].onHand = @ + 1] ELSE pool
    /\ owed' = IF accept THEN owed \union {ProductOf[l]} ELSE owed
    /\ UNCHANGED <<now, order, unread, res, counted, registered, figures, published, refused, reader, crashes>>

\* propagate after the change of a request ...
Propagate(p) ==
    /\ p \in owed
    /\ published' = Recalculated({p})
    /\ owed' = owed \ {p}
    /\ UNCHANGED <<now, order, unread, res, returned, pool, counted, registered, figures, refused, reader, crashes>>

\* ... or its end before that: the process stops, or the wait for the lock of
\* the tenant is too long and the answer is 503.
RequestDies(p) ==
    /\ p \in owed
    /\ crashes < MaxCrashes
    /\ crashes' = crashes + 1
    /\ owed' = owed \ {p}
    /\ refused' = refused \union {p}
    /\ UNCHANGED <<now, order, unread, res, returned, pool, counted, registered, figures, published, reader>>

-----------------------------------------------------------------------------
(* The order job *)

\* A page holds every line the window contains, and may hold others: windows
\* overlap.
ReadPage(r) ==
    /\ reader[r].at = "IDLE"
    /\ unread # {}
    /\ \E more \in SUBSET {l \in Lines \ unread : order[l] # "NONE"} :
           reader' = [reader EXCEPT ![r] = [IdleReader EXCEPT
                         !.at = "READ", !.page = [l \in unread \union more |-> order[l]]]]
    /\ UNCHANGED <<now, order, unread, res, returned, pool, counted, registered, figures, published, owed, refused, crashes>>

\* recordOrderLines looks at the reservation of every line, without a lock ...
Look(r) ==
    /\ reader[r].at = "READ"
    /\ reader' = [reader EXCEPT ![r].at = "SEEN",
                                ![r].seen = [l \in DOMAIN reader[r].page |-> res[l].status]]
    /\ UNCHANGED <<now, order, unread, res, returned, pool, counted, registered, figures, published, owed, refused, crashes>>

\* ... and decides by what it has seen.
Does(status, seen) ==
    IF seen = "NONE"
    THEN IF status \in {"CANCELLED", "RETURNED"} THEN "NOTHING"
         ELSE IF status = "SHIPPED" THEN "INSERT_SHIPPED" ELSE "INSERT"
    ELSE IF seen \in {"CONSUMED", "RELEASED"} \/ status = "OPEN" THEN "NOTHING"
    ELSE IF status = "CANCELLED" THEN "RELEASE"
    ELSE IF seen = "CONFIRMED_BY_SOURCE" THEN "CONSUME" ELSE "REPORT_SHIPPED"

\* The row an INSERT leaves: our own pool confirms and ships at once, and
\* nothing reads the instants of its reservations.
Inserted(p, shipped) ==
    IF p \in Inbound
    THEN [NoReservation EXCEPT !.status = "CREATED", !.shipped = shipped, !.expiresAt = now + Ttl]
    ELSE [NoReservation EXCEPT !.status = IF shipped THEN "CONSUMED" ELSE "CONFIRMED_BY_SOURCE"]

\* The row a statement leaves, by the row it meets (triggers of migration
\* 0020): a transition to the status it has changes nothing.
Outcome(does, l) ==
    CASE does = "NOTHING" -> res[l]
      [] does = "INSERT" -> Inserted(ProductOf[l], FALSE)
      [] does = "INSERT_SHIPPED" -> Inserted(ProductOf[l], TRUE)
      [] does = "CONSUME" -> [res[l] EXCEPT !.status = "CONSUMED"]
      [] does = "RELEASE" -> [res[l] EXCEPT !.status = "RELEASED"]
      [] does = "REPORT_SHIPPED" -> IF res[l].status \in Open THEN [res[l] EXCEPT !.shipped = TRUE]
                                    ELSE res[l]

\* The transitions and the unique key the database accepts.
Allowed(does, l) ==
    CASE does \in {"INSERT", "INSERT_SHIPPED"} -> res[l].status = "NONE"
      [] does = "CONSUME" -> res[l].status \in {"CONFIRMED_BY_SOURCE", "CONSUMED"}
      [] does = "RELEASE" -> res[l].status \in Open \union {"RELEASED"}
      [] OTHER -> TRUE

\* A report of a return leaves a row for every reservation that is not
\* released: a person decides about goods of our own.
Return(l, status, seen) ==
    IF status = "RETURNED" /\ seen \in {"CREATED", "CONFIRMED_BY_SOURCE", "CONSUMED"} /\ returned[l] = "NONE"
    THEN IF ProductOf[l] \in Inbound THEN "INFO_ONLY" ELSE "PENDING"
    ELSE returned[l]

\* Pieces that leave an internal pool: reservation_consume moves them when a
\* reservation becomes CONSUMED.
Leaving(p, row) == {l \in LinesOf(p) : p \in Internal /\ row[l].status = "CONSUMED" /\ res[l].status # "CONSUMED"}

\* What the transaction of reader r does with the line, and the rows it leaves.
DoesTo(r, l) ==
    IF l \in DOMAIN reader[r].page THEN Does(reader[r].page[l], reader[r].seen[l]) ELSE "NOTHING"
Rows(r) == [l \in Lines |-> Outcome(DoesTo(r, l), l)]

Accepted(r) ==
    /\ \A l \in Lines : Allowed(DoesTo(r, l), l)
    /\ \A p \in Products : Cardinality(Leaving(p, Rows(r))) <= pool[p].onHand

\* The transaction is over: all lines of the page, or none.  A count below zero
\* is refused (stock_pool.on_hand).
Record(r) ==
    /\ reader[r].at = "SEEN"
    /\ \/ /\ Accepted(r)
          /\ res' = Rows(r)
          /\ returned' = [l \in Lines |->
                IF l \in DOMAIN reader[r].page
                THEN Return(l, reader[r].page[l], reader[r].seen[l]) ELSE returned[l]]
          /\ pool' = [p \in Products |->
                [pool[p] EXCEPT !.onHand = @ - Cardinality(Leaving(p, Rows(r)))]]
          /\ reader' = [reader EXCEPT ![r].at = "RECORDED"]
       \/ /\ ~ Accepted(r)
          /\ reader' = [reader EXCEPT ![r] = IdleReader]
          /\ UNCHANGED <<res, returned, pool>>
    /\ UNCHANGED <<now, order, unread, counted, registered, figures, published, owed, refused, crashes>>

(* Mutant: only what this run reserved is recalculated.                    *)
RecalculateNew(r) ==
    /\ reader[r].at = "RECORDED"
    /\ published' = Recalculated({ProductOf[l] : l \in {k \in DOMAIN reader[r].page : reader[r].seen[k] = "NONE"}})
    /\ unread' = {l \in unread : ~ (l \in DOMAIN reader[r].page /\ reader[r].page[l] = order[l])}
    /\ reader' = [reader EXCEPT ![r] = IdleReader]
    /\ UNCHANGED <<now, order, res, returned, pool, counted, registered, figures, owed, refused, crashes>>

\* The products of all lines of the page are recalculated, changed or not; the
\* window ends where the page was read.
Recalculate(r) ==
    /\ reader[r].at = "RECORDED"
    /\ published' = Recalculated({ProductOf[l] : l \in DOMAIN reader[r].page})
    /\ unread' = {l \in unread : ~ (l \in DOMAIN reader[r].page /\ reader[r].page[l] = order[l])}
    /\ reader' = [reader EXCEPT ![r] = IdleReader]
    /\ UNCHANGED <<now, order, res, returned, pool, counted, registered, figures, owed, refused, crashes>>

Crash(r) ==
    /\ reader[r].at # "IDLE"
    /\ crashes < MaxCrashes
    /\ crashes' = crashes + 1
    /\ reader' = [reader EXCEPT ![r] = IdleReader]
    /\ UNCHANGED <<now, order, unread, res, returned, pool, counted, registered, figures, published, owed, refused>>

-----------------------------------------------------------------------------
(* Time *)

\* release_expired_reservations: one statement for all of them.  One that was
\* reported as shipped may only be released by a cancelled order
\* (reservation_shipped_before_close) and rejects the statement.
ReleaseExpired ==
    LET expired == {l \in Lines : Expired(l)}
    IN  /\ expired # {}
        /\ \A l \in expired : ~ res[l].shipped
        /\ res' = [l \in Lines |-> IF l \in expired THEN [res[l] EXCEPT !.status = "RELEASED"] ELSE res[l]]
        /\ UNCHANGED <<now, order, unread, returned, pool, counted, registered, figures, published, owed, refused, reader, crashes>>

Tick ==
    /\ now < MaxClock
    /\ now' = now + 1
    /\ UNCHANGED <<order, unread, res, returned, pool, counted, registered, figures, published, owed, refused, reader, crashes>>

Init ==
    /\ now = 1
    /\ order = [l \in Lines |-> "NONE"]
    /\ unread = {}
    /\ res = [l \in Lines |-> NoReservation]
    /\ returned = [l \in Lines |-> "NONE"]
    /\ pool = [p \in Products |-> [onHand |-> Stock, asOf |-> 0, without |-> {}]]
    /\ counted = [p \in Products |-> [sum |-> Stock, times |-> 0]]
    /\ registered = {}
    /\ figures = {}
    /\ published = [p \in Products |-> Less(Stock, Buffer)]
    /\ owed = {}
    /\ refused = {}
    /\ reader = [r \in Readers |-> IdleReader]
    /\ crashes = 0

Next ==
    \/ \E l \in Lines : Place(l) \/ Progress(l) \/ Register(l)
    \/ \E p \in Inbound : SendFigure(p)
    \/ \E f \in figures : InboundStock(f)
    \/ \E orders \in SUBSET registered : ConfirmInboundOrders(orders)
    \/ \E p \in Internal, quantity \in 0 .. Stock : Stocktake(p, quantity)
    \/ \E l \in Lines, accept \in BOOLEAN : DecideReturn(l, accept)
    \/ \E p \in Products : Propagate(p) \/ RequestDies(p)
    \/ \E r \in Readers : ReadPage(r) \/ Look(r) \/ Record(r) \/ Recalculate(r) \/ Crash(r)
    \/ ReleaseExpired
    \/ Tick

Spec == Init /\ [][Next]_vars

\* The order job runs every few minutes, retention every hour; both go on
\* after a failure.  Nothing is assumed of channels, warehouses and people.
Fairness ==
    /\ \A r \in Readers : WF_vars(ReadPage(r) \/ Look(r) \/ Record(r) \/ Recalculate(r))
    /\ WF_vars(ReleaseExpired)
    /\ WF_vars(Tick)

FairSpec == Spec /\ Fairness

-----------------------------------------------------------------------------
(* Properties *)

TypeOK ==
    /\ now \in Instants
    /\ order \in [Lines -> OrderStatuses]
    /\ unread \subseteq Lines
    /\ res \in [Lines -> Reservations]
    /\ returned \in [Lines -> {"NONE", "PENDING", "ACCEPTED", "DISMISSED", "INFO_ONLY"}]
    /\ pool \in [Products -> Pools]
    /\ counted \in [Products -> [sum : Int, times : Nat]]
    /\ registered \subseteq Lines
    /\ figures \subseteq Figures
    /\ published \in [Products -> Nat]
    /\ owed \subseteq Products
    /\ refused \subseteq Products
    /\ reader \in [Readers -> Reading]

\* A piece sold from a warehouse's pool is never offered again: while its
\* reservation is not released, it is either held back or already missing in
\* the warehouse's count (R-200; RESERVED_SQL).
SoldIsHeld ==
    \A l \in Lines :
        /\ ProductOf[l] \in Inbound
        /\ order[l] \in {"OPEN", "SHIPPED"}
        /\ res[l].status \in Open \union {"CONSUMED"}
        => Reserved(l) \/ l \in pool[ProductOf[l]].without

\* The channel shows more than is left only while somebody still has to
\* recalculate: a line of the window, a request under way, or a request whose
\* sender was told to repeat it.  A crash between the transaction of the lines
\* and the recalculation must not lose it (OrderLinesOutcome.productIds).
Recalculating(p) ==
    \/ \E l \in LinesOf(p) : l \in unread
    \/ \E r \in Readers : reader[r].at = "RECORDED" /\ \E l \in LinesOf(p) : l \in DOMAIN reader[r].page
    \/ p \in owed \union refused

NoSilentOverstatement ==
    \A p \in Products : published[p] > Target(p) => Recalculating(p)

\* The count of an internal pool is the sum of its journal: what people
\* counted, less one for every shipped reservation, plus one for every return
\* that was accepted (reservation_consume, stock_movement, decideReturn).
BooksBalance ==
    \A p \in Internal :
        pool[p].onHand + Cardinality({l \in LinesOf(p) : res[l].status = "CONSUMED"})
            = counted[p].sum + Cardinality({l \in LinesOf(p) : returned[l] = "ACCEPTED"})

\* Does not hold.  R-25: an unconfirmed reservation lives 24 hours and is then
\* released (docs/decisions.md:43), unless its own order was shipped meanwhile.
ExpiredIsReleased ==
    \A l \in Lines : Expired(l) ~> res[l].status # "CREATED" \/ res[l].shipped

=============================================================================
