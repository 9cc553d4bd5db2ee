---------------------------- MODULE StockLedger ----------------------------
(***************************************************************************)
(* The stock ledger of the warehouse module: createStockMovement,          *)
(* createReservation and releaseReservation of WarehouseService, each run  *)
(* by concurrent HTTP requests against PostgreSQL at READ COMMITTED.       *)
(*                                                                         *)
(* One company and one product.  A call is one request.  Every statement   *)
(* a handler awaits is a step, so that the statements of different calls   *)
(* interleave.  Inside a transaction a call sees the committed rows and    *)
(* its own writes; an UPDATE takes the lock of its row, waits for another  *)
(* transaction that holds it, and evaluates its WHERE on the newest        *)
(* version; COMMIT publishes all writes at once; an error drops them.      *)
(***************************************************************************)
EXTENDS Integers, FiniteSets, Functions

CONSTANTS
  Calls,       \* the requests the API receives
  Warehouses,  \* the warehouses of the company
  Opening,     \* on-hand quantity of the warehouses that start with a row
  Reserved,    \* how much of it is reserved by earlier reservations
  Quantities,  \* quantities a request asks for, in base units
  Types,       \* StockMovementType values a request asks for
  UnitCosts,   \* whether a request carries a unit cost: subset of BOOLEAN
  None         \* SQL NULL, no row, no lock owner

\* A warehouse that starts with a row uses its own name as the row's id; a
\* row inserted by a call has the call's name.
RowIds == Warehouses \cup Calls

COGS_MOVEMENT_TYPES == {"DISPATCH", "SCRAP", "PRODUCTION_OUT"}

\* priced stands for unitCost > 0.
Row == [warehouse : Warehouses, quantity : Int, reservedQty : Int,
        priced : BOOLEAN]

Movement == [type : Types, from : Warehouses \cup {None},
             to : Warehouses \cup {None}, quantity : Quantities,
             priced : BOOLEAN, fromQtyBefore : Int, toQtyBefore : Int,
             number : Nat]

Reservation == [warehouse : Warehouses, quantity : Quantities,
                status : {"ACTIVE", "RELEASED"}]

ASSUME ConstantsAssumption ==
  /\ Quantities \subseteq Nat \ {0}
  /\ UnitCosts \subseteq BOOLEAN
  /\ DOMAIN Opening \subseteq Warehouses
  /\ \A w \in DOMAIN Opening : Opening[w] \in Nat /\ Reserved[w] \in 0 .. Opening[w]
  /\ Calls \cap Warehouses = {}
  /\ None \notin Calls \cup Warehouses
  /\ None \notin Row \cup Movement \cup Reservation
  /\ None \notin [warehouse : Warehouses, quantity : Int, reservedQty : Int]

VARIABLES
  stockLevel,   \* committed stock_levels rows (locationId NULL), by row id
  owner,        \* the transaction that holds the lock of a row
  draft,        \* the version of a locked row that its owner has written
  reservation,  \* committed stock_reservations rows, by the call that inserted them
  claim,        \* the transaction that holds the lock of a reservation
  movement,     \* committed stock_movements rows, by the call that inserted them
  books,        \* movements whose COGS journal is in the accounting books
  folio,        \* folio_counters.valor of the STOCK_MOVEMENT series
  pc,           \* the next statement of each call
  call          \* the request and the local variables of each running call

vars == <<stockLevel, owner, draft, reservation, claim, movement, books,
          folio, pc, call>>

stock == <<stockLevel, owner, draft>>
holds == <<reservation, claim>>

Locals == [type : Types \cup {None}, from : Warehouses \cup {None},
           to : Warehouses \cup {None}, quantity : Quantities \cup {0},
           priced : BOOLEAN, fromQtyBefore : Int, toQtyBefore : Int,
           level : RowIds \cup {None}, existing : RowIds \cup {None},
           number : Nat, reservation : Calls \cup {None}]

NoLocals == [type |-> None, from |-> None, to |-> None, quantity |-> 0,
             priced |-> FALSE, fromQtyBefore |-> 0, toQtyBefore |-> 0,
             level |-> None, existing |-> None, number |-> 0,
             reservation |-> None]

MovementSteps == {"readCost", "readFrom", "checkFrom", "decrement", "readTo",
                  "findTo", "increment", "number", "commitMovement"}
ReservationSteps == {"checkReservable", "hold", "commitReservation"}
ReleaseSteps == {"claim", "findHeld", "drop", "commitRelease"}
InTransaction == MovementSteps \cup ReservationSteps \cup ReleaseSteps

-----------------------------------------------------------------------------
(* What a statement of call c sees and does.                               *)

View(c, r) == IF owner[r] = c THEN draft[r] ELSE stockLevel[r]

\* findFirst without orderBy: any matching row, or None when there is none.
FindFirst(c, w) ==
  LET rows == {r \in RowIds : View(c, r) # None /\ View(c, r).warehouse = w}
  IN  IF rows = {} THEN {None} ELSE rows

Lockable(c, r) == owner[r] \in {None, c}

\* Mutant: the statement runs on this.prisma instead of tx and commits alone.
WriteOutsideTx(c, r, row) == /\ stockLevel' = [stockLevel EXCEPT ![r] = row]
                             /\ UNCHANGED <<owner, draft>>
Write(c, r, row) == /\ owner' = [owner EXCEPT ![r] = c]
                    /\ draft' = [draft EXCEPT ![r] = row]
                    /\ UNCHANGED stockLevel

Goto(c, step) == pc' = [pc EXCEPT ![c] = step]

Finish(c, step) == /\ Goto(c, step)
                   /\ call' = [call EXCEPT ![c] = NoLocals]

\* Mutant: an error path that leaves the transaction open.
KeepLocks(c) == owner
Unlocked(c) == [r \in RowIds |-> IF owner[r] = c THEN None ELSE owner[r]]
Undrafted(c) == [r \in RowIds |-> IF owner[r] = c THEN None ELSE draft[r]]

\* A thrown error: the transaction rolls back and the request fails.
Rollback(c) ==
  /\ owner' = Unlocked(c)
  /\ draft' = Undrafted(c)
  /\ claim' = [k \in Calls |-> IF claim[k] = c THEN None ELSE claim[k]]
  /\ Finish(c, "done")
  /\ UNCHANGED <<stockLevel, reservation, movement, books, folio>>

\* COMMIT: everybody sees the versions that c has written.
Publish(c) ==
  /\ stockLevel' = [r \in RowIds |->
                      IF owner[r] = c THEN draft[r] ELSE stockLevel[r]]
  /\ owner' = Unlocked(c)
  /\ draft' = Undrafted(c)

Init ==
  /\ \E priced \in [DOMAIN Opening -> BOOLEAN] :
       stockLevel = [r \in RowIds |->
         IF r \in DOMAIN Opening
           THEN [warehouse |-> r, quantity |-> Opening[r],
                 reservedQty |-> Reserved[r], priced |-> priced[r]]
           ELSE None]
  /\ owner = [r \in RowIds |-> None]
  /\ draft = [r \in RowIds |-> None]
  /\ reservation = [k \in Calls |-> None]
  /\ claim = [k \in Calls |-> None]
  /\ movement = [m \in Calls |-> None]
  /\ books = {}
  /\ folio = 0
  /\ pc = [c \in Calls |-> "idle"]
  /\ call = [c \in Calls |-> NoLocals]

-----------------------------------------------------------------------------
(* createStockMovement.                                                    *)

AfterCost(from) == IF from # None THEN "readFrom" ELSE "readTo"
AfterFrom(to)   == IF to # None THEN "readTo" ELSE "number"

\* The input checks of the handler; a request that fails them changes nothing.
CreateStockMovement(c) ==
  /\ pc[c] = "idle"
  /\ \E type \in Types, from, to \in Warehouses \cup {None},
        q \in Quantities, priced \in UnitCosts :
       /\ type = "TRANSFER" => from # None /\ to # None
       /\ from # None \/ to # None
       /\ call' = [call EXCEPT ![c] =
            [NoLocals EXCEPT !.type = type, !.from = from, !.to = to,
                             !.quantity = q, !.priced = priced]]
       /\ Goto(c, IF ~priced /\ from # None /\ type \in COGS_MOVEMENT_TYPES
                    THEN "readCost" ELSE AfterCost(from))
  /\ UNCHANGED <<stock, holds, movement, books, folio>>

\* A dispatch without an explicit cost takes the unit cost of its source row.
ReadUnitCost(c) ==
  /\ pc[c] = "readCost"
  /\ \E r \in FindFirst(c, call[c].from) :
       call' = [call EXCEPT ![c].priced = r # None /\ View(c, r).priced]
  /\ Goto(c, "readFrom")
  /\ UNCHANGED <<stock, holds, movement, books, folio>>

\* Mutant: level.quantity without the test for a missing row.
OnHandOrNull(c, r) == IF r = None THEN None ELSE View(c, r).quantity
OnHand(c, r) == IF r = None THEN 0 ELSE View(c, r).quantity

ReadFromQty(c) ==
  /\ pc[c] = "readFrom"
  /\ \E r \in FindFirst(c, call[c].from) :
       call' = [call EXCEPT ![c].fromQtyBefore = OnHand(c, r)]
  /\ Goto(c, "checkFrom")
  /\ UNCHANGED <<stock, holds, movement, books, folio>>

Available(row) == row.quantity - row.reservedQty

\* The read and the test before a conditional UPDATE, for a movement out of a
\* warehouse and for a reservation.
CheckAvailable(c, next) ==
  \E r \in FindFirst(c, call[c].from) :
    IF r # None /\ Available(View(c, r)) >= call[c].quantity
      THEN /\ call' = [call EXCEPT ![c].level = r]
           /\ Goto(c, next)
           /\ UNCHANGED <<stock, holds, movement, books, folio>>
      ELSE Rollback(c)

CheckFrom(c) == pc[c] = "checkFrom" /\ CheckAvailable(c, "decrement")

\* Mutant: UPDATE WHERE id, trusting the test made before.
AnyOnHand(c, r) == TRUE
\* The WHERE of the UPDATE, evaluated under the row's lock.
EnoughOnHand(c, r) == View(c, r).quantity >= call[c].quantity

\* updateMany WHERE id AND quantity >= q: zero rows make the call fail.
Decrement(c) ==
  LET r == call[c].level
  IN  /\ pc[c] = "decrement"
      /\ Lockable(c, r)
      /\ IF EnoughOnHand(c, r)
           THEN /\ Write(c, r, [View(c, r) EXCEPT !.quantity = @ - call[c].quantity])
                /\ Goto(c, AfterFrom(call[c].to))
                /\ UNCHANGED <<holds, movement, books, folio, call>>
           ELSE Rollback(c)

ReadToQty(c) ==
  /\ pc[c] = "readTo"
  /\ \E r \in FindFirst(c, call[c].to) :
       call' = [call EXCEPT ![c].toQtyBefore = OnHand(c, r)]
  /\ Goto(c, "findTo")
  /\ UNCHANGED <<stock, holds, movement, books, folio>>

FindExisting(c) ==
  /\ pc[c] = "findTo"
  /\ \E r \in FindFirst(c, call[c].to) :
       call' = [call EXCEPT ![c].existing = r]
  /\ Goto(c, "increment")
  /\ UNCHANGED <<stock, holds, movement, books, folio>>

\* Mutant: the sum computed from the quantity read before the lock.
AbsoluteIncrement(c, r) ==
  [View(c, r) EXCEPT !.quantity = call[c].toQtyBefore + call[c].quantity]
Incremented(c, r) ==
  [View(c, r) EXCEPT !.quantity = @ + call[c].quantity,
                     !.priced = @ \/ call[c].priced]

Increment(c) ==
  LET r == call[c].existing
  IN  /\ pc[c] = "increment"
      /\ r # None
      /\ Lockable(c, r)
      /\ Write(c, r, Incremented(c, r))
      /\ Goto(c, "number")
      /\ UNCHANGED <<holds, movement, books, folio, call>>

\* Mutant: the row is inserted empty, for a later increment nobody makes.
EmptyLevel(c) == [warehouse |-> call[c].to, quantity |-> 0,
                  reservedQty |-> 0, priced |-> call[c].priced]
NewLevel(c) == [warehouse |-> call[c].to, quantity |-> call[c].quantity,
                reservedQty |-> 0, priced |-> call[c].priced]

\* The first stock of the product in the warehouse inserts its row.
CreateLevel(c) ==
  /\ pc[c] = "increment"
  /\ call[c].existing = None
  /\ Write(c, c, NewLevel(c))
  /\ Goto(c, "number")
  /\ UNCHANGED <<holds, movement, books, folio, call>>

\* Mutant: the count() + 1 that FolioService replaced.
CountPlusOne == Cardinality({m \in Calls : movement[m] # None}) + 1
NextFolio == folio + 1

\* FolioService.next runs on its own connection: it commits by itself, and a
\* later rollback of the movement does not give the number back.
NextMovementNumber(c) ==
  /\ pc[c] = "number"
  /\ folio' = NextFolio
  /\ call' = [call EXCEPT ![c].number = NextFolio]
  /\ Goto(c, "commitMovement")
  /\ UNCHANGED <<stock, holds, movement, books>>

\* Mutant: the totalCost > 0 test forgotten.
AnyCogs(m) == m.type \in COGS_MOVEMENT_TYPES
HasCogs(m) == m.type \in COGS_MOVEMENT_TYPES /\ m.priced

\* stockMovement.create, which nobody sees before the COMMIT it is taken with.
CommitMovement(c) ==
  LET m == call[c]
  IN  /\ pc[c] = "commitMovement"
      /\ Publish(c)
      /\ movement' = [movement EXCEPT ![c] =
           [type |-> m.type, from |-> m.from, to |-> m.to,
            quantity |-> m.quantity, priced |-> m.priced,
            fromQtyBefore |-> m.fromQtyBefore,
            toQtyBefore |-> m.toQtyBefore, number |-> m.number]]
      /\ Finish(c, IF HasCogs(m) THEN "post" ELSE "done")
      /\ UNCHANGED <<holds, books, folio>>

\* postInventoryIssueCogs, after the transaction.
PostCogs(c) ==
  /\ pc[c] = "post"
  /\ books' = books \cup {c}
  /\ Finish(c, "done")
  /\ UNCHANGED <<stock, holds, movement, folio>>

\* The posting fails, which the handler only logs, or the process dies first.
LoseCogs(c) ==
  /\ pc[c] = "post"
  /\ Finish(c, "done")
  /\ UNCHANGED <<stock, holds, movement, books, folio>>

-----------------------------------------------------------------------------
(* createReservation and releaseReservation.                               *)

CreateReservation(c) ==
  /\ pc[c] = "idle"
  /\ \E w \in Warehouses, q \in Quantities :
       call' = [call EXCEPT ![c] = [NoLocals EXCEPT !.from = w, !.quantity = q]]
  /\ Goto(c, "checkReservable")
  /\ UNCHANGED <<stock, holds, movement, books, folio>>

\* The reservation row inserted here is not visible before CommitReservation.
CheckReservable(c) == pc[c] = "checkReservable" /\ CheckAvailable(c, "hold")

\* Mutant: the plain update that this conditional one replaced.
AnyAvailable(c, r) == TRUE
StillAvailable(c, r) == Available(View(c, r)) >= call[c].quantity

\* UPDATE ... WHERE quantity - reservedQty >= q: zero rows make the call fail.
HoldStock(c) ==
  LET r == call[c].level
  IN  /\ pc[c] = "hold"
      /\ Lockable(c, r)
      /\ IF StillAvailable(c, r)
           THEN /\ Write(c, r, [View(c, r) EXCEPT !.reservedQty = @ + call[c].quantity])
                /\ Goto(c, "commitReservation")
                /\ UNCHANGED <<holds, movement, books, folio, call>>
           ELSE Rollback(c)

CommitReservation(c) ==
  /\ pc[c] = "commitReservation"
  /\ Publish(c)
  /\ reservation' = [reservation EXCEPT ![c] =
       [warehouse |-> call[c].from, quantity |-> call[c].quantity,
        status |-> "ACTIVE"]]
  /\ Finish(c, "done")
  /\ UNCHANGED <<claim, movement, books, folio>>

ReleaseReservation(c) ==
  /\ pc[c] = "idle"
  /\ \E k \in Calls :
       /\ reservation[k] # None
       /\ call' = [call EXCEPT ![c] =
            [NoLocals EXCEPT !.reservation = k,
                             !.from = reservation[k].warehouse,
                             !.quantity = reservation[k].quantity]]
  /\ Goto(c, "claim")
  /\ UNCHANGED <<stock, holds, movement, books, folio>>

\* Mutant: the release that trusted the status it had read.
AnyStatus(k) == TRUE
StillActive(k) == reservation[k].status = "ACTIVE"

\* updateMany WHERE status = ACTIVE: only one release of a reservation wins.
ClaimReservation(c) ==
  LET k == call[c].reservation
  IN  /\ pc[c] = "claim"
      /\ claim[k] \in {None, c}
      /\ IF StillActive(k)
           THEN /\ claim' = [claim EXCEPT ![k] = c]
                /\ Goto(c, "findHeld")
                /\ UNCHANGED <<stock, reservation, movement, books, folio, call>>
           ELSE Rollback(c)

FindHeld(c) ==
  /\ pc[c] = "findHeld"
  /\ \E r \in FindFirst(c, call[c].from) :
       /\ call' = [call EXCEPT ![c].level = r]
       /\ Goto(c, IF r = None THEN "commitRelease" ELSE "drop")
  /\ UNCHANGED <<stock, holds, movement, books, folio>>

Greatest(a, b) == IF a >= b THEN a ELSE b

DropHold(c) ==
  LET r == call[c].level
  IN  /\ pc[c] = "drop"
      /\ Lockable(c, r)
      /\ Write(c, r, [View(c, r) EXCEPT
                        !.reservedQty = Greatest(0, @ - call[c].quantity)])
      /\ Goto(c, "commitRelease")
      /\ UNCHANGED <<holds, movement, books, folio, call>>

CommitRelease(c) ==
  /\ pc[c] = "commitRelease"
  /\ Publish(c)
  /\ reservation' = [reservation EXCEPT ![call[c].reservation].status = "RELEASED"]
  /\ claim' = [claim EXCEPT ![call[c].reservation] = None]
  /\ Finish(c, "done")
  /\ UNCHANGED <<movement, books, folio>>

-----------------------------------------------------------------------------
(* What ends a transaction from outside.                                   *)

\* Prisma's transaction timeout, a lost connection or a restart of the API.
Interrupt(c) == pc[c] \in InTransaction /\ Rollback(c)

\* The transaction whose lock call c waits for, or None.
Blocker(c) ==
  CASE pc[c] \in {"decrement", "hold", "drop"}
         /\ ~Lockable(c, call[c].level)        -> owner[call[c].level]
    [] pc[c] = "increment" /\ call[c].existing # None
         /\ ~Lockable(c, call[c].existing)     -> owner[call[c].existing]
    [] pc[c] = "claim"
         /\ claim[call[c].reservation] \notin {None, c}
                                               -> claim[call[c].reservation]
    [] OTHER                                   -> None

\* PostgreSQL aborts one transaction of a cycle of waiting transactions.
DeadlockVictim(c) ==
  /\ \E S \in SUBSET Calls : /\ c \in S
                             /\ S = {Blocker(d) : d \in S}
  /\ Rollback(c)

\* Every call has ended.
Quiescent == /\ \A c \in Calls : pc[c] = "done"
             /\ UNCHANGED vars

MovementStep(c) ==
  \/ ReadUnitCost(c)
  \/ ReadFromQty(c)
  \/ CheckFrom(c)
  \/ Decrement(c)
  \/ ReadToQty(c)
  \/ FindExisting(c)
  \/ Increment(c)
  \/ CreateLevel(c)
  \/ NextMovementNumber(c)
  \/ CommitMovement(c)
  \/ PostCogs(c)

ReservationStep(c) ==
  \/ CheckReservable(c)
  \/ HoldStock(c)
  \/ CommitReservation(c)
  \/ ClaimReservation(c)
  \/ FindHeld(c)
  \/ DropHold(c)
  \/ CommitRelease(c)

Next ==
  \/ \E c \in Calls :
       \/ CreateStockMovement(c)
       \/ CreateReservation(c)
       \/ ReleaseReservation(c)
       \/ MovementStep(c)
       \/ ReservationStep(c)
       \/ LoseCogs(c)
       \/ Interrupt(c)
       \/ DeadlockVictim(c)
  \/ Quiescent

Spec == Init /\ [][Next]_vars

\* The server keeps running the handlers it started, and PostgreSQL resolves
\* deadlocks.  No request has to arrive and no timeout has to strike.
Fairness == \A c \in Calls : /\ WF_vars(MovementStep(c))
                             /\ WF_vars(ReservationStep(c))
                             /\ WF_vars(DeadlockVictim(c))

FairSpec == Spec /\ Fairness

-----------------------------------------------------------------------------
(* Properties.                                                             *)

Rows(w) == {r \in RowIds : stockLevel[r] # None /\ stockLevel[r].warehouse = w}
OnHandIn(w)   == SumFunction([r \in Rows(w) |-> stockLevel[r].quantity])
ReservedIn(w) == SumFunction([r \in Rows(w) |-> stockLevel[r].reservedQty])
OpeningOf(w)  == IF w \in DOMAIN Opening THEN Opening[w] ELSE 0
EarlierIn(w)  == IF w \in DOMAIN Opening THEN Reserved[w] ELSE 0

Posted == {m \in Calls : movement[m] # None}
Active == {k \in Calls : reservation[k] # None /\ reservation[k].status = "ACTIVE"}

MovedBy(S)  == SumFunction([m \in S |-> movement[m].quantity])
CameIn(w)   == MovedBy({m \in Posted : movement[m].to = w})
WentOut(w)  == MovedBy({m \in Posted : movement[m].from = w})
ActiveIn(w) == {k \in Active : reservation[k].warehouse = w}
HeldIn(w)   == SumFunction([k \in ActiveIn(w) |-> reservation[k].quantity])

\* The variables hold what the tables and the handlers' locals can hold.
TypeOK ==
  /\ stockLevel \in [RowIds -> Row \cup {None}]
  /\ owner \in [RowIds -> Calls \cup {None}]
  /\ draft \in [RowIds -> Row \cup {None}]
  /\ reservation \in [Calls -> Reservation \cup {None}]
  /\ claim \in [Calls -> Calls \cup {None}]
  /\ movement \in [Calls -> Movement \cup {None}]
  /\ books \subseteq Calls
  /\ folio \in Nat
  /\ pc \in [Calls -> InTransaction \cup {"idle", "post", "done"}]
  /\ call \in [Calls -> Locals]

\* No interleaving of movements takes a row below zero, and no interleaving of
\* releases takes its reserved quantity below zero (decrementStockLevel's
\* second test, releaseReservation's GREATEST).
NoOverdraft ==
  \A r \in RowIds : stockLevel[r] # None =>
    stockLevel[r].quantity >= 0 /\ stockLevel[r].reservedQty >= 0

\* The movements explain the stock: in every warehouse the on-hand quantity is
\* the opening quantity plus what came in minus what went out, whatever
\* interleaved, failed or timed out (the transaction of createStockMovement).
MovementsExplainStock ==
  \A w \in Warehouses : OnHandIn(w) = OpeningOf(w) + CameIn(w) - WentOut(w)

\* The reserved quantity of a warehouse is the sum of its active reservations:
\* each is held once and given back once, however releases race
\* (createReservation and releaseReservation).  Twin rows, which two first
\* receipts may insert since their locationId is NULL and never equal, break it:
\* a release may find the other row.
ReservedMatchesActive ==
  \A w \in Warehouses :
    Cardinality(Rows(w)) <= 1 => ReservedIn(w) = EarlierIn(w) + HeldIn(w)

\* Movements never share a number and never carry one the series has not issued
\* (FolioService.next, which movements of different transactions race for).
MovementNumbersUnique ==
  /\ \A m \in Posted : movement[m].number \in 1 .. folio
  /\ \A m, n \in Posted : movement[m].number = movement[n].number => m = n

\* A step that reserves more of a row leaves enough on hand for everything the
\* row has reserved (createReservation's conditional UPDATE).
ReservingNeverOverbooks ==
  [][\A r \in RowIds :
       /\ stockLevel[r] # None
       /\ stockLevel'[r].reservedQty > stockLevel[r].reservedQty
       => stockLevel'[r].reservedQty <= stockLevel'[r].quantity]_vars

\* A movement never takes stock that reservations hold: a step that lowers the
\* quantity of a row leaves at least its reserved quantity (the comment of
\* decrementStockLevel; its WHERE tests the quantity alone).
MovementsLeaveReserved ==
  [][\A r \in RowIds :
       /\ stockLevel[r] # None
       /\ stockLevel'[r].quantity < stockLevel[r].quantity
       => stockLevel'[r].quantity >= stockLevel'[r].reservedQty]_vars

\* The cost of goods sold of a movement reaches the books only after the
\* movement is committed, and only when it has a cost.
BooksOnlyCostedMovements ==
  \A m \in books : /\ m \in Posted
                   /\ movement[m].priced
                   /\ movement[m].type \in COGS_MOVEMENT_TYPES

\* Every call ends: opposite transfers and concurrent reservations may wait for
\* each other's row locks, but nobody waits for ever.
CallsEnd == \A c \in Calls : pc[c] # "idle" ~> pc[c] = "done"

\* The ledger as StockAccount sees it: quantities without costs, and movements
\* without their audit columns.
Account == INSTANCE StockAccount WITH
  level <- [r \in RowIds |->
              IF stockLevel[r] = None THEN None
              ELSE [warehouse   |-> stockLevel[r].warehouse,
                    quantity    |-> stockLevel[r].quantity,
                    reservedQty |-> stockLevel[r].reservedQty]],
  moved <- [m \in Calls |->
              IF movement[m] = None THEN None
              ELSE [from |-> movement[m].from, to |-> movement[m].to,
                    quantity |-> movement[m].quantity]],
  held  <- reservation

\* To everybody else the handlers' transactions are single steps: a movement, a
\* reservation or a release happens whole, at its commit, or not at all.
LedgerIsAccount == Account!Spec

=============================================================================
