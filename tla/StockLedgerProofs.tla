------------------------- MODULE StockLedgerProofs -------------------------
(***************************************************************************)
(* Theorems about StockLedger for every set of calls and warehouses, every *)
(* opening stock and every set of quantities.                              *)
(*                                                                         *)
(* The first part proves type correctness, no overdraft and unique         *)
(* movement numbers.  The second part proves that StockLedger implements   *)
(* StockAccount: a transaction changes nothing anybody else sees before it *)
(* commits, and its commit is one step of the account.  Hence the          *)
(* movements explain the stock and the reservations what is reserved, and  *)
(* the cost of goods sold is booked for committed movements only.          *)
(***************************************************************************)
EXTENDS StockLedger, SumProofs

-----------------------------------------------------------------------------
(* Part 1.  Types, locks, overdraft and numbers.                           *)

SourceSteps == {"readCost", "readFrom", "checkFrom", "decrement"}
TargetSteps == {"readTo", "findTo", "increment"}

\* What the locals of a call hold when its next statement needs them.
LocalsReady(c) ==
  /\ pc[c] \in InTransaction => call[c].quantity \in Quantities
  /\ pc[c] \in MovementSteps => call[c].type \in Types
  /\ pc[c] \in SourceSteps \cup ReservationSteps \cup ReleaseSteps
       => call[c].from \in Warehouses
  /\ pc[c] \in TargetSteps => call[c].to \in Warehouses
  /\ pc[c] \in {"decrement", "hold", "drop"}
       => call[c].level \in RowIds /\ View(c, call[c].level) # None
  /\ pc[c] = "increment" /\ call[c].existing # None
       => call[c].existing \in RowIds /\ View(c, call[c].existing) # None
  /\ pc[c] \in ReleaseSteps
       => /\ call[c].reservation \in Calls
          /\ reservation[call[c].reservation] # None

\* Only running transactions hold locks, a locked row has a draft, and a row is
\* seen by nobody else before the call that inserts it has committed.
LocksHeld ==
  /\ \A r \in RowIds : owner[r] # None => pc[owner[r]] \in InTransaction
  /\ \A r \in RowIds : owner[r] # None <=> draft[r] # None
  /\ \A k \in Calls : stockLevel[k] # None => pc[k] \in {"post", "done"}
  /\ \A k \in Calls : owner[k] \notin {None, k} => stockLevel[k] # None

NonNegative(row) == row # None => row.quantity >= 0 /\ row.reservedQty >= 0

IInv == /\ TypeOK
        /\ \A c \in Calls : LocalsReady(c)
        /\ LocksHeld
        /\ \A r \in RowIds : NonNegative(stockLevel[r]) /\ NonNegative(draft[r])

-----------------------------------------------------------------------------
(* Lemmas about the shapes of a step.                                      *)

\* NoLocals is what a call without a request holds.
LEMMA NoLocalsType == NoLocals \in Locals
  BY ConstantsAssumption DEF NoLocals, Locals

\* What a call sees of a row is a row or nothing, never below zero.
LEMMA ViewType ==
  ASSUME IInv, NEW c \in Calls, NEW r \in RowIds
  PROVE  View(c, r) \in Row \cup {None} /\ NonNegative(View(c, r))
  BY DEF IInv, TypeOK, View

\* What findFirst returns is a visible row, or None.
LEMMA FindFirstType ==
  ASSUME IInv, NEW c \in Calls, NEW w, NEW r \in FindFirst(c, w)
  PROVE  \/ r = None
         \/ r \in RowIds /\ View(c, r) \in Row /\ View(c, r) # None
  BY ViewType DEF FindFirst

\* A step that moves one call on and writes no row keeps IInv, whatever number
\* it draws and whatever reservation it locks.
LEMMA CallStep ==
  ASSUME IInv, NEW c \in Calls, NEW l \in Locals, NEW step,
         UNCHANGED <<stock, reservation, movement, books>>,
         folio' \in Nat, claim' \in [Calls -> Calls \cup {None}],
         call' = [call EXCEPT ![c] = l],
         Goto(c, step),
         step \in InTransaction,
         pc[c] \in InTransaction \cup {"idle"},
         LocalsReady(c)'
  PROVE  IInv'
  <1>1. TypeOK'
    BY DEF IInv, TypeOK, Goto, stock
  <1>2. ASSUME NEW d \in Calls PROVE LocalsReady(d)'
    <2>1. CASE d = c
      BY <2>1
    <2>2. CASE d # c
      <3>1. pc'[d] = pc[d] /\ call'[d] = call[d]
        BY <2>2 DEF IInv, TypeOK, Goto
      <3>2. LocalsReady(d)
        BY DEF IInv
      <3>3. \A r : View(d, r)' = View(d, r)
        BY DEF View, stock
      <3>4. QED
        BY <3>1, <3>2, <3>3 DEF LocalsReady
    <2>3. QED
      BY <2>1, <2>2
  <1>3. LocksHeld'
    <2>1. \A d \in Calls : pc[d] \in InTransaction => pc'[d] \in InTransaction
      BY DEF IInv, TypeOK, Goto
    <2>2. \A d \in Calls : pc[d] \in {"post", "done"} => pc'[d] \in {"post", "done"}
      BY DEF IInv, TypeOK, Goto, InTransaction, MovementSteps,
             ReservationSteps, ReleaseSteps
    <2>3. QED
      BY <2>1, <2>2 DEF IInv, TypeOK, LocksHeld, stock
  <1>4. \A r \in RowIds : NonNegative(stockLevel[r])' /\ NonNegative(draft[r])'
    BY DEF IInv, NonNegative, stock
  <1>5. QED
    BY <1>1, <1>2, <1>3, <1>4 DEF IInv

\* A step that moves one call on and leaves the tables alone keeps IInv.
LEMMA LocalStep ==
  ASSUME IInv, NEW c \in Calls, NEW l \in Locals, NEW step,
         UNCHANGED <<stock, holds, movement, books, folio>>,
         call' = [call EXCEPT ![c] = l],
         Goto(c, step),
         step \in InTransaction,
         pc[c] \in InTransaction \cup {"idle"},
         LocalsReady(c)'
  PROVE  IInv'
  <1>1. UNCHANGED <<stock, reservation, movement, books>>
    BY DEF holds
  <1>2. folio' \in Nat /\ claim' \in [Calls -> Calls \cup {None}]
    BY DEF IInv, TypeOK, holds
  <1>3. QED
    BY <1>1, <1>2, CallStep

\* A call that writes a row it may lock, and goes on inside its transaction,
\* keeps IInv: nobody else sees the draft.
LEMMA WriteStep ==
  ASSUME IInv, NEW c \in Calls, NEW r \in RowIds, NEW row \in Row, NEW step,
         Write(c, r, row), NonNegative(row), Lockable(c, r),
         UNCHANGED <<holds, movement, books, folio, call>>,
         Goto(c, step),
         pc[c] \in InTransaction, step \in InTransaction,
         stockLevel[r] # None \/ r \in {c} \cup Warehouses,
         LocalsReady(c)'
  PROVE  IInv'
  <1>1. row # None
    BY ConstantsAssumption
  <1>2. TypeOK'
    BY DEF IInv, TypeOK, Goto, Write, holds
  <1>3. ASSUME NEW d \in Calls PROVE LocalsReady(d)'
    <2>1. CASE d = c
      BY <2>1
    <2>2. CASE d # c
      <3>1. pc'[d] = pc[d] /\ call'[d] = call[d]
        BY <2>2 DEF IInv, TypeOK, Goto
      <3>2. LocalsReady(d)
        BY DEF IInv
      <3>3. d # None /\ c # None
        BY ConstantsAssumption
      <3>4. \A s \in RowIds : View(d, s)' = View(d, s)
        BY <2>2, <3>3 DEF View, Write, Lockable, IInv, TypeOK
      <3>5. QED
        BY <3>1, <3>2, <3>4 DEF LocalsReady, holds
    <2>3. QED
      BY <2>1, <2>2
  <1>4. LocksHeld'
    <2>1. \A d \in Calls : pc[d] \in InTransaction => pc'[d] \in InTransaction
      BY DEF IInv, TypeOK, Goto
    <2>2. \A d \in Calls : pc[d] \in {"post", "done"} => pc'[d] \in {"post", "done"}
      BY DEF IInv, TypeOK, Goto, InTransaction, MovementSteps,
             ReservationSteps, ReleaseSteps
    <2>3. \A s \in RowIds : owner'[s] # None => pc'[owner'[s]] \in InTransaction
      BY <2>1 DEF IInv, TypeOK, LocksHeld, Write
    <2>4. \A s \in RowIds : owner'[s] # None <=> draft'[s] # None
      BY <1>1, ConstantsAssumption DEF IInv, TypeOK, LocksHeld, Write
    <2>5. \A k \in Calls : stockLevel'[k] # None => pc'[k] \in {"post", "done"}
      BY <2>2 DEF IInv, LocksHeld, Write
    <2>6. \A k \in Calls : owner'[k] \notin {None, k} => stockLevel'[k] # None
      BY ConstantsAssumption DEF IInv, TypeOK, LocksHeld, Write, RowIds
    <2>7. QED
      BY <2>3, <2>4, <2>5, <2>6 DEF LocksHeld
  <1>5. \A s \in RowIds : NonNegative(stockLevel[s])' /\ NonNegative(draft[s])'
    BY DEF IInv, TypeOK, NonNegative, Write
  <1>6. QED
    BY <1>2, <1>3, <1>4, <1>5 DEF IInv

\* A call that ends without publishing anything, dropping its locks, keeps IInv.
LEMMA RollbackStep ==
  ASSUME IInv, NEW c \in Calls, pc[c] \in InTransaction, Rollback(c)
  PROVE  IInv'
  <1>0. c # None
    BY ConstantsAssumption
  <1>1. TypeOK'
    BY NoLocalsType DEF IInv, TypeOK, Rollback, Finish, Goto, Unlocked, Undrafted
  <1>2. ASSUME NEW d \in Calls PROVE LocalsReady(d)'
    <2>1. CASE d = c
      <3>1. pc'[d] = "done"
        BY <2>1 DEF IInv, TypeOK, Rollback, Finish, Goto
      <3>2. QED
        BY <3>1 DEF LocalsReady, InTransaction, MovementSteps, ReservationSteps,
                    ReleaseSteps, SourceSteps, TargetSteps
    <2>2. CASE d # c
      <3>1. pc'[d] = pc[d] /\ call'[d] = call[d]
        BY <2>2 DEF IInv, TypeOK, Rollback, Finish, Goto
      <3>2. LocalsReady(d)
        BY DEF IInv
      <3>3. \A s \in RowIds : View(d, s)' = View(d, s)
        BY <2>2, ConstantsAssumption
           DEF View, Rollback, Unlocked, Undrafted, IInv, TypeOK
      <3>4. QED
        BY <3>1, <3>2, <3>3 DEF LocalsReady, Rollback
    <2>3. QED
      BY <2>1, <2>2
  <1>3. LocksHeld'
    <2>1. pc' = [pc EXCEPT ![c] = "done"] /\ UNCHANGED stockLevel
      BY DEF Rollback, Finish, Goto
    <2>2. \A s \in RowIds : owner'[s] # None => pc'[owner'[s]] \in InTransaction
      BY <1>0, <2>1 DEF IInv, TypeOK, LocksHeld, Rollback, Unlocked
    <2>3. \A s \in RowIds : owner'[s] # None <=> draft'[s] # None
      BY <1>0 DEF IInv, LocksHeld, Rollback, Unlocked, Undrafted
    <2>4. \A k \in Calls : stockLevel'[k] # None => pc'[k] \in {"post", "done"}
      BY <2>1 DEF IInv, TypeOK, LocksHeld
    <2>5. \A k \in Calls : owner'[k] \notin {None, k} => stockLevel'[k] # None
      BY <2>1 DEF IInv, LocksHeld, Rollback, Unlocked, RowIds
    <2>6. QED
      BY <2>2, <2>3, <2>4, <2>5 DEF LocksHeld
  <1>4. \A s \in RowIds : NonNegative(stockLevel[s])' /\ NonNegative(draft[s])'
    BY DEF IInv, NonNegative, Rollback, Undrafted
  <1>5. QED
    BY <1>1, <1>2, <1>3, <1>4 DEF IInv

\* A COMMIT keeps IInv, with whatever rows of the other tables it publishes.
LEMMA PublishStep ==
  ASSUME IInv, NEW c \in Calls, NEW step \in {"post", "done"},
         pc[c] \in InTransaction, Publish(c), Finish(c, step),
         reservation' \in [Calls -> Reservation \cup {None}],
         \A k \in Calls : reservation[k] # None => reservation'[k] # None,
         claim' \in [Calls -> Calls \cup {None}],
         movement' \in [Calls -> Movement \cup {None}],
         UNCHANGED <<books, folio>>
  PROVE  IInv'
  <1>0. c # None
    BY ConstantsAssumption
  <1>p. pc' = [pc EXCEPT ![c] = step]
    BY DEF Finish, Goto
  <1>1. TypeOK'
    BY NoLocalsType DEF IInv, TypeOK, Publish, Finish, Goto, Unlocked, Undrafted
  <1>2. ASSUME NEW d \in Calls PROVE LocalsReady(d)'
    <2>1. CASE d = c
      <3>1. pc'[d] = step
        BY <2>1, <1>p DEF IInv, TypeOK
      <3>2. QED
        BY <3>1 DEF LocalsReady, InTransaction, MovementSteps, ReservationSteps,
                    ReleaseSteps, SourceSteps, TargetSteps
    <2>2. CASE d # c
      <3>1. pc'[d] = pc[d] /\ call'[d] = call[d]
        BY <2>2, <1>p DEF IInv, TypeOK, Finish
      <3>2. LocalsReady(d)
        BY DEF IInv
      <3>3. \A s \in RowIds : View(d, s) # None => View(d, s)' # None
        BY <2>2, <1>0, ConstantsAssumption
           DEF View, Publish, Unlocked, Undrafted, IInv, TypeOK, LocksHeld
      <3>4. QED
        BY <3>1, <3>2, <3>3 DEF LocalsReady
    <2>3. QED
      BY <2>1, <2>2
  <1>3. LocksHeld'
    <2>1. \A s \in RowIds : owner'[s] # None => pc'[owner'[s]] \in InTransaction
      BY <1>0, <1>p DEF IInv, TypeOK, LocksHeld, Publish, Unlocked
    <2>2. \A s \in RowIds : owner'[s] # None <=> draft'[s] # None
      BY <1>0 DEF IInv, LocksHeld, Publish, Unlocked, Undrafted
    <2>3. ASSUME NEW k \in Calls, stockLevel'[k] # None
          PROVE  pc'[k] \in {"post", "done"}
      <3>1. CASE k = c
        BY <3>1, <1>p DEF IInv, TypeOK
      <3>2. CASE k # c
        <4>1. stockLevel[k] # None
          BY <3>2, <2>3, <1>0 DEF IInv, LocksHeld, Publish, RowIds
        <4>2. QED
          BY <3>2, <4>1, <1>p DEF IInv, TypeOK, LocksHeld
      <3>3. QED
        BY <3>1, <3>2
    <2>4. ASSUME NEW k \in Calls, owner'[k] \notin {None, k}
          PROVE  stockLevel'[k] # None
      <3>1. owner[k] \notin {None, k, c}
        BY <2>4, <1>0 DEF Publish, Unlocked, RowIds
      <3>2. QED
        BY <3>1 DEF IInv, LocksHeld, Publish, RowIds
    <2>5. QED
      BY <2>1, <2>2, <2>3, <2>4 DEF LocksHeld
  <1>4. \A s \in RowIds : NonNegative(stockLevel[s])' /\ NonNegative(draft[s])'
    BY DEF IInv, NonNegative, Publish, Undrafted
  <1>5. QED
    BY <1>1, <1>2, <1>3, <1>4 DEF IInv

-----------------------------------------------------------------------------
(* Every action keeps IInv.                                                *)

\* A request that arrives: the locals are set and nothing else changes.
LEMMA SubmitKeepsInv ==
  ASSUME IInv, NEW c \in Calls,
         \/ CreateStockMovement(c)
         \/ CreateReservation(c)
         \/ ReleaseReservation(c)
  PROVE  IInv'
  <1>t. NoLocals \in Locals
    BY NoLocalsType
  <1>1. CASE CreateStockMovement(c)
    <2>1. PICK type \in Types, from \in Warehouses \cup {None},
               to \in Warehouses \cup {None}, q \in Quantities, priced \in UnitCosts :
            /\ type = "TRANSFER" => from # None /\ to # None
            /\ from # None \/ to # None
            /\ call' = [call EXCEPT ![c] =
                 [NoLocals EXCEPT !.type = type, !.from = from, !.to = to,
                                  !.quantity = q, !.priced = priced]]
            /\ Goto(c, IF ~priced /\ from # None /\ type \in COGS_MOVEMENT_TYPES
                         THEN "readCost" ELSE AfterCost(from))
      BY <1>1 DEF CreateStockMovement
    <2> DEFINE l == [NoLocals EXCEPT !.type = type, !.from = from, !.to = to,
                                     !.quantity = q, !.priced = priced]
               step == IF ~priced /\ from # None /\ type \in COGS_MOVEMENT_TYPES
                         THEN "readCost" ELSE AfterCost(from)
    <2>2. l \in Locals
      BY <1>t, ConstantsAssumption DEF Locals
    <2>3. call' = [call EXCEPT ![c] = l]
      BY <2>1 DEF IInv, TypeOK
    <2>4. step \in {"readCost", "readFrom", "readTo"} /\ step \in InTransaction
      BY DEF AfterCost, InTransaction, MovementSteps
    <2>5. pc'[c] = step /\ call'[c] = l
      BY <2>1, <2>3 DEF IInv, TypeOK, Goto
    <2>6. LocalsReady(c)'
      <3>1. /\ call'[c].quantity = q /\ call'[c].type = type
            /\ call'[c].from = from /\ call'[c].to = to
        BY <2>5, <1>t DEF Locals
      <3>2. step = "readTo" => to \in Warehouses
        BY <2>1 DEF AfterCost
      <3>3. step # "readTo" => from \in Warehouses
        BY <2>1 DEF AfterCost
      <3>4. QED
        BY <2>4, <2>5, <3>1, <3>2, <3>3
           DEF LocalsReady, SourceSteps, TargetSteps, ReservationSteps, ReleaseSteps
    <2>7. QED
      BY <1>1, <2>1, <2>2, <2>3, <2>4, <2>6, LocalStep DEF CreateStockMovement
  <1>2. CASE CreateReservation(c)
    <2>1. PICK w \in Warehouses, q \in Quantities :
            call' = [call EXCEPT ![c] = [NoLocals EXCEPT !.from = w, !.quantity = q]]
      BY <1>2 DEF CreateReservation
    <2> DEFINE l == [NoLocals EXCEPT !.from = w, !.quantity = q]
    <2>2. l \in Locals
      BY <1>t DEF Locals
    <2>3. call' = [call EXCEPT ![c] = l]
      BY <2>1 DEF IInv, TypeOK
    <2>4. pc'[c] = "checkReservable" /\ call'[c].quantity = q /\ call'[c].from = w
      BY <1>2, <1>t, <2>3 DEF IInv, TypeOK, Goto, CreateReservation, Locals
    <2>5. LocalsReady(c)'
      BY <2>4 DEF LocalsReady, SourceSteps, TargetSteps, MovementSteps, ReleaseSteps
    <2>6. QED
      BY <1>2, <2>2, <2>3, <2>5, LocalStep
         DEF CreateReservation, InTransaction, ReservationSteps
  <1>3. CASE ReleaseReservation(c)
    <2>1. PICK k \in Calls :
            /\ reservation[k] # None
            /\ call' = [call EXCEPT ![c] =
                 [NoLocals EXCEPT !.reservation = k,
                                  !.from = reservation[k].warehouse,
                                  !.quantity = reservation[k].quantity]]
      BY <1>3 DEF ReleaseReservation
    <2> DEFINE l == [NoLocals EXCEPT !.reservation = k,
                                     !.from = reservation[k].warehouse,
                                     !.quantity = reservation[k].quantity]
    <2>0. reservation[k] \in Reservation
      BY <2>1 DEF IInv, TypeOK
    <2>2. l \in Locals
      BY <1>t, <2>0 DEF Locals, Reservation
    <2>3. call' = [call EXCEPT ![c] = l]
      BY <2>1 DEF IInv, TypeOK
    <2>4. /\ pc'[c] = "claim" /\ call'[c].reservation = k
          /\ call'[c].quantity = reservation[k].quantity
          /\ call'[c].from = reservation[k].warehouse
          /\ reservation' = reservation
      BY <1>3, <1>t, <2>3 DEF IInv, TypeOK, Goto, ReleaseReservation, Locals, holds
    <2>5. LocalsReady(c)'
      BY <2>0, <2>1, <2>4
         DEF LocalsReady, SourceSteps, TargetSteps, MovementSteps, ReservationSteps, Reservation
    <2>6. QED
      BY <1>3, <2>2, <2>3, <2>5, LocalStep
         DEF ReleaseReservation, InTransaction, ReleaseSteps
  <1>4. QED
    BY <1>1, <1>2, <1>3

\* The steps that only read: they change one local and the next statement.
LEMMA ReadKeepsInv ==
  ASSUME IInv, NEW c \in Calls,
         \/ ReadUnitCost(c)
         \/ ReadFromQty(c)
         \/ ReadToQty(c)
         \/ FindExisting(c)
         \/ FindHeld(c)
  PROVE  IInv'
  <1>t. call[c] \in Locals /\ call \in [Calls -> Locals] /\ LocalsReady(c)
    BY DEF IInv, TypeOK
  <1>s. UNCHANGED stock => \A r : View(c, r)' = View(c, r)
    BY DEF stock, View
  <1>1. CASE ReadUnitCost(c)
    <2>1. PICK r \in FindFirst(c, call[c].from) :
            call' = [call EXCEPT ![c].priced = r # None /\ View(c, r).priced]
      BY <1>1 DEF ReadUnitCost
    <2> DEFINE l == [call[c] EXCEPT !.priced = r # None /\ View(c, r).priced]
    <2>2. (r # None /\ View(c, r).priced) \in BOOLEAN
      OBVIOUS
    <2>3. l \in Locals
      BY <1>t, <2>2 DEF Locals
    <2>4. call' = [call EXCEPT ![c] = l]
      BY <1>t, <2>1
    <2>5. /\ pc[c] = "readCost" /\ pc'[c] = "readFrom"
          /\ call'[c].quantity = call[c].quantity /\ call'[c].type = call[c].type
          /\ call'[c].from = call[c].from
      BY <1>1, <1>t, <2>4 DEF IInv, TypeOK, Goto, ReadUnitCost, Locals
    <2>6. LocalsReady(c)'
      BY <1>t, <2>5 DEF LocalsReady, SourceSteps, TargetSteps, MovementSteps,
                        ReservationSteps, ReleaseSteps, InTransaction
    <2>7. QED
      BY <1>1, <2>3, <2>4, <2>6, LocalStep DEF ReadUnitCost, InTransaction, MovementSteps
  <1>2. CASE ReadFromQty(c)
    <2>1. PICK r \in FindFirst(c, call[c].from) :
            call' = [call EXCEPT ![c].fromQtyBefore = OnHand(c, r)]
      BY <1>2 DEF ReadFromQty
    <2> DEFINE l == [call[c] EXCEPT !.fromQtyBefore = OnHand(c, r)]
    <2>2. OnHand(c, r) \in Int
      BY FindFirstType DEF OnHand, Row
    <2>3. l \in Locals
      BY <1>t, <2>2 DEF Locals
    <2>4. call' = [call EXCEPT ![c] = l]
      BY <1>t, <2>1
    <2>5. /\ pc[c] = "readFrom" /\ pc'[c] = "checkFrom"
          /\ call'[c].quantity = call[c].quantity /\ call'[c].type = call[c].type
          /\ call'[c].from = call[c].from
      BY <1>2, <1>t, <2>4 DEF IInv, TypeOK, Goto, ReadFromQty, Locals
    <2>6. LocalsReady(c)'
      BY <1>t, <2>5 DEF LocalsReady, SourceSteps, TargetSteps, MovementSteps,
                        ReservationSteps, ReleaseSteps, InTransaction
    <2>7. QED
      BY <1>2, <2>3, <2>4, <2>6, LocalStep DEF ReadFromQty, InTransaction, MovementSteps
  <1>3. CASE ReadToQty(c)
    <2>1. PICK r \in FindFirst(c, call[c].to) :
            call' = [call EXCEPT ![c].toQtyBefore = OnHand(c, r)]
      BY <1>3 DEF ReadToQty
    <2> DEFINE l == [call[c] EXCEPT !.toQtyBefore = OnHand(c, r)]
    <2>2. OnHand(c, r) \in Int
      BY FindFirstType DEF OnHand, Row
    <2>3. l \in Locals
      BY <1>t, <2>2 DEF Locals
    <2>4. call' = [call EXCEPT ![c] = l]
      BY <1>t, <2>1
    <2>5. /\ pc[c] = "readTo" /\ pc'[c] = "findTo"
          /\ call'[c].quantity = call[c].quantity /\ call'[c].type = call[c].type
          /\ call'[c].to = call[c].to
      BY <1>3, <1>t, <2>4 DEF IInv, TypeOK, Goto, ReadToQty, Locals
    <2>6. LocalsReady(c)'
      BY <1>t, <2>5 DEF LocalsReady, SourceSteps, TargetSteps, MovementSteps,
                        ReservationSteps, ReleaseSteps, InTransaction
    <2>7. QED
      BY <1>3, <2>3, <2>4, <2>6, LocalStep DEF ReadToQty, InTransaction, MovementSteps
  <1>4. CASE FindExisting(c)
    <2>1. PICK r \in FindFirst(c, call[c].to) :
            call' = [call EXCEPT ![c].existing = r]
      BY <1>4 DEF FindExisting
    <2> DEFINE l == [call[c] EXCEPT !.existing = r]
    <2>2. r \in RowIds \cup {None} /\ (r # None => View(c, r) # None)
      BY FindFirstType
    <2>3. l \in Locals
      BY <1>t, <2>2 DEF Locals
    <2>4. call' = [call EXCEPT ![c] = l]
      BY <1>t, <2>1
    <2>5. /\ pc[c] = "findTo" /\ pc'[c] = "increment"
          /\ call'[c].quantity = call[c].quantity /\ call'[c].type = call[c].type
          /\ call'[c].to = call[c].to /\ call'[c].existing = r
          /\ UNCHANGED stock
      BY <1>4, <1>t, <2>4 DEF IInv, TypeOK, Goto, FindExisting, Locals
    <2>6. LocalsReady(c)'
      BY <1>t, <1>s, <2>2, <2>5
         DEF LocalsReady, SourceSteps, TargetSteps, MovementSteps,
             ReservationSteps, ReleaseSteps, InTransaction
    <2>7. QED
      BY <1>4, <2>3, <2>4, <2>6, LocalStep DEF FindExisting, InTransaction, MovementSteps
  <1>5. CASE FindHeld(c)
    <2>1. PICK r \in FindFirst(c, call[c].from) :
            /\ call' = [call EXCEPT ![c].level = r]
            /\ Goto(c, IF r = None THEN "commitRelease" ELSE "drop")
      BY <1>5 DEF FindHeld
    <2> DEFINE l == [call[c] EXCEPT !.level = r]
               step == IF r = None THEN "commitRelease" ELSE "drop"
    <2>2. r \in RowIds \cup {None} /\ (r # None => View(c, r) # None)
      BY FindFirstType
    <2>3. l \in Locals
      BY <1>t, <2>2 DEF Locals
    <2>4. call' = [call EXCEPT ![c] = l]
      BY <1>t, <2>1
    <2>5. /\ pc[c] = "findHeld" /\ pc'[c] = step
          /\ call'[c].quantity = call[c].quantity /\ call'[c].from = call[c].from
          /\ call'[c].reservation = call[c].reservation /\ call'[c].level = r
          /\ UNCHANGED stock /\ UNCHANGED holds
      BY <1>5, <1>t, <2>1, <2>4 DEF IInv, TypeOK, Goto, FindHeld, Locals
    <2>6. LocalsReady(c)'
      BY <1>t, <1>s, <2>2, <2>5
         DEF LocalsReady, SourceSteps, TargetSteps, MovementSteps,
             ReservationSteps, ReleaseSteps, InTransaction, holds
    <2>7. QED
      BY <1>5, <2>1, <2>3, <2>4, <2>6, LocalStep DEF FindHeld, InTransaction, ReleaseSteps
  <1>6. QED
    BY <1>1, <1>2, <1>3, <1>4, <1>5

\* The test before a conditional UPDATE either goes on to it or fails the call.
LEMMA CheckKeepsInv ==
  ASSUME IInv, NEW c \in Calls, CheckFrom(c) \/ CheckReservable(c)
  PROVE  IInv'
  <1>t. call[c] \in Locals /\ call \in [Calls -> Locals] /\ LocalsReady(c)
    BY DEF IInv, TypeOK
  <1>1. PICK next \in {"decrement", "hold"} :
          /\ CheckAvailable(c, next)
          /\ \/ pc[c] = "checkFrom" /\ next = "decrement"
             \/ pc[c] = "checkReservable" /\ next = "hold"
    BY DEF CheckFrom, CheckReservable
  <1>2. PICK r \in FindFirst(c, call[c].from) :
          \/ /\ r # None
             /\ call' = [call EXCEPT ![c].level = r]
             /\ Goto(c, next)
             /\ UNCHANGED <<stock, holds, movement, books, folio>>
          \/ Rollback(c)
    BY <1>1 DEF CheckAvailable
  <1>3. pc[c] \in InTransaction
    BY <1>1 DEF InTransaction, MovementSteps, ReservationSteps
  <1>4. CASE Rollback(c)
    BY <1>3, <1>4, RollbackStep
  <1>5. CASE /\ r # None
             /\ call' = [call EXCEPT ![c].level = r]
             /\ Goto(c, next)
             /\ UNCHANGED <<stock, holds, movement, books, folio>>
    <2> DEFINE l == [call[c] EXCEPT !.level = r]
    <2>1. r \in RowIds /\ View(c, r) # None
      BY <1>5, FindFirstType
    <2>2. l \in Locals
      BY <1>t, <2>1 DEF Locals
    <2>3. call' = [call EXCEPT ![c] = l]
      BY <1>t, <1>5
    <2>4. /\ pc'[c] = next
          /\ call'[c].quantity = call[c].quantity /\ call'[c].from = call[c].from
          /\ call'[c].type = call[c].type /\ call'[c].level = r
      BY <1>5, <1>t, <2>3 DEF IInv, TypeOK, Goto, Locals
    <2>5. View(c, r)' = View(c, r)
      BY <1>5 DEF View, stock
    <2>6. LocalsReady(c)'
      BY <1>t, <1>1, <2>1, <2>4, <2>5
         DEF LocalsReady, SourceSteps, TargetSteps, MovementSteps,
             ReservationSteps, ReleaseSteps, InTransaction
    <2>7. QED
      BY <1>3, <1>5, <2>2, <2>3, <2>6, LocalStep
         DEF InTransaction, MovementSteps, ReservationSteps
  <1>6. QED
    BY <1>2, <1>4, <1>5

\* The steps that write a row, insert one, or fail on the WHERE of an UPDATE.
LEMMA WriteKeepsInv ==
  ASSUME IInv, NEW c \in Calls,
         \/ Decrement(c)
         \/ Increment(c)
         \/ CreateLevel(c)
         \/ HoldStock(c)
         \/ DropHold(c)
  PROVE  IInv'
  <1> DEFINE l == call[c]
  <1>t. l \in Locals /\ LocalsReady(c) /\ pc \in [Calls -> InTransaction \cup {"idle", "post", "done"}]
    BY DEF IInv, TypeOK
  <1>q. pc[c] \in InTransaction => l.quantity \in Nat
    BY <1>t, ConstantsAssumption DEF LocalsReady
  <1>b. ASSUME NEW r \in RowIds, View(c, r) # None, Lockable(c, r)
        PROVE  stockLevel[r] # None \/ r \in {c} \cup Warehouses
    BY <1>b, ConstantsAssumption DEF View, IInv, LocksHeld, RowIds, Lockable
  <1>1. CASE Decrement(c)
    <2> DEFINE r == l.level
               row == [View(c, r) EXCEPT !.quantity = @ - l.quantity]
    <2>1. pc[c] = "decrement" /\ pc[c] \in InTransaction /\ Lockable(c, r)
      BY <1>1 DEF Decrement, InTransaction, MovementSteps
    <2>2. r \in RowIds /\ View(c, r) \in Row /\ View(c, r) # None /\ NonNegative(View(c, r))
      BY <1>t, <2>1, ViewType DEF LocalsReady
    <2>3. CASE Rollback(c)
      BY <2>1, <2>3, RollbackStep
    <2>4. CASE ~Rollback(c)
      <3>1. /\ EnoughOnHand(c, r) /\ Write(c, r, row) /\ Goto(c, AfterFrom(l.to))
            /\ UNCHANGED <<holds, movement, books, folio, call>>
        BY <1>1, <2>4 DEF Decrement
      <3>2. row \in Row /\ NonNegative(row) /\ row # None
        BY <1>q, <2>1, <2>2, <3>1, ConstantsAssumption DEF Row, EnoughOnHand, NonNegative
      <3>3. /\ pc'[c] = AfterFrom(l.to) /\ AfterFrom(l.to) \in {"readTo", "number"}
            /\ (AfterFrom(l.to) = "readTo" => l.to \in Warehouses)
        BY <1>t, <3>1 DEF Goto, AfterFrom, Locals
      <3>4. LocalsReady(c)'
        BY <1>t, <2>1, <3>1, <3>3
           DEF LocalsReady, SourceSteps, TargetSteps, MovementSteps,
               ReservationSteps, ReleaseSteps, InTransaction
      <3>5. QED
        BY <1>b, <2>1, <2>2, <3>1, <3>2, <3>3, <3>4, WriteStep
           DEF InTransaction, MovementSteps
    <2>5. QED
      BY <2>3, <2>4
  <1>2. CASE Increment(c)
    <2> DEFINE r == l.existing
    <2>1. /\ pc[c] = "increment" /\ pc[c] \in InTransaction /\ r # None
          /\ Lockable(c, r) /\ Write(c, r, Incremented(c, r)) /\ Goto(c, "number")
          /\ UNCHANGED <<holds, movement, books, folio, call>>
      BY <1>2 DEF Increment, InTransaction, MovementSteps
    <2>2. r \in RowIds /\ View(c, r) \in Row /\ View(c, r) # None /\ NonNegative(View(c, r))
      BY <1>t, <2>1, ViewType DEF LocalsReady
    <2>3. Incremented(c, r) \in Row /\ NonNegative(Incremented(c, r))
      <3> DEFINE p == View(c, r).priced \/ l.priced
                 row(x) == [View(c, r) EXCEPT !.quantity = @ + l.quantity, !.priced = x]
      <3>1. p \in BOOLEAN
        OBVIOUS
      <3>2. Incremented(c, r) = row(p)
        BY DEF Incremented
      <3>3. ASSUME NEW x \in BOOLEAN PROVE row(x) \in Row /\ NonNegative(row(x))
        <4> DEFINE v == View(c, r)
        <4>1. l.quantity \in Nat /\ v \in Row /\ v # None /\ NonNegative(v)
          BY <1>q, <2>1, <2>2
        <4> HIDE DEF v
        <4>2. /\ [v EXCEPT !.quantity = @ + l.quantity] \in Row
              /\ [v EXCEPT !.quantity = @ + l.quantity].quantity >= 0
              /\ [v EXCEPT !.quantity = @ + l.quantity].reservedQty >= 0
          BY <4>1 DEF Row, NonNegative
        <4>3. ASSUME NEW w \in Row, w.quantity >= 0, w.reservedQty >= 0
              PROVE  /\ [w EXCEPT !.priced = x] \in Row
                     /\ NonNegative([w EXCEPT !.priced = x])
          BY <4>3 DEF Row, NonNegative
        <4>4. QED
          BY <4>2, <4>3 DEF v
      <3>4. row(p) \in Row /\ NonNegative(row(p))
        <4> HIDE DEF p
        <4> QED BY <3>1, <3>3
      <3>5. QED
        BY <3>2, <3>4, Zenon
    <2>4. pc'[c] = "number"
      BY <1>t, <2>1 DEF Goto
    <2>5. LocalsReady(c)'
      BY <1>t, <2>1, <2>4
         DEF LocalsReady, SourceSteps, TargetSteps, MovementSteps,
             ReservationSteps, ReleaseSteps, InTransaction
    <2>6. QED
      BY <1>b, <2>1, <2>2, <2>3, <2>5, WriteStep DEF InTransaction, MovementSteps
  <1>3. CASE CreateLevel(c)
    <2>1. /\ pc[c] = "increment" /\ pc[c] \in InTransaction
          /\ Write(c, c, NewLevel(c)) /\ Goto(c, "number")
          /\ UNCHANGED <<holds, movement, books, folio, call>>
      BY <1>3 DEF CreateLevel, InTransaction, MovementSteps
    <2>2. NewLevel(c) \in Row /\ NonNegative(NewLevel(c))
      BY <1>t, <1>q, <2>1 DEF Row, NewLevel, NonNegative, LocalsReady, TargetSteps, Locals
    <2>3. c \in RowIds /\ Lockable(c, c)
      BY <2>1 DEF RowIds, Lockable, IInv, LocksHeld, InTransaction, MovementSteps
    <2>4. pc'[c] = "number"
      BY <1>t, <2>1 DEF Goto
    <2>5. LocalsReady(c)'
      BY <1>t, <2>1, <2>4
         DEF LocalsReady, SourceSteps, TargetSteps, MovementSteps,
             ReservationSteps, ReleaseSteps, InTransaction
    <2>6. QED
      BY <2>1, <2>2, <2>3, <2>5, WriteStep DEF InTransaction, MovementSteps
  <1>4. CASE HoldStock(c)
    <2> DEFINE r == l.level
               row == [View(c, r) EXCEPT !.reservedQty = @ + l.quantity]
    <2>1. pc[c] = "hold" /\ pc[c] \in InTransaction /\ Lockable(c, r)
      BY <1>4 DEF HoldStock, InTransaction, ReservationSteps
    <2>2. r \in RowIds /\ View(c, r) \in Row /\ View(c, r) # None /\ NonNegative(View(c, r))
      BY <1>t, <2>1, ViewType DEF LocalsReady
    <2>3. CASE Rollback(c)
      BY <2>1, <2>3, RollbackStep
    <2>4. CASE ~Rollback(c)
      <3>1. /\ Write(c, r, row) /\ Goto(c, "commitReservation")
            /\ UNCHANGED <<holds, movement, books, folio, call>>
        BY <1>4, <2>4 DEF HoldStock
      <3>2. row \in Row /\ NonNegative(row)
        BY <1>q, <2>1, <2>2 DEF Row, NonNegative
      <3>3. pc'[c] = "commitReservation"
        BY <1>t, <3>1 DEF Goto
      <3>4. LocalsReady(c)'
        BY <1>t, <2>1, <3>1, <3>3
           DEF LocalsReady, SourceSteps, TargetSteps, MovementSteps,
               ReservationSteps, ReleaseSteps, InTransaction
      <3>5. QED
        BY <1>b, <2>1, <2>2, <3>1, <3>2, <3>4, WriteStep
           DEF InTransaction, ReservationSteps
    <2>5. QED
      BY <2>3, <2>4
  <1>5. CASE DropHold(c)
    <2> DEFINE r == l.level
               row == [View(c, r) EXCEPT !.reservedQty = Greatest(0, @ - l.quantity)]
    <2>1. /\ pc[c] = "drop" /\ pc[c] \in InTransaction /\ Lockable(c, r)
          /\ Write(c, r, row) /\ Goto(c, "commitRelease")
          /\ UNCHANGED <<holds, movement, books, folio, call>>
      BY <1>5 DEF DropHold, InTransaction, ReleaseSteps
    <2>2. r \in RowIds /\ View(c, r) \in Row /\ View(c, r) # None /\ NonNegative(View(c, r))
      BY <1>t, <2>1, ViewType DEF LocalsReady
    <2>3. row \in Row /\ NonNegative(row)
      BY <1>q, <2>1, <2>2 DEF Row, NonNegative, Greatest
    <2>4. pc'[c] = "commitRelease"
      BY <1>t, <2>1 DEF Goto
    <2>5. LocalsReady(c)'
      BY <1>t, <2>1, <2>4
         DEF LocalsReady, SourceSteps, TargetSteps, MovementSteps,
             ReservationSteps, ReleaseSteps, InTransaction, holds
    <2>6. QED
      BY <1>b, <2>1, <2>2, <2>3, <2>5, WriteStep DEF InTransaction, ReleaseSteps
  <1>6. QED
    BY <1>1, <1>2, <1>3, <1>4, <1>5

\* The movement and the reservation that a COMMIT publishes, and the steps that
\* draw a number, lock a reservation or post to the books.
LEMMA FinishKeepsInv ==
  ASSUME IInv, NEW c \in Calls,
         \/ NextMovementNumber(c)
         \/ CommitMovement(c)
         \/ PostCogs(c)
         \/ LoseCogs(c)
         \/ CommitReservation(c)
         \/ ClaimReservation(c)
         \/ CommitRelease(c)
  PROVE  IInv'
  <1>t. call[c] \in Locals /\ call \in [Calls -> Locals] /\ LocalsReady(c)
    BY DEF IInv, TypeOK
  <1>1. CASE NextMovementNumber(c)
    <2> DEFINE l == [call[c] EXCEPT !.number = NextFolio]
    <2>1. NextFolio \in Nat
      BY DEF IInv, TypeOK, NextFolio
    <2>2. l \in Locals
      BY <1>t, <2>1 DEF Locals
    <2>3. call' = [call EXCEPT ![c] = l]
      BY <1>1, <1>t DEF NextMovementNumber
    <2>4. /\ pc[c] = "number" /\ pc'[c] = "commitMovement"
          /\ call'[c].quantity = call[c].quantity /\ call'[c].type = call[c].type
      BY <1>1, <1>t, <2>3 DEF IInv, TypeOK, Goto, NextMovementNumber, Locals
    <2>5. LocalsReady(c)'
      BY <1>t, <2>4 DEF LocalsReady, SourceSteps, TargetSteps, MovementSteps,
                        ReservationSteps, ReleaseSteps, InTransaction
    <2>6. /\ UNCHANGED <<stock, reservation, movement, books>> /\ folio' \in Nat
          /\ claim' \in [Calls -> Calls \cup {None}] /\ Goto(c, "commitMovement")
      BY <1>1, <2>1 DEF IInv, TypeOK, NextMovementNumber, holds
    <2>7. QED
      BY <2>2, <2>3, <2>4, <2>5, <2>6, CallStep DEF InTransaction, MovementSteps
  <1>2. CASE CommitMovement(c)
    <2> DEFINE m == [type |-> call[c].type, from |-> call[c].from,
                     to |-> call[c].to, quantity |-> call[c].quantity,
                     priced |-> call[c].priced,
                     fromQtyBefore |-> call[c].fromQtyBefore,
                     toQtyBefore |-> call[c].toQtyBefore,
                     number |-> call[c].number]
    <2>1. pc[c] = "commitMovement" /\ pc[c] \in MovementSteps /\ pc[c] \in InTransaction
      BY <1>2 DEF CommitMovement, InTransaction, MovementSteps
    <2>2. m \in Movement
      BY <1>t, <2>1 DEF LocalsReady, Locals, Movement
    <2>3. movement' \in [Calls -> Movement \cup {None}]
      BY <1>2, <2>2 DEF IInv, TypeOK, CommitMovement
    <2>4. UNCHANGED <<reservation, claim, books, folio>>
      BY <1>2 DEF CommitMovement, holds
    <2>5. PICK step \in {"post", "done"} : Finish(c, step)
      BY <1>2 DEF CommitMovement
    <2>6. QED
      BY <1>2, <2>1, <2>3, <2>4, <2>5, PublishStep DEF CommitMovement, IInv, TypeOK
  <1>3. CASE PostCogs(c) \/ LoseCogs(c)
    <2>1. /\ UNCHANGED <<stock, holds, movement, folio>> /\ books' \subseteq Calls
          /\ pc[c] = "post" /\ pc' = [pc EXCEPT ![c] = "done"]
          /\ call' = [call EXCEPT ![c] = NoLocals]
      BY <1>3 DEF IInv, TypeOK, PostCogs, LoseCogs, Finish, Goto
    <2>2. TypeOK'
      BY <2>1, NoLocalsType DEF IInv, TypeOK, stock, holds
    <2>3. ASSUME NEW d \in Calls PROVE LocalsReady(d)'
      <3>1. \A r : View(d, r)' = View(d, r)
        BY <2>1 DEF View, stock
      <3>2. LocalsReady(d)
        BY DEF IInv
      <3>3. CASE d = c
        <4>1. pc'[d] = "done"
          BY <2>1, <3>3 DEF IInv, TypeOK
        <4>2. QED
          BY <4>1 DEF LocalsReady, InTransaction, MovementSteps, ReservationSteps,
                      ReleaseSteps, SourceSteps, TargetSteps
      <3>4. CASE d # c
        <4>1. pc'[d] = pc[d] /\ call'[d] = call[d]
          BY <2>1, <3>4 DEF IInv, TypeOK
        <4>2. QED
          BY <2>1, <3>1, <3>2, <4>1 DEF LocalsReady, holds
      <3>5. QED
        BY <3>3, <3>4
    <2>4. LocksHeld'
      BY <2>1 DEF IInv, TypeOK, LocksHeld, stock, InTransaction, MovementSteps,
                  ReservationSteps, ReleaseSteps
    <2>5. QED
      BY <2>1, <2>2, <2>3, <2>4 DEF IInv, NonNegative, stock
  <1>4. CASE CommitReservation(c)
    <2>1. pc[c] = "commitReservation" /\ pc[c] \in InTransaction
      BY <1>4 DEF CommitReservation, InTransaction, ReservationSteps
    <2> DEFINE k == [warehouse |-> call[c].from, quantity |-> call[c].quantity,
                     status |-> "ACTIVE"]
    <2>2. k \in Reservation
      BY <1>t, <2>1 DEF LocalsReady, Reservation, ReservationSteps, InTransaction
    <2>n. k # None
      BY <2>2, ConstantsAssumption
    <2>3. reservation' = [reservation EXCEPT ![c] = k]
      BY <1>4 DEF CommitReservation
    <2>4. reservation' \in [Calls -> Reservation \cup {None}]
      BY <2>2, <2>3 DEF IInv, TypeOK
    <2>5. \A j \in Calls : reservation[j] # None => reservation'[j] # None
      BY <2>n, <2>3 DEF IInv, TypeOK
    <2>6. QED
      BY <1>4, <2>1, <2>4, <2>5, PublishStep DEF CommitReservation, IInv, TypeOK
  <1>5. CASE ClaimReservation(c)
    <2> DEFINE k == call[c].reservation
    <2>1. pc[c] = "claim" /\ pc[c] \in InTransaction
      BY <1>5 DEF ClaimReservation, InTransaction, ReleaseSteps
    <2>2. CASE Rollback(c)
      BY <2>1, <2>2, RollbackStep
    <2>3. CASE ~Rollback(c)
      <3>1. /\ claim' = [claim EXCEPT ![k] = c] /\ Goto(c, "findHeld")
            /\ UNCHANGED <<stock, reservation, movement, books, folio, call>>
        BY <1>5, <2>3 DEF ClaimReservation
      <3>2. /\ claim' \in [Calls -> Calls \cup {None}] /\ folio' \in Nat
            /\ call' = [call EXCEPT ![c] = call[c]]
        BY <1>t, <3>1 DEF IInv, TypeOK
      <3>3. pc'[c] = "findHeld"
        BY <3>1 DEF IInv, TypeOK, Goto
      <3>4. LocalsReady(c)'
        BY <1>t, <2>1, <3>1, <3>3
           DEF LocalsReady, SourceSteps, TargetSteps, MovementSteps,
               ReservationSteps, ReleaseSteps, InTransaction
      <3>5. QED
        BY <1>t, <2>1, <3>1, <3>2, <3>4, CallStep DEF InTransaction, ReleaseSteps
    <2>4. QED
      BY <2>2, <2>3
  <1>6. CASE CommitRelease(c)
    <2> DEFINE k == call[c].reservation
    <2>1. pc[c] = "commitRelease" /\ pc[c] \in InTransaction
      BY <1>6 DEF CommitRelease, InTransaction, ReleaseSteps
    <2>2. k \in Calls /\ reservation[k] # None
      BY <1>t, <2>1 DEF LocalsReady, ReleaseSteps
    <2>3. reservation[k] \in Reservation
      BY <2>2 DEF IInv, TypeOK
    <2>4. reservation' = [reservation EXCEPT ![k] = [@ EXCEPT !.status = "RELEASED"]]
      BY <1>6 DEF CommitRelease
    <2>5. [reservation[k] EXCEPT !.status = "RELEASED"] \in Reservation
      BY <2>3 DEF Reservation
    <2>6. [reservation[k] EXCEPT !.status = "RELEASED"] # None
      BY <2>5, ConstantsAssumption
    <2>7. reservation' \in [Calls -> Reservation \cup {None}]
      BY <2>4, <2>5 DEF IInv, TypeOK
    <2>8. \A j \in Calls : reservation[j] # None => reservation'[j] # None
      BY <2>2, <2>4, <2>6 DEF IInv, TypeOK
    <2>9. claim' \in [Calls -> Calls \cup {None}]
      BY <1>6 DEF CommitRelease, IInv, TypeOK
    <2>10. QED
      BY <1>6, <2>1, <2>7, <2>8, <2>9, PublishStep DEF CommitRelease, IInv, TypeOK
  <1>7. QED
    BY <1>1, <1>2, <1>3, <1>4, <1>5, <1>6

-----------------------------------------------------------------------------
(* The theorems.                                                           *)

\* The initial tables are rows, nobody holds a lock, and nothing runs.
LEMMA InitIInv == Init => IInv
  <1> SUFFICES ASSUME Init PROVE IInv
    OBVIOUS
  <1>1. \A r \in RowIds : stockLevel[r] # None =>
          /\ stockLevel[r].quantity >= 0
          /\ stockLevel[r].reservedQty >= 0
          /\ r \in Warehouses
    BY ConstantsAssumption DEF Init, RowIds
  <1>2. stockLevel \in [RowIds -> Row \cup {None}]
    BY ConstantsAssumption DEF Init, RowIds, Row
  <1>3. TypeOK
    BY <1>2, NoLocalsType DEF Init, TypeOK
  <1>4. \A c \in Calls : LocalsReady(c)
    BY DEF Init, LocalsReady, InTransaction, MovementSteps, ReservationSteps,
           ReleaseSteps, SourceSteps, TargetSteps
  <1>5. LocksHeld
    BY <1>1, ConstantsAssumption DEF Init, LocksHeld, RowIds
  <1>6. \A r \in RowIds : NonNegative(stockLevel[r]) /\ NonNegative(draft[r])
    BY <1>1 DEF Init, NonNegative
  <1>7. QED
    BY <1>3, <1>4, <1>5, <1>6 DEF IInv

\* A call that the API or PostgreSQL interrupts is inside its transaction.
LEMMA InterruptedInTransaction ==
  ASSUME NEW c \in Calls, Interrupt(c) \/ DeadlockVictim(c)
  PROVE  pc[c] \in InTransaction /\ Rollback(c)
  <1>1. CASE Interrupt(c)
    BY <1>1 DEF Interrupt
  <1>2. CASE DeadlockVictim(c)
    <2>1. PICK S \in SUBSET Calls : c \in S /\ S = {Blocker(d) : d \in S}
      BY <1>2 DEF DeadlockVictim
    <2>2. \E e \in S : Blocker(c) = e
      BY <2>1
    <2>3. Blocker(c) # None
      BY <2>1, <2>2, ConstantsAssumption
    <2>4. QED
      BY <1>2, <2>3
         DEF DeadlockVictim, Blocker, InTransaction, MovementSteps, ReservationSteps, ReleaseSteps
  <1>3. QED
    BY <1>1, <1>2

\* Every step of Next is one of the steps above, a rollback or a stutter.
LEMMA NextIInv == IInv /\ [Next]_vars => IInv'
  <1> SUFFICES ASSUME IInv, [Next]_vars PROVE IInv'
    OBVIOUS
  <1>1. CASE UNCHANGED vars
    <2>1. \A c, r : View(c, r)' = View(c, r)
      BY <1>1 DEF View, vars
    <2>2. \A c \in Calls : LocalsReady(c)'
      BY <1>1, <2>1 DEF IInv, LocalsReady, vars
    <2>3. QED
      BY <1>1, <2>2 DEF IInv, TypeOK, LocksHeld, NonNegative, vars
  <1>2. ASSUME NEW c \in Calls, Interrupt(c) \/ DeadlockVictim(c)
        PROVE  IInv'
    BY <1>2, InterruptedInTransaction, RollbackStep
  <1>3. ASSUME NEW c \in Calls, MovementStep(c) \/ ReservationStep(c)
        PROVE  IInv'
    BY <1>3, ReadKeepsInv, CheckKeepsInv, WriteKeepsInv, FinishKeepsInv
       DEF MovementStep, ReservationStep
  <1>4. QED
    BY <1>1, <1>2, <1>3, SubmitKeepsInv, FinishKeepsInv DEF Next, Quiescent

\* IInv is an invariant: it holds at the start and every step keeps it.
THEOREM InductiveInvariant == Spec => []IInv
  <1>1. QED
    BY InitIInv, NextIInv, PTL DEF Spec

\* The tables and the locals always hold values of their types, whatever the
\* interleaving of the handlers of WarehouseService.
THEOREM TypeCorrect == Spec => []TypeOK
  <1>1. IInv => TypeOK
    BY DEF IInv
  <1>2. QED
    BY <1>1, InductiveInvariant, PTL

\* No row ever goes below zero, in quantity or in reserved quantity: the second
\* test of decrementStockLevel and the GREATEST of releaseReservation suffice.
THEOREM NeverOverdrawn == Spec => []NoOverdraft
  <1>1. IInv => NoOverdraft
    BY DEF IInv, NoOverdraft, NonNegative
  <1>2. QED
    BY <1>1, InductiveInvariant, PTL

-----------------------------------------------------------------------------
(* Movement numbers.                                                       *)

\* The number a call has drawn and committed, or drawn and not yet committed.
NumberOf(c) == IF movement[c] # None THEN movement[c].number
               ELSE IF pc[c] = "commitMovement" THEN call[c].number
               ELSE 0

\* A committed movement has a number, drawn numbers are the ones the counter has
\* issued, and no two calls have drawn the same.
NumbersInv ==
  /\ \A m \in Calls : movement[m] # None =>
       pc[m] \in {"post", "done"} /\ movement[m].number > 0
  /\ \A c \in Calls : pc[c] = "commitMovement" => call[c].number > 0
  /\ \A c \in Calls : NumberOf(c) \in 0 .. folio
  /\ \A c, d \in Calls : c # d /\ NumberOf(c) = NumberOf(d) => NumberOf(c) = 0

\* What every step does that draws no number and commits no movement.
NumberFrame(c) ==
  /\ UNCHANGED <<movement, folio>>
  /\ \E step \in (InTransaction \cup {"idle", "post", "done"}) \ {"commitMovement"}, l \in Locals :
       /\ pc' = [pc EXCEPT ![c] = step]
       /\ call' = [call EXCEPT ![c] = l]
       /\ pc[c] \in {"post", "done"} => step \in {"post", "done"}

\* A step that draws no number and commits no movement keeps them different.
LEMMA NumberFrameKeepsInv ==
  ASSUME IInv, NumbersInv, NEW c \in Calls, NumberFrame(c)
  PROVE  NumbersInv'
  <1>1. PICK step \in (InTransaction \cup {"idle", "post", "done"}) \ {"commitMovement"}, l \in Locals :
          /\ pc' = [pc EXCEPT ![c] = step]
          /\ call' = [call EXCEPT ![c] = l]
          /\ pc[c] \in {"post", "done"} => step \in {"post", "done"}
    BY DEF NumberFrame
  <1>2. UNCHANGED <<movement, folio>> /\ folio \in Nat
    BY DEF NumberFrame, IInv, TypeOK
  <1>3. \A d \in Calls : d # c => pc'[d] = pc[d] /\ call'[d] = call[d]
    BY <1>1 DEF IInv, TypeOK
  <1>4. pc'[c] = step /\ step # "commitMovement"
    BY <1>1 DEF IInv, TypeOK
  <1>5. \A d \in Calls : d # c => NumberOf(d)' = NumberOf(d)
    BY <1>2, <1>3 DEF NumberOf
  <1>6. NumberOf(c)' = NumberOf(c) \/ NumberOf(c)' = 0
    BY <1>2, <1>4 DEF NumberOf
  <1>7. \A m \in Calls : movement'[m] # None =>
          pc'[m] \in {"post", "done"} /\ movement'[m].number > 0
    BY <1>1, <1>2, <1>3, <1>4 DEF NumbersInv
  <1>8. \A d \in Calls : pc'[d] = "commitMovement" => call'[d].number > 0
    BY <1>3, <1>4 DEF NumbersInv
  <1>9. \A d \in Calls : NumberOf(d)' \in 0 .. folio'
    BY <1>2, <1>5, <1>6 DEF NumbersInv
  <1>10. \A d, e \in Calls : d # e /\ NumberOf(d)' = NumberOf(e)' => NumberOf(d)' = 0
    BY <1>5, <1>6 DEF NumbersInv
  <1>11. QED
    BY <1>7, <1>8, <1>9, <1>10 DEF NumbersInv

\* Drawing a number that the counter had not issued keeps the drawn ones apart.
LEMMA DrawKeepsNumbers ==
  ASSUME IInv, NumbersInv, NEW c \in Calls, NextMovementNumber(c)
  PROVE  NumbersInv'
  <1>1. /\ folio' = folio + 1 /\ folio \in Nat /\ UNCHANGED movement
        /\ pc[c] = "number" /\ pc' = [pc EXCEPT ![c] = "commitMovement"]
        /\ call' = [call EXCEPT ![c] = [@ EXCEPT !.number = folio + 1]]
    BY DEF NextMovementNumber, NextFolio, Goto, IInv, TypeOK
  <1>2. call'[c].number = folio + 1 /\ pc'[c] = "commitMovement"
    BY <1>1 DEF IInv, TypeOK, Locals
  <1>3. \A d \in Calls : d # c => pc'[d] = pc[d] /\ call'[d] = call[d]
    BY <1>1 DEF IInv, TypeOK
  <1>4. movement[c] = None
    BY <1>1 DEF NumbersInv
  <1>5. \A d \in Calls : d # c => NumberOf(d)' = NumberOf(d)
    BY <1>1, <1>3 DEF NumberOf
  <1>6. NumberOf(c)' = folio + 1
    BY <1>1, <1>2, <1>4 DEF NumberOf
  <1>7. \A m \in Calls : movement'[m] # None =>
          pc'[m] \in {"post", "done"} /\ movement'[m].number > 0
    BY <1>1, <1>3, <1>4 DEF NumbersInv
  <1>8. \A d \in Calls : pc'[d] = "commitMovement" => call'[d].number > 0
    BY <1>1, <1>2, <1>3 DEF NumbersInv
  <1>9. \A d \in Calls : NumberOf(d)' \in 0 .. folio'
    BY <1>1, <1>5, <1>6 DEF NumbersInv
  <1>10. \A d, e \in Calls : d # e /\ NumberOf(d)' = NumberOf(e)' => NumberOf(d)' = 0
    BY <1>1, <1>5, <1>6 DEF NumbersInv
  <1>11. QED
    BY <1>7, <1>8, <1>9, <1>10 DEF NumbersInv

\* The commit turns the number a call has drawn into the number of its movement.
LEMMA CommitKeepsNumbers ==
  ASSUME IInv, NumbersInv, NEW c \in Calls, CommitMovement(c)
  PROVE  NumbersInv'
  <1> DEFINE m == [type |-> call[c].type, from |-> call[c].from,
                   to |-> call[c].to, quantity |-> call[c].quantity,
                   priced |-> call[c].priced,
                   fromQtyBefore |-> call[c].fromQtyBefore,
                   toQtyBefore |-> call[c].toQtyBefore,
                   number |-> call[c].number]
  <1>1. /\ pc[c] = "commitMovement" /\ UNCHANGED folio
        /\ movement' = [movement EXCEPT ![c] = m]
        /\ call' = [call EXCEPT ![c] = NoLocals]
        /\ \E step \in {"post", "done"} : pc' = [pc EXCEPT ![c] = step]
    BY DEF CommitMovement, Finish, Goto
  <1>2. movement'[c] = m /\ pc'[c] \in {"post", "done"}
    BY <1>1 DEF IInv, TypeOK
  <1>3. m.number > 0 /\ movement[c] = None
    BY <1>1 DEF NumbersInv
  <1>4. m # None
    <2>1. call[c] \in Locals /\ LocalsReady(c)
      BY DEF IInv, TypeOK
    <2>2. m \in Movement
      BY <1>1, <2>1 DEF LocalsReady, Locals, Movement, MovementSteps, InTransaction
    <2>3. QED
      BY <2>2, ConstantsAssumption
  <1>5. \A d \in Calls : d # c =>
          pc'[d] = pc[d] /\ call'[d] = call[d] /\ movement'[d] = movement[d]
    BY <1>1 DEF IInv, TypeOK
  <1>6. \A d \in Calls : NumberOf(d)' = NumberOf(d)
    BY <1>1, <1>2, <1>3, <1>4, <1>5 DEF NumberOf
  <1>7. \A d \in Calls : movement'[d] # None =>
          pc'[d] \in {"post", "done"} /\ movement'[d].number > 0
    BY <1>2, <1>3, <1>5 DEF NumbersInv
  <1>8. \A d \in Calls : pc'[d] = "commitMovement" => call'[d].number > 0
    BY <1>2, <1>5 DEF NumbersInv
  <1>9. QED
    BY <1>1, <1>6, <1>7, <1>8 DEF NumbersInv

\* Every other step is a NumberFrame.
LEMMA OtherStepsFrame ==
  ASSUME IInv, IInv', NEW c \in Calls,
         \/ CreateStockMovement(c) \/ CreateReservation(c) \/ ReleaseReservation(c)
         \/ ReadUnitCost(c) \/ ReadFromQty(c) \/ CheckFrom(c) \/ Decrement(c)
         \/ ReadToQty(c) \/ FindExisting(c) \/ Increment(c) \/ CreateLevel(c)
         \/ PostCogs(c) \/ LoseCogs(c) \/ ReservationStep(c)
         \/ Interrupt(c) \/ DeadlockVictim(c)
  PROVE  NumberFrame(c)
  <1> DEFINE Steps == (InTransaction \cup {"idle", "post", "done"}) \ {"commitMovement"}
  <1>s. /\ {"readCost", "readFrom", "checkFrom", "decrement", "readTo", "findTo",
            "increment", "number", "checkReservable", "hold", "commitReservation",
            "claim", "findHeld", "drop", "commitRelease", "done"} \subseteq Steps
        /\ "done" \notin InTransaction
    BY DEF InTransaction, MovementSteps, ReservationSteps, ReleaseSteps
  <1>t. /\ pc \in [Calls -> InTransaction \cup {"idle", "post", "done"}]
        /\ call \in [Calls -> Locals] /\ call' \in [Calls -> Locals]
    BY DEF IInv, TypeOK
  <1>f. ASSUME UNCHANGED <<movement, folio>>,
               NEW step \in Steps, Goto(c, step),
               \/ UNCHANGED call
               \/ \E l : call' = [call EXCEPT ![c] = l],
               pc[c] \in {"post", "done"} => step = "done"
        PROVE  NumberFrame(c)
    <2>1. call' = [call EXCEPT ![c] = call'[c]] /\ call'[c] \in Locals
      BY <1>t, <1>f
    <2>2. QED
      BY <1>f, <2>1 DEF NumberFrame, Goto
  <1>r. Rollback(c) => NumberFrame(c)
    BY <1>f, <1>s DEF Rollback, Finish
  <1>1. CASE CreateStockMovement(c) \/ CreateReservation(c) \/ ReleaseReservation(c)
    BY <1>1, <1>f, <1>s DEF CreateStockMovement, CreateReservation, ReleaseReservation, AfterCost
  <1>2. CASE ReadUnitCost(c) \/ ReadFromQty(c) \/ ReadToQty(c) \/ FindExisting(c) \/ FindHeld(c)
    <2>1. \E l : call' = [call EXCEPT ![c] = l]
      BY <1>2, <1>t DEF ReadUnitCost, ReadFromQty, ReadToQty, FindExisting, FindHeld
    <2>2. QED
      BY <1>2, <2>1, <1>f, <1>s
         DEF ReadUnitCost, ReadFromQty, ReadToQty, FindExisting, FindHeld
  <1>3. CASE CheckFrom(c) \/ CheckReservable(c)
    <2>1. Rollback(c) \/ ~Rollback(c)
      OBVIOUS
    <2>2. CASE ~Rollback(c)
      <3>1. \E r : call' = [call EXCEPT ![c].level = r]
        BY <1>3, <2>2 DEF CheckFrom, CheckReservable, CheckAvailable
      <3>2. \E l : call' = [call EXCEPT ![c] = l]
        BY <1>t, <3>1
      <3>3. QED
        BY <1>3, <2>2, <3>2, <1>f, <1>s DEF CheckFrom, CheckReservable, CheckAvailable
    <2>3. QED
      BY <2>1, <2>2, <1>r
  <1>4. CASE Decrement(c) \/ HoldStock(c) \/ ClaimReservation(c)
    BY <1>4, <1>r, <1>f, <1>s DEF Decrement, HoldStock, ClaimReservation, AfterFrom
  <1>5. CASE Increment(c) \/ CreateLevel(c) \/ DropHold(c)
    BY <1>5, <1>f, <1>s DEF Increment, CreateLevel, DropHold
  <1>6. CASE PostCogs(c) \/ LoseCogs(c) \/ CommitReservation(c) \/ CommitRelease(c)
    BY <1>6, <1>f, <1>s DEF PostCogs, LoseCogs, CommitReservation, CommitRelease, Finish
  <1>7. CASE Interrupt(c) \/ DeadlockVictim(c)
    BY <1>7, <1>r DEF Interrupt, DeadlockVictim
  <1>8. QED
    BY <1>1, <1>2, <1>3, <1>4, <1>5, <1>6, <1>7 DEF ReservationStep

\* Committed movements have different numbers, all issued by the series: drawing
\* on a connection of its own costs gaps after a rollback, never a collision.
THEOREM NumbersNeverCollide == Spec => []MovementNumbersUnique
  <1>1. Init => NumbersInv
    BY DEF Init, NumbersInv, NumberOf
  <1>2. IInv /\ IInv' /\ NumbersInv /\ [Next]_vars => NumbersInv'
    <2> SUFFICES ASSUME IInv, IInv', NumbersInv, [Next]_vars PROVE NumbersInv'
      OBVIOUS
    <2>1. CASE UNCHANGED vars
      <3>1. \A c : NumberOf(c)' = NumberOf(c)
        BY <2>1 DEF NumberOf, vars
      <3>2. QED
        BY <2>1, <3>1 DEF NumbersInv, vars
    <2>2. QED
      BY <2>1, NumberFrameKeepsInv, DrawKeepsNumbers, CommitKeepsNumbers, OtherStepsFrame
         DEF Next, Quiescent, MovementStep
  <1>3. IInv /\ NumbersInv => MovementNumbersUnique
    <2> SUFFICES ASSUME IInv, NumbersInv PROVE MovementNumbersUnique
      OBVIOUS
    <2>1. \A m \in Posted : NumberOf(m) = movement[m].number /\ movement[m].number > 0 /\ m \in Calls
      BY DEF Posted, NumberOf, NumbersInv
    <2>2. \A m \in Posted : movement[m].number \in 1 .. folio
      BY <2>1 DEF NumbersInv, IInv, TypeOK
    <2>3. \A m, n \in Posted : movement[m].number = movement[n].number => m = n
      BY <2>1 DEF NumbersInv
    <2>4. QED
      BY <2>2, <2>3 DEF MovementNumbersUnique
  <1>4. QED
    BY <1>1, <1>2, <1>3, InductiveInvariant, PTL DEF Spec

-----------------------------------------------------------------------------
(* Part 2.  The refinement of StockAccount and what follows from it.       *)

-----------------------------------------------------------------------------
(* What a transaction has made of the rows by the time of each statement.  *)

\* A row as the account sees it.
Abs(row) == IF row = None THEN None
            ELSE [warehouse   |-> row.warehouse,
                  quantity    |-> row.quantity,
                  reservedQty |-> row.reservedQty]
Level == [r \in RowIds |-> Abs(stockLevel[r])]
Seen(c) == [r \in RowIds |-> Abs(View(c, r))]
Owned(c) == {r \in RowIds : owner[r] = c}

\* The stocks that result from call c taking its quantity out of a row of its
\* source that it has locked.
Sources(c) == {r \in Owned(c) : /\ Level[r] # None
                                /\ Level[r].warehouse = call[c].from
                                /\ Level[r].quantity >= call[c].quantity}
Mids(c) == IF call[c].from = None THEN {Level}
           ELSE {Account!Changed(Level, r, -call[c].quantity) : r \in Sources(c)}

Taken(c) == /\ Seen(c) \in Mids(c)
            /\ call[c].from = None => Owned(c) = {}

PutBy(c, mid) ==
  \/ \E s \in Owned(c) : /\ mid[s] # None
                         /\ mid[s].warehouse = call[c].to
                         /\ Seen(c) = Account!Changed(mid, s, call[c].quantity)
  \/ /\ c \in Owned(c)
     /\ mid[c] = None
     /\ Seen(c) = [mid EXCEPT ![c] = [warehouse |-> call[c].to, quantity |-> call[c].quantity,
                                      reservedQty |-> 0]]
Delivered(c) == IF call[c].to = None THEN Taken(c) ELSE \E mid \in Mids(c) : PutBy(c, mid)

Kept(c) ==
  \E r \in Owned(c) :
    /\ Level[r] # None
    /\ Level[r].warehouse = call[c].from
    /\ Level[r].quantity - Level[r].reservedQty >= call[c].quantity
    /\ Seen(c) = [Level EXCEPT ![r].reservedQty = @ + call[c].quantity]
Freed(c) ==
  \E r \in Owned(c) :
    /\ Level[r] # None
    /\ Level[r].warehouse = call[c].from
    /\ Seen(c) = [Level EXCEPT ![r].reservedQty =
                    IF @ >= call[c].quantity THEN @ - call[c].quantity ELSE 0]

Written(c) ==
  /\ pc[c] \in TargetSteps => Taken(c)
  /\ pc[c] \in {"number", "commitMovement"} => Delivered(c)
  /\ pc[c] = "commitReservation" => Kept(c)
  /\ pc[c] = "commitRelease" => Freed(c)
  /\ pc[c] \notin TargetSteps \cup {"number", "commitMovement", "commitReservation",
                                    "commitRelease"} => Owned(c) = {}

\* The row a call is about to write is one of the warehouse it means.
Fits(c) ==
  /\ pc[c] \in {"decrement", "hold", "drop"} => View(c, call[c].level).warehouse = call[c].from
  /\ pc[c] = "increment" /\ call[c].existing # None =>
       View(c, call[c].existing).warehouse = call[c].to

\* A release is about the reservation it read, and one that has claimed it is
\* the only one that has and finds it active.
Claims(c) ==
  LET k == call[c].reservation IN
  /\ pc[c] \in ReleaseSteps => /\ reservation[k].warehouse = call[c].from
                               /\ reservation[k].quantity = call[c].quantity
  /\ pc[c] \in ReleaseSteps \ {"claim"} => claim[k] = c /\ reservation[k].status = "ACTIVE"

\* A call writes its movement or reservation at its end; a row keeps its
\* warehouse; what is reserved is reserved in a warehouse with a row, and only a
\* reservation that exists is claimed.
Tables ==
  /\ \A c \in Calls : pc[c] \notin {"post", "done"} => movement[c] = None /\ reservation[c] = None
  /\ \A r \in RowIds : stockLevel[r] # None /\ draft[r] # None =>
       draft[r].warehouse = stockLevel[r].warehouse
  /\ \A k \in Calls : reservation[k] # None =>
       \E r \in RowIds : /\ stockLevel[r] # None
                         /\ stockLevel[r].warehouse = reservation[k].warehouse
  /\ \A k \in Calls : claim[k] # None => reservation[k] # None

CallInv(c) == Written(c) /\ Fits(c) /\ Claims(c)
AccountInv == Tables /\ \A c \in Calls : CallInv(c)

-----------------------------------------------------------------------------
(* Rows as the account sees them.                                          *)

\* A row keeps its columns, and no row stays no row.
LEMMA AbsRow ==
  ASSUME NEW row \in Row \cup {None}
  PROVE  /\ Abs(row) = None <=> row = None
         /\ row # None => /\ Abs(row).warehouse = row.warehouse
                          /\ Abs(row).quantity = row.quantity
                          /\ Abs(row).reservedQty = row.reservedQty
                          /\ Abs(row) \in [warehouse : Warehouses, quantity : Int,
                                           reservedQty : Int]
  BY ConstantsAssumption DEF Abs, Row

\* The account and the kernel name the same rows.
LEMMA SameRowIds == Account!RowIds = RowIds
  BY DEF Account!RowIds, RowIds

\* What a change of a row's quantity does to each row.
LEMMA ChangedRows ==
  ASSUME NEW s, NEW r \in RowIds, NEW q
  PROVE  /\ Account!Changed(s, r, q) = [x \in RowIds |-> IF x = r THEN [s[x] EXCEPT !.quantity = @ + q]
                                                      ELSE s[x]]
  BY SameRowIds DEF Account!Changed

-----------------------------------------------------------------------------
(* What a step of one call leaves to another call d.                       *)

Frame(d) ==
  /\ pc'[d] = pc[d] /\ call'[d] = call[d]
  /\ \A r \in RowIds : owner[r] = d =>
       owner'[r] = d /\ draft'[r] = draft[r] /\ stockLevel'[r] = stockLevel[r]
  /\ \A r \in RowIds : owner'[r] = d => owner[r] = d
  /\ \A r \in RowIds : stockLevel[r] # None =>
       stockLevel'[r] # None /\ stockLevel'[r].warehouse = stockLevel[r].warehouse
  /\ \A k \in Calls : reservation[k] # None =>
       /\ reservation'[k].warehouse = reservation[k].warehouse
       /\ reservation'[k].quantity = reservation[k].quantity
  /\ \A k \in Calls : claim[k] = d => claim'[k] = d /\ reservation'[k] = reservation[k]

\* The rows d has locked stay as they are, and it sees the others as everybody.
LEMMA FrameRows ==
  ASSUME NEW d \in Calls, Frame(d)
  PROVE  /\ Owned(d)' = Owned(d)
         /\ \A r \in Owned(d) : Level'[r] = Level[r] /\ Seen(d)'[r] = Seen(d)[r]
         /\ \A r \in RowIds \ Owned(d) : /\ Seen(d)'[r] = Level'[r]
                                         /\ Seen(d)[r] = Level[r]
         /\ Sources(d)' = Sources(d)
  <1>1. Owned(d)' = Owned(d)
    BY DEF Frame, Owned
  <1>2. \A r \in Owned(d) : Level'[r] = Level[r] /\ Seen(d)'[r] = Seen(d)[r]
    BY DEF Frame, Owned, Level, Seen, View
  <1>3. \A r \in RowIds \ Owned(d) : Seen(d)'[r] = Level'[r] /\ Seen(d)[r] = Level[r]
    BY <1>1 DEF Owned, Level, Seen, View
  <1>4. Sources(d)' = Sources(d)
    BY <1>1, <1>2 DEF Sources, Frame
  <1>5. QED
    BY <1>1, <1>2, <1>3, <1>4

\* A change of a row d has locked is the same change of the new stock.
LEMMA FrameChanged ==
  ASSUME NEW d \in Calls, NEW m, NEW n, NEW x \in Owned(d), NEW q,
         \A r \in Owned(d) : n[r] = m[r],
         \A r \in RowIds \ Owned(d) : n[r] = Level'[r]
  PROVE  LET f == Account!Changed(m, x, q)
             g == Account!Changed(n, x, q)
         IN  /\ \A r \in Owned(d) : g[r] = f[r]
             /\ \A r \in RowIds \ Owned(d) : g[r] = Level'[r]
  BY ChangedRows DEF Owned

\* What d sees, if it differs from m by such a change, differs from n by it too.
LEMMA FrameSeen ==
  ASSUME NEW d \in Calls, Frame(d), NEW m, NEW n, NEW x \in Owned(d), NEW q,
         \A r \in Owned(d) : n[r] = m[r],
         \A r \in RowIds \ Owned(d) : n[r] = Level'[r],
         Seen(d) = Account!Changed(m, x, q)
  PROVE  Seen(d)' = Account!Changed(n, x, q)
  <1> DEFINE g == Account!Changed(n, x, q)
  <1>1. /\ \A r \in Owned(d) : g[r] = Seen(d)[r]
        /\ \A r \in RowIds \ Owned(d) : g[r] = Level'[r]
    BY FrameChanged
  <1>2. \A r \in RowIds : Seen(d)'[r] = g[r]
    BY <1>1, FrameRows
  <1>3. g = [r \in RowIds |-> g[r]]
    BY ChangedRows DEF Owned
  <1>4. Seen(d)' = [r \in RowIds |-> Seen(d)'[r]]
    BY DEF Seen
  <1> HIDE DEF g
  <1>5. Seen(d)' = g
    BY <1>2, <1>3, <1>4
  <1>6. QED
    BY <1>5 DEF g

\* The same of one that replaces a row by a function of itself.
LEMMA FrameReplaced ==
  ASSUME NEW d \in Calls, Frame(d), NEW m, NEW n, NEW x \in Owned(d), NEW row,
         m = [r \in RowIds |-> m[r]], n = [r \in RowIds |-> n[r]],
         \A r \in Owned(d) : n[r] = m[r],
         \A r \in RowIds \ Owned(d) : n[r] = Level'[r],
         Seen(d) = [m EXCEPT ![x] = row]
  PROVE  Seen(d)' = [n EXCEPT ![x] = row]
  <1>1. x \in RowIds
    BY DEF Owned
  <1>2. \A r \in RowIds : Seen(d)[r] = IF r = x THEN row ELSE m[r]
    BY <1>1
  <1>3. \A r \in RowIds : Seen(d)'[r] = IF r = x THEN row ELSE n[r]
    BY <1>2, FrameRows
  <1>4. Seen(d)' = [r \in RowIds |-> Seen(d)'[r]]
    BY DEF Seen
  <1>5. Seen(d)' = [r \in RowIds |-> IF r = x THEN row ELSE n[r]]
    BY <1>3, <1>4
  <1>6. QED
    BY <1>1, <1>5

LEMMA FrameWritten ==
  ASSUME NEW d \in Calls, Frame(d), Written(d)
  PROVE  Written(d)'
  <1>0. Level = [r \in RowIds |-> Level[r]] /\ Level' = [r \in RowIds |-> Level'[r]]
    BY DEF Level
  <1>1. ASSUME Taken(d) PROVE Taken(d)'
    <2>1. CASE call[d].from = None
      <3>1. Seen(d)' = Level'
        BY <1>1, <2>1, FrameRows DEF Taken, Seen, Level
      <3>2. QED
        BY <1>1, <2>1, <3>1, FrameRows DEF Taken, Mids, Frame
    <2>2. CASE call[d].from # None
      <3>1. PICK r \in Sources(d) : Seen(d) = Account!Changed(Level, r, -call[d].quantity)
        BY <1>1, <2>2 DEF Taken, Mids
      <3>2. r \in Owned(d) /\ r \in RowIds
        BY <3>1 DEF Sources, Owned
      <3>3. Seen(d)' = Account!Changed(Level', r, -call[d].quantity)
        BY <3>1, <3>2, FrameRows, FrameSeen
      <3>4. QED
        BY <2>2, <3>1, <3>3, FrameRows DEF Taken, Mids, Frame
    <2>3. QED
      BY <2>1, <2>2
  <1>2. ASSUME Delivered(d) PROVE Delivered(d)'
    <2>1. CASE call[d].to = None
      BY <1>1, <1>2, <2>1 DEF Delivered, Frame
    <2>2. CASE call[d].to # None
      <3>1. PICK mid \in Mids(d) : PutBy(d, mid)
        BY <1>2, <2>2 DEF Delivered
      <3>2. PICK new \in Mids(d)' : /\ \A r \in Owned(d) : new[r] = mid[r]
                                    /\ \A r \in RowIds \ Owned(d) : new[r] = Level'[r]
                                    /\ new = [r \in RowIds |-> new[r]]
        <4>1. CASE call[d].from = None
          BY <3>1, <4>1, FrameRows DEF Mids, Frame, Level
        <4>2. CASE call[d].from # None
          <5>1. PICK r \in Sources(d) : mid = Account!Changed(Level, r, -call[d].quantity)
            BY <3>1, <4>2 DEF Mids
          <5>2. r \in Owned(d) /\ r \in RowIds
            BY <5>1 DEF Sources, Owned
          <5>3. Account!Changed(Level', r, -call[d].quantity) \in Mids(d)'
            BY <4>2, <5>1, FrameRows DEF Mids, Frame
          <5>4. QED
            BY <5>1, <5>2, <5>3, FrameRows, FrameChanged, ChangedRows
        <4>3. QED
          BY <4>1, <4>2
      <3>3. PutBy(d, new)'
        <4>1. CASE \E s \in Owned(d) : /\ mid[s] # None
                                       /\ mid[s].warehouse = call[d].to
                                       /\ Seen(d) = Account!Changed(mid, s, call[d].quantity)
          <5>1. PICK s \in Owned(d) : /\ mid[s] # None
                                      /\ mid[s].warehouse = call[d].to
                                      /\ Seen(d) = Account!Changed(mid, s, call[d].quantity)
            BY <4>1
          <5>2. s \in RowIds
            BY DEF Owned
          <5>3. Seen(d)' = Account!Changed(new, s, call[d].quantity)
            BY <3>2, <5>1, FrameSeen
          <5>4. QED
            BY <3>2, <5>1, <5>3, FrameRows DEF PutBy, Frame
        <4>2. CASE /\ d \in Owned(d)
                   /\ mid[d] = None
                   /\ Seen(d) = [mid EXCEPT ![d] =
                        [warehouse |-> call[d].to, quantity |-> call[d].quantity,
                         reservedQty |-> 0]]
          <5>1. Seen(d)' = [new EXCEPT ![d] =
                  [warehouse |-> call[d].to, quantity |-> call[d].quantity, reservedQty |-> 0]]
            <6>1. mid = [r \in RowIds |-> mid[r]]
              <7>1. CASE call[d].from = None
                BY <3>1, <7>1 DEF Mids, Level
              <7>2. CASE call[d].from # None
                BY <3>1, <7>2, ChangedRows DEF Mids, Sources, Owned
              <7>3. QED
                BY <7>1, <7>2
            <6>2. QED
              BY <3>2, <4>2, <6>1, FrameReplaced
          <5>2. QED
            BY <3>2, <4>2, <5>1, FrameRows DEF PutBy, Frame
        <4>3. QED
          BY <3>1, <4>1, <4>2 DEF PutBy
      <3>4. QED
        BY <2>2, <3>2, <3>3 DEF Delivered, Frame
    <2>3. QED
      BY <2>1, <2>2
  <1>3. ASSUME Kept(d) PROVE Kept(d)'
    <2>1. PICK r \in Owned(d) :
            /\ Level[r] # None
            /\ Level[r].warehouse = call[d].from
            /\ Level[r].quantity - Level[r].reservedQty >= call[d].quantity
            /\ Seen(d) = [Level EXCEPT ![r].reservedQty = @ + call[d].quantity]
      BY <1>3 DEF Kept
    <2>2. Seen(d)' = [Level' EXCEPT ![r].reservedQty = @ + call[d].quantity]
      <3>1. Seen(d) = [Level EXCEPT ![r] = [Level[r] EXCEPT !.reservedQty = @ + call[d].quantity]]
        BY <2>1
      <3>2. Seen(d)' = [Level' EXCEPT ![r] =
                          [Level[r] EXCEPT !.reservedQty = @ + call[d].quantity]]
        BY <1>0, <3>1, FrameReplaced, FrameRows
      <3>3. QED
        BY <3>2, FrameRows
    <2>3. QED
      BY <2>1, <2>2, FrameRows DEF Kept, Frame
  <1>4. ASSUME Freed(d) PROVE Freed(d)'
    <2>1. PICK r \in Owned(d) :
            /\ Level[r] # None
            /\ Level[r].warehouse = call[d].from
            /\ Seen(d) = [Level EXCEPT ![r].reservedQty =
                            IF @ >= call[d].quantity THEN @ - call[d].quantity ELSE 0]
      BY <1>4 DEF Freed
    <2>2. Seen(d)' = [Level' EXCEPT ![r].reservedQty =
                            IF @ >= call[d].quantity THEN @ - call[d].quantity ELSE 0]
      <3> DEFINE row == [Level[r] EXCEPT !.reservedQty =
                           IF @ >= call[d].quantity THEN @ - call[d].quantity ELSE 0]
      <3>1. Seen(d) = [Level EXCEPT ![r] = row]
        BY <2>1
      <3>2. Seen(d)' = [Level' EXCEPT ![r] = row]
        BY <1>0, <3>1, FrameReplaced, FrameRows
      <3>3. QED
        BY <3>2, FrameRows
    <2>3. QED
      BY <2>1, <2>2, FrameRows DEF Freed, Frame
  <1>5. pc'[d] = pc[d] /\ Owned(d)' = Owned(d)
    BY FrameRows DEF Frame
  <1>6. QED
    BY <1>1, <1>2, <1>3, <1>4, <1>5 DEF Written

\* What holds of a call still holds of it after such a step of another.
LEMMA FrameCallInv ==
  ASSUME NEW d \in Calls, Frame(d), IInv, CallInv(d)
  PROVE  CallInv(d)'
  <1>1. Written(d)'
    BY FrameWritten DEF CallInv
  <1>2. \A r \in RowIds : View(d, r) # None => View(d, r)'.warehouse = View(d, r).warehouse
    BY DEF Frame, View
  <1>3. LocalsReady(d)
    BY DEF IInv
  <1>4. Fits(d)'
    BY <1>2, <1>3 DEF Fits, CallInv, Frame, LocalsReady
  <1>5. Claims(d)'
    BY <1>3 DEF Claims, CallInv, Frame, LocalsReady
  <1>6. QED
    BY <1>1, <1>4, <1>5 DEF CallInv

-----------------------------------------------------------------------------
(* The steps of one call.                                                  *)

\* A step of c keeps the invariant if it leaves the others alone and the
\* invariant holds of c and of the tables afterwards.
LEMMA OneCallSteps ==
  ASSUME IInv, AccountInv, NEW c \in Calls,
         \A d \in Calls \ {c} : Frame(d), CallInv(c)', Tables'
  PROVE  AccountInv'
  BY FrameCallInv DEF AccountInv

\* A call that has locked no row sees what everybody sees.
LEMMA SeesAll ==
  ASSUME NEW c \in Calls, Owned(c) = {}
  PROVE  Seen(c) = Level
  BY DEF Seen, Level, Owned, View

LEMMA ThisCall ==
  ASSUME IInv, NEW c \in Calls, NEW l, NEW step,
         call' = [call EXCEPT ![c] = l], Goto(c, step)
  PROVE  /\ pc'[c] = step /\ call'[c] = l
         /\ \A d \in Calls \ {c} : pc'[d] = pc[d] /\ call'[d] = call[d]
  BY DEF IInv, TypeOK, Goto

\* A step that changes no table.
LEMMA QuietStep ==
  ASSUME IInv, AccountInv, NEW c \in Calls, NEW l, NEW step,
         UNCHANGED <<stock, holds, movement>>,
         call' = [call EXCEPT ![c] = l], Goto(c, step),
         pc[c] \in {"post", "done"} => step \in {"post", "done"},
         CallInv(c)'
  PROVE  AccountInv'
  <1>1. \A d \in Calls \ {c} : Frame(d)
    BY ThisCall DEF Frame, stock, holds
  <1>2. Tables'
    <2>1. ASSUME NEW d \in Calls, pc'[d] \notin {"post", "done"}
          PROVE  movement'[d] = None /\ reservation'[d] = None
      <3>1. pc[d] \notin {"post", "done"}
        BY <2>1, ThisCall
      <3>2. QED
        BY <3>1 DEF AccountInv, Tables, holds
    <2>2. QED
      BY <2>1 DEF AccountInv, Tables, stock, holds
  <1>3. QED
    BY <1>1, <1>2, OneCallSteps

\* What a call has taken and delivered is about its request and its rows.
LEMMA SameRequest ==
  ASSUME NEW c \in Calls, UNCHANGED stock,
         call'[c].from = call[c].from, call'[c].to = call[c].to,
         call'[c].quantity = call[c].quantity
  PROVE  /\ Taken(c)' = Taken(c)
         /\ Delivered(c)' = Delivered(c)
  <1>1. /\ Seen(c)' = Seen(c) /\ Level' = Level /\ Owned(c)' = Owned(c)
    BY DEF stock, Seen, Level, Owned, View
  <1>2. Mids(c)' = Mids(c)
    BY <1>1 DEF Mids, Sources
  <1>3. Taken(c)' = Taken(c)
    BY <1>1, <1>2 DEF Taken
  <1>4. \A mid : PutBy(c, mid)' = PutBy(c, mid)
    BY <1>1 DEF PutBy
  <1>5. QED
    BY <1>2, <1>3, <1>4 DEF Delivered

\* The statements before a call has written anything.
Unwritten == {"idle", "readCost", "readFrom", "checkFrom", "decrement", "checkReservable",
              "hold", "claim", "findHeld", "drop", "post", "done"}

LEMMA UnwrittenStep ==
  ASSUME NEW c \in Calls, UNCHANGED stock, pc[c] \in Unwritten, pc'[c] \in Unwritten, Written(c)
  PROVE  Written(c)' /\ Owned(c)' = {} /\ Owned(c) = {}
  BY DEF Written, Unwritten, TargetSteps, Owned, stock

\* The requests' arrival.
LEMMA ArrivalKeepsAccount ==
  ASSUME IInv, AccountInv, NEW c \in Calls,
         CreateStockMovement(c) \/ CreateReservation(c) \/ ReleaseReservation(c)
  PROVE  AccountInv'
  <1>1. CallInv(c)
    BY DEF AccountInv
  <1>2. CASE CreateStockMovement(c)
    <2>1. PICK type \in Types, from \in Warehouses \cup {None}, to \in Warehouses \cup {None},
               q \in Quantities, priced \in UnitCosts :
            /\ from # None \/ to # None
            /\ call' = [call EXCEPT ![c] =
                 [NoLocals EXCEPT !.type = type, !.from = from, !.to = to,
                                  !.quantity = q, !.priced = priced]]
            /\ Goto(c, IF ~priced /\ from # None /\ type \in COGS_MOVEMENT_TYPES
                         THEN "readCost" ELSE AfterCost(from))
      BY <1>2 DEF CreateStockMovement
    <2> DEFINE l == [NoLocals EXCEPT !.type = type, !.from = from, !.to = to,
                                     !.quantity = q, !.priced = priced]
    <2>2. PICK step : step = IF ~priced /\ from # None /\ type \in COGS_MOVEMENT_TYPES
                         THEN "readCost" ELSE AfterCost(from)
      OBVIOUS
    <2>3. /\ step \in {"readCost", "readFrom", "readTo"}
          /\ step = "readTo" => from = None
      BY <2>2 DEF AfterCost
    <2>4. pc'[c] = step /\ call'[c] = l /\ pc[c] = "idle"
      BY <1>2, <2>1, <2>2, ThisCall DEF CreateStockMovement
    <2>5. UNCHANGED <<stock, holds, movement>>
      BY <1>2 DEF CreateStockMovement
    <2>6. Owned(c) = {} /\ Owned(c)' = {} /\ Level' = Level
      BY <1>1, <2>4, <2>5 DEF CallInv, Written, TargetSteps, stock, Owned, Level
    <2>7. Seen(c)' = Level'
      BY <2>6 DEF Seen, Level, Owned, View
    <2>8. l.from = from
      BY DEF NoLocals
    <2>9. step = "readTo" => Taken(c)'
      BY <2>3, <2>4, <2>6, <2>7, <2>8 DEF Taken, Mids
    <2>10. CallInv(c)'
      BY <2>3, <2>4, <2>6, <2>9 DEF CallInv, Written, Fits, Claims, TargetSteps, ReleaseSteps
    <2>11. QED
      BY <2>1, <2>2, <2>4, <2>5, <2>10, QuietStep
  <1>3. CASE CreateReservation(c)
    <2>1. PICK w \in Warehouses, q \in Quantities :
            call' = [call EXCEPT ![c] = [NoLocals EXCEPT !.from = w, !.quantity = q]]
      BY <1>3 DEF CreateReservation
    <2>2. /\ Goto(c, "checkReservable") /\ pc[c] = "idle"
          /\ UNCHANGED <<stock, holds, movement>>
      BY <1>3 DEF CreateReservation
    <2>3. pc'[c] = "checkReservable"
      BY <2>1, <2>2, ThisCall
    <2>4. Written(c)'
      BY <1>1, <2>2, <2>3, UnwrittenStep DEF CallInv, Unwritten
    <2>5. CallInv(c)'
      BY <2>3, <2>4 DEF CallInv, Fits, Claims, ReleaseSteps
    <2>6. QED
      BY <2>1, <2>2, <2>5, QuietStep
  <1>4. CASE ReleaseReservation(c)
    <2>1. PICK k \in Calls :
            /\ reservation[k] # None
            /\ call' = [call EXCEPT ![c] =
                 [NoLocals EXCEPT !.reservation = k,
                                  !.from = reservation[k].warehouse,
                                  !.quantity = reservation[k].quantity]]
      BY <1>4 DEF ReleaseReservation
    <2>2. /\ Goto(c, "claim") /\ pc[c] = "idle"
          /\ UNCHANGED <<stock, holds, movement>>
      BY <1>4 DEF ReleaseReservation
    <2> DEFINE l == [NoLocals EXCEPT !.reservation = k, !.from = reservation[k].warehouse,
                                     !.quantity = reservation[k].quantity]
    <2>0. pc'[c] = "claim" /\ call'[c] = l
      BY <2>1, <2>2, ThisCall
    <2>3. /\ pc'[c] = "claim"
          /\ call'[c].reservation = k
          /\ call'[c].from = reservation[k].warehouse
          /\ call'[c].quantity = reservation[k].quantity
      BY <2>0 DEF NoLocals
    <2>4. Written(c)'
      BY <1>1, <2>2, <2>3, UnwrittenStep DEF CallInv, Unwritten
    <2>5. CallInv(c)'
      BY <2>2, <2>3, <2>4 DEF CallInv, Fits, Claims, ReleaseSteps, holds
    <2>6. QED
      BY <2>1, <2>2, <2>5, QuietStep
  <1>5. QED
    BY <1>2, <1>3, <1>4

\* A transaction that rolls back leaves nothing behind.
LEMMA RollbackKeepsAccount ==
  ASSUME IInv, AccountInv, NEW c \in Calls, pc[c] \in InTransaction, Rollback(c)
  PROVE  AccountInv'
  <1>1. /\ pc' = [pc EXCEPT ![c] = "done"] /\ call' = [call EXCEPT ![c] = NoLocals]
        /\ pc'[c] = "done"
        /\ \A d \in Calls \ {c} : pc'[d] = pc[d] /\ call'[d] = call[d]
    BY ThisCall DEF Rollback, Finish, Goto, IInv, TypeOK
  <1>2. c # None /\ \A d \in Calls : d # None
    BY ConstantsAssumption
  <1>3. \A d \in Calls \ {c} : Frame(d)
    BY <1>1, <1>2 DEF Rollback, Unlocked, Undrafted, Frame, IInv, TypeOK
  <1>4. Owned(c)' = {}
    BY <1>2 DEF Rollback, Unlocked, Owned
  <1>5. CallInv(c)'
    BY <1>1, <1>4 DEF CallInv, Written, Fits, Claims, TargetSteps, ReleaseSteps
  <1>6. Tables'
    <2>1. ASSUME NEW d \in Calls, pc'[d] \notin {"post", "done"}
          PROVE  movement'[d] = None /\ reservation'[d] = None
      <3>1. pc[d] \notin {"post", "done"}
        BY <1>1, <2>1
      <3>2. QED
        BY <3>1 DEF AccountInv, Tables, Rollback
    <2>2. \A r \in RowIds : stockLevel'[r] # None /\ draft'[r] # None =>
            draft'[r].warehouse = stockLevel'[r].warehouse
      BY DEF AccountInv, Tables, Rollback, Undrafted
    <2>3. QED
      BY <2>1, <2>2 DEF AccountInv, Tables, Rollback
  <1>7. QED
    BY <1>3, <1>5, <1>6, OneCallSteps

\* The reads of a movement before it writes.
LEMMA EarlyReadKeepsAccount ==
  ASSUME IInv, AccountInv, NEW c \in Calls, ReadUnitCost(c) \/ ReadFromQty(c)
  PROVE  AccountInv'
  <1>1. PICK l, step :
          /\ call' = [call EXCEPT ![c] = l]
          /\ Goto(c, step)
          /\ step \in {"readFrom", "checkFrom"}
          /\ UNCHANGED <<stock, holds, movement>>
          /\ pc[c] \in {"readCost", "readFrom"}
    <2>1. CASE ReadUnitCost(c)
      <3>1. PICK r \in FindFirst(c, call[c].from) :
              call' = [call EXCEPT ![c].priced = r # None /\ View(c, r).priced]
        BY <2>1 DEF ReadUnitCost
      <3>2. call' = [call EXCEPT ![c] = [call[c] EXCEPT !.priced = r # None /\ View(c, r).priced]]
        BY <3>1
      <3>3. QED
        BY <2>1, <3>2 DEF ReadUnitCost
    <2>2. CASE ReadFromQty(c)
      <3>1. PICK r \in FindFirst(c, call[c].from) :
              call' = [call EXCEPT ![c].fromQtyBefore = OnHand(c, r)]
        BY <2>2 DEF ReadFromQty
      <3>2. call' = [call EXCEPT ![c] = [call[c] EXCEPT !.fromQtyBefore = OnHand(c, r)]]
        BY <3>1
      <3>3. QED
        BY <2>2, <3>2 DEF ReadFromQty
    <2>3. QED
      BY <2>1, <2>2
  <1>2. pc'[c] = step
    BY <1>1, ThisCall
  <1>3. Written(c)'
    BY <1>1, <1>2, UnwrittenStep DEF AccountInv, CallInv, Unwritten
  <1>4. CallInv(c)'
    BY <1>1, <1>2, <1>3 DEF CallInv, Fits, Claims, ReleaseSteps
  <1>5. QED
    BY <1>1, <1>4, QuietStep

\* The test of a movement out of a warehouse and that of a reservation.
LEMMA CheckKeepsAccount ==
  ASSUME IInv, AccountInv, NEW c \in Calls, NEW next \in {"decrement", "hold"},
         pc[c] \in {"checkFrom", "checkReservable"}, CheckAvailable(c, next)
  PROVE  AccountInv'
  <1>1. PICK r \in FindFirst(c, call[c].from) :
          IF r # None /\ Available(View(c, r)) >= call[c].quantity
            THEN /\ call' = [call EXCEPT ![c].level = r]
                 /\ Goto(c, next)
                 /\ UNCHANGED <<stock, holds, movement, books, folio>>
            ELSE Rollback(c)
    BY DEF CheckAvailable
  <1>2. CASE r # None /\ Available(View(c, r)) >= call[c].quantity
    <2>1. /\ call' = [call EXCEPT ![c] = [call[c] EXCEPT !.level = r]]
          /\ Goto(c, next)
          /\ UNCHANGED <<stock, holds, movement>>
      BY <1>1, <1>2
    <2>2. pc'[c] = next /\ call'[c] = [call[c] EXCEPT !.level = r]
      BY <2>1, ThisCall
    <2>3. call'[c].level = r /\ call'[c].from = call[c].from
      BY <2>2 DEF IInv, TypeOK, Locals
    <2>4. View(c, r).warehouse = call[c].from
      BY <1>2 DEF FindFirst
    <2>5. View(c, r)' = View(c, r)
      BY <2>1 DEF View, stock
    <2>6. Written(c)'
      BY <2>1, <2>2, UnwrittenStep DEF AccountInv, CallInv, Unwritten
    <2>7. CallInv(c)'
      BY <2>2, <2>3, <2>4, <2>5, <2>6 DEF CallInv, Fits, Claims, ReleaseSteps, View
    <2>8. QED
      BY <2>1, <2>7, QuietStep
  <1>3. CASE ~(r # None /\ Available(View(c, r)) >= call[c].quantity)
    BY <1>1, <1>3, RollbackKeepsAccount DEF InTransaction, MovementSteps, ReservationSteps
  <1>4. QED
    BY <1>2, <1>3

\* The reads of the destination, and the number.
LEMMA LateReadKeepsAccount ==
  ASSUME IInv, AccountInv, NEW c \in Calls,
         ReadToQty(c) \/ FindExisting(c) \/ NextMovementNumber(c)
  PROVE  AccountInv'
  <1>0. CallInv(c)
    BY DEF AccountInv
  <1>1. CASE ReadToQty(c)
    <2>1. PICK r \in FindFirst(c, call[c].to) :
            call' = [call EXCEPT ![c].toQtyBefore = OnHand(c, r)]
      BY <1>1 DEF ReadToQty
    <2>2. /\ call' = [call EXCEPT ![c] = [call[c] EXCEPT !.toQtyBefore = OnHand(c, r)]]
          /\ Goto(c, "findTo") /\ pc[c] = "readTo"
          /\ UNCHANGED <<stock, holds, movement>>
      BY <1>1, <2>1 DEF ReadToQty
    <2>3. pc'[c] = "findTo" /\ call'[c] = [call[c] EXCEPT !.toQtyBefore = OnHand(c, r)]
      BY <2>2, ThisCall
    <2>4. /\ call'[c].from = call[c].from /\ call'[c].to = call[c].to
          /\ call'[c].quantity = call[c].quantity
      BY <2>3 DEF IInv, TypeOK, Locals
    <2>5. Taken(c)'
      BY <1>0, <2>2, <2>4, SameRequest DEF CallInv, Written, TargetSteps
    <2>6. CallInv(c)'
      BY <2>3, <2>5 DEF CallInv, Written, Fits, Claims, TargetSteps, ReleaseSteps
    <2>7. QED
      BY <2>2, <2>6, QuietStep
  <1>2. CASE FindExisting(c)
    <2>1. PICK r \in FindFirst(c, call[c].to) : call' = [call EXCEPT ![c].existing = r]
      BY <1>2 DEF FindExisting
    <2>2. /\ call' = [call EXCEPT ![c] = [call[c] EXCEPT !.existing = r]]
          /\ Goto(c, "increment") /\ pc[c] = "findTo"
          /\ UNCHANGED <<stock, holds, movement>>
      BY <1>2, <2>1 DEF FindExisting
    <2>3. pc'[c] = "increment" /\ call'[c] = [call[c] EXCEPT !.existing = r]
      BY <2>2, ThisCall
    <2>4. /\ call'[c].from = call[c].from /\ call'[c].to = call[c].to
          /\ call'[c].quantity = call[c].quantity /\ call'[c].existing = r
      BY <2>3 DEF IInv, TypeOK, Locals
    <2>5. Taken(c)'
      BY <1>0, <2>2, <2>4, SameRequest DEF CallInv, Written, TargetSteps
    <2>6. r # None => View(c, r)'.warehouse = call[c].to
      BY <2>2 DEF FindFirst, View, stock
    <2>7. CallInv(c)'
      BY <2>3, <2>4, <2>5, <2>6
         DEF CallInv, Written, Fits, Claims, TargetSteps, ReleaseSteps, View
    <2>8. QED
      BY <2>2, <2>7, QuietStep
  <1>3. CASE NextMovementNumber(c)
    <2>2. /\ call' = [call EXCEPT ![c] = [call[c] EXCEPT !.number = NextFolio]]
          /\ Goto(c, "commitMovement") /\ pc[c] = "number"
          /\ UNCHANGED <<stock, holds, movement>>
      BY <1>3 DEF NextMovementNumber
    <2>3. pc'[c] = "commitMovement" /\ call'[c] = [call[c] EXCEPT !.number = NextFolio]
      BY <2>2, ThisCall
    <2>4. /\ call'[c].from = call[c].from /\ call'[c].to = call[c].to
          /\ call'[c].quantity = call[c].quantity
      BY <2>3 DEF IInv, TypeOK, Locals
    <2>5. Delivered(c)'
      BY <1>0, <2>2, <2>4, SameRequest DEF CallInv, Written
    <2>6. CallInv(c)'
      BY <2>3, <2>5 DEF CallInv, Written, Fits, Claims, TargetSteps, ReleaseSteps
    <2>7. QED
      BY <2>2, <2>6, QuietStep
  <1>4. QED
    BY <1>1, <1>2, <1>3

\* The posting of the cost of goods sold.
LEMMA CogsKeepsAccount ==
  ASSUME IInv, AccountInv, NEW c \in Calls, PostCogs(c) \/ LoseCogs(c)
  PROVE  AccountInv'
  <1>1. /\ call' = [call EXCEPT ![c] = NoLocals] /\ Goto(c, "done") /\ pc[c] = "post"
        /\ UNCHANGED <<stock, holds, movement>>
    BY DEF PostCogs, LoseCogs, Finish
  <1>2. pc'[c] = "done"
    BY <1>1, ThisCall
  <1>3. Written(c)'
    BY <1>1, <1>2, UnwrittenStep DEF AccountInv, CallInv, Unwritten
  <1>4. CallInv(c)'
    BY <1>2, <1>3 DEF CallInv, Fits, Claims, ReleaseSteps
  <1>5. QED
    BY <1>1, <1>4, QuietStep

\* A release claims its reservation, which nobody else has, and finds its row.
LEMMA ClaimKeepsAccount ==
  ASSUME IInv, AccountInv, NEW c \in Calls, ClaimReservation(c) \/ FindHeld(c)
  PROVE  AccountInv'
  <1>0. CallInv(c) /\ LocalsReady(c)
    BY DEF AccountInv, IInv
  <1>1. CASE ClaimReservation(c)
    <2> DEFINE k == call[c].reservation
    <2>0. k \in Calls /\ pc[c] = "claim" /\ reservation[k] # None
      BY <1>0, <1>1 DEF LocalsReady, ClaimReservation, ReleaseSteps
    <2>1. CASE ~StillActive(k)
      BY <1>1, <2>0, <2>1, RollbackKeepsAccount
         DEF ClaimReservation, InTransaction, ReleaseSteps
    <2>2. CASE StillActive(k)
      <3>1. /\ claim[k] \in {None, c}
            /\ claim' = [claim EXCEPT ![k] = c]
            /\ Goto(c, "findHeld")
            /\ UNCHANGED <<stock, reservation, movement, call>>
        BY <1>1, <2>2 DEF ClaimReservation
      <3>2. /\ pc'[c] = "findHeld" /\ \A d \in Calls \ {c} : pc'[d] = pc[d]
        BY <3>1 DEF Goto, IInv, TypeOK
      <3>3. claim'[k] = c /\ \A j \in Calls \ {k} : claim'[j] = claim[j]
        BY <2>0, <3>1 DEF IInv, TypeOK
      <3>4. \A d \in Calls : d # None
        BY ConstantsAssumption
      <3>5. \A d \in Calls \ {c} : Frame(d)
        BY <3>1, <3>2, <3>3, <3>4 DEF Frame, stock
      <3>6. Written(c)'
        BY <1>0, <2>0, <3>1, <3>2, UnwrittenStep DEF CallInv, Unwritten
      <3>7. Claims(c)'
        BY <1>0, <2>0, <2>2, <3>1, <3>2, <3>3 DEF CallInv, Claims, StillActive, ReleaseSteps
      <3>8. CallInv(c)'
        BY <3>2, <3>6, <3>7 DEF CallInv, Fits
      <3>9. Tables'
        <4>1. ASSUME NEW d \in Calls, pc'[d] \notin {"post", "done"}
              PROVE  movement'[d] = None /\ reservation'[d] = None
          <5>1. pc[d] \notin {"post", "done"}
            BY <2>0, <3>2, <4>1
          <5>2. QED
            BY <3>1, <5>1 DEF AccountInv, Tables
        <4>2. QED
          BY <2>0, <3>1, <3>3, <4>1 DEF AccountInv, Tables, stock
      <3>10. QED
        BY <3>5, <3>8, <3>9, OneCallSteps
    <2>3. QED
      BY <2>1, <2>2
  <1>2. CASE FindHeld(c)
    <2> DEFINE k == call[c].reservation
    <2>0. /\ k \in Calls /\ pc[c] = "findHeld" /\ reservation[k] # None
          /\ reservation[k].warehouse = call[c].from
      BY <1>0, <1>2 DEF LocalsReady, FindHeld, ReleaseSteps, CallInv, Claims
    <2>1. PICK x \in RowIds : stockLevel[x] # None /\ stockLevel[x].warehouse = call[c].from
      BY <2>0 DEF AccountInv, Tables
    <2>2. View(c, x) # None /\ View(c, x).warehouse = call[c].from
      BY <1>0, <2>0, <2>1 DEF CallInv, Written, Owned, View, TargetSteps
    <2>3. PICK r \in FindFirst(c, call[c].from) :
            /\ call' = [call EXCEPT ![c].level = r]
            /\ Goto(c, IF r = None THEN "commitRelease" ELSE "drop")
      BY <1>2 DEF FindHeld
    <2>4. r \in RowIds /\ View(c, r).warehouse = call[c].from /\ r # None
      BY <2>1, <2>2, ConstantsAssumption DEF FindFirst, RowIds
    <2>5. /\ call' = [call EXCEPT ![c] = [call[c] EXCEPT !.level = r]]
          /\ Goto(c, "drop")
          /\ UNCHANGED <<stock, holds, movement>>
      BY <1>2, <2>3, <2>4 DEF FindHeld
    <2>6. pc'[c] = "drop" /\ call'[c] = [call[c] EXCEPT !.level = r]
      BY <2>5, ThisCall
    <2>7. /\ call'[c].level = r /\ call'[c].from = call[c].from
          /\ call'[c].quantity = call[c].quantity /\ call'[c].reservation = k
      BY <2>6 DEF IInv, TypeOK, Locals
    <2>8. View(c, r)' = View(c, r)
      BY <2>5 DEF View, stock
    <2>9. Written(c)'
      BY <1>0, <2>0, <2>5, <2>6, UnwrittenStep DEF CallInv, Unwritten
    <2>10. Claims(c)'
      BY <1>0, <2>0, <2>5, <2>6, <2>7 DEF CallInv, Claims, ReleaseSteps, holds
    <2>11. CallInv(c)'
      BY <2>4, <2>6, <2>7, <2>8, <2>9, <2>10 DEF CallInv, Fits, View
    <2>12. QED
      BY <2>0, <2>5, <2>11, QuietStep
  <1>3. QED
    BY <1>1, <1>2

-----------------------------------------------------------------------------
(* The writes.                                                             *)

\* An UPDATE or INSERT of one row changes what its call sees, and nothing else.
LEMMA WriteRows ==
  ASSUME IInv, AccountInv, NEW c \in Calls, NEW r \in RowIds, NEW row \in Row, NEW step,
         Write(c, r, row), Lockable(c, r), Goto(c, step),
         UNCHANGED <<holds, movement, call>>,
         stockLevel[r] # None => row.warehouse = stockLevel[r].warehouse,
         pc[c] \in InTransaction
  PROVE  /\ Owned(c)' = Owned(c) \cup {r}
         /\ Level' = Level
         /\ Seen(c)' = [Seen(c) EXCEPT ![r] = Abs(row)]
         /\ pc'[c] = step
         /\ CallInv(c)' => AccountInv'
  <1>0. \A d \in Calls : d # None
    BY ConstantsAssumption
  <1>1. /\ owner' = [owner EXCEPT ![r] = c] /\ draft' = [draft EXCEPT ![r] = row]
        /\ UNCHANGED stockLevel
    BY DEF Write
  <1>2. Owned(c)' = Owned(c) \cup {r}
    BY <1>1 DEF Owned, IInv, TypeOK
  <1>3. Level' = Level
    BY <1>1 DEF Level
  <1>4. Seen(c)' = [Seen(c) EXCEPT ![r] = Abs(row)]
    <2>1. \A x \in RowIds : Abs(View(c, x))' = IF x = r THEN Abs(row) ELSE Abs(View(c, x))
      BY <1>1 DEF Abs, View, IInv, TypeOK
    <2>2. QED
      BY <2>1 DEF Seen
  <1>5. pc'[c] = step /\ \A d \in Calls \ {c} : pc'[d] = pc[d]
    BY DEF Goto, IInv, TypeOK
  <1>6. \A d \in Calls \ {c} : Frame(d)
    BY <1>0, <1>1, <1>5 DEF Frame, holds, Lockable, IInv, TypeOK
  <1>7. Tables'
    <2>1. ASSUME NEW d \in Calls, pc'[d] \notin {"post", "done"}
          PROVE  movement'[d] = None /\ reservation'[d] = None
      <3>1. pc[d] \notin {"post", "done"}
        BY <1>5, <2>1 DEF InTransaction, MovementSteps, ReservationSteps, ReleaseSteps
      <3>2. QED
        BY <3>1 DEF AccountInv, Tables, holds
    <2>2. \A x \in RowIds : stockLevel'[x] # None /\ draft'[x] # None =>
            draft'[x].warehouse = stockLevel'[x].warehouse
      BY <1>1 DEF AccountInv, Tables, IInv, TypeOK
    <2>3. QED
      BY <1>1, <2>1, <2>2 DEF AccountInv, Tables, holds
  <1>8. QED
    BY <1>2, <1>3, <1>4, <1>5, <1>6, <1>7, OneCallSteps

\* What a call sees of a row is a row of the same warehouse as the committed one.
LEMMA ViewRow ==
  ASSUME IInv, AccountInv, NEW c \in Calls, NEW r \in RowIds, View(c, r) # None
  PROVE  /\ View(c, r) \in Row
         /\ stockLevel[r] # None => View(c, r).warehouse = stockLevel[r].warehouse
         /\ Seen(c)[r] = Abs(View(c, r))
         /\ Seen(c)[r] # None
         /\ Seen(c)[r].warehouse = View(c, r).warehouse
         /\ Seen(c)[r].quantity = View(c, r).quantity
         /\ Seen(c)[r].reservedQty = View(c, r).reservedQty
  <1>1. View(c, r) \in Row
    BY ViewType
  <1>2. stockLevel[r] # None => View(c, r).warehouse = stockLevel[r].warehouse
    BY DEF AccountInv, Tables, View
  <1>3. Seen(c)[r] = Abs(View(c, r))
    BY DEF Seen
  <1>4. QED
    BY <1>1, <1>2, <1>3, AbsRow

\* A change of a row's quantity, made where the call sees s, is that of the
\* account.
LEMMA ChangedSeen ==
  ASSUME NEW s, NEW r \in RowIds, NEW row \in Row, NEW q,
         s = [x \in RowIds |-> s[x]],
         s[r] \in [warehouse : Warehouses, quantity : Int, reservedQty : Int],
         row.warehouse = s[r].warehouse, row.quantity = s[r].quantity + q,
         row.reservedQty = s[r].reservedQty
  PROVE  [s EXCEPT ![r] = Abs(row)] = Account!Changed(s, r, q)
  <1>1. Abs(row) = [s[r] EXCEPT !.quantity = @ + q]
    BY ConstantsAssumption DEF Abs, Row
  <1>2. QED
    BY <1>1, ChangedRows

LEMMA DecrementKeepsAccount ==
  ASSUME IInv, AccountInv, NEW c \in Calls, Decrement(c)
  PROVE  AccountInv'
  <1> DEFINE r == call[c].level
             q == call[c].quantity
             row == [View(c, r) EXCEPT !.quantity = @ - q]
  <1>0. CallInv(c) /\ LocalsReady(c) /\ pc[c] = "decrement"
    BY DEF AccountInv, IInv, Decrement
  <1>1. /\ r \in RowIds /\ View(c, r) # None /\ View(c, r).warehouse = call[c].from
        /\ q \in Quantities /\ q \in Nat /\ call[c].from \in Warehouses
    BY <1>0, ConstantsAssumption
       DEF LocalsReady, CallInv, Fits, InTransaction, MovementSteps, SourceSteps
  <1>2. CASE ~EnoughOnHand(c, r)
    BY <1>0, <1>2, RollbackKeepsAccount DEF Decrement, InTransaction, MovementSteps
  <1>3. CASE EnoughOnHand(c, r)
    <2>1. /\ Write(c, r, row) /\ Lockable(c, r) /\ Goto(c, AfterFrom(call[c].to))
          /\ UNCHANGED <<holds, movement, call>>
      BY <1>3 DEF Decrement
    <2>2. Owned(c) = {} /\ Seen(c) = Level
      BY <1>0, SeesAll DEF CallInv, Written, TargetSteps
    <2>3. /\ View(c, r) \in Row /\ Seen(c)[r] = Abs(View(c, r)) /\ Seen(c)[r] # None
          /\ Seen(c)[r].warehouse = call[c].from
          /\ Seen(c)[r].quantity = View(c, r).quantity
          /\ Seen(c)[r].reservedQty = View(c, r).reservedQty
          /\ stockLevel[r] # None => View(c, r).warehouse = stockLevel[r].warehouse
      BY <1>1, ViewRow
    <2>4. /\ row \in Row /\ row.warehouse = View(c, r).warehouse
          /\ row.quantity = View(c, r).quantity - q /\ row.reservedQty = View(c, r).reservedQty
      BY <1>1, <2>3 DEF Row
    <2>5. /\ Owned(c)' = {r} /\ Level' = Level
          /\ Seen(c)' = [Seen(c) EXCEPT ![r] = Abs(row)]
          /\ pc'[c] = AfterFrom(call[c].to)
          /\ CallInv(c)' => AccountInv'
      BY <1>0, <1>1, <2>1, <2>2, <2>3, <2>4, WriteRows DEF InTransaction, MovementSteps
    <2>6. Seen(c)' = Account!Changed(Level, r, -q)
      <3>1. Level[r] \in [warehouse : Warehouses, quantity : Int, reservedQty : Int]
        BY <1>1, <2>2, <2>3, AbsRow
      <3>2. row.quantity = Level[r].quantity + (-q)
        BY <1>1, <2>2, <2>3, <2>4, <3>1
      <3>3. [Level EXCEPT ![r] = Abs(row)] = Account!Changed(Level, r, -q)
        <4>1. Level = [x \in RowIds |-> Level[x]]
          BY DEF Level
        <4>2. row.warehouse = Level[r].warehouse /\ row.reservedQty = Level[r].reservedQty
          BY <1>1, <2>2, <2>3, <2>4
        <4> HIDE DEF row
        <4>3. QED
          BY <1>1, <2>4, <3>1, <3>2, <4>1, <4>2, ChangedSeen
      <3>4. QED
        BY <2>2, <2>5, <3>3
    <2>7. r \in Sources(c)'
      BY <1>1, <1>3, <2>1, <2>2, <2>3, <2>5 DEF Sources, EnoughOnHand
    <2>8. Taken(c)'
      <3>1. call'[c] = call[c] /\ call[c].from # None
        BY <1>1, <2>1, ConstantsAssumption
      <3>2. QED
        BY <2>5, <2>6, <2>7, <3>1 DEF Taken, Mids
    <2>9. pc'[c] = "number" => Delivered(c)'
      BY <2>1, <2>5, <2>8 DEF Delivered, AfterFrom
    <2>10. CallInv(c)'
      BY <2>5, <2>8, <2>9 DEF CallInv, Written, Fits, Claims, TargetSteps, ReleaseSteps, AfterFrom
    <2>11. QED
      BY <2>5, <2>10
  <1>4. QED
    BY <1>2, <1>3

LEMMA IncrementKeepsAccount ==
  ASSUME IInv, AccountInv, NEW c \in Calls, Increment(c) \/ CreateLevel(c)
  PROVE  AccountInv'
  <1> DEFINE q == call[c].quantity
             w == call[c].to
  <1>m. PICK mid : mid = Seen(c)
    OBVIOUS
  <1>0. CallInv(c) /\ LocalsReady(c) /\ pc[c] = "increment"
    BY DEF AccountInv, IInv, Increment, CreateLevel
  <1>1. /\ q \in Quantities /\ q \in Nat /\ w \in Warehouses /\ w # None
    BY <1>0, ConstantsAssumption DEF LocalsReady, InTransaction, MovementSteps, TargetSteps
  <1>2. Taken(c)
    BY <1>0 DEF CallInv, Written, TargetSteps
  <1>3. ASSUME NEW r \in RowIds, Owned(c)' = Owned(c) \cup {r}, Level' = Level, UNCHANGED call
        PROVE  mid \in Mids(c)'
    BY <1>m, <1>2, <1>3 DEF Taken, Mids, Sources
  <1>4. CASE Increment(c)
    <2> DEFINE r == call[c].existing
               row == Incremented(c, r)
    <2>1. /\ r \in RowIds /\ View(c, r) # None /\ View(c, r).warehouse = w
      BY <1>0, <1>4 DEF Increment, LocalsReady, CallInv, Fits
    <2>2. /\ Write(c, r, row) /\ Lockable(c, r) /\ Goto(c, "number")
          /\ UNCHANGED <<holds, movement, call>>
      BY <1>4 DEF Increment
    <2>3. /\ View(c, r) \in Row /\ mid[r] = Abs(View(c, r)) /\ mid[r] # None
          /\ mid[r].warehouse = w
          /\ mid[r].quantity = View(c, r).quantity
          /\ mid[r].reservedQty = View(c, r).reservedQty
          /\ stockLevel[r] # None => View(c, r).warehouse = stockLevel[r].warehouse
      BY <1>m, <2>1, ViewRow
    <2>4. /\ row \in Row /\ row.warehouse = View(c, r).warehouse
          /\ row.quantity = View(c, r).quantity + q /\ row.reservedQty = View(c, r).reservedQty
      <3> DEFINE v == View(c, r)
                 p == v.priced \/ call[c].priced
                 row2(x) == [v EXCEPT !.quantity = @ + q, !.priced = x]
      <3>1. p \in BOOLEAN
        OBVIOUS
      <3>2. row = row2(p)
        BY DEF Incremented
      <3>3. ASSUME NEW x \in BOOLEAN
            PROVE  /\ row2(x) \in Row /\ row2(x).warehouse = v.warehouse
                   /\ row2(x).quantity = v.quantity + q
                   /\ row2(x).reservedQty = v.reservedQty
        <4>1. v \in Row
          BY <2>3
        <4> DEFINE u == [v EXCEPT !.quantity = @ + q]
        <4> HIDE DEF v
        <4>2. /\ u \in Row /\ u.warehouse = v.warehouse
              /\ u.quantity = v.quantity + q /\ u.reservedQty = v.reservedQty
          BY <1>1, <4>1 DEF Row
        <4>3. row2(x) = [u EXCEPT !.priced = x]
          BY <4>1 DEF Row
        <4> HIDE DEF u
        <4>4. QED
          BY <4>2, <4>3 DEF Row
      <3> HIDE DEF p, v, row, row2
      <3>4. QED
        BY <3>1, <3>2, <3>3 DEF v
    <2>5. /\ Owned(c)' = Owned(c) \cup {r} /\ Level' = Level
          /\ Seen(c)' = [mid EXCEPT ![r] = Abs(row)]
          /\ pc'[c] = "number"
          /\ CallInv(c)' => AccountInv'
      BY <1>m, <1>0, <2>1, <2>2, <2>3, <2>4, WriteRows DEF InTransaction, MovementSteps
    <2>6. Seen(c)' = Account!Changed(mid, r, q)
      <3>1. mid[r] \in [warehouse : Warehouses, quantity : Int, reservedQty : Int]
        BY <2>3, AbsRow
      <3>2. mid = [x \in RowIds |-> mid[x]]
        BY <1>m DEF Seen
      <3>3. [mid EXCEPT ![r] = Abs(row)] = Account!Changed(mid, r, q)
        BY <2>1, <2>3, <2>4, <3>1, <3>2, ChangedSeen
      <3>4. QED
        BY <2>5, <3>3
    <2>7. PutBy(c, mid)'
      <3>1. /\ r \in Owned(c)' /\ mid[r] # None /\ mid[r].warehouse = call'[c].to
            /\ Seen(c)' = Account!Changed(mid, r, call'[c].quantity)
        BY <2>2, <2>3, <2>5, <2>6
      <3>2. QED
        BY <3>1 DEF PutBy
    <2>8. Delivered(c)'
      <3>1. mid \in Mids(c)' /\ call'[c].to # None
        BY <1>1, <1>3, <2>1, <2>2, <2>5
      <3>2. QED
        BY <2>7, <3>1 DEF Delivered
    <2>9. CallInv(c)'
      BY <2>5, <2>8 DEF CallInv, Written, Fits, Claims, TargetSteps, ReleaseSteps
    <2>10. QED
      BY <2>5, <2>9
  <1>5. CASE CreateLevel(c)
    <2> DEFINE row == NewLevel(c)
    <2>1. /\ Write(c, c, row) /\ Goto(c, "number")
          /\ UNCHANGED <<holds, movement, call>>
      BY <1>5 DEF CreateLevel
    <2>2. c \in RowIds /\ stockLevel[c] = None /\ Level[c] = None
      BY <1>0, AbsRow DEF IInv, LocksHeld, TypeOK, RowIds, Level
    <2>3. Lockable(c, c)
      BY <2>2 DEF Lockable, IInv, LocksHeld
    <2>4. row \in Row /\ Abs(row) = [warehouse |-> w, quantity |-> q, reservedQty |-> 0]
      <3>1. row \in Row
        BY <1>1 DEF NewLevel, Row, IInv, TypeOK, Locals
      <3>2. row # None
        BY <3>1, ConstantsAssumption
      <3>3. QED
        BY <3>1, <3>2 DEF NewLevel, Abs
    <2>5. /\ Owned(c)' = Owned(c) \cup {c} /\ Level' = Level
          /\ Seen(c)' = [mid EXCEPT ![c] = Abs(row)]
          /\ pc'[c] = "number"
          /\ CallInv(c)' => AccountInv'
      BY <1>m, <1>0, <2>1, <2>2, <2>3, <2>4, WriteRows DEF InTransaction, MovementSteps
    <2>6. mid[c] = None
      <3>1. CASE call[c].from = None
        BY <1>m, <1>2, <2>2, <3>1, SeesAll DEF Taken
      <3>2. CASE call[c].from # None
        <4>1. PICK x \in Sources(c) : mid = Account!Changed(Level, x, -q)
          BY <1>m, <1>2, <3>2 DEF Taken, Mids
        <4>2. x \in RowIds /\ x # c
          BY <2>2, <4>1 DEF Sources, Owned
        <4>3. QED
          BY <2>2, <4>1, <4>2, ChangedRows
      <3>3. QED
        BY <3>1, <3>2
    <2>7. PutBy(c, mid)'
      <3>1. /\ c \in Owned(c)' /\ mid[c] = None
            /\ Seen(c)' = [mid EXCEPT ![c] = [warehouse |-> call'[c].to,
                             quantity |-> call'[c].quantity, reservedQty |-> 0]]
        BY <2>1, <2>4, <2>5, <2>6
      <3>2. QED
        BY <3>1 DEF PutBy
    <2>8. Delivered(c)'
      <3>1. mid \in Mids(c)' /\ call'[c].to # None
        BY <1>1, <1>3, <2>1, <2>2, <2>5
      <3>2. QED
        BY <2>7, <3>1 DEF Delivered
    <2>9. CallInv(c)'
      BY <2>5, <2>8 DEF CallInv, Written, Fits, Claims, TargetSteps, ReleaseSteps
    <2>10. QED
      BY <2>5, <2>9
  <1>6. QED
    BY <1>4, <1>5

\* A reservation is held in a row, and a release gives it back.
LEMMA HoldKeepsAccount ==
  ASSUME IInv, AccountInv, NEW c \in Calls, HoldStock(c) \/ DropHold(c)
  PROVE  AccountInv'
  <1> DEFINE r == call[c].level
             q == call[c].quantity
  <1>0. CallInv(c) /\ LocalsReady(c) /\ pc[c] \in {"hold", "drop"}
    BY DEF AccountInv, IInv, HoldStock, DropHold
  <1>1. /\ r \in RowIds /\ View(c, r) # None /\ View(c, r).warehouse = call[c].from
        /\ q \in Quantities /\ q \in Nat
    BY <1>0, ConstantsAssumption
       DEF LocalsReady, CallInv, Fits, InTransaction, ReservationSteps, ReleaseSteps
  <1>2. Owned(c) = {} /\ Seen(c) = Level
    BY <1>0, SeesAll DEF CallInv, Written, TargetSteps
  <1>3. /\ View(c, r) \in Row /\ Level[r] = Abs(View(c, r)) /\ Level[r] # None
        /\ Level[r].warehouse = call[c].from
        /\ Level[r].quantity = View(c, r).quantity
        /\ Level[r].reservedQty = View(c, r).reservedQty
        /\ stockLevel[r] # None => View(c, r).warehouse = stockLevel[r].warehouse
    BY <1>1, <1>2, ViewRow
  <1>4. ASSUME NEW n \in Int, NEW step \in {"commitReservation", "commitRelease"},
               Write(c, r, [View(c, r) EXCEPT !.reservedQty = n]), Lockable(c, r),
               Goto(c, step), UNCHANGED <<holds, movement, call>>
        PROVE  /\ Owned(c)' = {r} /\ Level' = Level /\ pc'[c] = step
               /\ Seen(c)' = [Level EXCEPT ![r].reservedQty = n]
               /\ CallInv(c)' => AccountInv'
    <2> DEFINE row == [View(c, r) EXCEPT !.reservedQty = n]
    <2>1. row \in Row /\ row.warehouse = View(c, r).warehouse
      BY <1>3 DEF Row
    <2>2. Abs(row) = [Level[r] EXCEPT !.reservedQty = n]
      BY <1>1, <1>3, <2>1, ConstantsAssumption DEF Abs, Row
    <2>0. Write(c, r, row)
      BY <1>4
    <2> HIDE DEF row
    <2>3. /\ Owned(c)' = Owned(c) \cup {r} /\ Level' = Level
          /\ Seen(c)' = [Seen(c) EXCEPT ![r] = Abs(row)]
          /\ pc'[c] = step
          /\ CallInv(c)' => AccountInv'
      BY <1>0, <1>1, <1>3, <1>4, <2>0, <2>1, WriteRows
         DEF InTransaction, ReservationSteps, ReleaseSteps
    <2>4. QED
      BY <1>2, <2>2, <2>3
  <1>5. CASE HoldStock(c)
    <2>0. pc[c] = "hold"
      BY <1>5 DEF HoldStock
    <2>1. CASE ~StillAvailable(c, r)
      BY <1>5, <2>1, RollbackKeepsAccount DEF HoldStock, InTransaction, ReservationSteps
    <2>2. CASE StillAvailable(c, r)
      <3>1. View(c, r).reservedQty + q \in Int
        BY <1>1, <1>3 DEF Row
      <3>2. /\ Write(c, r, [View(c, r) EXCEPT !.reservedQty = View(c, r).reservedQty + q])
            /\ Lockable(c, r) /\ Goto(c, "commitReservation")
            /\ UNCHANGED <<holds, movement, call>>
        BY <1>5, <2>2 DEF HoldStock
      <3>3. /\ Owned(c)' = {r} /\ Level' = Level /\ pc'[c] = "commitReservation"
            /\ Seen(c)' = [Level EXCEPT ![r].reservedQty = Level[r].reservedQty + q]
            /\ CallInv(c)' => AccountInv'
        BY <1>3, <1>4, <3>1, <3>2
      <3>4. Kept(c)'
        BY <1>3, <2>2, <3>2, <3>3 DEF Kept, StillAvailable, Available
      <3>5. CallInv(c)'
        BY <3>3, <3>4 DEF CallInv, Written, Fits, Claims, TargetSteps, ReleaseSteps
      <3>6. QED
        BY <3>3, <3>5
    <2>3. QED
      BY <2>1, <2>2
  <1>6. CASE DropHold(c)
    <2> DEFINE n == Greatest(0, View(c, r).reservedQty - q)
    <2>1. n \in Int
      BY <1>1, <1>3 DEF Row, Greatest
    <2>2. n = IF Level[r].reservedQty >= q THEN Level[r].reservedQty - q ELSE 0
      BY <1>1, <1>3 DEF Row, Greatest
    <2>3. /\ Write(c, r, [View(c, r) EXCEPT !.reservedQty = n])
          /\ Lockable(c, r) /\ Goto(c, "commitRelease")
          /\ UNCHANGED <<holds, movement, call>>
      BY <1>6 DEF DropHold
    <2>4. /\ Owned(c)' = {r} /\ Level' = Level /\ pc'[c] = "commitRelease"
          /\ Seen(c)' = [Level EXCEPT ![r].reservedQty = n]
          /\ CallInv(c)' => AccountInv'
      BY <1>4, <2>1, <2>3
    <2>5. Freed(c)'
      BY <1>3, <2>2, <2>3, <2>4 DEF Freed
    <2>6. Claims(c)'
      BY <1>0, <1>6, <2>3, <2>4 DEF CallInv, Claims, ReleaseSteps, holds, DropHold
    <2>7. CallInv(c)'
      BY <2>4, <2>5, <2>6 DEF CallInv, Written, Fits, TargetSteps
    <2>8. QED
      BY <2>4, <2>7
  <1>7. QED
    BY <1>5, <1>6

-----------------------------------------------------------------------------
(* The commits.                                                            *)

\* COMMIT makes everybody see what the call has seen.
LEMMA PublishRows ==
  ASSUME IInv, AccountInv, NEW c \in Calls, Publish(c), NEW step \in {"post", "done"},
         Finish(c, step), pc[c] \in InTransaction,
         \A d \in Calls \ {c} : movement'[d] = movement[d],
         \A k \in Calls : reservation[k] # None =>
           /\ reservation'[k].warehouse = reservation[k].warehouse
           /\ reservation'[k].quantity = reservation[k].quantity,
         \A d \in Calls \ {c} :
           /\ reservation[d] = None => reservation'[d] = None
           /\ \A k \in Calls : claim[k] = d => claim'[k] = d /\ reservation'[k] = reservation[k],
         \A k \in Calls : reservation'[k] # None /\ reservation[k] = None =>
           \E r \in RowIds : stockLevel[r] # None
                             /\ stockLevel[r].warehouse = reservation'[k].warehouse,
         \A k \in Calls : reservation[k] # None => reservation'[k] # None,
         \A k \in Calls : claim'[k] # None => claim[k] # None
  PROVE  Level' = Seen(c) /\ AccountInv'
  <1>0. c # None /\ \A d \in Calls : d # None
    BY ConstantsAssumption
  <1>1. /\ pc'[c] = step
        /\ \A d \in Calls \ {c} : pc'[d] = pc[d] /\ call'[d] = call[d]
    BY ThisCall DEF Finish, Goto, IInv, TypeOK
  <1>2. Level' = Seen(c)
    BY DEF Publish, Level, Seen, View
  <1>3. \A r \in RowIds : stockLevel[r] # None =>
          stockLevel'[r] # None /\ stockLevel'[r].warehouse = stockLevel[r].warehouse
    BY <1>0 DEF Publish, AccountInv, Tables, IInv, LocksHeld
  <1>4. ASSUME NEW d \in Calls \ {c} PROVE Frame(d)
    <2>1. \A r \in RowIds : owner[r] = d =>
            owner'[r] = d /\ draft'[r] = draft[r] /\ stockLevel'[r] = stockLevel[r]
      BY <1>0 DEF Publish, Unlocked, Undrafted
    <2>2. \A r \in RowIds : owner'[r] = d => owner[r] = d
      BY <1>0 DEF Publish, Unlocked
    <2>3. QED
      BY <1>1, <1>3, <2>1, <2>2 DEF Frame
  <1>5. Owned(c)' = {}
    BY <1>0 DEF Publish, Unlocked, Owned
  <1>6. CallInv(c)'
    BY <1>1, <1>5 DEF CallInv, Written, Fits, Claims, TargetSteps, ReleaseSteps
  <1>7. Tables'
    <2>1. ASSUME NEW d \in Calls, pc'[d] \notin {"post", "done"}
          PROVE  movement'[d] = None /\ reservation'[d] = None
      <3>1. d # c /\ pc[d] \notin {"post", "done"}
        BY <1>1, <2>1
      <3>2. QED
        BY <3>1 DEF AccountInv, Tables
    <2>2. \A r \in RowIds : stockLevel'[r] # None /\ draft'[r] # None =>
            draft'[r].warehouse = stockLevel'[r].warehouse
      BY DEF AccountInv, Tables, Publish, Undrafted
    <2>3. ASSUME NEW k \in Calls, reservation'[k] # None
          PROVE  \E r \in RowIds : /\ stockLevel'[r] # None
                                   /\ stockLevel'[r].warehouse = reservation'[k].warehouse
      <3>1. PICK r \in RowIds : /\ stockLevel[r] # None
                                /\ stockLevel[r].warehouse = reservation'[k].warehouse
        BY <2>3 DEF AccountInv, Tables
      <3>2. QED
        BY <1>3, <3>1
    <2>4. ASSUME NEW k \in Calls, claim'[k] # None PROVE reservation'[k] # None
      <3>1. claim[k] # None
        BY <2>4
      <3>2. reservation[k] # None
        BY <3>1 DEF AccountInv, Tables
      <3>3. QED
        BY <3>2
    <2>5. QED
      BY <2>1, <2>2, <2>3, <2>4 DEF Tables
  <1>8. QED
    BY <1>2, <1>4, <1>6, <1>7, OneCallSteps

\* The movements as the account sees them.
Moved == [m \in Calls |->
            IF movement[m] = None THEN None
            ELSE [from |-> movement[m].from, to |-> movement[m].to,
                  quantity |-> movement[m].quantity]]

LEMMA MovementCommits ==
  ASSUME IInv, AccountInv, NEW c \in Calls, CommitMovement(c)
  PROVE  AccountInv' /\ Account!Move(c)
  <1> DEFINE from == call[c].from
             to == call[c].to
             q == call[c].quantity
  <1>0. CallInv(c) /\ LocalsReady(c) /\ pc[c] = "commitMovement"
    BY DEF AccountInv, IInv, CommitMovement
  <1>1. /\ from \in Warehouses \cup {None} /\ to \in Warehouses \cup {None}
        /\ q \in Quantities
    BY <1>0 DEF LocalsReady, InTransaction, MovementSteps, IInv, TypeOK, Locals
  <1>2. PICK step \in {"post", "done"} : Finish(c, step)
    BY DEF CommitMovement
  <1>3. /\ Publish(c) /\ UNCHANGED holds
        /\ \A d \in Calls \ {c} : movement'[d] = movement[d]
    BY DEF CommitMovement, IInv, TypeOK
  <1>4. Level' = Seen(c) /\ AccountInv'
    BY <1>0, <1>2, <1>3, PublishRows DEF InTransaction, MovementSteps, holds
  <1>5. movement[c] = None /\ Moved[c] = None
    BY <1>0 DEF AccountInv, Tables, Moved
  <1>6. Moved' = [Moved EXCEPT ![c] = [from |-> from, to |-> to, quantity |-> q]]
    <2>1. /\ movement'[c].from = from /\ movement'[c].to = to /\ movement'[c].quantity = q
          /\ movement'[c] # None
      <3>1. IInv'
        BY NextIInv DEF Next, MovementStep
      <3>2. movement' = [movement EXCEPT ![c] =
               [type |-> call[c].type, from |-> from, to |-> to, quantity |-> q,
                priced |-> call[c].priced, fromQtyBefore |-> call[c].fromQtyBefore,
                toQtyBefore |-> call[c].toQtyBefore, number |-> call[c].number]]
        BY DEF CommitMovement
      <3>3. movement'[c] =
               [type |-> call[c].type, from |-> from, to |-> to, quantity |-> q,
                priced |-> call[c].priced, fromQtyBefore |-> call[c].fromQtyBefore,
                toQtyBefore |-> call[c].toQtyBefore, number |-> call[c].number]
        BY <3>2 DEF IInv, TypeOK
      <3>4. call[c].type \in Types
        BY <1>0 DEF LocalsReady, MovementSteps
      <3>5. movement'[c] \in Movement
        BY <1>1, <3>3, <3>4 DEF Movement, IInv, TypeOK, Locals
      <3>6. QED
        BY <3>3, <3>5, ConstantsAssumption
    <2>2. QED
      BY <1>3, <2>1 DEF Moved
  <1>7. \E mid \in Account!TakenFrom(Level, from, q) : Level' \in Account!PutInto(mid, c, to, q)
    <2>1. Mids(c) \subseteq Account!TakenFrom(Level, from, q)
      BY SameRowIds DEF Mids, Sources, Owned, Account!TakenFrom, Account!RowsIn
    <2>2. CASE to = None
      <3>1. Seen(c) \in Mids(c)
        BY <1>0, <2>2 DEF CallInv, Written, Delivered, Taken
      <3>2. QED
        BY <1>4, <2>1, <2>2, <3>1 DEF Account!PutInto
    <2>3. CASE to # None
      <3>1. PICK mid \in Mids(c) : PutBy(c, mid)
        BY <1>0, <2>3 DEF CallInv, Written, Delivered
      <3>2. Seen(c) \in Account!PutInto(mid, c, to, q)
        BY <2>3, <3>1, SameRowIds DEF PutBy, Owned, Account!PutInto, Account!RowsIn
      <3>3. QED
        BY <1>4, <2>1, <3>1, <3>2
    <2>4. QED
      BY <2>2, <2>3
  <1>8. UNCHANGED reservation
    BY <1>3 DEF holds
  <1>9. Account!Move(c)
    BY <1>1, <1>5, <1>6, <1>7, <1>8 DEF Account!Move, Level, Abs, Moved
  <1>10. QED
    BY <1>4, <1>9

LEMMA ReservationCommits ==
  ASSUME IInv, AccountInv, NEW c \in Calls, CommitReservation(c)
  PROVE  AccountInv' /\ Account!Hold(c)
  <1> DEFINE w == call[c].from
             q == call[c].quantity
             new == [warehouse |-> w, quantity |-> q, status |-> "ACTIVE"]
  <1>0. CallInv(c) /\ LocalsReady(c) /\ pc[c] = "commitReservation"
    BY DEF AccountInv, IInv, CommitReservation
  <1>1. w \in Warehouses /\ q \in Quantities
    BY <1>0 DEF LocalsReady, InTransaction, ReservationSteps
  <1>2. /\ Publish(c) /\ Finish(c, "done") /\ UNCHANGED <<claim, movement>>
        /\ reservation' = [reservation EXCEPT ![c] = new]
    BY DEF CommitReservation
  <1>3. reservation[c] = None
    BY <1>0 DEF AccountInv, Tables
  <1>4. PICK r \in Owned(c) :
          /\ Level[r] # None
          /\ Level[r].warehouse = w
          /\ Level[r].quantity - Level[r].reservedQty >= q
          /\ Seen(c) = [Level EXCEPT ![r].reservedQty = @ + q]
    BY <1>0 DEF CallInv, Written, Kept
  <1>5. r \in RowIds /\ stockLevel[r] # None /\ stockLevel[r].warehouse = w
    BY <1>4, AbsRow DEF Owned, Level, IInv, TypeOK
  <1>6. /\ reservation'[c] = new /\ \A k \in Calls \ {c} : reservation'[k] = reservation[k]
    BY <1>2 DEF IInv, TypeOK
  <1>7. \A k \in Calls : claim[k] # None => k # c
    BY <1>3 DEF AccountInv, Tables
  <1>8. Level' = Seen(c) /\ AccountInv'
    BY <1>0, <1>2, <1>3, <1>5, <1>6, <1>7, ConstantsAssumption, PublishRows
       DEF InTransaction, ReservationSteps
  <1>9. Account!Hold(c)
    <2>1. \E x \in Account!RowsIn(Level, w) :
            /\ Level[x].quantity - Level[x].reservedQty >= q
            /\ Level' = [Level EXCEPT ![x].reservedQty = @ + q]
      BY <1>4, <1>5, <1>8, SameRowIds DEF Account!RowsIn
    <2>2. UNCHANGED Moved
      BY <1>2 DEF Moved
    <2>3. QED
      BY <1>1, <1>2, <1>3, <2>1, <2>2 DEF Account!Hold, Level, Abs, Moved
  <1>10. QED
    BY <1>8, <1>9

LEMMA ReleaseCommits ==
  ASSUME IInv, AccountInv, NEW c \in Calls, CommitRelease(c)
  PROVE  AccountInv' /\ \E k \in Calls : Account!Free(k)
  <1>k. PICK k : k = call[c].reservation
    OBVIOUS
  <1> DEFINE q == call[c].quantity
             released == [reservation[k] EXCEPT !.status = "RELEASED"]
  <1>0. CallInv(c) /\ LocalsReady(c) /\ pc[c] = "commitRelease"
    BY DEF AccountInv, IInv, CommitRelease
  <1>1. /\ k \in Calls /\ reservation[k] # None /\ claim[k] = c
        /\ reservation[k].warehouse = call[c].from
        /\ reservation[k].quantity = q
        /\ reservation[k].status = "ACTIVE"
    BY <1>0, <1>k DEF LocalsReady, ReleaseSteps, CallInv, Claims
  <1>2. /\ Publish(c) /\ Finish(c, "done") /\ UNCHANGED movement
        /\ reservation' = [reservation EXCEPT ![k].status = "RELEASED"]
        /\ claim' = [claim EXCEPT ![k] = None]
    BY <1>k DEF CommitRelease
  <1>3. reservation[k] \in Reservation
    BY <1>1 DEF IInv, TypeOK
  <1>4. /\ reservation'[k] = released /\ claim'[k] = None
        /\ \A j \in Calls \ {k} : reservation'[j] = reservation[j] /\ claim'[j] = claim[j]
    BY <1>1, <1>2 DEF IInv, TypeOK
  <1>5. /\ released \in Reservation /\ released # None
        /\ released.warehouse = reservation[k].warehouse
        /\ released.quantity = reservation[k].quantity
    BY <1>3, ConstantsAssumption DEF Reservation
  <1>6. PICK r \in Owned(c) :
          /\ Level[r] # None
          /\ Level[r].warehouse = call[c].from
          /\ Seen(c) = [Level EXCEPT ![r].reservedQty = IF @ >= q THEN @ - q ELSE 0]
    BY <1>0 DEF CallInv, Written, Freed
  <1> HIDE DEF released
  <1>7. Level' = Seen(c) /\ AccountInv'
    <2>1. \A j \in Calls : reservation[j] # None =>
            /\ reservation'[j].warehouse = reservation[j].warehouse
            /\ reservation'[j].quantity = reservation[j].quantity
      BY <1>4, <1>5
    <2>2. \A d \in Calls \ {c} :
            /\ reservation[d] = None => reservation'[d] = None
            /\ \A j \in Calls : claim[j] = d => claim'[j] = d /\ reservation'[j] = reservation[j]
      BY <1>1, <1>4
    <2>3. \A j \in Calls : /\ reservation[j] # None => reservation'[j] # None
                           /\ reservation[j] = None => reservation'[j] = None
                           /\ claim'[j] # None => claim[j] # None
      BY <1>1, <1>4, <1>5
    <2>4. \A d \in Calls \ {c} : movement'[d] = movement[d]
      BY <1>2
    <2>5. pc[c] \in InTransaction
      BY <1>0 DEF InTransaction, ReleaseSteps
    <2>6. QED
      BY <1>2, <2>1, <2>2, <2>3, <2>4, <2>5, PublishRows
  <1>8. Account!Free(k)
    <2>1. r \in Account!RowsIn(Level, reservation[k].warehouse)
      BY <1>1, <1>6, SameRowIds DEF Account!RowsIn, Owned
    <2>2. Level' = [Level EXCEPT ![r].reservedQty =
                      IF @ >= reservation[k].quantity THEN @ - reservation[k].quantity ELSE 0]
      BY <1>1, <1>6, <1>7
    <2>3. Moved' = Moved
      BY <1>2 DEF Moved
    <2>4. QED
      BY <1>1, <1>2, <2>1, <2>2, <2>3 DEF Account!Free, Level, Abs, Moved
  <1>9. QED
    BY <1>1, <1>7, <1>8

-----------------------------------------------------------------------------
(* The invariant, and the refinement.                                      *)

\* The steps that only their own call sees.
HiddenStep(c) ==
  \/ CreateStockMovement(c) \/ CreateReservation(c) \/ ReleaseReservation(c)
  \/ ReadUnitCost(c) \/ ReadFromQty(c) \/ CheckFrom(c) \/ Decrement(c)
  \/ ReadToQty(c) \/ FindExisting(c) \/ Increment(c) \/ CreateLevel(c)
  \/ NextMovementNumber(c) \/ PostCogs(c) \/ LoseCogs(c)
  \/ CheckReservable(c) \/ HoldStock(c) \/ ClaimReservation(c) \/ FindHeld(c) \/ DropHold(c)
  \/ Interrupt(c) \/ DeadlockVictim(c)

LEMMA HiddenKeepsAccount ==
  ASSUME IInv, AccountInv, NEW c \in Calls, HiddenStep(c)
  PROVE  AccountInv'
  <1>1. CASE Interrupt(c) \/ DeadlockVictim(c)
    BY <1>1, InterruptedInTransaction, RollbackKeepsAccount
  <1>2. CASE CheckFrom(c)
    BY <1>2, CheckKeepsAccount DEF CheckFrom
  <1>3. CASE CheckReservable(c)
    BY <1>3, CheckKeepsAccount DEF CheckReservable
  <1>4. CASE \/ CreateStockMovement(c) \/ CreateReservation(c) \/ ReleaseReservation(c)
             \/ ReadUnitCost(c) \/ ReadFromQty(c) \/ Decrement(c)
    BY <1>4, ArrivalKeepsAccount, EarlyReadKeepsAccount, DecrementKeepsAccount
  <1>5. CASE \/ ReadToQty(c) \/ FindExisting(c) \/ NextMovementNumber(c)
             \/ Increment(c) \/ CreateLevel(c) \/ PostCogs(c) \/ LoseCogs(c)
    BY <1>5, LateReadKeepsAccount, IncrementKeepsAccount, CogsKeepsAccount
  <1>6. CASE HoldStock(c) \/ DropHold(c) \/ ClaimReservation(c) \/ FindHeld(c)
    BY <1>6, HoldKeepsAccount, ClaimKeepsAccount
  <1>7. QED
    BY <1>1, <1>2, <1>3, <1>4, <1>5, <1>6 DEF HiddenStep

LEMMA HiddenChangesNothing ==
  ASSUME NEW c \in Calls, HiddenStep(c)
  PROVE  UNCHANGED <<stockLevel, movement, reservation>>
  <1>1. CASE Rollback(c)
    BY <1>1 DEF Rollback
  <1>2. CASE Interrupt(c) \/ DeadlockVictim(c)
    BY <1>1, <1>2, InterruptedInTransaction
  <1>3. CASE CheckFrom(c) \/ CheckReservable(c)
    BY <1>1, <1>3 DEF CheckFrom, CheckReservable, CheckAvailable, stock, holds
  <1>4. CASE CreateStockMovement(c) \/ CreateReservation(c) \/ ReleaseReservation(c)
    BY <1>4 DEF CreateStockMovement, CreateReservation, ReleaseReservation, stock, holds
  <1>5. CASE \/ ReadUnitCost(c) \/ ReadFromQty(c) \/ ReadToQty(c) \/ FindExisting(c)
             \/ NextMovementNumber(c) \/ PostCogs(c) \/ LoseCogs(c) \/ FindHeld(c)
    BY <1>5 DEF ReadUnitCost, ReadFromQty, ReadToQty, FindExisting, NextMovementNumber,
                PostCogs, LoseCogs, FindHeld, stock, holds
  <1>6. CASE \/ Decrement(c) \/ Increment(c) \/ CreateLevel(c) \/ HoldStock(c)
             \/ DropHold(c) \/ ClaimReservation(c)
    BY <1>1, <1>6 DEF Decrement, Increment, CreateLevel, HoldStock, DropHold,
                      ClaimReservation, Write, stock, holds
  <1>7. QED
    BY <1>2, <1>3, <1>4, <1>5, <1>6 DEF HiddenStep

\* The account of the kernel, as the variables of StockAccount.
LEMMA AccountVars ==
  ASSUME UNCHANGED <<stockLevel, movement, reservation>>
  PROVE  UNCHANGED Account!vars
  BY DEF Account!vars

\* Every step keeps the invariant, and is a step of the account or a stutter.
LEMMA AccountStep ==
  IInv /\ AccountInv /\ [Next]_vars => AccountInv' /\ [Account!Next]_(Account!vars)
  <1> SUFFICES ASSUME IInv, AccountInv, [Next]_vars
               PROVE  AccountInv' /\ [Account!Next]_(Account!vars)
    OBVIOUS
  <1>1. CASE UNCHANGED vars
    <2>1. UNCHANGED <<stockLevel, movement, reservation>>
      BY <1>1 DEF vars
    <2>2. \A d \in Calls : Frame(d)
      BY <1>1 DEF Frame, vars
    <2>3. Tables'
      BY <1>1 DEF AccountInv, Tables, vars
    <2>4. QED
      BY <2>1, <2>2, <2>3, AccountVars, FrameCallInv DEF AccountInv
  <1>2. ASSUME NEW c \in Calls, HiddenStep(c)
        PROVE  AccountInv' /\ [Account!Next]_(Account!vars)
    BY <1>2, HiddenKeepsAccount, HiddenChangesNothing, AccountVars
  <1>3. ASSUME NEW c \in Calls, CommitMovement(c)
        PROVE  AccountInv' /\ [Account!Next]_(Account!vars)
    BY <1>3, MovementCommits DEF Account!Next
  <1>4. ASSUME NEW c \in Calls, CommitReservation(c)
        PROVE  AccountInv' /\ [Account!Next]_(Account!vars)
    BY <1>4, ReservationCommits DEF Account!Next
  <1>5. ASSUME NEW c \in Calls, CommitRelease(c)
        PROVE  AccountInv' /\ [Account!Next]_(Account!vars)
    BY <1>5, ReleaseCommits DEF Account!Next
  <1>6. QED
    BY <1>1, <1>2, <1>3, <1>4, <1>5
       DEF Next, MovementStep, ReservationStep, HiddenStep, Quiescent

LEMMA InitAccount == Init => AccountInv /\ Account!Init
  <1> SUFFICES ASSUME Init PROVE AccountInv /\ Account!Init
    OBVIOUS
  <1>1. \A d \in Calls : d # None
    BY ConstantsAssumption
  <1>2. \A c \in Calls : Owned(c) = {}
    BY <1>1 DEF Init, Owned
  <1>3. \A c \in Calls : CallInv(c)
    BY <1>2 DEF Init, CallInv, Written, Fits, Claims, TargetSteps, ReleaseSteps
  <1>4. Tables
    BY DEF Init, Tables
  <1>5. \A r \in RowIds : Level[r] # None => Level[r].reservedQty \in 0 .. Level[r].quantity
    <2>1. ASSUME NEW r \in RowIds, Level[r] # None
          PROVE  Level[r].reservedQty \in 0 .. Level[r].quantity
      <3>1. stockLevel[r] \in Row \cup {None}
        BY InitIInv DEF IInv, TypeOK
      <3>2. /\ stockLevel[r] # None /\ Level[r].reservedQty = stockLevel[r].reservedQty
            /\ Level[r].quantity = stockLevel[r].quantity
        BY <2>1, <3>1, AbsRow DEF Level
      <3>3. /\ r \in DOMAIN Opening
            /\ stockLevel[r].reservedQty = Reserved[r] /\ stockLevel[r].quantity = Opening[r]
        BY <3>2 DEF Init
      <3>4. QED
        BY <3>2, <3>3, ConstantsAssumption
    <2>2. QED
      BY <2>1
  <1>6. Account!Init
    BY <1>5, SameRowIds DEF Account!Init, Level, Abs, Init
  <1>7. QED
    BY <1>3, <1>4, <1>6 DEF AccountInv

\* What a transaction of WarehouseService has drafted is, after each statement,
\* exactly what StockAccount lets its commit do to the committed stock.
THEOREM AccountInvariant == Spec => [](IInv /\ AccountInv)
  <1>1. Init => IInv /\ AccountInv
    BY InitIInv, InitAccount
  <1>2. IInv /\ AccountInv /\ [Next]_vars => IInv' /\ AccountInv'
    BY NextIInv, AccountStep
  <1>3. QED
    BY <1>1, <1>2, PTL DEF Spec

\* The handlers of WarehouseService, statement by statement and with every
\* interleaving, rollback and crash, implement the account in which a movement,
\* a reservation and a release are single steps.
THEOREM LedgerRefinesAccount == Spec => LedgerIsAccount
  <1>1. Init => Account!Init
    BY InitAccount
  <1>2. IInv /\ AccountInv /\ [Next]_vars => [Account!Next]_(Account!vars)
    BY AccountStep
  <1>3. QED
    BY <1>1, <1>2, AccountInvariant, PTL DEF Spec, LedgerIsAccount, Account!Spec

-----------------------------------------------------------------------------
(* Reservations.                                                           *)

\* Of the account's steps, only Hold reserves more of a row, and what it
\* reserves is available.
LEMMA AccountCovers ==
  ASSUME IInv, IInv', Account!Next, NEW r \in RowIds, stockLevel[r] # None,
         stockLevel'[r].reservedQty > stockLevel[r].reservedQty
  PROVE  stockLevel'[r].reservedQty <= stockLevel'[r].quantity
  <1>1. /\ stockLevel[r] \in Row /\ stockLevel'[r] \in Row \cup {None}
        /\ stockLevel[r].reservedQty \in Int /\ stockLevel[r].quantity \in Int
        /\ stockLevel[r].reservedQty >= 0
    BY DEF IInv, TypeOK, Row, NonNegative
  <1>2. /\ Level[r] # None
        /\ Level[r] \in [warehouse : Warehouses, quantity : Int, reservedQty : Int]
        /\ Level[r].quantity = stockLevel[r].quantity
        /\ Level[r].reservedQty = stockLevel[r].reservedQty
    BY <1>1, AbsRow DEF Level
  <1>3. Level'[r] # None =>
          /\ Level'[r].quantity = stockLevel'[r].quantity
          /\ Level'[r].reservedQty = stockLevel'[r].reservedQty
    BY <1>1, AbsRow DEF Level, Abs
  <1>4. PICK c \in Calls : Account!Move(c) \/ Account!Hold(c) \/ Account!Free(c)
    BY DEF Account!Next
  <1> DEFINE Stock == [warehouse : Warehouses, quantity : Int, reservedQty : Int]
  <1>5. CASE Account!Move(c)
    <2>1. PICK from \in Warehouses \cup {None}, to \in Warehouses \cup {None}, q \in Quantities :
            \E mid \in Account!TakenFrom(Level, from, q) : Level' \in Account!PutInto(mid, c, to, q)
      BY <1>5 DEF Account!Move, Level, Abs
    <2>2. PICK mid \in Account!TakenFrom(Level, from, q) : Level' \in Account!PutInto(mid, c, to, q)
      BY <2>1
    <2>3. q \in Int
      BY ConstantsAssumption
    <2>4. ASSUME NEW s, s[r] \in Stock, NEW x \in RowIds, NEW n \in Int
          PROVE  /\ Account!Changed(s, x, n)[r] \in Stock
                 /\ Account!Changed(s, x, n)[r].reservedQty = s[r].reservedQty
      BY <2>4, ChangedRows
    <2>5. mid[r] \in Stock /\ mid[r].reservedQty = Level[r].reservedQty
      <3>1. CASE from = None
        BY <1>2, <2>2, <3>1 DEF Account!TakenFrom
      <3>2. CASE from # None
        <4>1. PICK x \in RowIds : mid = Account!Changed(Level, x, -q)
          BY <2>2, <3>2, SameRowIds DEF Account!TakenFrom, Account!RowsIn
        <4> QED
          BY <1>2, <2>3, <2>4, <4>1
      <3> QED
        BY <3>1, <3>2
    <2>6. Level'[r] \in Stock /\ Level'[r].reservedQty = mid[r].reservedQty
      <3>1. CASE Level' = mid
        BY <2>5, <3>1
      <3>2. ASSUME NEW x \in RowIds, Level' = Account!Changed(mid, x, q)
            PROVE  Level'[r] \in Stock /\ Level'[r].reservedQty = mid[r].reservedQty
        BY <2>3, <2>4, <2>5, <3>2
      <3>3. CASE mid[c] = None /\ Level' = [mid EXCEPT ![c] =
                   [warehouse |-> to, quantity |-> q, reservedQty |-> 0]]
        <4>1. c # r
          BY <2>5, <3>3, ConstantsAssumption
        <4> QED
          BY <2>5, <3>3, <4>1
      <3> QED
        BY <2>2, <3>1, <3>2, <3>3, SameRowIds DEF Account!PutInto, Account!RowsIn
    <2> QED
      BY <1>1, <1>2, <1>3, <2>5, <2>6, ConstantsAssumption
  <1>6. CASE Account!Hold(c)
    <2>1. PICK w \in Warehouses, q \in Quantities :
            \E x \in Account!RowsIn(Level, w) :
              /\ Level[x].quantity - Level[x].reservedQty >= q
              /\ Level' = [Level EXCEPT ![x].reservedQty = @ + q]
      BY <1>6 DEF Account!Hold, Level, Abs
    <2>2. PICK x \in Account!RowsIn(Level, w) :
            /\ Level[x].quantity - Level[x].reservedQty >= q
            /\ Level' = [Level EXCEPT ![x].reservedQty = @ + q]
      BY <2>1
    <2>3. q \in Int
      BY ConstantsAssumption
    <2>4. CASE x # r
      BY <1>1, <1>2, <1>3, <2>2, <2>4
    <2>5. CASE x = r
      <3>1. Level'[r] = [Level[r] EXCEPT !.reservedQty = @ + q]
        BY <2>2, <2>5 DEF Level
      <3>2. /\ Level'[r] \in Stock
            /\ Level'[r].quantity = Level[r].quantity
            /\ Level'[r].reservedQty = Level[r].reservedQty + q
        BY <1>2, <2>3, <3>1
      <3> QED
        BY <1>1, <1>2, <1>3, <2>2, <2>3, <2>5, <3>2, ConstantsAssumption
    <2> QED
      BY <2>4, <2>5
  <1>7. CASE Account!Free(c)
    <2>1. PICK x \in RowIds :
            Level' = [Level EXCEPT ![x].reservedQty =
              IF @ >= reservation[c].quantity THEN @ - reservation[c].quantity ELSE 0]
      BY <1>7, SameRowIds DEF Account!Free, Account!RowsIn, Level, Abs
    <2>2. reservation[c].quantity \in Nat
      BY <1>7, ConstantsAssumption DEF Account!Free, IInv, TypeOK, Reservation
    <2>3. CASE x # r
      BY <1>1, <1>2, <1>3, <2>1, <2>3
    <2>4. CASE x = r
      <3>1. Level'[r] = [Level[r] EXCEPT !.reservedQty =
              IF @ >= reservation[c].quantity THEN @ - reservation[c].quantity ELSE 0]
        BY <2>1, <2>4 DEF Level
      <3>2. /\ Level'[r] \in Stock
            /\ Level'[r].reservedQty <= Level[r].reservedQty
        BY <1>1, <1>2, <2>2, <3>1
      <3> QED
        BY <1>1, <1>2, <1>3, <3>2, ConstantsAssumption
    <2> QED
      BY <2>3, <2>4
  <1> QED
    BY <1>4, <1>5, <1>6, <1>7

\* A step that reserves more of a row leaves enough on hand for all the row has
\* reserved, for any number of calls: createReservation's conditional UPDATE.
THEOREM ReservationsCovered == Spec => ReservingNeverOverbooks
  <1> DEFINE Covered == \A r \in RowIds :
                /\ stockLevel[r] # None
                /\ stockLevel'[r].reservedQty > stockLevel[r].reservedQty
                => stockLevel'[r].reservedQty <= stockLevel'[r].quantity
  <1>1. ASSUME IInv, AccountInv, [Next]_vars
        PROVE  Covered \/ UNCHANGED vars
    <2>1. IInv'
      BY <1>1, NextIInv
    <2>2. [Account!Next]_(Account!vars)
      BY <1>1, AccountStep
    <2>3. CASE Account!Next
      BY <1>1, <2>1, <2>3, AccountCovers
    <2>4. CASE UNCHANGED Account!vars
      <3>1. SUFFICES ASSUME NEW r \in RowIds, stockLevel[r] # None
                     PROVE  stockLevel'[r].reservedQty = stockLevel[r].reservedQty
        BY <1>1 DEF IInv, TypeOK, Row
      <3>2. Level' = Level
        BY <2>4 DEF Account!vars, Level, Abs
      <3>3. /\ stockLevel[r] \in Row \cup {None} /\ stockLevel'[r] \in Row \cup {None}
            /\ Level[r] = Abs(stockLevel[r]) /\ Level'[r] = Abs(stockLevel'[r])
        BY <1>1, <2>1 DEF IInv, TypeOK, Level, Abs
      <3>4. Abs(stockLevel'[r]) = Abs(stockLevel[r])
        BY <3>2, <3>3
      <3>5. /\ Abs(stockLevel[r]) # None
            /\ Abs(stockLevel[r]).reservedQty = stockLevel[r].reservedQty
        BY <3>1, <3>3, AbsRow
      <3>6. stockLevel'[r] # None
        BY <3>4, <3>5 DEF Abs
      <3>7. Abs(stockLevel'[r]).reservedQty = stockLevel'[r].reservedQty
        BY <3>6 DEF Abs
      <3> QED
        BY <3>4, <3>5, <3>7
    <2> QED
      BY <2>2, <2>3, <2>4
  <1>2. IInv /\ AccountInv /\ [Next]_vars => [Covered]_vars
    BY <1>1
  <1> QED
    BY <1>2, AccountInvariant, PTL DEF Spec, ReservingNeverOverbooks

-----------------------------------------------------------------------------
(* Sums over the rows of a warehouse.                                      *)

LevelRow == [warehouse : Warehouses, quantity : Int, reservedQty : Int]
Levels == [RowIds -> LevelRow \cup {None}]
OnHandOf(s, w) == SumFunction([r \in Account!RowsIn(s, w) |-> s[r].quantity])
ReservedOf(s, w) == SumFunction([r \in Account!RowsIn(s, w) |-> s[r].reservedQty])

\* The account and the ledger see the same sums of a table.
LEMMA SameSums ==
  ASSUME NEW s \in [RowIds -> Row \cup {None}], NEW w \in Warehouses
  PROVE  LET l == [r \in RowIds |-> Abs(s[r])]
             rows == {r \in RowIds : s[r] # None /\ s[r].warehouse = w}
         IN  /\ l \in Levels
             /\ Account!RowsIn(l, w) = rows
             /\ OnHandOf(l, w) = SumFunction([r \in rows |-> s[r].quantity])
             /\ ReservedOf(l, w) = SumFunction([r \in rows |-> s[r].reservedQty])
  <1> DEFINE l == [r \in RowIds |-> Abs(s[r])]
             rows == {r \in RowIds : s[r] # None /\ s[r].warehouse = w}
  <1>1. \A r \in RowIds : /\ l[r] = None <=> s[r] = None
                          /\ s[r] # None => /\ l[r] \in LevelRow
                                            /\ l[r].warehouse = s[r].warehouse
                                            /\ l[r].quantity = s[r].quantity
                                            /\ l[r].reservedQty = s[r].reservedQty
    BY AbsRow DEF LevelRow
  <1>2. l \in Levels
    BY <1>1 DEF Levels
  <1>3. Account!RowsIn(l, w) = rows
    BY <1>1, SameRowIds DEF Account!RowsIn
  <1>4. [r \in rows |-> l[r].quantity] = [r \in rows |-> s[r].quantity]
    BY <1>1
  <1>5. [r \in rows |-> l[r].reservedQty] = [r \in rows |-> s[r].reservedQty]
    BY <1>1
  <1> HIDE DEF l, rows
  <1>6. /\ OnHandOf(l, w) = SumFunction([r \in rows |-> s[r].quantity])
        /\ ReservedOf(l, w) = SumFunction([r \in rows |-> s[r].reservedQty])
    BY <1>3, <1>4, <1>5 DEF OnHandOf, ReservedOf
  <1>7. QED
    BY <1>2, <1>3, <1>6 DEF l, rows

\* The rows of a table, and what the sums add.
LEMMA RowsOf ==
  ASSUME NEW s \in Levels, NEW w \in Warehouses
  PROVE  /\ Account!RowsIn(s, w) = {r \in RowIds : s[r] # None /\ s[r].warehouse = w}
         /\ \A r \in Account!RowsIn(s, w) : s[r] \in LevelRow
         /\ [r \in Account!RowsIn(s, w) |-> s[r].quantity] \in [Account!RowsIn(s, w) -> Int]
         /\ [r \in Account!RowsIn(s, w) |-> s[r].reservedQty] \in [Account!RowsIn(s, w) -> Int]
  <1>1. Account!RowsIn(s, w) = {r \in RowIds : s[r] # None /\ s[r].warehouse = w}
    BY SameRowIds DEF Account!RowsIn
  <1>2. \A r \in Account!RowsIn(s, w) : s[r] \in LevelRow
    BY <1>1 DEF Levels
  <1>3. QED
    BY <1>1, <1>2 DEF LevelRow

\* A change of a row's quantity changes its warehouse's stock by as much.
LEMMA ChangedStock ==
  ASSUME NEW s \in Levels, NEW u \in Warehouses, NEW r \in Account!RowsIn(s, u),
         NEW q \in Int, NEW w \in Warehouses, IsFiniteSet(Account!RowsIn(s, w))
  PROVE  LET t == Account!Changed(s, r, q)
         IN  /\ t \in Levels
             /\ Account!RowsIn(t, w) = Account!RowsIn(s, w)
             /\ OnHandOf(t, w) = OnHandOf(s, w) + (IF u = w THEN q ELSE 0)
             /\ ReservedOf(t, w) = ReservedOf(s, w)
  <1> DEFINE t == Account!Changed(s, r, q)
             R == Account!RowsIn(s, w)
             f == [x \in R |-> s[x].quantity]
             g == [x \in R |-> t[x].quantity]
  <1>1. /\ r \in RowIds /\ s[r] \in LevelRow /\ s[r].warehouse = u /\ s[r] # None
    BY RowsOf
  <1>2. /\ t = [x \in RowIds |-> IF x = r THEN [s[x] EXCEPT !.quantity = @ + q] ELSE s[x]]
    BY <1>1, ChangedRows
  <1>3. /\ t[r] \in LevelRow /\ t[r].warehouse = u /\ t[r].quantity = s[r].quantity + q
        /\ t[r].reservedQty = s[r].reservedQty
        /\ \A x \in RowIds \ {r} : t[x] = s[x]
    BY <1>1, <1>2 DEF LevelRow
  <1>4. t \in Levels
    BY <1>2, <1>3 DEF Levels
  <1>5. None \notin LevelRow
    BY ConstantsAssumption DEF LevelRow
  <1>6. Account!RowsIn(t, w) = R
    <2>1. Account!RowsIn(t, w) = {x \in RowIds : t[x] # None /\ t[x].warehouse = w}
      BY SameRowIds DEF Account!RowsIn
    <2>2. R = {x \in RowIds : s[x] # None /\ s[x].warehouse = w}
      BY SameRowIds DEF Account!RowsIn
    <2> HIDE DEF t, R
    <2>3. QED
      BY <1>1, <1>3, <1>5, <2>1, <2>2
  <1>7. f \in [R -> Int] /\ g \in [R -> Int]
    <2>1. \A x \in R : t[x] \in LevelRow /\ s[x] \in LevelRow
      BY <1>4, <1>6, RowsOf
    <2>2. QED
      BY <2>1 DEF LevelRow
  <1>8. OnHandOf(s, w) = SumFunction(f) /\ OnHandOf(t, w) = SumFunction(g)
    BY <1>6 DEF OnHandOf
  <1>9. OnHandOf(t, w) = OnHandOf(s, w) + (IF u = w THEN q ELSE 0)
    <2>1. CASE u = w
      <3>1. r \in R /\ \A x \in R \ {r} : g[x] = f[x]
        BY <1>3, <2>1, RowsOf
      <3>2. g[r] - f[r] = q
        BY <1>1, <1>3, <3>1 DEF LevelRow
      <3> HIDE DEF f, g, R
      <3>3. SumFunction(g) = SumFunction(f) + (g[r] - f[r])
        BY <1>7, <3>1, ChangedSum DEF R
      <3>4. QED
        BY <1>8, <2>1, <3>2, <3>3
    <2>2. CASE u # w
      <3>1. r \notin R
        BY <1>1, <2>2, RowsOf
      <3>2. f = g
        BY <1>3, <3>1, RowsOf
      <3>3. SumFunction(f) \in Int
        <4> HIDE DEF f, R
        <4>1. QED
          BY <1>7, IntSum DEF R
      <3>4. QED
        BY <1>8, <2>2, <3>2, <3>3
    <2>3. QED
      BY <2>1, <2>2
  <1>10. ReservedOf(t, w) = ReservedOf(s, w)
    <2>1. [x \in R |-> t[x].reservedQty] = [x \in R |-> s[x].reservedQty]
      BY <1>3, RowsOf
    <2>2. QED
      BY <1>6, <2>1 DEF ReservedOf
  <1>11. QED
    BY <1>4, <1>6, <1>9, <1>10

\* A new row brings its quantity to its warehouse, and nothing reserved.
LEMMA NewStock ==
  ASSUME NEW s \in Levels, NEW m \in Calls, s[m] = None, NEW u \in Warehouses,
         NEW q \in Int, NEW w \in Warehouses, IsFiniteSet(Account!RowsIn(s, w)),
         NEW t \in Levels, t[m] = [warehouse |-> u, quantity |-> q, reservedQty |-> 0],
         \A x \in RowIds \ {m} : t[x] = s[x]
  PROVE  /\ Account!RowsIn(s, w) \subseteq Account!RowsIn(t, w)
         /\ IsFiniteSet(Account!RowsIn(t, w))
         /\ OnHandOf(t, w) = OnHandOf(s, w) + (IF u = w THEN q ELSE 0)
         /\ ReservedOf(t, w) = ReservedOf(s, w)
  <1> DEFINE R == Account!RowsIn(s, w)
             T == Account!RowsIn(t, w)
  <1>1. m \in RowIds /\ s = [x \in RowIds |-> s[x]]
    BY DEF RowIds, Levels
  <1>2. /\ t[m] = [warehouse |-> u, quantity |-> q, reservedQty |-> 0]
        /\ t[m] \in LevelRow
        /\ \A x \in RowIds \ {m} : t[x] = s[x]
    BY <1>1 DEF LevelRow
  <1>3. t \in Levels
    BY <1>2 DEF Levels
  <1>4. None \notin LevelRow
    BY ConstantsAssumption DEF LevelRow
  <1>5. /\ m \notin R
        /\ T = IF u = w THEN R \cup {m} ELSE R
    <2>1. T = {x \in RowIds : t[x] # None /\ t[x].warehouse = w}
      BY SameRowIds DEF Account!RowsIn
    <2>2. R = {x \in RowIds : s[x] # None /\ s[x].warehouse = w}
      BY SameRowIds DEF Account!RowsIn
    <2>3. t[m] # None /\ t[m].warehouse = u
      BY <1>2, <1>4
    <2>4. \A x \in RowIds \ {m} : t[x] = s[x]
      BY <1>2
    <2> HIDE DEF R, T
    <2>5. QED
      BY <1>1, <2>1, <2>2, <2>3, <2>4
  <1>6. IsFiniteSet(T)
    <2> HIDE DEF T
    <2>1. QED
      BY <1>5, FS_AddElement
  <1>7. /\ [x \in R |-> s[x].quantity] \in [R -> Int]
        /\ [x \in R |-> s[x].reservedQty] \in [R -> Int]
        /\ [x \in T |-> t[x].quantity] \in [T -> Int]
        /\ [x \in T |-> t[x].reservedQty] \in [T -> Int]
    BY <1>3, RowsOf
  <1>8. \A x \in R : t[x] = s[x]
    <2>1. \A x \in R : x \in RowIds
      BY RowsOf
    <2>2. QED
      BY <1>2, <1>5, <2>1
  <1>9. /\ OnHandOf(s, w) = SumFunction([x \in R |-> s[x].quantity])
        /\ ReservedOf(s, w) = SumFunction([x \in R |-> s[x].reservedQty])
        /\ OnHandOf(t, w) = SumFunction([x \in T |-> t[x].quantity])
        /\ ReservedOf(t, w) = SumFunction([x \in T |-> t[x].reservedQty])
    BY DEF OnHandOf, ReservedOf
  <1>10. t[m].quantity = q /\ t[m].reservedQty = 0
    BY <1>2
  <1> HIDE DEF R, T
  <1>11. ASSUME u = w
         PROVE  /\ R \subseteq T
                /\ OnHandOf(t, w) = OnHandOf(s, w) + (IF u = w THEN q ELSE 0)
                /\ ReservedOf(t, w) = ReservedOf(s, w)
    <2> DEFINE f == [x \in R |-> s[x].quantity]
               g == [x \in T |-> t[x].quantity]
               h == [x \in R |-> s[x].reservedQty]
               k == [x \in T |-> t[x].reservedQty]
    <2>1. /\ g[m] = q /\ k[m] = 0
          /\ \A x \in R : g[x] = f[x] /\ k[x] = h[x]
      BY <1>5, <1>8, <1>10, <1>11
    <2>2. T = R \cup {m} /\ m \notin R /\ IsFiniteSet(R)
      BY <1>5, <1>11 DEF R
    <2>3. f \in [R -> Int] /\ h \in [R -> Int] /\ g \in [T -> Int] /\ k \in [T -> Int]
      BY <1>7
    <2> HIDE DEF f, g, h, k
    <2>4. SumFunction(g) = SumFunction(f) + g[m]
      BY <2>1, <2>2, <2>3, ExtendedSum
    <2>5. SumFunction(k) = SumFunction(h) + k[m]
      BY <2>1, <2>2, <2>3, ExtendedSum
    <2>6. SumFunction(h) \in Int
      BY <2>2, <2>3, IntSum
    <2>7. /\ OnHandOf(t, w) = OnHandOf(s, w) + q
          /\ ReservedOf(t, w) = ReservedOf(s, w)
      <3>1. OnHandOf(s, w) = SumFunction(f) /\ OnHandOf(t, w) = SumFunction(g)
        BY <1>9 DEF f, g
      <3>2. ReservedOf(s, w) = SumFunction(h) /\ ReservedOf(t, w) = SumFunction(k)
        BY <1>9 DEF h, k
      <3>3. QED
        BY <2>1, <2>4, <2>5, <2>6, <3>1, <3>2
    <2>8. QED
      BY <1>11, <2>2, <2>7
  <1>12. ASSUME u # w
         PROVE  /\ R \subseteq T
                /\ OnHandOf(t, w) = OnHandOf(s, w) + (IF u = w THEN q ELSE 0)
                /\ ReservedOf(t, w) = ReservedOf(s, w)
    <2>1. T = R
      BY <1>5, <1>12
    <2>2. /\ [x \in T |-> t[x].quantity] = [x \in R |-> s[x].quantity]
          /\ [x \in T |-> t[x].reservedQty] = [x \in R |-> s[x].reservedQty]
      BY <1>8, <2>1
    <2>3. OnHandOf(s, w) \in Int
      BY <1>7, <1>9, IntSum DEF R
    <2>4. /\ OnHandOf(t, w) = OnHandOf(s, w) + 0
          /\ ReservedOf(t, w) = ReservedOf(s, w)
      BY <1>9, <2>2, <2>3
    <2>5. QED
      BY <1>12, <2>1, <2>4
  <1>13. /\ R \subseteq T
         /\ OnHandOf(t, w) = OnHandOf(s, w) + (IF u = w THEN q ELSE 0)
         /\ ReservedOf(t, w) = ReservedOf(s, w)
    BY <1>11, <1>12
  <1>14. QED
    BY <1>3, <1>6, <1>13 DEF R, T

\* A movement brings its quantity to one warehouse and takes it out of the other.
LEMMA MovedStock ==
  ASSUME NEW s \in Levels, NEW m \in Calls, NEW from \in Warehouses \cup {None},
         NEW to \in Warehouses \cup {None}, NEW q \in Quantities,
         NEW mid \in Account!TakenFrom(s, from, q), NEW t \in Account!PutInto(mid, m, to, q),
         NEW w \in Warehouses, IsFiniteSet(Account!RowsIn(s, w))
  PROVE  /\ Account!RowsIn(s, w) \subseteq Account!RowsIn(t, w)
         /\ IsFiniteSet(Account!RowsIn(t, w))
         /\ OnHandOf(t, w) = OnHandOf(s, w) + (IF to = w THEN q ELSE 0)
                                            - (IF from = w THEN q ELSE 0)
         /\ ReservedOf(t, w) = ReservedOf(s, w)
  <1>1. q \in Int /\ None \notin Warehouses /\ -q \in Int
    BY ConstantsAssumption
  <1>2. OnHandOf(s, w) \in Int
    BY RowsOf, IntSum DEF OnHandOf
  <1>3. /\ mid \in Levels
        /\ Account!RowsIn(mid, w) = Account!RowsIn(s, w)
        /\ OnHandOf(mid, w) = OnHandOf(s, w) - (IF from = w THEN q ELSE 0)
        /\ ReservedOf(mid, w) = ReservedOf(s, w)
    <2>1. CASE from = None
      BY <1>1, <1>2, <2>1 DEF Account!TakenFrom
    <2>2. CASE from # None
      <3>1. PICK r \in Account!RowsIn(s, from) : mid = Account!Changed(s, r, -q)
        BY <2>2 DEF Account!TakenFrom
      <3>2. from \in Warehouses
        BY <2>2
      <3>3. /\ mid \in Levels
            /\ Account!RowsIn(mid, w) = Account!RowsIn(s, w)
            /\ OnHandOf(mid, w) = OnHandOf(s, w) + (IF from = w THEN -q ELSE 0)
            /\ ReservedOf(mid, w) = ReservedOf(s, w)
        BY <1>1, <3>1, <3>2, ChangedStock
      <3>4. QED
        BY <1>1, <1>2, <3>3
    <2>3. QED
      BY <2>1, <2>2
  <1>4. OnHandOf(mid, w) \in Int
    BY <1>1, <1>2, <1>3
  <1>5. /\ Account!RowsIn(mid, w) \subseteq Account!RowsIn(t, w)
        /\ IsFiniteSet(Account!RowsIn(t, w))
        /\ OnHandOf(t, w) = OnHandOf(mid, w) + (IF to = w THEN q ELSE 0)
        /\ ReservedOf(t, w) = ReservedOf(mid, w)
    <2>1. CASE to = None
      BY <1>1, <1>3, <1>4, <2>1 DEF Account!PutInto
    <2>2. CASE to # None
      <3>1. to \in Warehouses
        BY <2>2
      <3>2. CASE \E r \in Account!RowsIn(mid, to) : t = Account!Changed(mid, r, q)
        BY <1>1, <1>3, <3>1, <3>2, ChangedStock
      <3>3. CASE mid[m] = None /\ t = [mid EXCEPT ![m] =
                   [warehouse |-> to, quantity |-> q, reservedQty |-> 0]]
        <4>1. IsFiniteSet(Account!RowsIn(mid, w)) /\ mid[m] = None
          BY <1>3, <3>3
        <4>2. /\ mid \in Levels /\ q \in Int /\ t \in Levels
              /\ t[m] = [warehouse |-> to, quantity |-> q, reservedQty |-> 0]
              /\ \A x \in RowIds \ {m} : t[x] = mid[x]
          BY <1>1, <1>3, <3>1, <3>3 DEF Levels, LevelRow, RowIds
        <4>3. QED
          BY <3>1, <4>1, <4>2, NewStock
      <3>4. QED
        BY <2>2, <3>2, <3>3 DEF Account!PutInto
    <2>3. QED
      BY <2>1, <2>2
  <1>6. QED
    BY <1>1, <1>2, <1>3, <1>5

-----------------------------------------------------------------------------
(* The movements explain the stock.                                        *)

\* Only finitely many rows are ever written.
FiniteTables == /\ \A w \in Warehouses : IsFiniteSet(Rows(w))
                /\ IsFiniteSet(Posted)
                /\ IsFiniteSet(Active)

SumsInv == /\ FiniteTables
           /\ MovementsExplainStock
           /\ ReservedMatchesActive

\* A committed movement: what it says, and what it does to the stock.
LEMMA MoveEffect ==
  ASSUME IInv, AccountInv, NEW c \in Calls, CommitMovement(c)
  PROVE  /\ IInv' /\ movement[c] = None /\ movement'[c] \in Movement
         /\ \A m \in Calls \ {c} : movement'[m] = movement[m]
         /\ UNCHANGED reservation
         /\ LET m == movement'[c]
            IN  \E mid \in Account!TakenFrom(Level, m.from, m.quantity) :
                  Level' \in Account!PutInto(mid, c, m.to, m.quantity)
  <1>1. IInv'
    BY NextIInv DEF Next, MovementStep
  <1>2. movement[c] = None
    BY DEF CommitMovement, AccountInv, Tables
  <1>3. /\ \A m \in Calls \ {c} : movement'[m] = movement[m]
        /\ UNCHANGED reservation
        /\ movement'[c] =
             [type |-> call[c].type, from |-> call[c].from, to |-> call[c].to,
              quantity |-> call[c].quantity, priced |-> call[c].priced,
              fromQtyBefore |-> call[c].fromQtyBefore,
              toQtyBefore |-> call[c].toQtyBefore, number |-> call[c].number]
    BY DEF CommitMovement, IInv, TypeOK, holds
  <1>4. movement'[c] \in Movement
    <2>1. call[c] \in Locals
      BY DEF IInv, TypeOK
    <2>2. call[c].quantity \in Quantities /\ call[c].type \in Types
      BY DEF CommitMovement, IInv, LocalsReady, InTransaction, MovementSteps
    <2>3. QED
      BY <1>3, <2>1, <2>2 DEF Movement, Locals
  <1>5. movement'[c] # None
    BY <1>4, ConstantsAssumption
  <1>6. Account!Move(c)
    BY MovementCommits
  <1>7. PICK from \in Warehouses \cup {None}, to \in Warehouses \cup {None}, q \in Quantities :
          /\ Moved' = [Moved EXCEPT ![c] = [from |-> from, to |-> to, quantity |-> q]]
          /\ \E mid \in Account!TakenFrom(Level, from, q) : Level' \in Account!PutInto(mid, c, to, q)
    BY <1>6 DEF Account!Move, Moved, Level, Abs
  <1>8. Moved'[c] = [from |-> from, to |-> to, quantity |-> q]
    BY <1>7 DEF Moved
  <1>9. Moved'[c] = [from |-> movement'[c].from, to |-> movement'[c].to,
                     quantity |-> movement'[c].quantity]
    BY <1>5 DEF Moved
  <1>10. from = movement'[c].from /\ to = movement'[c].to /\ q = movement'[c].quantity
    BY <1>8, <1>9
  <1>11. QED
    BY <1>1, <1>2, <1>3, <1>4, <1>7, <1>10

\* The sums of the committed stock are those of what the account sees.
LEMMA StockSums ==
  ASSUME IInv, IInv', NEW w \in Warehouses
  PROVE  /\ Level \in Levels /\ Level' \in Levels
         /\ Account!RowsIn(Level, w) = Rows(w) /\ Account!RowsIn(Level', w) = Rows(w)'
         /\ OnHandOf(Level, w) = OnHandIn(w) /\ OnHandOf(Level', w) = OnHandIn(w)'
         /\ ReservedOf(Level, w) = ReservedIn(w) /\ ReservedOf(Level', w) = ReservedIn(w)'
  <1>1. stockLevel \in [RowIds -> Row \cup {None}] /\ stockLevel' \in [RowIds -> Row \cup {None}]
    BY DEF IInv, TypeOK
  <1>2. /\ Level = [r \in RowIds |-> Abs(stockLevel[r])]
        /\ Level' = [r \in RowIds |-> Abs(stockLevel'[r])]
    BY DEF Level
  <1>3. /\ Rows(w) = {r \in RowIds : stockLevel[r] # None /\ stockLevel[r].warehouse = w}
        /\ Rows(w)' = {r \in RowIds : stockLevel'[r] # None /\ stockLevel'[r].warehouse = w}
    BY DEF Rows
  <1>4. /\ OnHandIn(w) = SumFunction([r \in Rows(w) |-> stockLevel[r].quantity])
        /\ OnHandIn(w)' = SumFunction([r \in Rows(w)' |-> stockLevel'[r].quantity])
        /\ ReservedIn(w) = SumFunction([r \in Rows(w) |-> stockLevel[r].reservedQty])
        /\ ReservedIn(w)' = SumFunction([r \in Rows(w)' |-> stockLevel'[r].reservedQty])
    BY DEF OnHandIn, ReservedIn
  <1>5. /\ Level \in Levels
        /\ Account!RowsIn(Level, w) = Rows(w)
        /\ OnHandOf(Level, w) = OnHandIn(w)
        /\ ReservedOf(Level, w) = ReservedIn(w)
    BY <1>1, <1>2, <1>3, <1>4, SameSums
  <1>6. /\ Level' \in Levels
        /\ Account!RowsIn(Level', w) = Rows(w)'
        /\ OnHandOf(Level', w) = OnHandIn(w)'
        /\ ReservedOf(Level', w) = ReservedIn(w)'
    BY <1>1, <1>2, <1>3, <1>4, SameSums
  <1>7. QED
    BY <1>5, <1>6

\* What the movements explain after one more.
LEMMA MoveExplained ==
  ASSUME IInv, AccountInv, SumsInv, NEW c \in Calls, CommitMovement(c)
  PROVE  SumsInv'
  <1> DEFINE q == movement'[c].quantity
             from == movement'[c].from
             to == movement'[c].to
             into(w) == {m \in Posted : movement[m].to = w}
             out(w) == {m \in Posted : movement[m].from = w}
  <1>1. /\ IInv' /\ movement[c] = None /\ movement'[c] \in Movement
        /\ \A m \in Calls \ {c} : movement'[m] = movement[m]
        /\ UNCHANGED reservation
        /\ \E mid \in Account!TakenFrom(Level, from, q) :
             Level' \in Account!PutInto(mid, c, to, q)
    BY MoveEffect
  <1>2. /\ movement'[c] # None /\ q \in Quantities /\ q \in Int
        /\ from \in Warehouses \cup {None} /\ to \in Warehouses \cup {None}
    <2>1. movement'[c] \in Movement
      BY <1>1
    <2>2. /\ q \in Quantities /\ from \in Warehouses \cup {None}
          /\ to \in Warehouses \cup {None}
      BY <2>1 DEF Movement
    <2> HIDE DEF q, from, to
    <2>3. QED
      BY <2>1, <2>2, ConstantsAssumption
  <1>3. ASSUME NEW w \in Warehouses
        PROVE  /\ IsFiniteSet(Rows(w)') /\ Rows(w) \subseteq Rows(w)'
               /\ OnHandIn(w)' = OnHandIn(w) + (IF to = w THEN q ELSE 0)
                                             - (IF from = w THEN q ELSE 0)
               /\ ReservedIn(w)' = ReservedIn(w)
               /\ OnHandIn(w) \in Int
    <2>1. PICK mid \in Account!TakenFrom(Level, from, q) :
             Level' \in Account!PutInto(mid, c, to, q)
      BY <1>1
    <2>2. /\ Level \in Levels /\ Level' \in Levels
          /\ Account!RowsIn(Level, w) = Rows(w) /\ Account!RowsIn(Level', w) = Rows(w)'
          /\ OnHandOf(Level, w) = OnHandIn(w) /\ OnHandOf(Level', w) = OnHandIn(w)'
          /\ ReservedOf(Level, w) = ReservedIn(w) /\ ReservedOf(Level', w) = ReservedIn(w)'
      BY <1>1, StockSums
    <2>3. IsFiniteSet(Account!RowsIn(Level, w))
      BY <2>2 DEF SumsInv, FiniteTables
    <2>4. OnHandOf(Level, w) \in Int
      BY <2>2, <2>3, RowsOf, IntSum DEF OnHandOf
    <2> HIDE DEF q, from, to
    <2>5. /\ Account!RowsIn(Level, w) \subseteq Account!RowsIn(Level', w)
          /\ IsFiniteSet(Account!RowsIn(Level', w))
          /\ OnHandOf(Level', w) = OnHandOf(Level, w)
                                     + (IF to = w THEN q ELSE 0)
                                     - (IF from = w THEN q ELSE 0)
          /\ ReservedOf(Level', w) = ReservedOf(Level, w)
      BY <1>2, <2>1, <2>2, <2>3, MovedStock
    <2>6. QED
      BY <2>2, <2>4, <2>5
  <1>4. Posted' = Posted \cup {c} /\ c \notin Posted
    BY <1>1, <1>2 DEF Posted
  <1>5. \A m \in Posted : movement[m].quantity \in Int /\ movement'[m] = movement[m]
    <2>1. ASSUME NEW m \in Posted
          PROVE  movement[m].quantity \in Int /\ movement'[m] = movement[m]
      <3>1. movement[m] \in Movement
        BY DEF Posted, IInv, TypeOK
      <3>2. movement[m].quantity \in Quantities
        BY <3>1 DEF Movement
      <3>3. movement[m].quantity \in Int
        <4>1. Quantities \subseteq Int
          BY ConstantsAssumption
        <4>2. QED
          BY <3>2, <4>1
      <3>4. m \in Calls \ {c}
        <4>1. Posted \subseteq Calls
          BY DEF Posted
        <4>2. QED
          BY <1>4, <4>1
      <3>5. movement'[m] = movement[m]
        BY <1>1, <3>4
      <3>6. QED
        BY <3>3, <3>5
    <2>2. QED
      BY <2>1
  <1>6. ASSUME NEW w \in Warehouses
        PROVE  /\ CameIn(w)' = CameIn(w) + (IF to = w THEN q ELSE 0)
               /\ CameIn(w) \in Int
    <2> DEFINE b == to = w
               S == into(w)
               T == {m \in Posted' : movement'[m].to = w}
               f == [m \in S |-> movement[m].quantity]
               g == [m \in T |-> movement'[m].quantity]
    <2>1. CameIn(w) = SumFunction(f) /\ CameIn(w)' = SumFunction(g)
      BY DEF CameIn, MovedBy
    <2>2. IsFiniteSet(S)
      BY FS_Subset DEF SumsInv, FiniteTables
    <2>3. T = IF b THEN S \cup {c} ELSE S
      BY <1>4, <1>5
    <2>4. c \notin S
      BY <1>4
    <2>5. f \in [S -> Int] /\ g \in [T -> Int] /\ \A y \in S : g[y] = f[y]
      BY <1>2, <1>4, <1>5
    <2>6. b => g[c] = q
      BY <1>4
    <2>b. b \in BOOLEAN
      OBVIOUS
    <2> HIDE DEF S, T, f, g, q, b
    <2>7. SumFunction(g) = SumFunction(f) + (IF b THEN q ELSE 0)
      BY <1>2, <2>b, <2>2, <2>3, <2>4, <2>5, <2>6, GrownSum
    <2>8. SumFunction(f) \in Int
      BY <2>2, <2>5, IntSum
    <2>9. QED
      BY <2>1, <2>7, <2>8 DEF b
  <1>7. ASSUME NEW w \in Warehouses
        PROVE  /\ WentOut(w)' = WentOut(w) + (IF from = w THEN q ELSE 0)
               /\ WentOut(w) \in Int
    <2> DEFINE b == from = w
               S == out(w)
               T == {m \in Posted' : movement'[m].from = w}
               f == [m \in S |-> movement[m].quantity]
               g == [m \in T |-> movement'[m].quantity]
    <2>1. WentOut(w) = SumFunction(f) /\ WentOut(w)' = SumFunction(g)
      BY DEF WentOut, MovedBy
    <2>2. IsFiniteSet(S)
      BY FS_Subset DEF SumsInv, FiniteTables
    <2>3. T = IF b THEN S \cup {c} ELSE S
      BY <1>4, <1>5
    <2>4. c \notin S
      BY <1>4
    <2>5. f \in [S -> Int] /\ g \in [T -> Int] /\ \A y \in S : g[y] = f[y]
      BY <1>2, <1>4, <1>5
    <2>6. b => g[c] = q
      BY <1>4
    <2>b. b \in BOOLEAN
      OBVIOUS
    <2> HIDE DEF S, T, f, g, q, b
    <2>7. SumFunction(g) = SumFunction(f) + (IF b THEN q ELSE 0)
      BY <1>2, <2>b, <2>2, <2>3, <2>4, <2>5, <2>6, GrownSum
    <2>8. SumFunction(f) \in Int
      BY <2>2, <2>5, IntSum
    <2>9. QED
      BY <2>1, <2>7, <2>8 DEF b
  <1> HIDE DEF q, from, to
  <1>8. MovementsExplainStock'
    <2>1. ASSUME NEW w \in Warehouses
          PROVE  OnHandIn(w)' = OpeningOf(w) + CameIn(w)' - WentOut(w)'
      <3>1. OnHandIn(w) = OpeningOf(w) + CameIn(w) - WentOut(w)
        BY DEF SumsInv, MovementsExplainStock
      <3>2. OpeningOf(w) \in Int
        BY ConstantsAssumption DEF OpeningOf
      <3>3. QED
        BY <1>2, <1>3, <1>6, <1>7, <3>1, <3>2
    <2>2. QED
      BY <2>1 DEF MovementsExplainStock, OpeningOf
  <1>9. FiniteTables'
    <2>1. IsFiniteSet(Posted')
      BY <1>4, FS_AddElement DEF SumsInv, FiniteTables
    <2>2. Active' = Active
      BY <1>1 DEF Active
    <2>3. QED
      BY <1>3, <2>1, <2>2 DEF SumsInv, FiniteTables
  <1>10. ReservedMatchesActive'
    <2>1. ASSUME NEW w \in Warehouses, Cardinality(Rows(w)') <= 1
          PROVE  ReservedIn(w)' = EarlierIn(w) + HeldIn(w)'
      <3>1. Cardinality(Rows(w)) <= 1
        BY <1>3, <2>1, FS_Subset, FS_CardinalityType
      <3>2. ReservedIn(w) = EarlierIn(w) + HeldIn(w)
        BY <3>1 DEF SumsInv, ReservedMatchesActive
      <3>3. HeldIn(w)' = HeldIn(w)
        BY <1>1 DEF HeldIn, ActiveIn, Active
      <3>4. QED
        BY <1>3, <3>2, <3>3
    <2>2. QED
      BY <2>1 DEF ReservedMatchesActive, EarlierIn
  <1>11. QED
    BY <1>8, <1>9, <1>10 DEF SumsInv

-----------------------------------------------------------------------------
(* The reservations explain what is reserved.                              *)

\* A change of one row's reserved quantity.
LEMMA ReservedRow ==
  ASSUME NEW s \in Levels, NEW t \in Levels, NEW w \in Warehouses, NEW r \in RowIds,
         NEW n \in Int, s[r] # None, t[r] # None,
         t[r].warehouse = s[r].warehouse, t[r].quantity = s[r].quantity, t[r].reservedQty = n,
         \A x \in RowIds \ {r} : t[x] = s[x], IsFiniteSet(Account!RowsIn(s, w))
  PROVE  /\ Account!RowsIn(t, w) = Account!RowsIn(s, w)
         /\ OnHandOf(t, w) = OnHandOf(s, w)
         /\ s[r].warehouse = w =>
              ReservedOf(t, w) = ReservedOf(s, w) + (n - s[r].reservedQty)
         /\ s[r].warehouse # w => ReservedOf(t, w) = ReservedOf(s, w)
  <1> DEFINE R == Account!RowsIn(s, w)
             T == Account!RowsIn(t, w)
             f == [x \in R |-> s[x].reservedQty]
             g == [x \in R |-> t[x].reservedQty]
  <1>0. None \notin LevelRow
    BY ConstantsAssumption DEF LevelRow
  <1>1. s[r] \in LevelRow
    BY DEF Levels
  <1>2. /\ t[r].warehouse = s[r].warehouse /\ t[r].quantity = s[r].quantity
        /\ t[r].reservedQty = n /\ t[r] # None
    OBVIOUS
  <1>3. /\ R = {x \in RowIds : s[x] # None /\ s[x].warehouse = w}
        /\ T = {x \in RowIds : t[x] # None /\ t[x].warehouse = w}
    BY RowsOf
  <1>4. T = R
    <2> HIDE DEF R, T
    <2>1. QED
      BY <1>2, <1>3
  <1>5. f \in [R -> Int] /\ g \in [R -> Int]
    BY <1>4, RowsOf
  <1>6. ReservedOf(s, w) = SumFunction(f) /\ ReservedOf(t, w) = SumFunction(g)
    BY <1>4 DEF ReservedOf
  <1>7. OnHandOf(t, w) = OnHandOf(s, w)
    <2>1. [x \in R |-> t[x].quantity] = [x \in R |-> s[x].quantity]
      BY <1>2, <1>3
    <2>2. QED
      BY <1>4, <2>1 DEF OnHandOf
  <1>8. CASE s[r].warehouse = w
    <2>1. r \in R
      BY <1>3, <1>8
    <2>2. g[r] = n /\ f[r] = s[r].reservedQty /\ \A x \in R \ {r} : g[x] = f[x]
      BY <1>2, <1>3, <2>1
    <2>3. IsFiniteSet(R)
      OBVIOUS
    <2> HIDE DEF f, g, R, T
    <2>4. SumFunction(g) = SumFunction(f) + (g[r] - f[r])
      BY <1>5, <2>1, <2>2, <2>3, ChangedSum
    <2>5. QED
      BY <1>4, <1>6, <1>7, <1>8, <2>2, <2>4 DEF R, T
  <1>9. CASE s[r].warehouse # w
    <2>1. r \notin R
      BY <1>3, <1>9
    <2>2. f = g
      BY <1>3, <2>1
    <2>3. QED
      BY <1>4, <1>6, <1>7, <1>9, <2>2
  <1>10. QED
    BY <1>8, <1>9

\* What a step does to the sums that changes one row's reserved quantity.
LEMMA ReservedSums ==
  ASSUME IInv, IInv', SumsInv, NEW r \in RowIds, NEW n \in Int,
         stockLevel[r] # None,
         Level' = [Level EXCEPT ![r].reservedQty = n], NEW w \in Warehouses
  PROVE  /\ Rows(w)' = Rows(w)
         /\ OnHandIn(w)' = OnHandIn(w)
         /\ stockLevel[r].warehouse = w =>
              ReservedIn(w)' = ReservedIn(w) + (n - stockLevel[r].reservedQty)
         /\ stockLevel[r].warehouse # w => ReservedIn(w)' = ReservedIn(w)
  <1>1. /\ Level \in Levels /\ Level' \in Levels
        /\ Account!RowsIn(Level, w) = Rows(w) /\ Account!RowsIn(Level', w) = Rows(w)'
        /\ OnHandOf(Level, w) = OnHandIn(w) /\ OnHandOf(Level', w) = OnHandIn(w)'
        /\ ReservedOf(Level, w) = ReservedIn(w) /\ ReservedOf(Level', w) = ReservedIn(w)'
    BY StockSums
  <1>2. /\ Level[r] # None /\ Level[r].warehouse = stockLevel[r].warehouse
        /\ Level[r].reservedQty = stockLevel[r].reservedQty
    BY AbsRow DEF Level, IInv, TypeOK
  <1>3. /\ Level'[r] # None /\ Level'[r].warehouse = Level[r].warehouse
        /\ Level'[r].quantity = Level[r].quantity /\ Level'[r].reservedQty = n
        /\ \A x \in RowIds \ {r} : Level'[x] = Level[x]
    <2>1. Level[r] \in LevelRow /\ None \notin LevelRow
      BY <1>1, <1>2, ConstantsAssumption DEF Levels, LevelRow
    <2>2. /\ Level'[r] = [Level[r] EXCEPT !.reservedQty = n]
          /\ \A x \in RowIds \ {r} : Level'[x] = Level[x]
      BY DEF Level
    <2>3. QED
      BY <2>1, <2>2 DEF LevelRow
  <1>4. IsFiniteSet(Account!RowsIn(Level, w))
    BY <1>1 DEF SumsInv, FiniteTables
  <1>5. /\ Account!RowsIn(Level', w) = Account!RowsIn(Level, w)
        /\ OnHandOf(Level', w) = OnHandOf(Level, w)
        /\ Level[r].warehouse = w =>
             ReservedOf(Level', w) = ReservedOf(Level, w) + (n - Level[r].reservedQty)
        /\ Level[r].warehouse # w => ReservedOf(Level', w) = ReservedOf(Level, w)
    BY <1>1, <1>2, <1>3, <1>4, ReservedRow
  <1>6. QED
    BY <1>1, <1>2, <1>5

\* The active reservations of a warehouse, and what they hold.
LEMMA HeldSum ==
  ASSUME IInv, SumsInv, NEW w \in Warehouses
  PROVE  /\ IsFiniteSet(ActiveIn(w))
         /\ [k \in ActiveIn(w) |-> reservation[k].quantity] \in [ActiveIn(w) -> Nat]
         /\ HeldIn(w) \in Nat
         /\ \A k \in ActiveIn(w) : reservation[k].quantity <= HeldIn(w)
  <1> DEFINE f == [k \in ActiveIn(w) |-> reservation[k].quantity]
  <1>1. IsFiniteSet(ActiveIn(w))
    BY FS_Subset DEF ActiveIn, SumsInv, FiniteTables
  <1>2. f \in [ActiveIn(w) -> Nat]
    <2>1. ASSUME NEW k \in ActiveIn(w)
          PROVE  reservation[k].quantity \in Nat
      <3>1. reservation[k] \in Reservation
        BY DEF ActiveIn, Active, IInv, TypeOK
      <3>2. QED
        BY <3>1, ConstantsAssumption DEF Reservation
    <2>2. QED
      BY <2>1
  <1>3. SumFunction(f) \in Nat /\ \A k \in ActiveIn(w) : f[k] <= SumFunction(f)
    <2> HIDE DEF f
    <2>1. QED
      BY <1>1, <1>2, NatSum
  <1>4. QED
    BY <1>1, <1>2, <1>3 DEF HeldIn

\* A reservation that commits adds its quantity to both sides.
LEMMA HoldExplained ==
  ASSUME IInv, AccountInv, SumsInv, NEW c \in Calls, CommitReservation(c)
  PROVE  SumsInv'
  <1>1. IInv'
    BY NextIInv DEF Next, ReservationStep
  <1>2. Account!Hold(c) /\ movement' = movement /\ reservation[c] = None
    BY ReservationCommits DEF CommitReservation, AccountInv, Tables
  <1>3. PICK w \in Warehouses, q \in Quantities :
          /\ reservation' = [reservation EXCEPT ![c] =
               [warehouse |-> w, quantity |-> q, status |-> "ACTIVE"]]
          /\ \E x \in Account!RowsIn(Level, w) :
               /\ Level[x].quantity - Level[x].reservedQty >= q
               /\ Level' = [Level EXCEPT ![x].reservedQty = @ + q]
    <2>1. \E w \in Warehouses, q \in Quantities :
          /\ reservation' = [reservation EXCEPT ![c] =
               [warehouse |-> w, quantity |-> q, status |-> "ACTIVE"]]
          /\ \E x \in Account!RowsIn(Level, w) :
               /\ Level[x].quantity - Level[x].reservedQty >= q
               /\ Level' = [Level EXCEPT ![x].reservedQty = @ + q]
      BY <1>2, ZenonT(30) DEF Account!Hold, Level, Abs
    <2>2. QED
      BY <2>1
  <1>4. PICK r \in Account!RowsIn(Level, w) : Level' = [Level EXCEPT ![r].reservedQty = @ + q]
    BY <1>3
  <1>5. q \in Nat
    BY ConstantsAssumption
  <1>6. /\ r \in RowIds /\ stockLevel[r] # None /\ stockLevel[r].warehouse = w
        /\ Level[r].reservedQty = stockLevel[r].reservedQty
        /\ stockLevel[r].reservedQty \in Int
    <2>1. r \in Rows(w)
      BY <1>1, StockSums
    <2>2. r \in RowIds /\ stockLevel[r] \in Row /\ stockLevel[r] # None
      BY <2>1 DEF Rows, IInv, TypeOK
    <2>3. QED
      BY <2>1, <2>2, AbsRow DEF Rows, Level, Row
  <1> DEFINE n == stockLevel[r].reservedQty + q
  <1>7. n \in Int /\ Level' = [Level EXCEPT ![r].reservedQty = n]
    BY <1>4, <1>5, <1>6
  <1> HIDE DEF n
  <1>8. ASSUME NEW v \in Warehouses
        PROVE  /\ Rows(v)' = Rows(v)
               /\ OnHandIn(v)' = OnHandIn(v)
               /\ w = v => ReservedIn(v)' = ReservedIn(v) + (n - stockLevel[r].reservedQty)
               /\ w # v => ReservedIn(v)' = ReservedIn(v)
    BY <1>1, <1>6, <1>7, ReservedSums
  <1>9. /\ reservation'[c].warehouse = w /\ reservation'[c].quantity = q
        /\ reservation'[c] # None /\ reservation'[c].status = "ACTIVE"
        /\ \A k \in Calls \ {c} : reservation'[k] = reservation[k]
    <2>1. reservation'[c] = [warehouse |-> w, quantity |-> q, status |-> "ACTIVE"]
      BY <1>3 DEF IInv, TypeOK
    <2>2. reservation'[c] \in Reservation
      BY <2>1 DEF Reservation
    <2>3. QED
      BY <1>3, <2>1, <2>2, ConstantsAssumption DEF IInv, TypeOK
  <1>10. Active' = Active \cup {c} /\ c \notin Active
    BY <1>2, <1>9 DEF Active
  <1>11. ASSUME NEW v \in Warehouses
         PROVE  HeldIn(v)' = HeldIn(v) + (IF w = v THEN q ELSE 0)
    <2> DEFINE b == w = v
               S == ActiveIn(v)
               T == ActiveIn(v)'
               f == [k \in S |-> reservation[k].quantity]
               g == [k \in T |-> reservation'[k].quantity]
    <2>1. HeldIn(v) = SumFunction(f) /\ HeldIn(v)' = SumFunction(g)
      BY DEF HeldIn
    <2>2. IsFiniteSet(S) /\ f \in [S -> Nat]
      BY HeldSum
    <2>3. S \subseteq Calls /\ c \notin S
      BY <1>10 DEF ActiveIn, Active
    <2>4. T = IF b THEN S \cup {c} ELSE S
      <3>1. T = {k \in Active' : reservation'[k].warehouse = v}
        BY DEF ActiveIn
      <3>2. S = {k \in Active : reservation[k].warehouse = v}
        BY DEF ActiveIn
      <3>3. \A k \in Active : reservation'[k] = reservation[k]
        BY <1>9, <1>10 DEF Active
      <3> HIDE DEF S, T
      <3>4. QED
        BY <1>9, <1>10, <3>1, <3>2, <3>3
    <2>5. \A y \in S : reservation'[y] = reservation[y] /\ y \in T
      BY <1>9, <2>3, <2>4
    <2>6. \A y \in S : g[y] = f[y]
      BY <2>5
    <2>7. g \in [T -> Int]
      <3>1. \A y \in T : reservation'[y].quantity \in Int
        <4>1. \A y \in S : reservation'[y].quantity \in Int
          BY <2>2, <2>5
        <4>2. QED
          BY <1>5, <1>9, <2>4, <4>1
      <3>2. QED
        BY <3>1
    <2>8. b => g[c] = q
      BY <1>9, <2>4
    <2>9. b \in BOOLEAN /\ q \in Int /\ f \in [S -> Int]
      BY <1>5, <2>2
    <2> HIDE DEF S, T, f, g, b
    <2>10. SumFunction(g) = SumFunction(f) + (IF b THEN q ELSE 0)
      BY <2>2, <2>3, <2>4, <2>6, <2>7, <2>8, <2>9, GrownSum
    <2>11. QED
      BY <2>1, <2>10 DEF b
  <1>12. MovementsExplainStock'
    <2>1. ASSUME NEW v \in Warehouses
          PROVE  CameIn(v)' = CameIn(v) /\ WentOut(v)' = WentOut(v)
      BY <1>2 DEF CameIn, WentOut, MovedBy, Posted
    <2>2. QED
      BY <1>8, <2>1 DEF SumsInv, MovementsExplainStock, OpeningOf
  <1>13. FiniteTables'
    <2>1. Posted' = Posted
      BY <1>2 DEF Posted
    <2>2. QED
      BY <1>8, <1>10, <2>1, FS_AddElement DEF SumsInv, FiniteTables
  <1>14. ReservedMatchesActive'
    <2>1. ASSUME NEW v \in Warehouses, Cardinality(Rows(v)') <= 1
          PROVE  ReservedIn(v)' = EarlierIn(v) + HeldIn(v)'
      <3>1. ReservedIn(v) = EarlierIn(v) + HeldIn(v)
        BY <1>8, <2>1 DEF SumsInv, ReservedMatchesActive
      <3>2. EarlierIn(v) \in Int /\ HeldIn(v) \in Int
        BY HeldSum, ConstantsAssumption DEF EarlierIn
      <3>3. n - stockLevel[r].reservedQty = q
        BY <1>5, <1>6 DEF n
      <3>4. QED
        BY <1>5, <1>8, <1>11, <3>1, <3>2, <3>3
    <2>2. QED
      BY <2>1 DEF ReservedMatchesActive, EarlierIn
  <1>15. QED
    BY <1>12, <1>13, <1>14 DEF SumsInv

\* A release takes its quantity from both sides: in the only row of its
\* warehouse at least that much is reserved, because its reservation is active.
LEMMA FreeExplained ==
  ASSUME IInv, AccountInv, SumsInv, NEW c \in Calls, CommitRelease(c)
  PROVE  SumsInv'
  <1>1. IInv'
    BY NextIInv DEF Next, ReservationStep
  <1>2. movement' = movement
    BY DEF CommitRelease
  <1>3. PICK k \in Calls : Account!Free(k)
    BY ReleaseCommits
  <1> DEFINE w == reservation[k].warehouse
             q == reservation[k].quantity
  <1>4. /\ reservation[k] # None /\ reservation[k].status = "ACTIVE"
        /\ reservation' = [reservation EXCEPT ![k].status = "RELEASED"]
        /\ \E x \in Account!RowsIn(Level, w) :
             Level' = [Level EXCEPT ![x].reservedQty = IF @ >= q THEN @ - q ELSE 0]
    BY <1>3, ZenonT(30) DEF Account!Free, Level, Abs
  <1>5. reservation[k] \in Reservation /\ w \in Warehouses /\ q \in Nat /\ q \in Int
    <2>1. reservation[k] \in Reservation
      BY <1>4 DEF IInv, TypeOK
    <2>2. Quantities \subseteq Nat
      BY ConstantsAssumption
    <2>3. w \in Warehouses /\ q \in Quantities
      BY <2>1 DEF Reservation
    <2> HIDE DEF w, q
    <2>4. QED
      BY <2>1, <2>2, <2>3
  <1>6. /\ reservation'[k].warehouse = w /\ reservation'[k].quantity = q
        /\ reservation'[k].status = "RELEASED"
        /\ \A j \in Calls \ {k} : reservation'[j] = reservation[j]
    BY <1>4, <1>5 DEF IInv, TypeOK, Reservation
  <1>7. PICK r \in Account!RowsIn(Level, w) :
          Level' = [Level EXCEPT ![r].reservedQty = IF @ >= q THEN @ - q ELSE 0]
    BY <1>4
  <1> HIDE DEF w, q
  <1>8. /\ r \in Rows(w) /\ r \in RowIds /\ stockLevel[r] # None /\ stockLevel[r].warehouse = w
        /\ Level[r].reservedQty = stockLevel[r].reservedQty
        /\ stockLevel[r].reservedQty \in Int
    <2>1. r \in Rows(w)
      BY <1>1, <1>5, StockSums
    <2>2. r \in RowIds /\ stockLevel[r] \in Row /\ stockLevel[r] # None
      BY <2>1 DEF Rows, IInv, TypeOK
    <2>3. QED
      BY <2>1, <2>2, AbsRow DEF Rows, Level, Row
  <1> DEFINE n == IF stockLevel[r].reservedQty >= q THEN stockLevel[r].reservedQty - q ELSE 0
  <1>9. n \in Int /\ Level' = [Level EXCEPT ![r].reservedQty = n]
    BY <1>5, <1>7, <1>8
  <1>10. stockLevel[r].reservedQty >= q => n = stockLevel[r].reservedQty - q
    OBVIOUS
  <1> HIDE DEF n
  <1>11. ASSUME NEW v \in Warehouses
         PROVE  /\ Rows(v)' = Rows(v)
                /\ OnHandIn(v)' = OnHandIn(v)
                /\ w = v => ReservedIn(v)' = ReservedIn(v) + (n - stockLevel[r].reservedQty)
                /\ w # v => ReservedIn(v)' = ReservedIn(v)
    BY <1>1, <1>8, <1>9, ReservedSums
  <1>12. Active' = Active \ {k} /\ k \in Active
    BY <1>4, <1>5, <1>6, ConstantsAssumption DEF Active, IInv, TypeOK, Reservation
  <1>13. ASSUME NEW v \in Warehouses
         PROVE  /\ HeldIn(v) = HeldIn(v)' + (IF w = v THEN q ELSE 0)
                /\ HeldIn(v) \in Nat /\ HeldIn(v)' \in Int
    <2> DEFINE b == w = v
               S == ActiveIn(v)
               T == ActiveIn(v)'
               f == [j \in S |-> reservation[j].quantity]
               g == [j \in T |-> reservation'[j].quantity]
    <2>1. HeldIn(v) = SumFunction(f) /\ HeldIn(v)' = SumFunction(g)
      BY DEF HeldIn
    <2>2. IsFiniteSet(S) /\ f \in [S -> Nat] /\ HeldIn(v) \in Nat
      BY HeldSum
    <2>3. /\ T = {j \in Active' : reservation'[j].warehouse = v}
          /\ S = {j \in Active : reservation[j].warehouse = v}
      BY DEF ActiveIn
    <2>4. \A j \in Active' : reservation'[j] = reservation[j]
      BY <1>6, <1>12 DEF Active
    <2>5. /\ S = IF b THEN T \cup {k} ELSE T
          /\ k \notin T
      <3> HIDE DEF S, T
      <3>1. QED
        BY <1>12, <2>3, <2>4 DEF w
    <2>6. IsFiniteSet(T)
      <3> HIDE DEF S, T
      <3>1. QED
        BY <2>2, <2>5, FS_Subset
    <2>7. \A y \in T : y \in S /\ reservation'[y] = reservation[y]
      BY <2>3, <2>4, <2>5
    <2>8. \A y \in T : f[y] = g[y]
      BY <2>7
    <2>9. f \in [S -> Int] /\ g \in [T -> Int]
      <3>1. \A y \in T : reservation'[y].quantity \in Int
        BY <2>2, <2>7
      <3>2. QED
        BY <2>2, <3>1
    <2>10. b \in BOOLEAN /\ (b => f[k] = q)
      BY <2>5 DEF q
    <2> HIDE DEF S, T, f, g, b
    <2>11. SumFunction(f) = SumFunction(g) + (IF b THEN q ELSE 0)
      BY <1>5, <2>5, <2>6, <2>8, <2>9, <2>10, GrownSum
    <2>12. SumFunction(g) \in Int
      BY <2>6, <2>9, IntSum
    <2>13. QED
      BY <2>1, <2>2, <2>11, <2>12 DEF b
  <1>14. MovementsExplainStock'
    <2>1. ASSUME NEW v \in Warehouses
          PROVE  CameIn(v)' = CameIn(v) /\ WentOut(v)' = WentOut(v)
      BY <1>2 DEF CameIn, WentOut, MovedBy, Posted
    <2>2. QED
      BY <1>11, <2>1 DEF SumsInv, MovementsExplainStock, OpeningOf
  <1>15. FiniteTables'
    <2>1. Posted' = Posted
      BY <1>2 DEF Posted
    <2>2. IsFiniteSet(Active')
      BY <1>12, FS_Subset DEF SumsInv, FiniteTables
    <2>3. QED
      BY <1>11, <2>1, <2>2 DEF SumsInv, FiniteTables
  <1>16. ReservedMatchesActive'
    <2>1. ASSUME NEW v \in Warehouses, Cardinality(Rows(v)') <= 1
          PROVE  ReservedIn(v)' = EarlierIn(v) + HeldIn(v)'
      <3>1. ReservedIn(v) = EarlierIn(v) + HeldIn(v)
        BY <1>11, <2>1 DEF SumsInv, ReservedMatchesActive
      <3>2. EarlierIn(v) \in Nat
        BY ConstantsAssumption DEF EarlierIn
      <3>3. CASE w # v
        BY <1>11, <1>13, <3>1, <3>3
      <3>4. CASE w = v
        <4>1. q <= HeldIn(v)
          <5>1. k \in ActiveIn(v)
            BY <1>12, <3>4 DEF ActiveIn, w
          <5>2. QED
            BY <5>1, HeldSum DEF q
        <4>2. ReservedIn(v) = stockLevel[r].reservedQty
          <5> DEFINE f == [x \in {r} |-> stockLevel[x].reservedQty]
          <5>1. IsFiniteSet(Rows(v)) /\ Cardinality(Rows(v)) <= 1
            BY <1>11, <2>1 DEF SumsInv, FiniteTables
          <5>2. Rows(v) = {r}
            <6>1. r \in Rows(v)
              BY <1>8, <3>4
            <6>2. Cardinality(Rows(v)) \in Nat /\ Cardinality(Rows(v)) # 0
              BY <5>1, <6>1, FS_CardinalityType, FS_EmptySet
            <6>3. Cardinality(Rows(v)) = 1
              BY <5>1, <6>2
            <6>4. QED
              BY <5>1, <6>1, <6>3, FS_Singleton
          <5>3. f \in [{r} -> Int] /\ f[r] = stockLevel[r].reservedQty
            BY <1>8
          <5>4. ReservedIn(v) = SumFunction(f)
            BY <5>2 DEF ReservedIn
          <5> HIDE DEF f
          <5>5. QED
            BY <5>3, <5>4, SingleSum
        <4>3. n = stockLevel[r].reservedQty - q
          BY <1>5, <1>8, <1>10, <1>13, <3>1, <3>2, <4>1, <4>2
        <4>4. QED
          BY <1>5, <1>8, <1>11, <1>13, <3>1, <3>2, <3>4, <4>2, <4>3
      <3>5. QED
        BY <3>3, <3>4
    <2>2. QED
      BY <2>1 DEF ReservedMatchesActive, EarlierIn
  <1>17. QED
    BY <1>14, <1>15, <1>16 DEF SumsInv

-----------------------------------------------------------------------------
(* The sums, from the first step to the last.                              *)

LEMMA SumsStep == IInv /\ AccountInv /\ SumsInv /\ [Next]_vars => SumsInv'
  <1> SUFFICES ASSUME IInv, AccountInv, SumsInv, [Next]_vars PROVE SumsInv'
    OBVIOUS
  <1>1. ASSUME UNCHANGED <<stockLevel, movement, reservation>>
        PROVE  SumsInv'
    BY <1>1 DEF SumsInv, FiniteTables, MovementsExplainStock, ReservedMatchesActive, Rows,
                Posted, Active, ActiveIn, OnHandIn, ReservedIn, CameIn, WentOut, MovedBy,
                HeldIn, OpeningOf, EarlierIn
  <1>2. CASE UNCHANGED vars
    BY <1>1, <1>2 DEF vars
  <1>3. ASSUME NEW c \in Calls, HiddenStep(c)
        PROVE  SumsInv'
    BY <1>1, <1>3, HiddenChangesNothing
  <1>4. ASSUME NEW c \in Calls, CommitMovement(c) \/ CommitReservation(c) \/ CommitRelease(c)
        PROVE  SumsInv'
    BY <1>4, MoveExplained, HoldExplained, FreeExplained
  <1>5. QED
    BY <1>2, <1>3, <1>4 DEF Next, MovementStep, ReservationStep, HiddenStep, Quiescent

LEMMA InitSums == Init => SumsInv
  <1> SUFFICES ASSUME Init PROVE SumsInv
    OBVIOUS
  <1>1. \A r \in RowIds : /\ stockLevel[r] # None => r \in DOMAIN Opening
                          /\ r \in DOMAIN Opening =>
                               /\ stockLevel[r].warehouse = r
                               /\ stockLevel[r].quantity = Opening[r]
                               /\ stockLevel[r].reservedQty = Reserved[r]
    BY DEF Init
  <1>2. \A w \in DOMAIN Opening : w \in RowIds /\ stockLevel[w] # None
    <2>1. ASSUME NEW w \in DOMAIN Opening PROVE w \in RowIds /\ stockLevel[w] # None
      <3>1. w \in Warehouses /\ w \in RowIds
        BY ConstantsAssumption DEF RowIds
      <3>2. PICK priced \in BOOLEAN :
              stockLevel[w] = [warehouse |-> w, quantity |-> Opening[w],
                               reservedQty |-> Reserved[w], priced |-> priced]
        BY <3>1 DEF Init
      <3>3. stockLevel[w] \in Row
        BY <3>1, <3>2, ConstantsAssumption DEF Row
      <3>4. QED
        BY <3>1, <3>3, ConstantsAssumption
    <2>2. QED
      BY <2>1
  <1>3. ASSUME NEW w \in Warehouses
        PROVE  Rows(w) = IF w \in DOMAIN Opening THEN {w} ELSE {}
    BY <1>1, <1>2 DEF Rows
  <1>4. Posted = {} /\ Active = {}
    BY DEF Init, Posted, Active
  <1>5. \A w \in Warehouses : IsFiniteSet(Rows(w))
    BY <1>3, FS_EmptySet, FS_Singleton
  <1>6. \A w \in Warehouses : CameIn(w) = 0 /\ WentOut(w) = 0 /\ HeldIn(w) = 0
    BY <1>4, EmptySum DEF CameIn, WentOut, MovedBy, HeldIn, ActiveIn
  <1>7. ASSUME NEW w \in Warehouses
        PROVE  OnHandIn(w) = OpeningOf(w) /\ ReservedIn(w) = EarlierIn(w)
    <2>1. CASE w \notin DOMAIN Opening
      BY <1>3, <2>1, EmptySum DEF OnHandIn, ReservedIn, OpeningOf, EarlierIn
    <2>2. CASE w \in DOMAIN Opening
      <3> DEFINE f == [r \in {w} |-> stockLevel[r].quantity]
                 g == [r \in {w} |-> stockLevel[r].reservedQty]
      <3>1. Rows(w) = {w}
        BY <1>3, <2>2
      <3>2. /\ f[w] = Opening[w] /\ g[w] = Reserved[w]
            /\ Opening[w] \in Int /\ Reserved[w] \in Int
        BY <1>1, <1>2, <2>2, ConstantsAssumption
      <3>3. f \in [{w} -> Int] /\ g \in [{w} -> Int]
        BY <3>2
      <3>4. OnHandIn(w) = SumFunction(f) /\ ReservedIn(w) = SumFunction(g)
        BY <3>1 DEF OnHandIn, ReservedIn
      <3> HIDE DEF f, g
      <3>5. QED
        BY <2>2, <3>2, <3>3, <3>4, SingleSum DEF OpeningOf, EarlierIn
    <2>3. QED
      BY <2>1, <2>2
  <1>8. \A w \in Warehouses : OpeningOf(w) \in Int /\ EarlierIn(w) \in Int
    BY ConstantsAssumption DEF OpeningOf, EarlierIn
  <1>9. QED
    BY <1>4, <1>5, <1>6, <1>7, <1>8, FS_EmptySet
       DEF SumsInv, FiniteTables, MovementsExplainStock, ReservedMatchesActive

\* In every warehouse the on-hand quantity is the opening quantity plus what
\* movements brought minus what they took, for any number of calls.
THEOREM StockIsExplained == Spec => []MovementsExplainStock
  <1>1. SumsInv => MovementsExplainStock
    BY DEF SumsInv
  <1>2. QED
    BY <1>1, InitSums, SumsStep, AccountInvariant, PTL DEF Spec

\* Where a warehouse has one row, what it has reserved is the sum of its active
\* reservations, for any number of calls.
THEOREM ReservedIsActive == Spec => []ReservedMatchesActive
  <1>1. SumsInv => ReservedMatchesActive
    BY DEF SumsInv
  <1>2. QED
    BY <1>1, InitSums, SumsStep, AccountInvariant, PTL DEF Spec

-----------------------------------------------------------------------------
(* The books.                                                              *)

\* A call that is about to post has committed a movement with a cost.
BooksInv ==
  /\ \A c \in Calls : pc[c] = "post" => movement[c] # None /\ HasCogs(movement[c])
  /\ books \subseteq Calls
  /\ BooksOnlyCostedMovements

\* A step whose call does not go on to post changes neither.
LEMMA BooksKept ==
  ASSUME IInv, BooksInv, NEW c \in Calls, UNCHANGED <<movement, books>>,
         pc'[c] # "post", \A d \in Calls \ {c} : pc'[d] = pc[d]
  PROVE  BooksInv'
  BY DEF BooksInv, BooksOnlyCostedMovements, Posted

\* Of the steps nobody else sees, only the posting changes the books.
LEMMA HiddenKeepsBooks ==
  ASSUME IInv, BooksInv, NEW c \in Calls, HiddenStep(c)
  PROVE  BooksInv'
  <1>1. CASE Rollback(c)
    BY <1>1, BooksKept DEF Rollback, Finish, Goto, IInv, TypeOK
  <1>2. CASE Interrupt(c) \/ DeadlockVictim(c)
    BY <1>1, <1>2, InterruptedInTransaction
  <1>3. CASE CheckFrom(c) \/ CheckReservable(c)
    BY <1>1, <1>3, BooksKept DEF CheckFrom, CheckReservable, CheckAvailable, Goto, IInv, TypeOK
  <1>4. CASE CreateStockMovement(c) \/ CreateReservation(c) \/ ReleaseReservation(c)
    BY <1>4, BooksKept
       DEF CreateStockMovement, CreateReservation, ReleaseReservation, AfterCost, Goto, IInv, TypeOK
  <1>5. CASE \/ ReadUnitCost(c) \/ ReadFromQty(c) \/ ReadToQty(c) \/ FindExisting(c)
             \/ NextMovementNumber(c) \/ LoseCogs(c) \/ FindHeld(c)
    BY <1>5, BooksKept DEF ReadUnitCost, ReadFromQty, ReadToQty, FindExisting,
       NextMovementNumber, LoseCogs, FindHeld, Finish, Goto, IInv, TypeOK
  <1>6. CASE \/ Decrement(c) \/ Increment(c) \/ CreateLevel(c) \/ HoldStock(c)
             \/ DropHold(c) \/ ClaimReservation(c)
    BY <1>1, <1>6, BooksKept DEF Decrement, Increment, CreateLevel, HoldStock, DropHold,
                                 ClaimReservation, AfterFrom, Goto, IInv, TypeOK
  <1>7. CASE PostCogs(c)
    <2>1. /\ books' = books \cup {c} /\ UNCHANGED movement
          /\ pc[c] = "post" /\ pc' = [pc EXCEPT ![c] = "done"]
      BY <1>7 DEF PostCogs, Finish, Goto
    <2>2. movement[c] # None /\ HasCogs(movement[c])
      BY <2>1 DEF BooksInv
    <2>3. BooksOnlyCostedMovements'
      BY <2>1, <2>2 DEF BooksInv, BooksOnlyCostedMovements, Posted, HasCogs
    <2>4. QED
      BY <2>1, <2>3 DEF BooksInv, IInv, TypeOK
  <1>8. QED
    BY <1>2, <1>3, <1>4, <1>5, <1>6, <1>7 DEF HiddenStep

LEMMA BooksStep == IInv /\ AccountInv /\ BooksInv /\ [Next]_vars => BooksInv'
  <1> SUFFICES ASSUME IInv, AccountInv, BooksInv, [Next]_vars PROVE BooksInv'
    OBVIOUS
  <1>1. CASE UNCHANGED vars
    BY <1>1 DEF BooksInv, BooksOnlyCostedMovements, Posted, vars
  <1>2. ASSUME NEW c \in Calls, CommitMovement(c)
        PROVE  BooksInv'
    <2> DEFINE new == [type |-> call[c].type, from |-> call[c].from, to |-> call[c].to,
                       quantity |-> call[c].quantity, priced |-> call[c].priced,
                       fromQtyBefore |-> call[c].fromQtyBefore,
                       toQtyBefore |-> call[c].toQtyBefore, number |-> call[c].number]
    <2>1. /\ movement' = [movement EXCEPT ![c] = new] /\ UNCHANGED books
          /\ Goto(c, IF HasCogs(call[c]) THEN "post" ELSE "done")
      BY <1>2 DEF CommitMovement, Finish
    <2>2. movement[c] = None
      BY <1>2 DEF AccountInv, Tables, CommitMovement
    <2>3. c \notin books
      BY <2>2 DEF BooksInv, BooksOnlyCostedMovements, Posted
    <2>4. movement'[c] # None
      <3>1. movement'[c] \in Movement \cup {None} /\ movement'[c] = new
        BY <1>2, <2>1, NextIInv DEF IInv, TypeOK, Next, MovementStep
      <3>2. call[c].from \in Warehouses \cup {None} /\ call[c].to \in Warehouses \cup {None}
        BY DEF IInv, TypeOK, Locals
      <3>3. call[c].quantity \in Quantities /\ call[c].type \in Types
        BY <1>2 DEF CommitMovement, IInv, LocalsReady, InTransaction, MovementSteps
      <3>4. new \in Movement
        BY <3>2, <3>3 DEF Movement, IInv, TypeOK, Locals
      <3>5. QED
        BY <3>1, <3>4, ConstantsAssumption
    <2>5. HasCogs(call[c]) => HasCogs(movement'[c])
      BY <2>1 DEF HasCogs, IInv, TypeOK
    <2>6. \A d \in Calls : pc'[d] = "post" => movement'[d] # None /\ HasCogs(movement'[d])
      BY <2>1, <2>4, <2>5 DEF BooksInv, Goto, IInv, TypeOK
    <2>7. \A m \in books : movement'[m] = movement[m]
      BY <2>1, <2>3 DEF BooksInv, IInv, TypeOK
    <2>8. BooksOnlyCostedMovements'
      BY <2>1, <2>7 DEF BooksInv, BooksOnlyCostedMovements, Posted
    <2>9. QED
      BY <2>1, <2>6, <2>8 DEF BooksInv, HasCogs
  <1>3. ASSUME NEW c \in Calls, CommitReservation(c) \/ CommitRelease(c)
        PROVE  BooksInv'
    BY <1>3, BooksKept DEF CommitReservation, CommitRelease, Finish, Goto, IInv, TypeOK
  <1>4. ASSUME NEW c \in Calls, HiddenStep(c)
        PROVE  BooksInv'
    BY <1>4, HiddenKeepsBooks
  <1>5. QED
    BY <1>1, <1>2, <1>3, <1>4 DEF Next, MovementStep, ReservationStep, HiddenStep, Quiescent

\* The cost of goods sold is booked for movements that are committed and carry
\* a cost: postInventoryIssueCogs runs after the transaction, or not at all.
THEOREM BooksAreCosted == Spec => []BooksOnlyCostedMovements
  <1>1. Init => BooksInv
    BY DEF Init, BooksInv, BooksOnlyCostedMovements
  <1>2. IInv /\ AccountInv /\ BooksInv /\ [Next]_vars => BooksInv'
    BY BooksStep
  <1>3. BooksInv => BooksOnlyCostedMovements
    BY DEF BooksInv
  <1>4. QED
    BY <1>1, <1>2, <1>3, AccountInvariant, PTL DEF Spec

=============================================================================
