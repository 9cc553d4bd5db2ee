----------------------------- MODULE Purchases ------------------------------
(***************************************************************************)
(* One purchase order, its goods receipts and the supplier's invoices:     *)
(* approvePurchaseOrder, createGoodsReceipt and the workflow listeners of  *)
(* ProcurementService; createInvoiceFromGoodsReceipt,                      *)
(* evaluateThreeWayMatch, waiveThreeWayMatch, updateInvoiceDraft and the   *)
(* gate of registerPayment of AccountingService.                           *)
(*                                                                         *)
(* A receipt is a row of statements without a transaction: the order is    *)
(* read, the receipt created, each line's received quantity incremented,   *)
(* a stock movement posted for each product, the order read again and its  *)
(* status written, then the accrual and the invoice.  A movement and the   *)
(* automatic journal entry are single steps here (modules StockLedger and  *)
(* Journals).  A receipt and its invoice are named after their call; a     *)
(* request that is refused when it arrives changes nothing and is left out.*)
(* The controller takes any number as a quantity, negative or zero; a line *)
(* that a request leaves out is one of quantity zero here, and a request   *)
(* names a line of the order once.                                         *)
(***************************************************************************)
EXTENDS Integers, FiniteSets, Functions

CONSTANTS
  MaxCalls,    \* how many requests the API receives
  Lines,       \* the lines of the order
  Goods,       \* those whose product is kept in stock
  Ordered,     \* their ordered quantity
  Asked,       \* the quantities by line that receipts and edits may carry
  MaxRunning,  \* how many requests run at the same time
  MaxStops,    \* how many handlers may stop between two statements
  None         \* SQL NULL

Calls == 1 .. MaxCalls   \* numbered as they arrive
Quantities == [Lines -> Int]
Matched == {"NOT_REQUIRED", "PENDING", "MATCHED", "VARIANCE", "WAIVED"}
Bill == [billed : Quantities, linked : BOOLEAN, match : Matched, paid : BOOLEAN]

ASSUME ConstantsAssumption ==
  /\ MaxCalls \in Nat
  /\ Goods \subseteq Lines
  /\ Ordered \in [Lines -> Nat]
  /\ Asked \subseteq Quantities
  /\ MaxRunning \in Nat \ {0}
  /\ MaxStops \in Nat
  /\ None \notin Calls \cup Quantities \cup Bill

VARIABLES
  status,    \* PurchaseOrder.status
  received,  \* PurchaseOrderItem.receivedQty
  receipt,   \* goods_receipts: quantity by line, None before they exist
  housed,    \* the receipts whose warehouseId is not NULL
  stock,     \* what RECEIPT movements have put in the warehouse
  accrued,   \* the receipts that have their accrual entry
  bill,      \* the supplier's invoices: [billed, linked, match, paid] or None
  alone,     \* history: no two requests ran at once and none stopped half way
  pc,        \* the next statement of each call
  local      \* what each call has read

vars == <<status, received, receipt, housed, stock, accrued, bill, alone, pc, local>>
orders == <<status, received, receipt, housed, stock>>

NoLocal == [items |-> None, warehouse |-> FALSE, todo |-> {}, received |-> None,
            bill |-> None, billed |-> None, linked |-> FALSE]
Receipts == {c \in Calls : receipt[c] # None}
Bills == {c \in Calls : bill[c] # None}
AllReceived(q) == \A l \in Lines : q[l] >= Ordered[l]

Running == {c \in Calls : pc[c] \notin {"idle", "done", "stopped"}}
Stopped == {c \in Calls : pc[c] = "stopped"}
Starts(c) == /\ pc[c] = "idle"
             /\ \A d \in 1 .. c - 1 : pc[d] # "idle"
             /\ Cardinality(Running) < MaxRunning
Goto(c, step) == pc' = [pc EXCEPT ![c] = step]
End(c) == Goto(c, "done") /\ local' = [local EXCEPT ![c] = NoLocal]

Init == /\ status = "DRAFT"
        /\ received = [l \in Lines |-> 0]
        /\ receipt = [c \in Calls |-> None]
        /\ housed = {}
        /\ stock = [l \in Lines |-> 0]
        /\ accrued = {}
        /\ bill = [c \in Calls |-> None]
        /\ alone = TRUE
        /\ pc = [c \in Calls |-> "idle"]
        /\ local = [c \in Calls |-> NoLocal]

-----------------------------------------------------------------------------
(* The order: approvePurchaseOrder and the listeners of its approval.      *)

\* approvePurchaseOrder does not test the status.
Approve(c) ==
  /\ Starts(c)
  /\ status' = "CONFIRMED"
  /\ Goto(c, "done")
  /\ UNCHANGED <<received, receipt, housed, stock, accrued, bill, local>>

\* onPurchaseOrderWorkflowApproved: its UPDATE tests the status again.
WorkflowApproved(c) ==
  /\ Starts(c)
  /\ status = "DRAFT"
  /\ status' = "CONFIRMED"
  /\ Goto(c, "done")
  /\ UNCHANGED <<received, receipt, housed, stock, accrued, bill, local>>

ReadForReject(c) ==
  /\ Starts(c)
  /\ status = "DRAFT"
  /\ Goto(c, "reject")
  /\ UNCHANGED <<orders, accrued, bill, local>>

WriteReject(c) ==
  /\ pc[c] = "reject"
  /\ status' = "CANCELLED"
  /\ End(c)
  /\ UNCHANGED <<received, receipt, housed, stock, accrued, bill>>

-----------------------------------------------------------------------------
(* createGoodsReceipt.                                                     *)

\* What the handler knows of its receipt: the request's quantities, whether there
\* is a warehouse, and the order as it is read.
ToReceive(c, q, w) == [local[c] EXCEPT !.items = q, !.warehouse = w, !.received = received]

\* Quantities are not compared with what is still due, nor with zero.  There is
\* no warehouse if the request names none and the company has no active one.
ReadForReceipt(c) ==
  /\ Starts(c)
  /\ status \in {"CONFIRMED", "PARTIALLY_RECEIVED"}
  /\ \E q \in Asked, w \in BOOLEAN : local' = [local EXCEPT ![c] = ToReceive(c, q, w)]
  /\ Goto(c, "receipt")
  /\ UNCHANGED <<orders, accrued, bill>>

CreateReceipt(c) ==
  /\ pc[c] = "receipt"
  /\ receipt' = [receipt EXCEPT ![c] = local[c].items]
  /\ housed' = housed \cup {d \in {c} : local[d].warehouse}
  /\ local' = [local EXCEPT ![c] = [@ EXCEPT !.todo = Lines]]
  /\ Goto(c, "increment")
  /\ UNCHANGED <<status, received, stock, accrued, bill>>

\* The items of a receipt are taken one by one in their order.
NextLine(c) == CHOOSE l \in local[c].todo : TRUE

\* Mutant: the new quantity is computed from the order read at the beginning.
FromRead(c, l) == local[c].received[l] + local[c].items[l]
Incremented(c, l) == received[l] + local[c].items[l]

IncrementLine(c) ==
  /\ pc[c] = "increment"
  /\ local[c].todo # {}
  /\ LET l == NextLine(c) IN
       /\ received' = [received EXCEPT ![l] = Incremented(c, l)]
       /\ local' = [local EXCEPT ![c] = [@ EXCEPT !.todo = local[c].todo \ {l}]]
  /\ UNCHANGED <<status, receipt, housed, stock, accrued, bill, pc>>

\* Mutant: services are put in stock too.
EveryLine(q) == {l \in Lines : q[l] > 0}
ToStock(q) == {l \in Goods : q[l] > 0}

\* Without a warehouse there is no movement.
ToMove(c) == IF local[c].warehouse THEN ToStock(local[c].items) ELSE {}

BeginMovements(c) ==
  /\ pc[c] = "increment"
  /\ local[c].todo = {}
  /\ local' = [local EXCEPT ![c] = [@ EXCEPT !.todo = ToMove(c)]]
  /\ Goto(c, "move")
  /\ UNCHANGED <<orders, accrued, bill>>

\* createStockMovement with type RECEIPT.
PostMovement(c) ==
  /\ pc[c] = "move"
  /\ local[c].todo # {}
  /\ LET l == NextLine(c) IN
       /\ stock' = [stock EXCEPT ![l] = @ + local[c].items[l]]
       /\ local' = [local EXCEPT ![c] = [@ EXCEPT !.todo = local[c].todo \ {l}]]
  /\ UNCHANGED <<status, received, receipt, housed, accrued, bill, pc>>

\* Mutant: the status is computed from the order read at the beginning.
FirstRead(c) == local[c].received
SecondRead(c) == received

RereadOrder(c) ==
  /\ pc[c] = "move"
  /\ local[c].todo = {}
  /\ local' = [local EXCEPT ![c] = [@ EXCEPT !.received = SecondRead(c)]]
  /\ Goto(c, "status")
  /\ UNCHANGED <<orders, accrued, bill>>

\* Mutant: one line that is complete is taken for all of them.
SomeComplete(q) == \E l \in Lines : q[l] >= Ordered[l]
Complete(q) == AllReceived(q)

WriteStatus(c) ==
  LET q == local[c].received IN
  /\ pc[c] = "status"
  /\ status' = IF Complete(q) THEN "RECEIVED"
               ELSE IF \E l \in Lines : q[l] > 0 THEN "PARTIALLY_RECEIVED"
               ELSE status
  /\ Goto(c, "accrue")
  /\ local' = [local EXCEPT ![c] = NoLocal]
  /\ UNCHANGED <<received, receipt, housed, stock, accrued, bill>>

\* Lines of quantity zero or less are neither accrued nor invoiced.
Positive(q) == [l \in Lines |-> IF q[l] > 0 THEN q[l] ELSE 0]
HasPositive(q) == \E l \in Lines : q[l] > 0

\* postPurchaseReceiptAccrual; its errors are recorded and swallowed.
Accrue(c) ==
  /\ pc[c] = "accrue"
  /\ \/ UNCHANGED accrued
     \/ HasPositive(receipt[c]) /\ accrued' = accrued \cup {c}
  /\ Goto(c, "bill")
  /\ UNCHANGED <<orders, bill, local>>

-----------------------------------------------------------------------------
(* createInvoiceFromGoodsReceipt, the end of createGoodsReceipt.           *)

\* createInvoice leaves the invoice without a link to order and receipt.
CreateBill(c) ==
  /\ pc[c] = "bill"
  /\ HasPositive(receipt[c])
  /\ bill' = [bill EXCEPT ![c] = [billed |-> Positive(receipt[c]), linked |-> FALSE,
                                  match |-> "NOT_REQUIRED", paid |-> FALSE]]
  /\ Goto(c, "link")
  /\ UNCHANGED <<orders, accrued, local>>

\* The caller may ask for no invoice; that of a receipt with nothing to bill is
\* refused, and that error is swallowed.
NoBill(c) ==
  /\ pc[c] = "bill"
  /\ End(c)
  /\ UNCHANGED <<orders, accrued, bill>>

Linked(b) == [b EXCEPT !.linked = TRUE, !.match = "PENDING"]

LinkBill(c) ==
  /\ pc[c] = "link"
  /\ bill' = [bill EXCEPT ![c] = Linked(@)]
  /\ local' = [local EXCEPT ![c] = [NoLocal EXCEPT !.bill = c]]
  /\ Goto(c, "match")
  /\ UNCHANGED <<orders, accrued>>

-----------------------------------------------------------------------------
(* evaluateThreeWayMatch, updateInvoiceDraft, waiveThreeWayMatch.          *)

ReadForMatch(c) ==
  /\ Starts(c)
  /\ \E b \in Bills : local' = [local EXCEPT ![c] = [@ EXCEPT !.bill = b]]
  /\ Goto(c, "match")
  /\ UNCHANGED <<orders, accrued, bill>>

\* The invoice is read here and written in the next statement.
ReadBill(c) ==
  LET b == bill[local[c].bill] IN
  /\ pc[c] = "match"
  /\ IF b.linked /\ b.match = "WAIVED"
       THEN End(c)
       ELSE /\ local' = [local EXCEPT ![c] = [@ EXCEPT
                 !.billed = IF b.linked THEN b.billed ELSE None]]
            /\ Goto(c, "evaluate")
  /\ UNCHANGED <<orders, accrued, bill>>

\* The lines of an invoice are those it bills.
Billed(billed) == {l \in Lines : billed[l] # 0}
Matches(b, billed) ==
  \A l \in Billed(billed) : billed[l] <= receipt[b][l] /\ billed[l] <= Ordered[l]

WriteMatch(c) ==
  LET b == local[c].bill
      billed == local[c].billed
  IN  /\ pc[c] = "evaluate"
      /\ bill' = [bill EXCEPT ![b] = [@ EXCEPT !.match =
                    IF billed = None THEN "NOT_REQUIRED"
                    ELSE IF Matches(b, billed) THEN "MATCHED" ELSE "VARIANCE"]]
      /\ End(c)
      /\ UNCHANGED <<orders, accrued>>

\* What the handler knows of its edit: the invoice, its new quantities, and whether
\* it is linked as it is read.
ToEdit(c, b, q) == [local[c] EXCEPT !.bill = b, !.billed = q, !.linked = bill[b].linked]

\* Only a draft: a payment takes the invoice out of it.
ReadForEdit(c) ==
  /\ Starts(c)
  /\ \E b \in Bills, q \in Asked :
       /\ ~bill[b].paid
       /\ Billed(q) # {}
       /\ local' = [local EXCEPT ![c] = ToEdit(c, b, q)]
  /\ Goto(c, "edit")
  /\ UNCHANGED <<orders, accrued, bill>>

EvaluateAfter(c, wasLinked) == IF wasLinked THEN Goto(c, "match") /\ UNCHANGED local ELSE End(c)

\* The match is reset only if the invoice was linked when it was read.
Edited(b, billed, wasLinked) ==
  [b EXCEPT !.billed = billed, !.match = IF wasLinked THEN "PENDING" ELSE @]

WriteEdit(c) ==
  LET wasLinked == local[c].linked IN
  /\ pc[c] = "edit"
  /\ bill' = [bill EXCEPT ![local[c].bill] = Edited(@, local[c].billed, wasLinked)]
  /\ EvaluateAfter(c, wasLinked)
  /\ UNCHANGED <<orders, accrued>>

Waive(c) ==
  /\ Starts(c)
  /\ \E b \in Bills : bill' = [bill EXCEPT ![b] = [@ EXCEPT !.match = "WAIVED"]]
  /\ Goto(c, "done")
  /\ UNCHANGED <<orders, accrued, local>>

-----------------------------------------------------------------------------
(* registerPayment: one transaction with the invoice's row locked.         *)

\* Mutant: the payment does not look at the match.
NoGate(b) == TRUE
Payable(b) == b.linked => b.match \in {"MATCHED", "WAIVED", "NOT_REQUIRED"}

Pay(c) ==
  /\ Starts(c)
  /\ \E b \in Bills : /\ ~bill[b].paid
                      /\ Payable(bill[b])
                      /\ bill' = [bill EXCEPT ![b] = [@ EXCEPT !.paid = TRUE]]
  /\ Goto(c, "done")
  /\ UNCHANGED <<orders, accrued, local>>

-----------------------------------------------------------------------------
\* A handler stops between two statements: the process dies, its connection
\* does, or a statement fails; errors of the invoice steps are swallowed.
Stop(c) == /\ Cardinality(Stopped) < MaxStops
           /\ c \in Running
           /\ Goto(c, "stopped")
           /\ local' = [local EXCEPT ![c] = NoLocal]
           /\ alone' = FALSE
           /\ UNCHANGED <<orders, accrued, bill>>

Quiescent == Running = {} /\ UNCHANGED vars

Begin(c) ==
  \/ Approve(c)
  \/ WorkflowApproved(c)
  \/ ReadForReject(c)
  \/ ReadForReceipt(c)
  \/ ReadForMatch(c)
  \/ ReadForEdit(c)
  \/ Waive(c)
  \/ Pay(c)

Continue(c) ==
  \/ WriteReject(c)
  \/ CreateReceipt(c)
  \/ IncrementLine(c)
  \/ BeginMovements(c)
  \/ PostMovement(c)
  \/ RereadOrder(c)
  \/ WriteStatus(c)
  \/ Accrue(c)
  \/ CreateBill(c)
  \/ NoBill(c)
  \/ LinkBill(c)
  \/ ReadBill(c)
  \/ WriteMatch(c)
  \/ WriteEdit(c)

Step(c) == /\ Begin(c) \/ Continue(c)
           /\ alone' = (alone /\ Running \subseteq {c})

Next == (\E c \in Calls : Step(c) \/ Stop(c)) \/ Quiescent

Spec == Init /\ [][Next]_vars

-----------------------------------------------------------------------------
(* Properties.                                                             *)

OrderStatuses == {"DRAFT", "CONFIRMED", "PARTIALLY_RECEIVED", "RECEIVED", "CANCELLED"}
Locals == [items : Quantities \cup {None}, warehouse : BOOLEAN, todo : SUBSET Lines,
           received : Quantities \cup {None}, bill : Calls \cup {None},
           billed : Quantities \cup {None}, linked : BOOLEAN]
Steps == {"reject", "receipt", "increment", "move", "status", "accrue", "bill", "link",
          "match", "evaluate", "edit"}

\* The tables and the handlers' locals keep their types; only products are in
\* stock.
TypeOK ==
  /\ status \in OrderStatuses
  /\ received \in Quantities
  /\ receipt \in [Calls -> Quantities \cup {None}]
  /\ housed \subseteq Receipts
  /\ stock \in [Lines -> Nat]
  /\ accrued \subseteq Receipts
  /\ bill \in [Calls -> Bill \cup {None}]
  /\ alone \in BOOLEAN
  /\ pc \in [Calls -> Steps \cup {"idle", "done", "stopped"}]
  /\ local \in [Calls -> Locals]
  /\ \A l \in Lines \ Goods : stock[l] = 0

QuantityOf(c, l) == IF c \in Receipts THEN receipt[c][l] ELSE 0
StockedOf(c, l) ==
  IF c \in housed /\ l \in Goods /\ QuantityOf(c, l) > 0 THEN QuantityOf(c, l) ELSE 0
ReceivedBy(S, l) == SumFunction([c \in Calls |-> IF c \in S THEN QuantityOf(c, l) ELSE 0])
StockedBy(S, l) == SumFunction([c \in Calls |-> IF c \in S THEN StockedOf(c, l) ELSE 0])

\* Whatever receipts overlap and wherever they stop, the received quantity of a
\* line is what some of the receipts say of it, each counted whole and once, and
\* the stock what those of them that have a warehouse and a positive quantity
\* have moved; at rest, if none stopped, they are all the receipts
\* (createGoodsReceipt's order of statements and its increments).
ReceiptsAddUp ==
  \A l \in Lines :
    \E counted \in SUBSET Receipts :
      /\ received[l] = ReceivedBy(counted, l)
      /\ \E moved \in SUBSET counted :
           /\ stock[l] = StockedBy(moved, l)
           /\ Running \cup Stopped = {} => counted = Receipts /\ moved = Receipts

NothingTakenBack == \A c \in Receipts, l \in Lines : receipt[c][l] >= 0

\* An order marked RECEIVED has every line received in full, although receipts
\* overlap and each decides on a read that may be stale: always while no receipt
\* has a negative quantity, and also with those where requests did not overlap
\* and none stopped.  In such a history an order marked PARTIALLY_RECEIVED at
\* rest has something due and, if nothing was taken back, something received
\* ("Check if all items fully received" in createGoodsReceipt).
StatusAgrees ==
  /\ status = "RECEIVED" /\ (alone \/ NothingTakenBack) => AllReceived(received)
  /\ alone /\ Running = {} /\ status = "PARTIALLY_RECEIVED" =>
       /\ ~AllReceived(received)
       /\ NothingTakenBack => \E l \in Lines : received[l] > 0

\* In such a history, at rest, a line of a supplier's invoice for a receipt is paid
\* only for what was both ordered and received, unless somebody waived the match
\* (the gate of registerPayment on what evaluateThreeWayMatch found).
PaidIsMatched ==
  alone /\ Running = {} =>
    \A b \in Bills : bill[b].paid /\ bill[b].match # "WAIVED" =>
      \A l \in Billed(bill[b].billed) : /\ bill[b].billed[l] <= receipt[b][l]
                                        /\ bill[b].billed[l] <= Ordered[l]

=============================================================================
