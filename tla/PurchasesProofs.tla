-------------------------- MODULE PurchasesProofs --------------------------
(***************************************************************************)
(* Invariants of Purchases, proved for any number of requests, lines and   *)
(* quantities.                                                             *)
(***************************************************************************)
EXTENDS Purchases, SumProofs

ReceiptSteps == {"receipt", "increment", "move", "status"}

\* What a call has read by the statement it has come to.
ReadsOf(c) ==
  /\ pc[c] \in {"receipt", "increment", "move"} =>
       local[c].items \in Quantities /\ local[c].received # None
  /\ pc[c] \in {"idle", "receipt"} => c \notin Receipts
  /\ pc[c] \in {"increment", "move"} =>
       local[c].items = receipt[c] /\ (local[c].warehouse <=> c \in housed)
  /\ pc[c] = "move" => local[c].todo \subseteq ToMove(c)
  /\ pc[c] \in {"increment", "move", "status", "accrue", "bill", "link"} => c \in Receipts
  /\ pc[c] = "link" => c \in Bills
  /\ pc[c] = "status" => local[c].received # None
  /\ pc[c] \in {"match", "evaluate", "edit"} => local[c].bill \in Bills
  /\ pc[c] = "edit" => local[c].billed # None
Reads == \A c \in Calls : ReadsOf(c)

\* A supplier's invoice is for a receipt.
BillsOfReceipts == Bills \subseteq Receipts

\* The inductive invariant.
Inv == TypeOK /\ Reads /\ BillsOfReceipts

-----------------------------------------------------------------------------
\* Facts about the constants: NULL is no value of a column.
LEMMA NoneIsNoValue ==
  /\ None \notin Calls
  /\ None \notin Quantities
  /\ None \notin Bill
<1> QED  BY ConstantsAssumption

\* The initial state.
LEMMA InitInv == Init => Inv
<1> SUFFICES ASSUME Init
             PROVE  Inv
  OBVIOUS
<1>1. NoLocal \in Locals
  BY DEF NoLocal, Locals
<1>2. TypeOK
  <2>1. local \in [Calls -> Locals]
    BY <1>1 DEF Init
  <2>2. alone \in BOOLEAN
    BY DEF Init
  <2>3. /\ status \in OrderStatuses
        /\ receipt \in [Calls -> Quantities \cup {None}]
        /\ bill \in [Calls -> Bill \cup {None}]
        /\ pc \in [Calls -> Steps \cup {"idle", "done", "stopped"}]
        /\ accrued \subseteq Receipts
        /\ housed \subseteq Receipts
    BY DEF Init, OrderStatuses
  <2>4. /\ received \in Quantities
        /\ stock \in [Lines -> Nat]
        /\ \A l \in Lines \ Goods : stock[l] = 0
    BY DEF Init, Quantities
  <2> QED  BY <2>1, <2>2, <2>3, <2>4 DEF TypeOK
<1>3. Reads
  BY DEF Init, Reads, ReadsOf, Receipts
<1>4. BillsOfReceipts
  BY DEF Init, BillsOfReceipts, Bills
<1> QED  BY <1>2, <1>3, <1>4 DEF Inv

\* A step of one call keeps what the others have read.
LEMMA ReadsStep ==
  ASSUME NEW c \in Calls, Inv,
         \A d \in Calls \ {c} : pc'[d] = pc[d] /\ local'[d] = local[d],
         \A d \in Calls \ {c} : receipt'[d] = receipt[d] /\ (d \in housed' <=> d \in housed),
         Bills \subseteq Bills',
         ReadsOf(c)'
  PROVE  Reads'
<1>1. ASSUME NEW d \in Calls \ {c}
      PROVE  ReadsOf(d)'
  BY <1>1 DEF Inv, Reads, ReadsOf, Receipts, ToMove
<1> QED  BY <1>1 DEF Reads

\* What approves, rejects or only reads.
LEMMA ReadingStep ==
  ASSUME NEW c \in Calls, Inv, alone' \in BOOLEAN,
         \/ Approve(c) \/ WorkflowApproved(c) \/ ReadForReject(c) \/ WriteReject(c)
         \/ ReadForReceipt(c) \/ BeginMovements(c) \/ RereadOrder(c) \/ WriteStatus(c)
         \/ NoBill(c) \/ ReadForMatch(c) \/ ReadBill(c) \/ ReadForEdit(c) \/ Stop(c)
  PROVE  Inv'
<1>1. UNCHANGED <<received, receipt, housed, stock, accrued, bill>>
  BY DEF Approve, WorkflowApproved, ReadForReject, WriteReject, ReadForReceipt, BeginMovements,
         RereadOrder, WriteStatus, NoBill, ReadForMatch, ReadBill, ReadForEdit, Stop, orders
<1>2. status' \in OrderStatuses
  BY DEF Approve, WorkflowApproved, ReadForReject, WriteReject, ReadForReceipt, BeginMovements,
         RereadOrder, WriteStatus, NoBill, ReadForMatch, ReadBill, ReadForEdit, Stop, orders,
         OrderStatuses, Inv, TypeOK
<1>3. PICK step \in Steps \cup {"done", "stopped"} : pc' = [pc EXCEPT ![c] = step]
  BY DEF Approve, WorkflowApproved, ReadForReject, WriteReject, ReadForReceipt, BeginMovements,
         RereadOrder, WriteStatus, NoBill, ReadForMatch, ReadBill, ReadForEdit, Stop, Goto, End,
         Steps
<1>4. PICK l \in Locals : local' = [local EXCEPT ![c] = l]
  <2>1. local[c] \in Locals /\ NoLocal \in Locals
    BY DEF Inv, TypeOK, Locals, NoLocal
  <2>2. CASE \/ Approve(c) \/ WorkflowApproved(c) \/ ReadForReject(c)
    <3>1. local' = [local EXCEPT ![c] = local[c]]
      BY <2>2 DEF Approve, WorkflowApproved, ReadForReject, Inv, TypeOK
    <3> QED  BY <2>1, <3>1
  <2>3. CASE WriteReject(c) \/ WriteStatus(c) \/ NoBill(c) \/ Stop(c)
    BY <2>1, <2>3 DEF WriteReject, WriteStatus, NoBill, Stop, End
  <2>4. CASE ReadForReceipt(c)
    <3>1. ASSUME NEW q \in Asked, NEW w \in BOOLEAN
          PROVE  ToReceive(c, q, w) \in Locals
      <4>1. q \in Quantities
        BY ConstantsAssumption
      <4> QED  BY <2>1, <4>1 DEF ToReceive, Locals, Inv, TypeOK
    <3> QED  BY <2>4, <3>1 DEF ReadForReceipt
  <2>5. CASE BeginMovements(c)
    <3>1. ToMove(c) \subseteq Lines
      BY ConstantsAssumption DEF ToMove, ToStock
    <3>2. [local[c] EXCEPT !.todo = ToMove(c)] \in Locals
      BY <2>1, <3>1 DEF Locals
    <3> QED  BY <2>5, <3>2 DEF BeginMovements
  <2>6. CASE RereadOrder(c)
    <3>1. [local[c] EXCEPT !.received = received] \in Locals
      BY <2>1 DEF Locals, Inv, TypeOK
    <3> QED  BY <2>6, <3>1 DEF RereadOrder, SecondRead
  <2>7. CASE ReadForMatch(c)
    <3>1. ASSUME NEW b \in Bills
          PROVE  [local[c] EXCEPT !.bill = b] \in Locals
      BY <2>1 DEF Locals, Bills
    <3> QED  BY <2>7, <3>1 DEF ReadForMatch
  <2>8. CASE ReadBill(c)
    <3> DEFINE b == bill[local[c].bill]
    <3>1. b \in Bill
      BY <2>8 DEF ReadBill, Inv, Reads, ReadsOf, TypeOK, Bills
    <3>2. [local[c] EXCEPT !.billed = IF b.linked THEN b.billed ELSE None] \in Locals
      BY <2>1, <3>1 DEF Locals, Bill
    <3> QED  BY <2>1, <2>8, <3>2 DEF ReadBill, End
  <2>9. CASE ReadForEdit(c)
    <3>1. ASSUME NEW b \in Bills, NEW q \in Asked
          PROVE  ToEdit(c, b, q) \in Locals
      <4>1. b \in Calls /\ bill[b].linked \in BOOLEAN
        BY DEF Bills, Bill, Inv, TypeOK
      <4>2. q \in Quantities
        BY ConstantsAssumption
      <4> QED  BY <2>1, <4>1, <4>2 DEF ToEdit, Locals
    <3> QED  BY <2>9, <3>1 DEF ReadForEdit
  <2> QED  BY <2>2, <2>3, <2>4, <2>5, <2>6, <2>7, <2>8, <2>9
<1>5. Receipts' = Receipts /\ Bills' = Bills
  BY <1>1 DEF Receipts, Bills
<1>6. TypeOK'
  <2>1. pc' \in [Calls -> Steps \cup {"idle", "done", "stopped"}]
    BY <1>3 DEF Inv, TypeOK
  <2>2. local' \in [Calls -> Locals]
    BY <1>4 DEF Inv, TypeOK
  <2> QED  BY <1>1, <1>2, <1>5, <2>1, <2>2 DEF Inv, TypeOK
<1>7. ReadsOf(c)'
  <2>1. pc'[c] = step /\ local'[c] = l
    BY <1>3, <1>4 DEF Inv, TypeOK
  <2>2. ReadsOf(c)
    BY DEF Inv, Reads
  <2>3. CASE \/ Approve(c) \/ WorkflowApproved(c) \/ ReadForReject(c)
             \/ WriteReject(c) \/ NoBill(c) \/ Stop(c)
    <3>1. step \in {"done", "reject", "stopped"}
      BY <1>3, <2>1, <2>3 DEF Approve, WorkflowApproved, ReadForReject, WriteReject, NoBill, Stop,
                              Goto, End, Inv, TypeOK
    <3> QED  BY <2>1, <3>1 DEF ReadsOf
  <2>4. CASE WriteStatus(c)
    BY <1>5, <2>1, <2>2, <2>4 DEF WriteStatus, ReadsOf, Goto, Inv, TypeOK
  <2>5. CASE ReadForReceipt(c)
    <3>1. received # None
      BY NoneIsNoValue DEF Inv, TypeOK
    <3>2. PICK q \in Quantities, w \in BOOLEAN : local' = [local EXCEPT ![c] = ToReceive(c, q, w)]
      BY <2>5, ConstantsAssumption DEF ReadForReceipt
    <3>3. l = ToReceive(c, q, w)
      BY <2>1, <3>2 DEF Inv, TypeOK
    <3>4. l.items = q /\ l.received = received
      BY <3>3 DEF ToReceive, Inv, TypeOK, Locals
    <3>5. step = "receipt" /\ pc[c] = "idle"
      BY <2>1, <2>5 DEF ReadForReceipt, Goto, Starts, Inv, TypeOK
    <3> QED  BY <1>5, <2>1, <2>2, <3>1, <3>4, <3>5 DEF ReadsOf
  <2>6. CASE BeginMovements(c)
    <3>1. /\ step = "move"
          /\ l.items = local[c].items
          /\ l.received = local[c].received
          /\ l.warehouse = local[c].warehouse
          /\ l.todo = ToMove(c)
      BY <2>1, <2>6 DEF BeginMovements, Goto, Inv, TypeOK, Locals
    <3>2. ToMove(c)' = ToMove(c)
      BY <2>1, <3>1 DEF ToMove
    <3> QED  BY <1>1, <1>5, <2>1, <2>2, <2>6, <3>1, <3>2 DEF ReadsOf, BeginMovements
  <2>7. CASE RereadOrder(c)
    <3>1. received # None
      BY NoneIsNoValue DEF Inv, TypeOK
    <3>2. step = "status" /\ l.received = received
      BY <2>1, <2>7 DEF RereadOrder, SecondRead, Goto, Inv, TypeOK, Locals
    <3> QED  BY <1>5, <2>1, <2>2, <2>7, <3>1, <3>2 DEF ReadsOf, RereadOrder
  <2>8. CASE ReadForMatch(c)
    <3>1. step = "match" /\ l.bill \in Bills
      BY <2>1, <2>8 DEF ReadForMatch, Goto, Inv, TypeOK, Locals
    <3> QED  BY <1>5, <2>1, <3>1 DEF ReadsOf
  <2>9. CASE ReadBill(c)
    <3> DEFINE b == bill[local[c].bill]
    <3>1. \/ step = "done"
          \/ step = "evaluate" /\ l.bill = local[c].bill
      <4>1. CASE b.linked /\ b.match = "WAIVED"
        BY <2>1, <2>9, <4>1 DEF ReadBill, Goto, End, Inv, TypeOK
      <4>2. CASE ~(b.linked /\ b.match = "WAIVED")
        <5>1. l = [local[c] EXCEPT !.billed = IF b.linked THEN b.billed ELSE None]
          BY <2>1, <2>9, <4>2 DEF ReadBill, Inv, TypeOK
        <5>2. l.bill = local[c].bill
          BY <5>1 DEF Inv, TypeOK, Locals
        <5> QED  BY <2>1, <2>9, <4>2, <5>2 DEF ReadBill, Goto, Inv, TypeOK
      <4> QED  BY <4>1, <4>2
    <3>2. pc[c] = "match"
      BY <2>9 DEF ReadBill
    <3>3. local[c].bill \in Bills
      BY <2>2, <3>2 DEF ReadsOf
    <3> HIDE DEF b
    <3>4. CASE step = "done"
      BY <2>1, <3>4 DEF ReadsOf
    <3>5. CASE step = "evaluate" /\ l.bill = local[c].bill
      BY <1>5, <2>1, <3>3, <3>5 DEF ReadsOf
    <3> QED  BY <3>1, <3>4, <3>5
  <2>10. CASE ReadForEdit(c)
    <3>1. PICK b \in Bills, q \in Asked :
            local' = [local EXCEPT ![c] = ToEdit(c, b, q)]
      BY <2>10 DEF ReadForEdit
    <3>2. l = ToEdit(c, b, q)
      BY <2>1, <3>1 DEF Inv, TypeOK
    <3>3. l.bill = b /\ l.billed = q
      BY <3>2 DEF ToEdit, Inv, TypeOK, Locals
    <3>4. step = "edit"
      BY <2>1, <2>10 DEF ReadForEdit, Goto, Inv, TypeOK
    <3>5. l.billed # None
      BY <3>3, NoneIsNoValue, ConstantsAssumption
    <3> QED  BY <1>5, <2>1, <3>3, <3>4, <3>5 DEF ReadsOf
  <2> QED  BY <2>3, <2>4, <2>5, <2>6, <2>7, <2>8, <2>9, <2>10
<1>8. Reads'
  <2>1. \A d \in Calls \ {c} : pc'[d] = pc[d] /\ local'[d] = local[d]
    BY <1>3, <1>4 DEF Inv, TypeOK
  <2> QED  BY <1>1, <1>5, <1>7, <2>1, ReadsStep
<1> QED  BY <1>5, <1>6, <1>8 DEF Inv, BillsOfReceipts

-----------------------------------------------------------------------------
(* The steps that write.                                                   *)

LEMMA CreateReceiptStep ==
  ASSUME NEW c \in Calls, Inv, alone' \in BOOLEAN, CreateReceipt(c)
  PROVE  Inv'
<1>1. /\ local[c] \in Locals
      /\ local[c].items \in Quantities
      /\ pc[c] = "receipt"
  BY DEF Inv, TypeOK, Reads, ReadsOf, CreateReceipt
<1>2. /\ UNCHANGED <<status, received, stock, accrued, bill>>
      /\ receipt' = [receipt EXCEPT ![c] = local[c].items]
      /\ housed' = IF local[c].warehouse THEN housed \cup {c} ELSE housed
      /\ pc' = [pc EXCEPT ![c] = "increment"]
      /\ local' = [local EXCEPT ![c] = [local[c] EXCEPT !.todo = Lines]]
  BY DEF CreateReceipt, Goto
<1>3. [local[c] EXCEPT !.todo = Lines] \in Locals
  BY <1>1 DEF Locals
<1>4. local[c].items # None
  BY <1>1, NoneIsNoValue
<1>5. /\ Receipts \subseteq Receipts'
      /\ c \in Receipts'
      /\ Bills' = Bills
  BY <1>2, <1>4 DEF Receipts, Bills, Inv, TypeOK
<1>6. TypeOK'
  <2>1. receipt' \in [Calls -> Quantities \cup {None}]
    BY <1>1, <1>2 DEF Inv, TypeOK
  <2>2. pc' \in [Calls -> Steps \cup {"idle", "done", "stopped"}]
    BY <1>2 DEF Inv, TypeOK, Steps
  <2>3. local' \in [Calls -> Locals]
    BY <1>2, <1>3 DEF Inv, TypeOK
  <2>4. accrued' \subseteq Receipts' /\ housed' \subseteq Receipts'
    BY <1>2, <1>5 DEF Inv, TypeOK
  <2> QED  BY <1>2, <2>1, <2>2, <2>3, <2>4 DEF Inv, TypeOK
<1>7. ReadsOf(c)'
  <2>1. /\ pc'[c] = "increment"
        /\ local'[c].items = local[c].items
        /\ local'[c].warehouse = local[c].warehouse
        /\ local'[c].received = local[c].received
        /\ receipt'[c] = local[c].items
    BY <1>1, <1>2 DEF Inv, TypeOK, Locals
  <2>2. local[c].received # None /\ c \notin Receipts
    BY <1>1 DEF Inv, Reads, ReadsOf
  <2>3. local[c].warehouse <=> c \in housed'
    BY <1>2, <2>2 DEF Inv, TypeOK
  <2> QED  BY <1>1, <1>5, <2>1, <2>2, <2>3 DEF ReadsOf
<1>8. Reads'
  <2>1. \A d \in Calls \ {c} :
          /\ pc'[d] = pc[d] /\ local'[d] = local[d]
          /\ receipt'[d] = receipt[d] /\ (d \in housed' <=> d \in housed)
    BY <1>2 DEF Inv, TypeOK
  <2> QED  BY <1>5, <1>7, <2>1, ReadsStep
<1> QED  BY <1>5, <1>6, <1>8 DEF Inv, BillsOfReceipts

LEMMA IncrementLineStep ==
  ASSUME NEW c \in Calls, Inv, alone' \in BOOLEAN, IncrementLine(c)
  PROVE  /\ Inv'
         /\ c \in Receipts
         /\ \E l \in Lines : received' = [received EXCEPT ![l] = @ + receipt[c][l]]
<1>1. PICK l \in local[c].todo :
        /\ received' = [received EXCEPT ![l] = received[l] + local[c].items[l]]
        /\ local' = [local EXCEPT ![c] = [local[c] EXCEPT !.todo = local[c].todo \ {l}]]
  <2> DEFINE l == NextLine(c)
  <2>1. l \in local[c].todo
    <3>1. \E k \in local[c].todo : TRUE
      BY DEF IncrementLine
    <3> QED  BY <3>1, Zenon DEF NextLine
  <2>2. received' = [received EXCEPT ![l] = received[l] + local[c].items[l]]
    BY DEF IncrementLine, Incremented
  <2>3. local' = [local EXCEPT ![c] = [local[c] EXCEPT !.todo = local[c].todo \ {l}]]
    BY DEF IncrementLine
  <2> HIDE DEF l
  <2> QED  BY <2>1, <2>2, <2>3
<1>2. /\ UNCHANGED <<status, receipt, housed, stock, accrued, bill, pc>>
      /\ pc[c] = "increment"
  BY DEF IncrementLine
<1>3. /\ local[c] \in Locals
      /\ local[c].items \in Quantities
      /\ local[c].items = receipt[c]
      /\ local[c].received # None
      /\ c \in Receipts
  BY <1>2 DEF Inv, TypeOK, Reads, ReadsOf
<1>4. [local[c] EXCEPT !.todo = local[c].todo \ {l}] \in Locals
  BY <1>3 DEF Locals
<1>5. Receipts' = Receipts /\ Bills' = Bills
  BY <1>2 DEF Receipts, Bills
<1>6. l \in Lines /\ local[c].items[l] \in Int
  BY <1>3 DEF Locals, Quantities
<1>7. TypeOK'
  <2>1. received' \in Quantities
    BY <1>1, <1>6 DEF Inv, TypeOK, Quantities
  <2>2. local' \in [Calls -> Locals]
    BY <1>1, <1>4 DEF Inv, TypeOK
  <2> QED  BY <1>2, <1>5, <2>1, <2>2 DEF Inv, TypeOK
<1>8. ReadsOf(c)'
  <2>1. /\ pc'[c] = "increment"
        /\ local'[c].items = local[c].items
        /\ local'[c].warehouse = local[c].warehouse
        /\ local'[c].received = local[c].received
    BY <1>1, <1>2, <1>3 DEF Inv, TypeOK, Locals
  <2>2. local[c].warehouse <=> c \in housed
    BY <1>2 DEF Inv, Reads, ReadsOf
  <2> QED  BY <1>2, <1>3, <1>5, <2>1, <2>2 DEF ReadsOf
<1>9. Reads'
  <2>1. \A d \in Calls \ {c} : pc'[d] = pc[d] /\ local'[d] = local[d]
    BY <1>1, <1>2 DEF Inv, TypeOK
  <2> QED  BY <1>2, <1>5, <1>8, <2>1, ReadsStep
<1> QED  BY <1>1, <1>3, <1>5, <1>6, <1>7, <1>9 DEF Inv, BillsOfReceipts

LEMMA PostMovementStep ==
  ASSUME NEW c \in Calls, Inv, alone' \in BOOLEAN, PostMovement(c)
  PROVE  Inv'
<1>1. PICK l \in local[c].todo :
        /\ stock' = [stock EXCEPT ![l] = stock[l] + local[c].items[l]]
        /\ local' = [local EXCEPT ![c] = [local[c] EXCEPT !.todo = local[c].todo \ {l}]]
  <2> DEFINE l == NextLine(c)
  <2>1. l \in local[c].todo
    <3>1. \E k \in local[c].todo : TRUE
      BY DEF PostMovement
    <3> QED  BY <3>1, Zenon DEF NextLine
  <2>2. stock' = [stock EXCEPT ![l] = stock[l] + local[c].items[l]]
    BY DEF PostMovement
  <2>3. local' = [local EXCEPT ![c] = [local[c] EXCEPT !.todo = local[c].todo \ {l}]]
    BY DEF PostMovement
  <2> HIDE DEF l
  <2> QED  BY <2>1, <2>2, <2>3
<1>2. /\ UNCHANGED <<status, received, receipt, housed, accrued, bill, pc>>
      /\ pc[c] = "move"
  BY DEF PostMovement
<1>3. /\ local[c] \in Locals
      /\ local[c].items \in Quantities
      /\ local[c].items = receipt[c]
      /\ local[c].received # None
      /\ local[c].warehouse <=> c \in housed
      /\ local[c].todo \subseteq ToMove(c)
      /\ c \in Receipts
  BY <1>2 DEF Inv, TypeOK, Reads, ReadsOf
<1>4. [local[c] EXCEPT !.todo = local[c].todo \ {l}] \in Locals
  BY <1>3 DEF Locals
<1>5. Receipts' = Receipts /\ Bills' = Bills
  BY <1>2 DEF Receipts, Bills
<1>6. l \in Goods /\ l \in Lines /\ local[c].items[l] \in Nat
  <2>1. l \in ToStock(local[c].items)
    BY <1>3 DEF ToMove
  <2>2. local[c].items \in [Lines -> Int]
    BY <1>3 DEF Quantities
  <2> QED  BY <2>1, <2>2, ConstantsAssumption DEF ToStock
<1>7. TypeOK'
  <2>1. stock' \in [Lines -> Nat]
    BY <1>1, <1>6 DEF Inv, TypeOK
  <2>2. \A k \in Lines \ Goods : stock'[k] = 0
    BY <1>1, <1>6 DEF Inv, TypeOK
  <2>3. local' \in [Calls -> Locals]
    BY <1>1, <1>4 DEF Inv, TypeOK
  <2> QED  BY <1>2, <1>5, <2>1, <2>2, <2>3 DEF Inv, TypeOK
<1>8. ReadsOf(c)'
  <2>1. /\ pc'[c] = "move"
        /\ local'[c].items = local[c].items
        /\ local'[c].warehouse = local[c].warehouse
        /\ local'[c].received = local[c].received
        /\ local'[c].todo \subseteq local[c].todo
    BY <1>1, <1>2, <1>3 DEF Inv, TypeOK, Locals
  <2>2. ToMove(c)' = ToMove(c)
    BY <2>1 DEF ToMove
  <2> QED  BY <1>2, <1>3, <1>5, <2>1, <2>2 DEF ReadsOf
<1>9. Reads'
  <2>1. \A d \in Calls \ {c} : pc'[d] = pc[d] /\ local'[d] = local[d]
    BY <1>1, <1>2 DEF Inv, TypeOK
  <2> QED  BY <1>2, <1>5, <1>8, <2>1, ReadsStep
<1> QED  BY <1>5, <1>7, <1>9 DEF Inv, BillsOfReceipts

LEMMA AccrueStep ==
  ASSUME NEW c \in Calls, Inv, alone' \in BOOLEAN, Accrue(c)
  PROVE  Inv'
<1>1. /\ UNCHANGED <<status, received, receipt, housed, stock, bill, local>>
      /\ accrued' \subseteq accrued \cup {c}
      /\ pc[c] = "accrue"
      /\ pc' = [pc EXCEPT ![c] = "bill"]
  BY DEF Accrue, Goto, orders
<1>2. Receipts' = Receipts /\ Bills' = Bills /\ c \in Receipts
  BY <1>1 DEF Receipts, Bills, Inv, Reads, ReadsOf
<1>3. TypeOK'
  <2>1. pc' \in [Calls -> Steps \cup {"idle", "done", "stopped"}]
    BY <1>1 DEF Inv, TypeOK, Steps
  <2>2. accrued' \subseteq Receipts'
    BY <1>1, <1>2 DEF Inv, TypeOK
  <2> QED  BY <1>1, <1>2, <2>1, <2>2 DEF Inv, TypeOK
<1>4. ReadsOf(c)'
  BY <1>1, <1>2 DEF ReadsOf, Inv, TypeOK
<1>5. Reads'
  <2>1. \A d \in Calls \ {c} : pc'[d] = pc[d] /\ local'[d] = local[d]
    BY <1>1 DEF Inv, TypeOK
  <2> QED  BY <1>1, <1>2, <1>4, <2>1, ReadsStep
<1> QED  BY <1>2, <1>3, <1>5 DEF Inv, BillsOfReceipts

\* What writes one invoice.
LEMMA BillStep ==
  ASSUME NEW c \in Calls, Inv, alone' \in BOOLEAN, NEW b \in Receipts, NEW row \in Bill,
         bill' = [bill EXCEPT ![b] = row],
         UNCHANGED <<status, received, receipt, housed, stock, accrued>>,
         pc' \in [Calls -> Steps \cup {"idle", "done", "stopped"}],
         local' \in [Calls -> Locals],
         \A d \in Calls \ {c} : pc'[d] = pc[d] /\ local'[d] = local[d],
         (Bills \cup {b} \subseteq Bills' => ReadsOf(c)')
  PROVE  Inv'
<1>1. Receipts' = Receipts
  BY DEF Receipts
<1>2. row # None /\ b \in Calls
  BY NoneIsNoValue DEF Receipts
<1>3. Bills' = Bills \cup {b}
  BY <1>2 DEF Bills, Inv, TypeOK
<1>4. TypeOK'
  <2>1. bill' \in [Calls -> Bill \cup {None}]
    BY <1>2 DEF Inv, TypeOK
  <2>2. /\ status' \in OrderStatuses
        /\ received' \in Quantities
        /\ receipt' \in [Calls -> Quantities \cup {None}]
        /\ housed' \subseteq Receipts'
        /\ stock' \in [Lines -> Nat]
        /\ accrued' \subseteq Receipts'
        /\ \A l \in Lines \ Goods : stock'[l] = 0
    BY <1>1 DEF Inv, TypeOK
  <2> QED  BY <2>1, <2>2 DEF TypeOK
<1>5. Reads'
  BY <1>1, <1>3, ReadsStep
<1> QED  BY <1>1, <1>3, <1>4, <1>5 DEF Inv, BillsOfReceipts

LEMMA BillsStep ==
  ASSUME NEW c \in Calls, Inv, alone' \in BOOLEAN,
         \/ CreateBill(c) \/ LinkBill(c) \/ WriteMatch(c) \/ WriteEdit(c) \/ Waive(c) \/ Pay(c)
  PROVE  Inv'
<1>1. local[c] \in Locals /\ NoLocal \in Locals /\ ReadsOf(c)
  BY DEF Inv, TypeOK, Locals, NoLocal, Reads
<1>2. \A b \in Bills : bill[b] \in Bill /\ b \in Receipts
  BY DEF Inv, TypeOK, Bills, BillsOfReceipts
<1>3. CASE CreateBill(c)
  <2> DEFINE row == [billed |-> Positive(receipt[c]), linked |-> FALSE,
                     match |-> "NOT_REQUIRED", paid |-> FALSE]
  <2>1. /\ UNCHANGED <<status, received, receipt, housed, stock, accrued, local>>
        /\ pc[c] = "bill"
        /\ pc' = [pc EXCEPT ![c] = "link"]
        /\ bill' = [bill EXCEPT ![c] = row]
    BY <1>3 DEF CreateBill, Goto, orders
  <2>2. c \in Receipts
    BY <1>1, <2>1 DEF ReadsOf
  <2>3. row \in Bill
    <3>1. receipt[c] \in Quantities
      BY <2>2 DEF Receipts, Inv, TypeOK
    <3>2. Positive(receipt[c]) \in Quantities
      BY <3>1 DEF Positive, Quantities
    <3> QED  BY <3>2 DEF Bill, Matched
  <2>4. pc' \in [Calls -> Steps \cup {"idle", "done", "stopped"}] /\ pc'[c] = "link"
    BY <2>1 DEF Inv, TypeOK, Steps
  <2>5. \A d \in Calls \ {c} : pc'[d] = pc[d] /\ local'[d] = local[d]
    BY <2>1 DEF Inv, TypeOK
  <2>6. c \in Bills' => ReadsOf(c)'
    <3>1. Receipts' = Receipts
      BY <2>1 DEF Receipts
    <3> QED  BY <2>2, <2>4, <3>1 DEF ReadsOf
  <2>7. local' \in [Calls -> Locals]
    BY <2>1 DEF Inv, TypeOK
  <2> HIDE DEF row
  <2> QED  BY <2>1, <2>2, <2>3, <2>4, <2>5, <2>6, <2>7, BillStep
<1>4. CASE LinkBill(c)
  <2>1. /\ UNCHANGED <<status, received, receipt, housed, stock, accrued>>
        /\ pc[c] = "link"
        /\ pc' = [pc EXCEPT ![c] = "match"]
        /\ bill' = [bill EXCEPT ![c] = Linked(bill[c])]
        /\ local' = [local EXCEPT ![c] = [NoLocal EXCEPT !.bill = c]]
    BY <1>4 DEF LinkBill, Goto, orders
  <2>2. c \in Bills /\ c \in Receipts
    BY <1>1, <2>1 DEF ReadsOf
  <2>3. Linked(bill[c]) \in Bill
    BY <1>2, <2>2 DEF Bill, Matched, Linked
  <2>4. pc' \in [Calls -> Steps \cup {"idle", "done", "stopped"}] /\ pc'[c] = "match"
    BY <2>1 DEF Inv, TypeOK, Steps
  <2>5. \A d \in Calls \ {c} : pc'[d] = pc[d] /\ local'[d] = local[d]
    BY <2>1 DEF Inv, TypeOK
  <2>6. [NoLocal EXCEPT !.bill = c] \in Locals
    BY <1>1 DEF Locals
  <2>7. local' \in [Calls -> Locals]
    BY <2>1, <2>6 DEF Inv, TypeOK
  <2>8. local'[c].bill = c
    BY <2>1 DEF NoLocal, Inv, TypeOK
  <2>9. c \in Bills' => ReadsOf(c)'
    BY <2>4, <2>8 DEF ReadsOf
  <2> QED  BY <2>1, <2>2, <2>3, <2>4, <2>5, <2>7, <2>9, BillStep
<1>5. CASE WriteMatch(c)
  <2> DEFINE b == local[c].bill
             found == IF local[c].billed = None THEN "NOT_REQUIRED"
                      ELSE IF Matches(b, local[c].billed) THEN "MATCHED" ELSE "VARIANCE"
             row == [bill[b] EXCEPT !.match = found]
  <2>1. /\ UNCHANGED <<status, received, receipt, housed, stock, accrued>>
        /\ pc[c] = "evaluate"
        /\ pc' = [pc EXCEPT ![c] = "done"]
        /\ bill' = [bill EXCEPT ![b] = row]
        /\ local' = [local EXCEPT ![c] = NoLocal]
    BY <1>5 DEF WriteMatch, Goto, End, orders
  <2>2. b \in Bills /\ b \in Receipts
    BY <1>1, <1>2, <2>1 DEF ReadsOf
  <2>3. found \in Matched
    BY DEF Matched
  <2>4. row \in Bill
    <3> HIDE DEF found
    <3> QED  BY <1>2, <2>2, <2>3 DEF Bill
  <2>5. pc' \in [Calls -> Steps \cup {"idle", "done", "stopped"}] /\ pc'[c] = "done"
    BY <2>1 DEF Inv, TypeOK, Steps
  <2>6. \A d \in Calls \ {c} : pc'[d] = pc[d] /\ local'[d] = local[d]
    BY <2>1 DEF Inv, TypeOK
  <2>7. local' \in [Calls -> Locals]
    BY <1>1, <2>1 DEF Inv, TypeOK
  <2>8. ReadsOf(c)'
    BY <2>5 DEF ReadsOf
  <2>9. PICK k \in Receipts, r \in Bill : bill' = [bill EXCEPT ![k] = r]
    <3> HIDE DEF row
    <3> QED  BY <2>1, <2>2, <2>4
  <2>10. UNCHANGED <<status, received, receipt, housed, stock, accrued>>
    BY <2>1
  <2> HIDE DEF b, found, row
  <2> QED  BY <2>5, <2>6, <2>7, <2>8, <2>9, <2>10, BillStep
<1>6. CASE WriteEdit(c)
  <2> DEFINE b == local[c].bill
             row == Edited(bill[b], local[c].billed, local[c].linked)
  <2>1. /\ UNCHANGED <<status, received, receipt, housed, stock, accrued>>
        /\ pc[c] = "edit"
        /\ bill' = [bill EXCEPT ![b] = row]
    BY <1>6 DEF WriteEdit, orders
  <2>2. \/ pc' = [pc EXCEPT ![c] = "match"] /\ local' = [local EXCEPT ![c] = local[c]]
        \/ pc' = [pc EXCEPT ![c] = "done"] /\ local' = [local EXCEPT ![c] = NoLocal]
    <3>1. EvaluateAfter(c, local[c].linked)
      BY <1>6 DEF WriteEdit
    <3>2. local = [local EXCEPT ![c] = local[c]]
      BY DEF Inv, TypeOK
    <3> QED  BY <3>1, <3>2 DEF EvaluateAfter, Goto, End
  <2>3. /\ b \in Bills
        /\ b \in Receipts
        /\ local[c].billed \in Quantities
    <3>1. local[c].billed \in Quantities \cup {None}
      BY <1>1 DEF Locals
    <3> QED  BY <1>1, <1>2, <2>1, <3>1 DEF ReadsOf
  <2>4. row \in Bill
    BY <1>2, <2>3 DEF Bill, Matched, Edited
  <2>5. /\ pc' \in [Calls -> Steps \cup {"idle", "done", "stopped"}]
        /\ local' \in [Calls -> Locals]
        /\ (pc'[c] = "match" /\ local'[c] = local[c]) \/ pc'[c] = "done"
        /\ \A d \in Calls \ {c} : pc'[d] = pc[d] /\ local'[d] = local[d]
    <3>1. pc \in [Calls -> Steps \cup {"idle", "done", "stopped"}] /\ local \in [Calls -> Locals]
      BY DEF Inv, TypeOK
    <3>2. CASE pc' = [pc EXCEPT ![c] = "match"] /\ local' = [local EXCEPT ![c] = local[c]]
      BY <1>1, <3>1, <3>2 DEF Steps
    <3>3. CASE pc' = [pc EXCEPT ![c] = "done"] /\ local' = [local EXCEPT ![c] = NoLocal]
      BY <1>1, <3>1, <3>3
    <3> QED  BY <2>2, <3>2, <3>3
  <2>6. Bills \cup {b} \subseteq Bills' => ReadsOf(c)'
    BY <2>3, <2>5 DEF ReadsOf
  <2>7. PICK r \in Bill : bill' = [bill EXCEPT ![b] = r]
    <3> HIDE DEF row
    <3> QED  BY <2>1, <2>4
  <2>8. PICK k \in Receipts : k = b
    BY <2>3
  <2>9. bill' = [bill EXCEPT ![k] = r] /\ (Bills \cup {k} \subseteq Bills' => ReadsOf(c)')
    BY <2>6, <2>7, <2>8
  <2> QED  BY <2>1, <2>5, <2>9, BillStep
<1>7. CASE Waive(c) \/ Pay(c)
  <2>1. /\ UNCHANGED <<status, received, receipt, housed, stock, accrued, local>>
        /\ pc' = [pc EXCEPT ![c] = "done"]
    BY <1>7 DEF Waive, Pay, Goto, orders
  <2>2. PICK b \in Bills, row \in Bill : bill' = [bill EXCEPT ![b] = row]
    <3>1. ASSUME NEW r \in Bill
          PROVE  /\ [r EXCEPT !.match = "WAIVED"] \in Bill
                 /\ [r EXCEPT !.paid = TRUE] \in Bill
      BY DEF Bill, Matched
    <3>2. PICK b \in Bills : \/ bill' = [bill EXCEPT ![b] = [bill[b] EXCEPT !.match = "WAIVED"]]
                             \/ bill' = [bill EXCEPT ![b] = [bill[b] EXCEPT !.paid = TRUE]]
      BY <1>7 DEF Waive, Pay
    <3> QED  BY <1>2, <3>1, <3>2
  <2>3. pc' \in [Calls -> Steps \cup {"idle", "done", "stopped"}] /\ pc'[c] = "done"
    BY <2>1 DEF Inv, TypeOK, Steps
  <2>4. \A d \in Calls \ {c} : pc'[d] = pc[d] /\ local'[d] = local[d]
    BY <2>1 DEF Inv, TypeOK
  <2>5. local' \in [Calls -> Locals]
    BY <2>1 DEF Inv, TypeOK
  <2>6. ReadsOf(c)'
    BY <2>3 DEF ReadsOf
  <2> QED  BY <1>2, <2>1, <2>2, <2>3, <2>4, <2>5, <2>6, BillStep
<1> QED  BY <1>3, <1>4, <1>5, <1>6, <1>7

\* Every step keeps the invariant.
LEMMA InvStep == Inv /\ [Next]_vars => Inv'
<1> SUFFICES ASSUME Inv, [Next]_vars
             PROVE  Inv'
  OBVIOUS
<1>1. ASSUME NEW c \in Calls, Step(c)
      PROVE  Inv'
  <2>1. alone' \in BOOLEAN
    BY <1>1 DEF Step, Inv, TypeOK
  <2> QED  BY <1>1, <2>1, ReadingStep, CreateReceiptStep, IncrementLineStep, PostMovementStep,
              AccrueStep, BillsStep DEF Step, Begin, Continue
<1>2. ASSUME NEW c \in Calls, Stop(c)
      PROVE  Inv'
  <2>1. alone' \in BOOLEAN
    BY <1>2 DEF Stop
  <2> QED  BY <1>2, <2>1, ReadingStep
<1>3. CASE UNCHANGED vars
  <2>1. Receipts' = Receipts /\ Bills' = Bills /\ \A c \in Calls : ToMove(c)' = ToMove(c)
    BY <1>3 DEF vars, Receipts, Bills, ToMove
  <2>2. TypeOK'
    BY <1>3, <2>1 DEF vars, Inv, TypeOK
  <2>3. Reads'
    BY <1>3, <2>1 DEF vars, Inv, Reads, ReadsOf
  <2> QED  BY <2>1, <2>2, <2>3 DEF Inv, BillsOfReceipts
<1> QED  BY <1>1, <1>2, <1>3 DEF Next, Quiescent

\* The invariant holds of every reachable state.
THEOREM InductiveInvariant == Spec => []Inv
<1> QED  BY InitInv, InvStep, PTL DEF Spec

\* The tables of orders, receipts and invoices keep their types, and only
\* products are put in stock (createGoodsReceipt skips lines without one).
THEOREM TypeCorrect == Spec => []TypeOK
<1>1. Inv => TypeOK
  BY DEF Inv
<1> QED  BY <1>1, InductiveInvariant, PTL

-----------------------------------------------------------------------------
(* The status of the order.                                                *)

Receiving == {"increment", "move", "status"}
SomeReceived == \E l \in Lines : received[l] > 0

\* A status is written from quantities that may be stale, never too large while
\* no receipt has taken anything back.
StaleReads == NothingTakenBack =>
                \A c \in Calls : pc[c] = "status" =>
                  \A l \in Lines : local[c].received[l] <= received[l]
\* While requests do not overlap one runs at a time,
OneRuns == alone => \A c, d \in Running : c = d
\* it writes the status from what has been received,
FreshReads == alone => \A c \in Calls : pc[c] = "status" => local[c].received = received
\* and nothing is received for an order that is complete.
StillOpen == alone => \A c \in Calls : pc[c] \in {"receipt"} \cup Receiving =>
                        status \in {"CONFIRMED", "PARTIALLY_RECEIVED"}
ReceivedInFull == status = "RECEIVED" /\ (alone \/ NothingTakenBack) => AllReceived(received)
PartlyReceived ==
  /\ status = "PARTIALLY_RECEIVED" /\ NothingTakenBack => SomeReceived
  /\ alone /\ status = "PARTIALLY_RECEIVED" /\ (\A c \in Calls : pc[c] \notin Receiving) =>
       ~AllReceived(received)

StatusInv ==
  /\ ReceivedInFull
  /\ StaleReads
  /\ OneRuns
  /\ FreshReads
  /\ StillOpen
  /\ PartlyReceived

\* A receipt that exists stays as it is, so what was taken back stays so.
LEMMA ReceiptsKept ==
  ASSUME NEW c \in Calls, Inv, Step(c)
  PROVE  /\ \A d \in Receipts : d \in Receipts' /\ receipt'[d] = receipt[d]
         /\ NothingTakenBack' => NothingTakenBack
<1>1. CASE CreateReceipt(c)
  <2>1. pc[c] = "receipt" /\ receipt' = [receipt EXCEPT ![c] = local[c].items]
    BY <1>1 DEF CreateReceipt
  <2>2. c \notin Receipts
    BY <2>1 DEF Inv, Reads, ReadsOf
  <2> QED  BY <2>1, <2>2 DEF Receipts, NothingTakenBack, Inv, TypeOK
<1>2. CASE ~CreateReceipt(c)
  <2>1. UNCHANGED receipt
    <3>1. CASE Begin(c)
      BY <3>1 DEF Begin, Approve, WorkflowApproved, ReadForReject, ReadForReceipt, ReadForMatch,
                  ReadForEdit, Waive, Pay, orders
    <3>2. CASE WriteReject(c) \/ BeginMovements(c) \/ RereadOrder(c) \/ WriteStatus(c)
               \/ IncrementLine(c) \/ PostMovement(c) \/ Accrue(c)
      BY <3>2 DEF WriteReject, BeginMovements, RereadOrder, WriteStatus, IncrementLine,
                  PostMovement, Accrue, orders
    <3>3. CASE CreateBill(c) \/ NoBill(c) \/ LinkBill(c) \/ ReadBill(c) \/ WriteMatch(c)
               \/ WriteEdit(c)
      BY <3>3 DEF CreateBill, NoBill, LinkBill, ReadBill, WriteMatch, WriteEdit, orders
    <3> QED  BY <1>2, <3>1, <3>2, <3>3 DEF Step, Continue
  <2> QED  BY <2>1 DEF Receipts, NothingTakenBack
<1> QED  BY <1>1, <1>2

\* A call that goes on alone leaves no other running.
LEMMA OneRunsStep ==
  ASSUME NEW c \in Calls, Inv, StatusInv, Step(c)
  PROVE  /\ \A d \in Calls \ {c} : pc'[d] = pc[d] /\ local'[d] = local[d]
         /\ alone' => alone /\ \A d \in Calls \ {c} : pc[d] \in {"idle", "done", "stopped"}
         /\ OneRuns'
<1>1. alone' => alone /\ \A d \in Running : d = c
  BY DEF Step
<1>2. \A d \in Calls \ {c} : pc'[d] = pc[d] /\ local'[d] = local[d]
  <2> SUFFICES ASSUME NEW d \in Calls \ {c}
               PROVE  pc'[d] = pc[d] /\ local'[d] = local[d]
    OBVIOUS
  <2>1. DOMAIN pc = Calls /\ DOMAIN local = Calls
    BY DEF Inv, TypeOK
  <2>2. CASE Begin(c)
    BY <2>1, <2>2 DEF Begin, Approve, WorkflowApproved, ReadForReject, ReadForReceipt,
                      ReadForMatch, ReadForEdit, Waive, Pay, Goto
  <2>3. CASE WriteReject(c) \/ BeginMovements(c) \/ RereadOrder(c) \/ WriteStatus(c) \/ Accrue(c)
    BY <2>1, <2>3 DEF WriteReject, BeginMovements, RereadOrder, WriteStatus, Accrue, Goto, End
  <2>4. CASE \/ CreateBill(c) \/ NoBill(c) \/ LinkBill(c) \/ WriteMatch(c) \/ CreateReceipt(c)
    BY <2>1, <2>4 DEF CreateBill, NoBill, LinkBill, WriteMatch, CreateReceipt, Goto, End
  <2>5. CASE IncrementLine(c) \/ PostMovement(c)
    BY <2>1, <2>5 DEF IncrementLine, PostMovement
  <2>6. CASE ReadBill(c)
    BY <2>1, <2>6 DEF ReadBill, Goto, End
  <2>7. CASE WriteEdit(c)
    BY <2>1, <2>7 DEF WriteEdit, EvaluateAfter, Goto, End
  <2> QED  BY <2>2, <2>3, <2>4, <2>5, <2>6, <2>7 DEF Step, Continue
<1> QED  BY <1>1, <1>2 DEF Running, OneRuns

\* What neither increments, reads the order again nor writes its status.
LEMMA OtherStatusStep ==
  ASSUME NEW c \in Calls, Inv, StatusInv, Step(c),
         ~IncrementLine(c), ~RereadOrder(c), ~WriteStatus(c)
  PROVE  StatusInv'
<1>1. /\ UNCHANGED received
      /\ status' \in {status, "CONFIRMED", "CANCELLED"}
      /\ pc'[c] # "status"
      /\ pc[c] \in Receiving => pc'[c] \in Receiving
      /\ pc'[c] \in {"receipt"} \cup Receiving =>
           /\ status' = status
           /\ \/ pc[c] \in {"receipt"} \cup Receiving
              \/ status \in {"CONFIRMED", "PARTIALLY_RECEIVED"}
  <2>1. CASE Begin(c)
    BY <2>1 DEF Begin, Approve, WorkflowApproved, ReadForReject, ReadForReceipt,
                ReadForMatch, ReadForEdit, Waive, Pay, Goto, Starts, Receiving, orders, Inv, TypeOK
  <2>2. CASE \/ WriteReject(c) \/ BeginMovements(c)
             \/ Accrue(c) \/ CreateBill(c) \/ NoBill(c) \/ LinkBill(c) \/ WriteMatch(c)
             \/ CreateReceipt(c)
    BY <2>2 DEF WriteReject, BeginMovements, Accrue, CreateBill, Receiving, orders,
                NoBill, LinkBill, WriteMatch, CreateReceipt, Goto, End, Inv, TypeOK
  <2>3. CASE PostMovement(c)
    BY <2>3 DEF PostMovement, Receiving
  <2>4. CASE ReadBill(c)
    BY <2>4 DEF ReadBill, Goto, End, Receiving, orders, Inv, TypeOK
  <2>5. CASE WriteEdit(c)
    BY <2>5 DEF WriteEdit, EvaluateAfter, Goto, End, Receiving, orders, Inv, TypeOK
  <2> QED  BY <2>1, <2>2, <2>3, <2>4, <2>5 DEF Step, Continue
<1>2. /\ \A d \in Calls \ {c} : pc'[d] = pc[d] /\ local'[d] = local[d]
      /\ alone' => alone /\ \A d \in Calls \ {c} : pc[d] \in {"idle", "done", "stopped"}
      /\ OneRuns'
      /\ NothingTakenBack' => NothingTakenBack
  BY OneRunsStep, ReceiptsKept
<1>3. StaleReads'
  BY <1>1, <1>2 DEF StatusInv, StaleReads
<1>4. FreshReads'
  BY <1>1, <1>2 DEF StatusInv, FreshReads
<1>5. PartlyReceived'
  BY <1>1, <1>2 DEF StatusInv, PartlyReceived, SomeReceived, AllReceived
<1>6. ReceivedInFull'
  BY <1>1, <1>2 DEF StatusInv, ReceivedInFull, AllReceived
<1>7. StillOpen'
  BY <1>1, <1>2 DEF StatusInv, StillOpen, Receiving
<1> QED  BY <1>2, <1>3, <1>4, <1>5, <1>6, <1>7 DEF StatusInv

LEMMA IncrementStatusStep ==
  ASSUME NEW c \in Calls, Inv, StatusInv, Step(c), IncrementLine(c)
  PROVE  StatusInv'
<1>1. /\ c \in Receipts
      /\ \E l \in Lines : received' = [received EXCEPT ![l] = @ + receipt[c][l]]
  <2>1. alone' \in BOOLEAN
    BY DEF Step, Inv, TypeOK
  <2> QED  BY <2>1, IncrementLineStep
<1>2. /\ UNCHANGED <<status, receipt, pc>>
      /\ pc[c] = "increment"
  BY DEF IncrementLine
<1>3. /\ \A d \in Calls \ {c} : pc'[d] = pc[d] /\ local'[d] = local[d]
      /\ alone' => alone /\ \A d \in Calls \ {c} : pc[d] \in {"idle", "done", "stopped"}
      /\ OneRuns'
      /\ NothingTakenBack' => NothingTakenBack
  BY OneRunsStep, ReceiptsKept
<1>4. ASSUME NothingTakenBack
      PROVE  /\ received \in [Lines -> Int]
             /\ received' \in [Lines -> Int]
             /\ \A k \in Lines : received[k] <= received'[k]
  <2>1. receipt[c] \in [Lines -> Int] /\ received \in [Lines -> Int]
    BY <1>1 DEF Inv, TypeOK, Receipts, Quantities
  <2>2. PICK l \in Lines : received' = [received EXCEPT ![l] = @ + receipt[c][l]]
    BY <1>1
  <2>3. receipt[c][l] >= 0 /\ receipt[c][l] \in Int
    BY <1>1, <1>4, <2>1 DEF NothingTakenBack
  <2> QED  BY <2>1, <2>2, <2>3
<1>5. StaleReads'
  <2> SUFFICES ASSUME NothingTakenBack', NEW d \in Calls, pc'[d] = "status", NEW k \in Lines
               PROVE  local'[d].received[k] <= received'[k]
    BY DEF StaleReads
  <2>1. d # c /\ local'[d] = local[d] /\ pc[d] = "status"
    BY <1>2, <1>3
  <2>2. local[d].received[k] <= received[k]
    BY <1>3, <2>1 DEF StatusInv, StaleReads
  <2>3. local[d].received[k] \in Int
    <3>1. local[d].received \in [Lines -> Int]
      BY <2>1 DEF Inv, TypeOK, Locals, Reads, ReadsOf, Quantities
    <3> QED  BY <3>1
  <2> QED  BY <1>3, <1>4, <2>1, <2>2, <2>3
<1>6. FreshReads'
  BY <1>2, <1>3 DEF FreshReads
<1>7. PartlyReceived'
  <2>1. status' = "PARTIALLY_RECEIVED" /\ NothingTakenBack' => SomeReceived'
    <3> SUFFICES ASSUME status' = "PARTIALLY_RECEIVED", NothingTakenBack'
                 PROVE  SomeReceived'
      OBVIOUS
    <3>1. SomeReceived
      BY <1>2, <1>3 DEF StatusInv, PartlyReceived
    <3> QED  BY <1>3, <1>4, <3>1 DEF SomeReceived
  <2>2. pc'[c] \in Receiving
    BY <1>2 DEF Receiving
  <2> QED  BY <2>1, <2>2 DEF PartlyReceived
<1>8. ReceivedInFull'
  <2> SUFFICES ASSUME status' = "RECEIVED", alone' \/ NothingTakenBack'
               PROVE  AllReceived(received)'
    BY DEF ReceivedInFull
  <2>1. ~alone'
    BY <1>2, <1>3 DEF StatusInv, StillOpen, Receiving
  <2>2. NothingTakenBack /\ AllReceived(received)
    BY <1>2, <1>3, <2>1 DEF StatusInv, ReceivedInFull
  <2> QED  BY <1>4, <2>2, ConstantsAssumption DEF AllReceived
<1>9. StillOpen'
  BY <1>2, <1>3 DEF StatusInv, StillOpen, Receiving
<1> QED  BY <1>3, <1>5, <1>6, <1>7, <1>8, <1>9 DEF StatusInv

LEMMA RereadStatusStep ==
  ASSUME NEW c \in Calls, Inv, StatusInv, Step(c), RereadOrder(c)
  PROVE  StatusInv'
<1>1. /\ UNCHANGED <<status, received>>
      /\ pc[c] = "move"
      /\ pc' = [pc EXCEPT ![c] = "status"]
      /\ local' = [local EXCEPT ![c] = [local[c] EXCEPT !.received = received]]
  BY DEF RereadOrder, SecondRead, Goto, orders
<1>2. /\ \A d \in Calls \ {c} : pc'[d] = pc[d] /\ local'[d] = local[d]
      /\ alone' => alone /\ \A d \in Calls \ {c} : pc[d] \in {"idle", "done", "stopped"}
      /\ OneRuns'
      /\ NothingTakenBack' => NothingTakenBack
  BY OneRunsStep, ReceiptsKept
<1>3. pc'[c] = "status" /\ local'[c].received = received
  BY <1>1 DEF Inv, TypeOK, Locals
<1>4. \A k \in Lines : received[k] <= received[k]
  BY DEF Inv, TypeOK, Quantities
<1>5. StaleReads'
  BY <1>1, <1>2, <1>3, <1>4 DEF StatusInv, StaleReads
<1>6. FreshReads'
  BY <1>1, <1>2, <1>3 DEF StatusInv, FreshReads
<1>7. PartlyReceived'
  BY <1>1, <1>2, <1>3 DEF StatusInv, PartlyReceived, SomeReceived, Receiving
<1>8. ReceivedInFull'
  BY <1>1, <1>2 DEF StatusInv, ReceivedInFull, AllReceived
<1>9. StillOpen'
  BY <1>1, <1>2 DEF StatusInv, StillOpen, Receiving
<1> QED  BY <1>2, <1>5, <1>6, <1>7, <1>8, <1>9 DEF StatusInv

LEMMA WriteStatusStep ==
  ASSUME NEW c \in Calls, Inv, StatusInv, Step(c), WriteStatus(c)
  PROVE  StatusInv'
<1> DEFINE q == local[c].received
<1>1. /\ UNCHANGED received
      /\ pc[c] = "status"
      /\ pc' = [pc EXCEPT ![c] = "accrue"]
      /\ \/ AllReceived(q) /\ status' = "RECEIVED"
         \/ ~AllReceived(q) /\ (\E l \in Lines : q[l] > 0) /\ status' = "PARTIALLY_RECEIVED"
         \/ ~AllReceived(q) /\ status' = status
  BY DEF WriteStatus, Complete, Goto
<1>2. /\ \A d \in Calls \ {c} : pc'[d] = pc[d] /\ local'[d] = local[d]
      /\ alone' => alone /\ \A d \in Calls \ {c} : pc[d] \in {"idle", "done", "stopped"}
      /\ OneRuns'
      /\ NothingTakenBack' => NothingTakenBack
  BY OneRunsStep, ReceiptsKept
<1>3. /\ q \in [Lines -> Int]
      /\ received \in [Lines -> Int]
  BY <1>1 DEF Inv, TypeOK, Locals, Reads, ReadsOf, Quantities
<1>4. NothingTakenBack => \A l \in Lines : q[l] <= received[l]
  BY <1>1 DEF StatusInv, StaleReads
<1>5. pc'[c] = "accrue"
  BY <1>1 DEF Inv, TypeOK
<1>6. StaleReads'
  BY <1>1, <1>2, <1>5 DEF StatusInv, StaleReads
<1>7. FreshReads'
  BY <1>1, <1>2, <1>5 DEF StatusInv, FreshReads
<1>8. alone' => q = received
  BY <1>1, <1>2 DEF StatusInv, FreshReads
<1> HIDE DEF q
<1>9. PartlyReceived'
  <2>1. status' = "PARTIALLY_RECEIVED" /\ NothingTakenBack' => SomeReceived'
    BY <1>1, <1>2, <1>3, <1>4 DEF StatusInv, PartlyReceived, SomeReceived
  <2>2. status' = "PARTIALLY_RECEIVED" => ~AllReceived(q)
    BY <1>1
  <2>3. alone' /\ status' = "PARTIALLY_RECEIVED" => ~AllReceived(received)'
    BY <1>1, <1>8, <2>2 DEF AllReceived
  <2> QED  BY <2>1, <2>3 DEF PartlyReceived
<1>10. ReceivedInFull'
  <2> SUFFICES ASSUME status' = "RECEIVED", alone' \/ NothingTakenBack'
               PROVE  AllReceived(received)
    BY <1>1 DEF ReceivedInFull, AllReceived
  <2>1. CASE AllReceived(q)
    <3>1. \A l \in Lines : q[l] <= received[l]
      BY <1>2, <1>3, <1>4, <1>8
    <3> QED  BY <1>3, <2>1, <3>1, ConstantsAssumption DEF AllReceived
  <2>2. CASE ~AllReceived(q)
    BY <1>1, <1>2, <2>2 DEF StatusInv, ReceivedInFull
  <2> QED  BY <2>1, <2>2
<1>11. StillOpen'
  BY <1>1, <1>2, <1>5 DEF StillOpen, Receiving
<1> QED  BY <1>2, <1>6, <1>7, <1>9, <1>10, <1>11 DEF StatusInv

LEMMA StatusInvStep == Inv /\ StatusInv /\ [Next]_vars => StatusInv'
<1> SUFFICES ASSUME Inv, StatusInv, [Next]_vars
             PROVE  StatusInv'
  OBVIOUS
<1>1. ASSUME NEW c \in Calls, Step(c)
      PROVE  StatusInv'
  BY <1>1, OtherStatusStep, IncrementStatusStep, RereadStatusStep, WriteStatusStep
<1>2. ASSUME NEW c \in Calls, Stop(c)
      PROVE  StatusInv'
  <2>1. /\ UNCHANGED <<status, received, receipt>>
        /\ ~alone'
        /\ pc' = [pc EXCEPT ![c] = "stopped"]
        /\ local' = [local EXCEPT ![c] = NoLocal]
    BY <1>2 DEF Stop, Goto, orders
  <2>2. \A d \in Calls : pc'[d] = "status" => pc[d] = "status" /\ local'[d] = local[d]
    BY <2>1 DEF Inv, TypeOK
  <2>0. NothingTakenBack' <=> NothingTakenBack
    BY <2>1 DEF NothingTakenBack, Receipts
  <2>3. StaleReads'
    BY <2>0, <2>1, <2>2 DEF StatusInv, StaleReads
  <2>4. OneRuns' /\ FreshReads' /\ StillOpen'
    BY <2>1 DEF OneRuns, FreshReads, StillOpen
  <2>5. PartlyReceived'
    BY <2>0, <2>1 DEF StatusInv, PartlyReceived, SomeReceived
  <2>6. ReceivedInFull'
    BY <2>0, <2>1 DEF StatusInv, ReceivedInFull, AllReceived
  <2> QED  BY <2>3, <2>4, <2>5, <2>6 DEF StatusInv
<1>3. CASE UNCHANGED vars
  BY <1>3 DEF vars, StatusInv, ReceivedInFull, StaleReads, OneRuns, FreshReads, StillOpen,
              PartlyReceived, SomeReceived, NothingTakenBack, Receipts, Running, AllReceived
<1> QED  BY <1>1, <1>2, <1>3 DEF Next, Quiescent

LEMMA InitStatusInv == Init => StatusInv
  BY DEF Init, StatusInv, ReceivedInFull, StaleReads, OneRuns, FreshReads, StillOpen,
         PartlyReceived, Receiving, Running

\* An order marked RECEIVED has every line received in full: although receipts
\* overlap, while none has a negative quantity, and with those too where requests
\* did not overlap; there one marked PARTIALLY_RECEIVED at rest has something due
\* and, if nothing was taken back, something received (createGoodsReceipt's
\* second read).
THEOREM OrderStatus == Spec => []StatusAgrees
<1>1. Spec => [](Inv /\ StatusInv)
  BY InitInv, InvStep, InitStatusInv, StatusInvStep, PTL DEF Spec
<1>2. StatusInv => StatusAgrees
  <2> SUFFICES ASSUME StatusInv
               PROVE  StatusAgrees
    OBVIOUS
  <2>1. Running = {} => \A c \in Calls : pc[c] \notin Receiving
    BY DEF Running, Receiving
  <2> QED  BY <2>1 DEF StatusInv, ReceivedInFull, PartlyReceived, SomeReceived, StatusAgrees
<1> QED  BY <1>1, <1>2, PTL

-----------------------------------------------------------------------------
(* The match.                                                              *)

\* While requests do not overlap, an invoice is linked by the call that created
\* it, a match is about the quantities it has, and it is paid with a match,
MatchedOrWaived(b) ==
  /\ bill[b].linked \/ pc[b] = "link"
  /\ bill[b].linked => bill[b].match # "NOT_REQUIRED"
  /\ bill[b].match = "MATCHED" => Matches(b, bill[b].billed)
  /\ bill[b].paid => bill[b].match \in {"MATCHED", "WAIVED"}
\* and what a call has read is still true when it writes.
MatchReads(c) ==
  /\ pc[c] = "link" => ~bill[c].paid
  /\ pc[c] = "evaluate" => /\ bill[local[c].bill].linked
                           /\ bill[local[c].bill].match # "WAIVED"
                           /\ local[c].billed = bill[local[c].bill].billed
  /\ pc[c] = "edit" => local[c].linked /\ ~bill[local[c].bill].paid

MatchInv ==
  alone => /\ \A b \in Bills : MatchedOrWaived(b)
           /\ \A c \in Calls : MatchReads(c)

\* The statements that create no receipt and write no invoice.
LEMMA QuietMatchStep ==
  ASSUME NEW c \in Calls, Inv, Begin(c) \/ Continue(c),
         ~CreateReceipt(c), ~CreateBill(c), ~LinkBill(c), ~ReadBill(c), ~WriteMatch(c),
         ~ReadForEdit(c), ~WriteEdit(c), ~Waive(c), ~Pay(c)
  PROVE  /\ UNCHANGED <<receipt, bill>>
         /\ pc[c] # "link"
         /\ pc'[c] \notin {"idle", "link", "evaluate", "edit"}
         /\ pc'[c] = "receipt" => pc[c] = "idle"
<1>1. CASE Begin(c)
  BY <1>1 DEF Begin, Approve, WorkflowApproved, ReadForReject, ReadForReceipt, ReadForMatch,
              Goto, Starts, orders, Inv, TypeOK
<1>2. CASE WriteReject(c) \/ BeginMovements(c) \/ RereadOrder(c) \/ WriteStatus(c)
  BY <1>2 DEF WriteReject, BeginMovements, RereadOrder, WriteStatus, Goto, End, orders, Inv, TypeOK
<1>3. CASE Accrue(c) \/ NoBill(c)
  BY <1>3 DEF Accrue, NoBill, Goto, End, orders, Inv, TypeOK
<1>4. CASE IncrementLine(c) \/ PostMovement(c)
  BY <1>4 DEF IncrementLine, PostMovement
<1> QED  BY <1>1, <1>2, <1>3, <1>4 DEF Continue

\* An invoice nobody writes keeps what is known of it.
LEMMA OtherBill ==
  ASSUME NEW b \in Bills, MatchedOrWaived(b), bill[b].linked,
         bill'[b] = bill[b], receipt'[b] = receipt[b]
  PROVE  MatchedOrWaived(b)'
  BY DEF MatchedOrWaived, Matches

\* A call that goes on alone keeps what is known of the invoices.
LEMMA MatchStep ==
  ASSUME NEW c \in Calls, Inv, StatusInv, MatchInv, Step(c), alone'
  PROVE  /\ \A b \in Bills' : MatchedOrWaived(b)'
         /\ \A d \in Calls : MatchReads(d)'
<1>1. /\ alone
      /\ \A d \in Calls \ {c} : pc'[d] = pc[d] /\ pc[d] \in {"idle", "done", "stopped"}
  BY OneRunsStep
<1>2. \A d \in Calls \ {c} : MatchReads(d)'
  BY <1>1 DEF MatchReads
<1>3. /\ \A b \in Bills : MatchedOrWaived(b)
      /\ MatchReads(c)
      /\ ReadsOf(c)
  BY <1>1 DEF MatchInv, Inv, Reads
<1>4. \A b \in Bills : b \in Calls /\ bill[b] \in Bill
  BY DEF Bills, Inv, TypeOK
<1>5. \A b \in Bills : (b = c /\ pc[c] = "link") \/ bill[b].linked
  BY <1>1, <1>3, <1>4 DEF MatchedOrWaived
\* Where one invoice is written, the others are as they were.
<1>6. ASSUME NEW b \in Calls, NEW row \in Bill, bill' = [bill EXCEPT ![b] = row],
             UNCHANGED receipt, pc[c] = "link" => b = c,
             MatchedOrWaived(b)', MatchReads(c)'
      PROVE  /\ \A k \in Bills' : MatchedOrWaived(k)'
             /\ \A d \in Calls : MatchReads(d)'
  <2>1. ASSUME NEW k \in Bills' \ {b}
        PROVE  MatchedOrWaived(k)'
    <3>1. k \in Bills /\ bill'[k] = bill[k]
      BY <1>6, <2>1 DEF Bills, Inv, TypeOK
    <3>2. bill[k].linked
      BY <1>5, <1>6, <2>1, <3>1
    <3> QED  BY <1>3, <1>6, <3>1, <3>2, OtherBill
  <2> QED  BY <1>2, <1>6, <2>1
<1>7. ASSUME UNCHANGED bill, \A b \in Bills : receipt'[b] = receipt[b],
             pc[c] # "link", MatchReads(c)'
      PROVE  /\ \A k \in Bills' : MatchedOrWaived(k)'
             /\ \A d \in Calls : MatchReads(d)'
  <2>1. Bills' = Bills
    BY <1>7 DEF Bills
  <2>2. ASSUME NEW k \in Bills
        PROVE  MatchedOrWaived(k)'
    BY <1>3, <1>5, <1>7, OtherBill
  <2> QED  BY <1>2, <1>7, <2>1, <2>2
<1>8. CASE CreateReceipt(c)
  <2>1. /\ UNCHANGED bill
        /\ pc[c] = "receipt"
        /\ pc' = [pc EXCEPT ![c] = "increment"]
        /\ receipt' = [receipt EXCEPT ![c] = local[c].items]
    BY <1>8 DEF CreateReceipt, Goto
  <2>2. c \notin Bills
    BY <1>3, <2>1 DEF ReadsOf, Inv, BillsOfReceipts
  <2>3. \A b \in Bills : receipt'[b] = receipt[b]
    BY <1>4, <2>1, <2>2 DEF Inv, TypeOK
  <2>4. MatchReads(c)'
    BY <2>1 DEF MatchReads, Inv, TypeOK
  <2> QED  BY <1>7, <2>1, <2>3, <2>4
<1>9. CASE CreateBill(c)
  <2> DEFINE row == [billed |-> Positive(receipt[c]), linked |-> FALSE,
                     match |-> "NOT_REQUIRED", paid |-> FALSE]
  <2>1. /\ UNCHANGED receipt
        /\ pc[c] = "bill"
        /\ pc' = [pc EXCEPT ![c] = "link"]
        /\ bill' = [bill EXCEPT ![c] = row]
    BY <1>9 DEF CreateBill, Goto, orders
  <2>2. c \in Receipts
    BY <1>3, <2>1 DEF ReadsOf
  <2>3. row \in Bill
    <3>1. receipt[c] \in Quantities
      BY <2>2 DEF Receipts, Inv, TypeOK
    <3>2. Positive(receipt[c]) \in Quantities
      BY <3>1 DEF Positive, Quantities
    <3> QED  BY <3>2 DEF Bill, Matched
  <2>4. bill'[c] = row /\ pc'[c] = "link"
    BY <2>1 DEF Inv, TypeOK
  <2>5. MatchedOrWaived(c)' /\ MatchReads(c)'
    BY <2>4 DEF MatchedOrWaived, MatchReads
  <2> HIDE DEF row
  <2> QED  BY <1>6, <2>1, <2>3, <2>5
<1>10. CASE LinkBill(c)
  <2>1. /\ UNCHANGED receipt
        /\ pc[c] = "link"
        /\ pc' = [pc EXCEPT ![c] = "match"]
        /\ bill' = [bill EXCEPT ![c] = Linked(bill[c])]
    BY <1>10 DEF LinkBill, Goto, orders
  <2>2. c \in Bills /\ bill[c] \in Bill /\ ~bill[c].paid
    BY <1>3, <1>4, <2>1 DEF ReadsOf, MatchReads
  <2>3. /\ Linked(bill[c]) \in Bill
        /\ Linked(bill[c]).linked
        /\ Linked(bill[c]).match = "PENDING"
        /\ ~Linked(bill[c]).paid
    BY <2>2 DEF Bill, Matched, Linked
  <2>4. bill'[c] = Linked(bill[c]) /\ pc'[c] = "match"
    BY <2>1 DEF Inv, TypeOK
  <2>5. MatchedOrWaived(c)'
    BY <2>3, <2>4 DEF MatchedOrWaived
  <2>6. MatchReads(c)'
    BY <2>4 DEF MatchReads
  <2> QED  BY <1>6, <2>1, <2>3, <2>5, <2>6
<1>11. CASE ReadBill(c)
  <2> DEFINE b == local[c].bill
  <2>1. /\ UNCHANGED <<receipt, bill>>
        /\ pc[c] = "match"
    BY <1>11 DEF ReadBill, orders
  <2>2. b \in Bills /\ bill[b] \in Bill /\ bill[b].linked
    BY <1>3, <1>4, <1>5, <2>1 DEF ReadsOf
  <2>3. MatchReads(c)'
    <3>1. CASE bill[b].match = "WAIVED"
      <4>1. pc'[c] = "done"
        BY <1>11, <2>2, <3>1 DEF ReadBill, Goto, End, Inv, TypeOK
      <4> QED  BY <4>1 DEF MatchReads
    <3>2. CASE bill[b].match # "WAIVED"
      <4>1. /\ pc' = [pc EXCEPT ![c] = "evaluate"]
            /\ local' = [local EXCEPT ![c] = [local[c] EXCEPT !.billed = bill[b].billed]]
        BY <1>11, <2>2, <3>2 DEF ReadBill, Goto
      <4>2. /\ pc'[c] = "evaluate"
            /\ local'[c].bill = b
            /\ local'[c].billed = bill[b].billed
        BY <4>1 DEF Inv, TypeOK, Locals
      <4>3. bill'[local'[c].bill] = bill[b]
        BY <2>1, <4>2
      <4> QED  BY <2>2, <3>2, <4>2, <4>3 DEF MatchReads
    <3> QED  BY <3>1, <3>2
  <2> QED  BY <1>7, <2>1, <2>3
<1>12. CASE WriteMatch(c)
  <2> DEFINE b == local[c].bill
             row == [bill[b] EXCEPT !.match = IF Matches(b, local[c].billed)
                                                THEN "MATCHED" ELSE "VARIANCE"]
  <2>1. /\ UNCHANGED receipt
        /\ pc[c] = "evaluate"
        /\ pc' = [pc EXCEPT ![c] = "done"]
    BY <1>12 DEF WriteMatch, Goto, End, orders
  <2>2. /\ b \in Bills
        /\ bill[b] \in Bill
        /\ bill[b].linked
        /\ bill[b].match # "WAIVED"
        /\ local[c].billed = bill[b].billed
        /\ MatchedOrWaived(b)
    BY <1>3, <1>4, <2>1 DEF ReadsOf, MatchReads
  <2>3. local[c].billed # None
    BY <2>2, NoneIsNoValue DEF Bill
  <2>4. bill' = [bill EXCEPT ![b] = row]
    BY <1>12, <2>3 DEF WriteMatch
  <2>5. row \in Bill
    BY <2>2 DEF Bill, Matched
  <2>6. /\ row.linked
        /\ row.billed = bill[b].billed
        /\ row.match \in {"MATCHED", "VARIANCE"}
        /\ row.match = "MATCHED" <=> Matches(b, bill[b].billed)
        /\ row.paid = bill[b].paid
    BY <2>2 DEF Bill
  <2>7. PICK k \in Calls, r \in Bill : k = b /\ r = row
    BY <1>4, <2>2, <2>5
  <2>8. bill' = [bill EXCEPT ![k] = r] /\ bill'[k] = r /\ receipt'[k] = receipt[k]
    BY <2>1, <2>4, <2>7 DEF Inv, TypeOK
  <2>9. /\ r.linked
        /\ r.match \in {"MATCHED", "VARIANCE"}
        /\ r.match = "MATCHED" => Matches(k, r.billed)
        /\ r.paid => r.match = "MATCHED"
    BY <2>2, <2>6, <2>7 DEF MatchedOrWaived
  <2>10. MatchedOrWaived(k)'
    BY <2>8, <2>9 DEF MatchedOrWaived, Matches
  <2>11. pc'[c] = "done"
    BY <2>1 DEF Inv, TypeOK
  <2>12. MatchReads(c)'
    BY <2>11 DEF MatchReads
  <2> QED  BY <1>6, <2>1, <2>8, <2>10, <2>12
<1>13. CASE ReadForEdit(c)
  <2>1. /\ UNCHANGED <<receipt, bill>>
        /\ pc[c] = "idle"
        /\ pc' = [pc EXCEPT ![c] = "edit"]
    BY <1>13 DEF ReadForEdit, Starts, Goto, orders
  <2>2. PICK b \in Bills, q \in Asked :
          /\ ~bill[b].paid
          /\ local' = [local EXCEPT ![c] = ToEdit(c, b, q)]
    BY <1>13 DEF ReadForEdit
  <2>3. pc'[c] = "edit" /\ local'[c].bill = b /\ local'[c].linked = bill[b].linked
    BY <2>1, <2>2 DEF ToEdit, Inv, TypeOK, Locals
  <2>4. bill[b].linked
    BY <1>5, <2>1
  <2>5. MatchReads(c)'
    BY <2>1, <2>2, <2>3, <2>4 DEF MatchReads
  <2> QED  BY <1>7, <2>1, <2>5
<1>14. CASE WriteEdit(c)
  <2>1. /\ UNCHANGED receipt
        /\ pc[c] = "edit"
        /\ bill' = [bill EXCEPT ![local[c].bill] =
                      Edited(bill[local[c].bill], local[c].billed, local[c].linked)]
    BY <1>14 DEF WriteEdit, orders
  <2>2. local[c].linked /\ local[c].bill \in Bills
    BY <1>3, <2>1 DEF ReadsOf, MatchReads
  <2>3. pc' = [pc EXCEPT ![c] = "match"]
    BY <1>14, <2>2 DEF WriteEdit, EvaluateAfter, Goto
  <2>4. PICK b \in Bills, row \in Bill :
          /\ b = local[c].bill
          /\ row = Edited(bill[b], local[c].billed, local[c].linked)
    <3>1. bill[local[c].bill] \in Bill
      BY <1>4, <2>2
    <3>2. local[c].billed \in Quantities
      BY <1>3, <2>1 DEF ReadsOf, Inv, TypeOK, Locals
    <3>3. Edited(bill[local[c].bill], local[c].billed, local[c].linked) \in Bill
      BY <3>1, <3>2 DEF Edited, Bill, Matched
    <3> QED  BY <2>2, <3>3
  <2>5. /\ row.match = "PENDING"
        /\ row.linked = bill[b].linked
        /\ row.paid = bill[b].paid
    BY <1>4, <2>2, <2>4 DEF Edited, Bill
  <2>6. bill[b].linked /\ ~bill[b].paid
    BY <1>3, <1>5, <2>1, <2>4 DEF MatchReads
  <2>7. bill' = [bill EXCEPT ![b] = row] /\ bill'[b] = row /\ b \in Calls /\ pc'[c] = "match"
    BY <1>4, <2>1, <2>3, <2>4 DEF Inv, TypeOK
  <2>8. MatchedOrWaived(b)'
    BY <2>5, <2>6, <2>7 DEF MatchedOrWaived
  <2>9. MatchReads(c)'
    BY <2>7 DEF MatchReads
  <2> QED  BY <1>6, <2>1, <2>7, <2>8, <2>9
<1>15. CASE Waive(c) \/ Pay(c)
  <2>1. /\ UNCHANGED receipt
        /\ pc[c] = "idle"
        /\ pc' = [pc EXCEPT ![c] = "done"]
    BY <1>15 DEF Waive, Pay, Starts, Goto, orders
  <2>2. PICK b \in Bills : \/ bill' = [bill EXCEPT ![b] = [bill[b] EXCEPT !.match = "WAIVED"]]
                           \/ /\ Payable(bill[b])
                              /\ bill' = [bill EXCEPT ![b] = [bill[b] EXCEPT !.paid = TRUE]]
    BY <1>15 DEF Waive, Pay
  <2>3. bill[b] \in Bill /\ bill[b].linked /\ MatchedOrWaived(b) /\ b \in Calls
    BY <1>3, <1>4, <1>5, <2>1
  <2>4. PICK row \in Bill :
          /\ bill' = [bill EXCEPT ![b] = row]
          /\ row.linked
          /\ row.billed = bill[b].billed
          /\ row.match \in {"WAIVED", bill[b].match}
          /\ row.paid => row.match \in {"MATCHED", "WAIVED"}
    <3>1. CASE bill' = [bill EXCEPT ![b] = [bill[b] EXCEPT !.match = "WAIVED"]]
      <4> DEFINE row == [bill[b] EXCEPT !.match = "WAIVED"]
      <4>1. row \in Bill /\ row.linked /\ row.billed = bill[b].billed /\ row.match = "WAIVED"
        BY <2>3 DEF Bill, Matched
      <4>2. bill' = [bill EXCEPT ![b] = row]
        BY <3>1
      <4> HIDE DEF row
      <4> QED  BY <4>1, <4>2
    <3>2. CASE /\ Payable(bill[b])
               /\ bill' = [bill EXCEPT ![b] = [bill[b] EXCEPT !.paid = TRUE]]
      <4>1. bill[b].match \in {"MATCHED", "WAIVED"}
        BY <2>3, <3>2 DEF Payable, MatchedOrWaived
      <4> DEFINE row == [bill[b] EXCEPT !.paid = TRUE]
      <4>2. row \in Bill /\ row.linked /\ row.billed = bill[b].billed /\ row.match = bill[b].match
        BY <2>3 DEF Bill, Matched
      <4>3. bill' = [bill EXCEPT ![b] = row]
        BY <3>2
      <4> HIDE DEF row
      <4> QED  BY <4>1, <4>2, <4>3
    <3> QED  BY <2>2, <3>1, <3>2
  <2>5. bill'[b] = row /\ pc'[c] = "done"
    BY <2>1, <2>3, <2>4 DEF Inv, TypeOK
  <2>6. MatchedOrWaived(b)'
    BY <2>1, <2>3, <2>4, <2>5 DEF MatchedOrWaived, Matches
  <2>7. MatchReads(c)'
    BY <2>5 DEF MatchReads
  <2> QED  BY <1>6, <2>1, <2>3, <2>4, <2>6, <2>7
<1>16. CASE ~(\/ CreateReceipt(c) \/ CreateBill(c) \/ LinkBill(c) \/ ReadBill(c) \/ WriteMatch(c)
              \/ ReadForEdit(c) \/ WriteEdit(c) \/ Waive(c) \/ Pay(c))
  <2>1. /\ UNCHANGED <<receipt, bill>>
        /\ pc[c] # "link"
        /\ pc'[c] \notin {"link", "evaluate", "edit"}
    BY <1>16, QuietMatchStep DEF Step
  <2>2. MatchReads(c)'
    BY <2>1 DEF MatchReads
  <2> QED  BY <1>7, <2>1, <2>2
<1> QED  BY <1>8, <1>9, <1>10, <1>11, <1>12, <1>13, <1>14, <1>15, <1>16

LEMMA MatchInvStep == Inv /\ StatusInv /\ MatchInv /\ [Next]_vars => MatchInv'
<1> SUFFICES ASSUME Inv, StatusInv, MatchInv, [Next]_vars
             PROVE  MatchInv'
  OBVIOUS
<1>1. ASSUME NEW c \in Calls, Step(c)
      PROVE  MatchInv'
  BY <1>1, MatchStep DEF MatchInv
<1>2. ASSUME NEW c \in Calls, Stop(c)
      PROVE  MatchInv'
  BY <1>2 DEF Stop, MatchInv
<1>3. CASE UNCHANGED vars
  BY <1>3 DEF vars, MatchInv, MatchedOrWaived, MatchReads, Matches, Bills
<1> QED  BY <1>1, <1>2, <1>3 DEF Next, Quiescent

LEMMA InitMatchInv == Init => MatchInv
  BY DEF Init, MatchInv, MatchReads, Bills

\* Where requests did not overlap and none stopped, a supplier's invoice for a
\* receipt is paid only for what was both ordered and received, or after its
\* match was waived (registerPayment's gate on evaluateThreeWayMatch).
THEOREM PaymentsMatched == Spec => []PaidIsMatched
<1>1. Spec => [](Inv /\ StatusInv /\ MatchInv)
  BY InitInv, InvStep, InitStatusInv, StatusInvStep, InitMatchInv, MatchInvStep, PTL DEF Spec
<1>2. MatchInv => PaidIsMatched
  BY DEF MatchInv, MatchedOrWaived, Matches, PaidIsMatched
<1> QED  BY <1>1, <1>2, PTL

-----------------------------------------------------------------------------
(* The sums: what each call has counted as received and put in stock.      *)

\* Call c has counted n as received on line l and put m of it in stock: all of its
\* quantity or nothing; what a call that has stopped left undone is not known.
Counted(c, l, n, m) ==
  /\ n \in {0, QuantityOf(c, l)}
  /\ m \in {0, StockedOf(c, l)}
  /\ m # 0 => n = QuantityOf(c, l)
  /\ pc[c] = "increment" =>
       /\ n = IF l \in local[c].todo THEN 0 ELSE QuantityOf(c, l)
       /\ m = 0
  /\ pc[c] = "move" =>
       /\ n = QuantityOf(c, l)
       /\ m = IF l \in local[c].todo THEN 0 ELSE StockedOf(c, l)
  /\ pc[c] \notin {"idle", "receipt", "increment", "move", "stopped"} =>
       n = QuantityOf(c, l) /\ m = StockedOf(c, l)

\* The received quantity of a line, and its stock, are what the calls counted.
LineCounted(l) ==
  \E f \in [Calls -> Int], g \in [Calls -> Nat] :
    /\ received[l] = SumFunction(f)
    /\ stock[l] = SumFunction(g)
    /\ \A c \in Calls : Counted(c, l, f[c], g[c])

CountInv == \A l \in Lines : LineCounted(l)

LEMMA FiniteCalls == IsFiniteSet(Calls)
<1>1. MaxCalls \in Int
  BY ConstantsAssumption
<1> QED  BY <1>1, FS_Interval DEF Calls

LEMMA QuantityType ==
  Inv => \A c \in Calls, l \in Lines :
           /\ QuantityOf(c, l) \in Int /\ StockedOf(c, l) \in Nat
           /\ c \notin Receipts => QuantityOf(c, l) = 0 /\ StockedOf(c, l) = 0
<1> SUFFICES ASSUME Inv, NEW c \in Calls, NEW l \in Lines
             PROVE  /\ QuantityOf(c, l) \in Int
                    /\ StockedOf(c, l) \in Nat
                    /\ c \notin Receipts => QuantityOf(c, l) = 0 /\ StockedOf(c, l) = 0
  OBVIOUS
<1>1. QuantityOf(c, l) \in Int
  <2>1. CASE c \in Receipts
    <3>1. receipt[c] \in [Lines -> Int]
      BY <2>1 DEF Inv, TypeOK, Receipts, Quantities
    <3> QED  BY <2>1, <3>1 DEF QuantityOf
  <2> QED  BY <2>1 DEF QuantityOf
<1>2. c \notin Receipts => QuantityOf(c, l) = 0
  BY DEF QuantityOf
<1> QED  BY <1>1, <1>2 DEF StockedOf

\* A step of call c that leaves a line's quantities alone.
LEMMA LineKept ==
  ASSUME NEW c \in Calls, NEW l \in Lines, LineCounted(l),
         received'[l] = received[l], stock'[l] = stock[l],
         \A d \in Calls \ {c} :
           /\ pc'[d] = pc[d] /\ local'[d] = local[d]
           /\ receipt'[d] = receipt[d] /\ (d \in housed' <=> d \in housed),
         \A n \in Int, m \in Nat : Counted(c, l, n, m) => Counted(c, l, n, m)'
  PROVE  LineCounted(l)'
<1>1. PICK f \in [Calls -> Int], g \in [Calls -> Nat] :
        /\ received[l] = SumFunction(f)
        /\ stock[l] = SumFunction(g)
        /\ \A d \in Calls : Counted(d, l, f[d], g[d])
  BY DEF LineCounted
<1>2. ASSUME NEW d \in Calls \ {c}, NEW n \in Int, NEW m \in Nat, Counted(d, l, n, m)
      PROVE  Counted(d, l, n, m)'
  BY <1>2 DEF Counted, QuantityOf, StockedOf, Receipts
<1>3. \A d \in Calls : Counted(d, l, f[d], g[d])'
  BY <1>1, <1>2
<1> QED  BY <1>1, <1>3 DEF LineCounted

\* A step of call c after which it has counted n and put m in stock.
LEMMA LineChanged ==
  ASSUME NEW c \in Calls, NEW l \in Lines, LineCounted(l), NEW n \in Int, NEW m \in Nat,
         \A d \in Calls \ {c} :
           /\ pc'[d] = pc[d] /\ local'[d] = local[d]
           /\ receipt'[d] = receipt[d] /\ (d \in housed' <=> d \in housed),
         \A p \in Int, q \in Nat : Counted(c, l, p, q) =>
                            /\ received'[l] = received[l] + (n - p)
                            /\ stock'[l] = stock[l] + (m - q)
                            /\ Counted(c, l, n, m)'
  PROVE  LineCounted(l)'
<1>1. PICK f \in [Calls -> Int], g \in [Calls -> Nat] :
        /\ received[l] = SumFunction(f)
        /\ stock[l] = SumFunction(g)
        /\ \A d \in Calls : Counted(d, l, f[d], g[d])
  BY DEF LineCounted
<1> DEFINE F == [d \in Calls |-> IF d = c THEN n ELSE f[d]]
           G == [d \in Calls |-> IF d = c THEN m ELSE g[d]]
<1>2. ASSUME NEW d \in Calls \ {c}, NEW p \in Int, NEW q \in Nat, Counted(d, l, p, q)
      PROVE  Counted(d, l, p, q)'
  BY <1>2 DEF Counted, QuantityOf, StockedOf, Receipts
<1>3. /\ F \in [Calls -> Int] /\ G \in [Calls -> Nat]
      /\ G \in [Calls -> Int] /\ g \in [Calls -> Int]
      /\ F[c] = n /\ G[c] = m
      /\ \A d \in Calls \ {c} : F[d] = f[d] /\ G[d] = g[d]
  OBVIOUS
<1>4. /\ received'[l] = received[l] + (n - f[c])
      /\ stock'[l] = stock[l] + (m - g[c])
      /\ Counted(c, l, n, m)'
  BY <1>1
<1> HIDE DEF F, G
<1>5. /\ SumFunction(F) = SumFunction(f) + (n - f[c])
      /\ SumFunction(G) = SumFunction(g) + (m - g[c])
  BY <1>3, FiniteCalls, ChangedSum
<1>6. \A d \in Calls : Counted(d, l, F[d], G[d])'
  BY <1>1, <1>2, <1>3, <1>4
<1>7. received'[l] = SumFunction(F) /\ stock'[l] = SumFunction(G)
  BY <1>1, <1>4, <1>5
<1> QED  BY <1>3, <1>6, <1>7 DEF LineCounted

Counting == {"idle", "receipt", "increment", "move", "stopped"}

\* A step outside the statements that count.
LEMMA SettledStep ==
  ASSUME NEW c \in Calls, Inv, CountInv, UNCHANGED <<received, receipt, housed, stock>>,
         \A d \in Calls \ {c} : pc'[d] = pc[d] /\ local'[d] = local[d],
         \/ pc[c] = "idle" /\ pc'[c] \notin {"increment", "move"}
         \/ pc'[c] = "stopped"
         \/ pc[c] \notin Counting /\ pc'[c] \notin Counting
  PROVE  CountInv'
<1> SUFFICES ASSUME NEW l \in Lines
             PROVE  LineCounted(l)'
  BY DEF CountInv
<1>1. /\ QuantityOf(c, l)' = QuantityOf(c, l)
      /\ StockedOf(c, l)' = StockedOf(c, l)
  BY DEF QuantityOf, StockedOf, Receipts
<1>2. pc[c] = "idle" => QuantityOf(c, l) = 0 /\ StockedOf(c, l) = 0
  BY QuantityType DEF Inv, Reads, ReadsOf
<1>3. ASSUME NEW n \in Int, NEW m \in Nat, Counted(c, l, n, m)
      PROVE  Counted(c, l, n, m)'
  BY <1>1, <1>2, <1>3 DEF Counted, Counting
<1> QED  BY <1>3, LineKept DEF CountInv

LEMMA OtherStep ==
  ASSUME NEW c \in Calls, Inv, CountInv,
         \/ Approve(c) \/ WorkflowApproved(c) \/ ReadForReject(c) \/ WriteReject(c)
         \/ ReadForReceipt(c) \/ WriteStatus(c) \/ Accrue(c) \/ CreateBill(c) \/ NoBill(c)
         \/ LinkBill(c) \/ ReadForMatch(c) \/ ReadBill(c) \/ WriteMatch(c) \/ ReadForEdit(c)
         \/ WriteEdit(c) \/ Waive(c) \/ Pay(c) \/ Stop(c)
  PROVE  CountInv'
<1>1. pc \in [Calls -> Steps \cup {"idle", "done", "stopped"}] /\ local \in [Calls -> Locals]
  BY DEF Inv, TypeOK
<1>2. CASE \/ Approve(c) \/ WorkflowApproved(c) \/ ReadForReject(c) \/ ReadForReceipt(c)
           \/ ReadForMatch(c) \/ ReadForEdit(c) \/ Waive(c) \/ Pay(c)
  <2>1. /\ UNCHANGED <<received, receipt, housed, stock>>
        /\ pc[c] = "idle"
        /\ pc'[c] \notin {"increment", "move"}
        /\ \A d \in Calls \ {c} : pc'[d] = pc[d] /\ local'[d] = local[d]
    BY <1>1, <1>2 DEF Approve, WorkflowApproved, ReadForReject, ReadForReceipt, ReadForMatch,
                      ReadForEdit, Waive, Pay, Starts, Goto, orders
  <2> QED  BY <2>1, SettledStep
<1>3. CASE \/ WriteReject(c) \/ WriteStatus(c) \/ Accrue(c) \/ CreateBill(c) \/ NoBill(c)
           \/ LinkBill(c) \/ ReadBill(c) \/ WriteMatch(c) \/ WriteEdit(c)
  <2>1. /\ UNCHANGED <<received, receipt, housed, stock>>
        /\ pc[c] \notin Counting
        /\ pc'[c] \notin Counting
        /\ \A d \in Calls \ {c} : pc'[d] = pc[d] /\ local'[d] = local[d]
    BY <1>1, <1>3 DEF WriteReject, WriteStatus, Accrue, CreateBill, NoBill, LinkBill, ReadBill,
                      WriteMatch, WriteEdit, EvaluateAfter, Goto, End, orders, Counting
  <2> QED  BY <2>1, SettledStep
<1>4. CASE Stop(c)
  <2>1. /\ UNCHANGED <<received, receipt, housed, stock>>
        /\ pc'[c] = "stopped"
        /\ \A d \in Calls \ {c} : pc'[d] = pc[d] /\ local'[d] = local[d]
    BY <1>1, <1>4 DEF Stop, Goto, orders
  <2> QED  BY <2>1, SettledStep
<1> QED  BY <1>2, <1>3, <1>4

\* The receipt exists: none of it is counted yet.
LEMMA ReceiptCounted ==
  ASSUME NEW c \in Calls, Inv, CountInv, CreateReceipt(c)
  PROVE  CountInv'
<1> SUFFICES ASSUME NEW l \in Lines
             PROVE  LineCounted(l)'
  BY DEF CountInv
<1>1. /\ pc[c] = "receipt"
      /\ pc' = [pc EXCEPT ![c] = "increment"]
      /\ receipt' = [receipt EXCEPT ![c] = local[c].items]
      /\ local' = [local EXCEPT ![c] = [local[c] EXCEPT !.todo = Lines]]
      /\ UNCHANGED <<received, stock>>
      /\ local[c] \in Locals
      /\ c \notin Receipts
  BY DEF CreateReceipt, Goto, Inv, TypeOK, Reads, ReadsOf
<1>2. /\ pc'[c] = "increment"
      /\ local'[c].todo = Lines
      /\ \A d \in Calls \ {c} : /\ pc'[d] = pc[d] /\ local'[d] = local[d]
                                /\ receipt'[d] = receipt[d]
  BY <1>1 DEF Inv, TypeOK, Locals
<1>3. \A d \in Calls \ {c} : d \in housed' <=> d \in housed
  BY DEF CreateReceipt
<1>4. ASSUME NEW n \in Int, NEW m \in Nat, Counted(c, l, n, m)
      PROVE  Counted(c, l, n, m)'
  <2>1. n = 0 /\ m = 0
    BY <1>1, <1>4, QuantityType DEF Counted
  <2> QED  BY <1>2, <2>1 DEF Counted
<1>5. received'[l] = received[l] /\ stock'[l] = stock[l]
  BY <1>1
<1> QED  BY <1>2, <1>3, <1>4, <1>5, LineKept DEF CountInv

\* What a call is to move is what it puts in stock.
LEMMA MovedIsStocked ==
  ASSUME NEW c \in Calls, NEW l \in Lines, Inv, pc[c] \in {"increment", "move"}
  PROVE  StockedOf(c, l) = IF l \in ToMove(c) THEN QuantityOf(c, l) ELSE 0
<1>1. /\ c \in Receipts
      /\ local[c].items = receipt[c]
      /\ local[c].warehouse <=> c \in housed
  BY DEF Inv, Reads, ReadsOf
<1>2. QuantityOf(c, l) = local[c].items[l]
  BY <1>1 DEF QuantityOf
<1> QED  BY <1>1, <1>2 DEF StockedOf, ToMove, ToStock

\* The lines are counted; the products are to be moved.
LEMMA MovementsBegin ==
  ASSUME NEW c \in Calls, Inv, CountInv, BeginMovements(c)
  PROVE  CountInv'
<1> SUFFICES ASSUME NEW l \in Lines
             PROVE  LineCounted(l)'
  BY DEF CountInv
<1>1. /\ pc[c] = "increment"
      /\ local[c].todo = {}
      /\ pc' = [pc EXCEPT ![c] = "move"]
      /\ local' = [local EXCEPT ![c] = [local[c] EXCEPT !.todo = ToMove(c)]]
      /\ UNCHANGED <<received, receipt, housed, stock>>
      /\ local[c] \in Locals
  BY DEF BeginMovements, Goto, Inv, TypeOK, orders
<1>2. /\ pc'[c] = "move"
      /\ local'[c].todo = ToMove(c)
      /\ \A d \in Calls \ {c} : pc'[d] = pc[d] /\ local'[d] = local[d]
  BY <1>1 DEF Inv, TypeOK, Locals
<1>3. QuantityOf(c, l)' = QuantityOf(c, l) /\ StockedOf(c, l)' = StockedOf(c, l)
  BY <1>1 DEF Receipts, QuantityOf, StockedOf
<1>4. StockedOf(c, l) = IF l \in ToMove(c) THEN QuantityOf(c, l) ELSE 0
  BY <1>1, MovedIsStocked
<1>5. ASSUME NEW n \in Int, NEW m \in Nat, Counted(c, l, n, m)
      PROVE  Counted(c, l, n, m)'
  <2>1. n = QuantityOf(c, l) /\ m = 0
    BY <1>1, <1>5 DEF Counted
  <2> QED  BY <1>2, <1>3, <1>4, <2>1 DEF Counted
<1>6. received'[l] = received[l] /\ stock'[l] = stock[l]
  BY <1>1
<1>7. \A d \in Calls \ {c} : receipt'[d] = receipt[d] /\ (d \in housed' <=> d \in housed)
  BY <1>1
<1> QED  BY <1>2, <1>5, <1>6, <1>7, LineKept DEF CountInv

\* The products are moved.
LEMMA MovementsEnd ==
  ASSUME NEW c \in Calls, Inv, CountInv, RereadOrder(c)
  PROVE  CountInv'
<1> SUFFICES ASSUME NEW l \in Lines
             PROVE  LineCounted(l)'
  BY DEF CountInv
<1>1. /\ pc[c] = "move"
      /\ local[c].todo = {}
      /\ pc'[c] = "status"
      /\ \A d \in Calls \ {c} : pc'[d] = pc[d] /\ local'[d] = local[d]
      /\ UNCHANGED <<received, receipt, housed, stock>>
  BY DEF RereadOrder, Goto, Inv, TypeOK, orders
<1>2. QuantityOf(c, l)' = QuantityOf(c, l) /\ StockedOf(c, l)' = StockedOf(c, l)
  BY <1>1 DEF Receipts, QuantityOf, StockedOf
<1>3. ASSUME NEW n \in Int, NEW m \in Nat, Counted(c, l, n, m)
      PROVE  Counted(c, l, n, m)'
  BY <1>1, <1>2, <1>3 DEF Counted
<1>4. received'[l] = received[l] /\ stock'[l] = stock[l]
  BY <1>1
<1>5. \A d \in Calls \ {c} : receipt'[d] = receipt[d] /\ (d \in housed' <=> d \in housed)
  BY <1>1
<1> QED  BY <1>1, <1>3, <1>4, <1>5, LineKept DEF CountInv

\* One line is counted.
LEMMA LineIncremented ==
  ASSUME NEW c \in Calls, Inv, CountInv, IncrementLine(c)
  PROVE  CountInv'
<1> SUFFICES ASSUME NEW l \in Lines
             PROVE  LineCounted(l)'
  BY DEF CountInv
<1>1. PICK k \in local[c].todo :
        /\ received' = [received EXCEPT ![k] = received[k] + local[c].items[k]]
        /\ local' = [local EXCEPT ![c] = [local[c] EXCEPT !.todo = local[c].todo \ {k}]]
  <2> DEFINE k == NextLine(c)
  <2>1. k \in local[c].todo
    <3>1. \E j \in local[c].todo : TRUE
      BY DEF IncrementLine
    <3> QED  BY <3>1, Zenon DEF NextLine
  <2>2. received' = [received EXCEPT ![k] = received[k] + local[c].items[k]]
    BY DEF IncrementLine, Incremented
  <2>3. local' = [local EXCEPT ![c] = [local[c] EXCEPT !.todo = local[c].todo \ {k}]]
    BY DEF IncrementLine
  <2> HIDE DEF k
  <2> QED  BY <2>1, <2>2, <2>3
<1>2. /\ pc[c] = "increment"
      /\ UNCHANGED <<receipt, housed, stock, pc>>
      /\ local[c] \in Locals
      /\ received \in [Lines -> Int]
      /\ stock \in [Lines -> Nat]
      /\ c \in Receipts
      /\ local[c].items = receipt[c]
  BY DEF IncrementLine, Inv, TypeOK, Quantities, Reads, ReadsOf
<1>3. /\ local'[c].todo = local[c].todo \ {k}
      /\ k \in Lines
      /\ \A d \in Calls \ {c} : local'[d] = local[d]
  BY <1>1, <1>2 DEF Inv, TypeOK, Locals
<1>4. /\ received'[l] = IF l = k THEN received[l] + QuantityOf(c, l) ELSE received[l]
      /\ stock'[l] = stock[l]
  BY <1>1, <1>2, <1>3 DEF QuantityOf
<1>5. /\ QuantityOf(c, l)' = QuantityOf(c, l) /\ StockedOf(c, l)' = StockedOf(c, l)
      /\ QuantityOf(c, l) \in Int
  BY <1>2, QuantityType DEF Receipts, QuantityOf, StockedOf
<1>6. CASE l # k
  <2>1. ASSUME NEW n \in Int, NEW m \in Nat, Counted(c, l, n, m)
        PROVE  Counted(c, l, n, m)'
    BY <1>2, <1>3, <1>5, <1>6, <2>1 DEF Counted
  <2> QED  BY <1>2, <1>3, <1>4, <1>6, <2>1, LineKept DEF CountInv
<1>7. CASE l = k
  <2>0. PICK q \in Int : q = QuantityOf(c, l)
    BY <1>5
  <2>1. ASSUME NEW n \in Int, NEW m \in Nat, Counted(c, l, n, m)
        PROVE  /\ received'[l] = received[l] + (q - n)
               /\ stock'[l] = stock[l] + (0 - m)
               /\ Counted(c, l, q, 0)'
    <3>1. n = 0 /\ m = 0
      BY <1>1, <1>2, <1>7, <2>1 DEF Counted
    <3>2. Counted(c, l, q, 0)'
      BY <1>2, <1>3, <1>5, <1>7, <2>0 DEF Counted
    <3> QED  BY <1>2, <1>4, <1>5, <1>7, <2>0, <3>1, <3>2
  <2> QED  BY <1>2, <1>3, <2>1, LineChanged DEF CountInv
<1> QED  BY <1>6, <1>7

\* One product is put in stock.
LEMMA ProductMoved ==
  ASSUME NEW c \in Calls, Inv, CountInv, PostMovement(c)
  PROVE  CountInv'
<1> SUFFICES ASSUME NEW l \in Lines
             PROVE  LineCounted(l)'
  BY DEF CountInv
<1>1. PICK k \in local[c].todo :
        /\ stock' = [stock EXCEPT ![k] = stock[k] + local[c].items[k]]
        /\ local' = [local EXCEPT ![c] = [local[c] EXCEPT !.todo = local[c].todo \ {k}]]
  <2> DEFINE k == NextLine(c)
  <2>1. k \in local[c].todo
    <3>1. \E j \in local[c].todo : TRUE
      BY DEF PostMovement
    <3> QED  BY <3>1, Zenon DEF NextLine
  <2>2. stock' = [stock EXCEPT ![k] = stock[k] + local[c].items[k]]
    BY DEF PostMovement
  <2>3. local' = [local EXCEPT ![c] = [local[c] EXCEPT !.todo = local[c].todo \ {k}]]
    BY DEF PostMovement
  <2> HIDE DEF k
  <2> QED  BY <2>1, <2>2, <2>3
<1>2. /\ pc[c] = "move"
      /\ UNCHANGED <<received, receipt, housed, pc>>
      /\ local[c] \in Locals
      /\ local[c].todo \subseteq ToMove(c)
      /\ received \in [Lines -> Int]
      /\ stock \in [Lines -> Nat]
      /\ c \in Receipts
      /\ local[c].items = receipt[c]
  BY DEF PostMovement, Inv, TypeOK, Quantities, Reads, ReadsOf
<1>3. /\ local'[c].todo = local[c].todo \ {k}
      /\ k \in Lines
      /\ \A d \in Calls \ {c} : local'[d] = local[d]
  BY <1>1, <1>2 DEF Inv, TypeOK, Locals
<1>4. /\ stock'[l] = IF l = k THEN stock[l] + QuantityOf(c, l) ELSE stock[l]
      /\ received'[l] = received[l]
  BY <1>1, <1>2, <1>3 DEF QuantityOf
<1>5. /\ QuantityOf(c, l)' = QuantityOf(c, l) /\ StockedOf(c, l)' = StockedOf(c, l)
      /\ QuantityOf(c, l) \in Int /\ StockedOf(c, l) \in Nat
  BY <1>2, QuantityType DEF Receipts, QuantityOf, StockedOf
<1>6. CASE l # k
  <2>1. ASSUME NEW n \in Int, NEW m \in Nat, Counted(c, l, n, m)
        PROVE  Counted(c, l, n, m)'
    BY <1>2, <1>3, <1>5, <1>6, <2>1 DEF Counted
  <2> QED  BY <1>2, <1>3, <1>4, <1>6, <2>1, LineKept DEF CountInv
<1>7. CASE l = k
  <2>0. /\ StockedOf(c, l) = QuantityOf(c, l)
        /\ \E q \in Nat : q = QuantityOf(c, l)
    <3>1. l \in ToMove(c)
      BY <1>1, <1>2, <1>7
    <3> QED  BY <1>2, <1>5, <3>1, MovedIsStocked
  <2>1. PICK q \in Nat : q = QuantityOf(c, l)
    BY <2>0
  <2>2. ASSUME NEW n \in Int, NEW m \in Nat, Counted(c, l, n, m)
        PROVE  /\ received'[l] = received[l] + (q - n)
               /\ stock'[l] = stock[l] + (q - m)
               /\ Counted(c, l, q, q)'
    <3>1. n = q /\ m = 0
      BY <2>1, <1>1, <1>2, <1>7, <2>2 DEF Counted
    <3>2. Counted(c, l, q, q)'
      BY <1>2, <1>3, <1>5, <1>7, <2>0, <2>1 DEF Counted
    <3> QED  BY <1>2, <1>4, <1>5, <1>7, <2>1, <3>1, <3>2
  <2>3. q \in Int
    OBVIOUS
  <2> QED  BY <1>2, <1>3, <2>2, <2>3, LineChanged DEF CountInv
<1> QED  BY <1>6, <1>7

LEMMA CountStep == Inv /\ CountInv /\ [Next]_vars => CountInv'
<1> SUFFICES ASSUME Inv, CountInv, [Next]_vars
             PROVE  CountInv'
  OBVIOUS
<1>1. ASSUME NEW c \in Calls, Step(c)
      PROVE  CountInv'
  BY <1>1, OtherStep, ReceiptCounted, LineIncremented, MovementsBegin, ProductMoved, MovementsEnd
     DEF Step, Begin, Continue
<1>2. ASSUME NEW c \in Calls, Stop(c)
      PROVE  CountInv'
  BY <1>2, OtherStep
<1>3. CASE UNCHANGED vars
  BY <1>3 DEF vars, CountInv, LineCounted, Counted, QuantityOf, StockedOf, Receipts
<1> QED  BY <1>1, <1>2, <1>3 DEF Next, Quiescent

LEMMA InitCount == Init => CountInv
<1> SUFFICES ASSUME Init, NEW l \in Lines
             PROVE  LineCounted(l)
  BY DEF CountInv
<1> DEFINE z == [c \in Calls |-> 0]
<1>1. SumFunction(z) = 0
  BY FiniteCalls, ZeroSum
<1>2. received[l] = 0 /\ stock[l] = 0 /\ \A c \in Calls : receipt[c] = None /\ pc[c] = "idle"
  BY DEF Init
<1>3. \A c \in Calls : Counted(c, l, z[c], z[c])
  BY <1>2 DEF Counted, QuantityOf, StockedOf, Receipts
<1>4. z \in [Calls -> Nat] /\ z \in [Calls -> Int]
  OBVIOUS
<1> HIDE DEF z
<1> QED  BY <1>1, <1>2, <1>3, <1>4 DEF LineCounted

\* What was counted is what some of the receipts say; at rest all of them do.
LEMMA CountsAddUp == Inv /\ CountInv => ReceiptsAddUp
<1> SUFFICES ASSUME Inv, CountInv, NEW l \in Lines
             PROVE  \E counted \in SUBSET Receipts :
                      /\ received[l] = ReceivedBy(counted, l)
                      /\ \E moved \in SUBSET counted :
                           /\ stock[l] = StockedBy(moved, l)
                           /\ Running \cup Stopped = {} =>
                                counted = Receipts /\ moved = Receipts
  BY DEF ReceiptsAddUp
<1>1. PICK f \in [Calls -> Int], g \in [Calls -> Nat] :
        /\ received[l] = SumFunction(f)
        /\ stock[l] = SumFunction(g)
        /\ \A c \in Calls : Counted(c, l, f[c], g[c])
  BY DEF CountInv, LineCounted
<1>2. \A c \in Calls : /\ QuantityOf(c, l) \in Int /\ StockedOf(c, l) \in Nat
                       /\ c \notin Receipts => QuantityOf(c, l) = 0 /\ StockedOf(c, l) = 0
  BY QuantityType
<1> DEFINE counted == {c \in Receipts : f[c] = QuantityOf(c, l)}
           moved == {c \in counted : g[c] = StockedOf(c, l)}
<1>3. f = [c \in Calls |-> IF c \in counted THEN QuantityOf(c, l) ELSE 0]
  <2>1. ASSUME NEW c \in Calls
        PROVE  f[c] = IF c \in counted THEN QuantityOf(c, l) ELSE 0
    BY <1>1, <1>2 DEF Counted
  <2> QED  BY <2>1
<1>4. g = [c \in Calls |-> IF c \in moved THEN StockedOf(c, l) ELSE 0]
  <2>1. ASSUME NEW c \in Calls
        PROVE  g[c] = IF c \in moved THEN StockedOf(c, l) ELSE 0
    BY <1>1, <1>2 DEF Counted
  <2> QED  BY <2>1
<1>5. ASSUME Running \cup Stopped = {}
      PROVE  counted = Receipts /\ moved = Receipts
  <2>1. ASSUME NEW c \in Receipts
        PROVE  f[c] = QuantityOf(c, l) /\ g[c] = StockedOf(c, l)
    <3>1. c \in Calls /\ pc[c] \in {"idle", "done"}
      BY <1>5 DEF Running, Stopped, Receipts
    <3>2. pc[c] = "done"
      BY <3>1 DEF Inv, Reads, ReadsOf
    <3> QED  BY <1>1, <3>1, <3>2 DEF Counted
  <2> QED  BY <2>1
<1>6. received[l] = ReceivedBy(counted, l) /\ stock[l] = StockedBy(moved, l)
  <2> HIDE DEF counted, moved
  <2> QED  BY <1>1, <1>3, <1>4 DEF ReceivedBy, StockedBy
<1>7. counted \in SUBSET Receipts /\ moved \in SUBSET counted
  OBVIOUS
<1> HIDE DEF counted, moved
<1> QED  BY <1>5, <1>6, <1>7

\* Whatever receipts overlap and wherever they stop, the received quantity of a
\* line and its stock are what some of the receipts say, each counted whole and
\* once; at rest, if none stopped, all of them (createGoodsReceipt).
THEOREM ReceiptsCounted == Spec => []ReceiptsAddUp
<1>1. Inv /\ CountInv /\ [Next]_vars => (Inv /\ CountInv)'
  BY InvStep, CountStep
<1>2. Init => Inv /\ CountInv
  BY InitInv, InitCount
<1> QED  BY <1>1, <1>2, CountsAddUp, PTL DEF Spec

=============================================================================
