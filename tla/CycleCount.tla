----------------------------- MODULE CycleCount -----------------------------
(***************************************************************************)
(* Cycle counts: scheduleCycleCount, recordCycleCountItems,                *)
(* closeCycleCount and cancelCycleCount of WarehouseService.               *)
(*                                                                         *)
(* Each handler reads the count, decides, and writes later; nothing locks  *)
(* the count in between, so the handlers of different requests interleave. *)
(* Closing posts one adjustment per product with createStockMovement,      *)
(* which is a transaction of its own: here it is the single step that      *)
(* module StockLedger shows it to be.  One warehouse and one count;        *)
(* reservations are left out.                                              *)
(***************************************************************************)
EXTENDS Integers, FiniteSets

CONSTANTS
  Calls,       \* the requests the API receives
  Products,    \* the products of the warehouse
  Opening,     \* their on-hand quantity at the start
  Counted,     \* quantities a person may report
  Moves,       \* quantities that other movements put in or take out
  MaxOnHand,   \* bound on the on-hand quantity
  MaxRunning,  \* how many requests run at the same time
  Deaths,      \* whether the process may die between two statements
  None         \* SQL NULL

Statuses == {"SCHEDULED", "IN_PROGRESS", "CLOSED", "CANCELLED"}

ASSUME ConstantsAssumption ==
  /\ Opening \in [Products -> Nat]
  /\ Counted \subseteq Nat
  /\ Moves \subseteq Int
  /\ MaxOnHand \in Nat
  /\ MaxRunning \in Nat \ {0}
  /\ Deaths \in BOOLEAN
  /\ None \notin Nat \cup Statuses

VARIABLES
  onHand,    \* committed on-hand quantity of each product
  status,    \* cycle_counts.status, None before the count exists
  item,      \* cycle_count_items: [expected, counted] by product
  adjusted,  \* what the adjustments of each call have added to each product
  alone,     \* history: no two requests ran at once, nothing else moved stock
             \* and no process died
  pc,        \* the next statement of each call
  local      \* what each call has read: [status, levels, input, item, todo]

vars == <<onHand, status, item, adjusted, alone, pc, local>>
tables == <<onHand, status, item, adjusted>>

NoItems == [p \in Products |-> [expected |-> 0, counted |-> None]]
NoLocal == [status |-> None, levels |-> [p \in Products |-> 0],
            input |-> [p \in Products |-> None], item |-> NoItems, todo |-> {}]

Running == {c \in Calls : pc[c] \notin {"idle", "done", "closed"}}
Starts(c) == pc[c] = "idle" /\ Cardinality(Running) < MaxRunning
Goto(c, step) == pc' = [pc EXCEPT ![c] = step]

Init == /\ onHand = Opening
        /\ status = None
        /\ item = NoItems
        /\ adjusted = [c \in Calls |-> [p \in Products |-> 0]]
        /\ alone = TRUE
        /\ pc = [c \in Calls |-> "idle"]
        /\ local = [c \in Calls |-> NoLocal]

-----------------------------------------------------------------------------
(* scheduleCycleCount.                                                     *)

ReadLevels(c) ==
  /\ Starts(c)
  /\ status = None
  /\ local' = [local EXCEPT ![c].levels = onHand]
  /\ Goto(c, "create")
  /\ UNCHANGED tables

\* A second count of the warehouse would be another row: it is left out.
CreateCount(c) ==
  /\ pc[c] = "create"
  /\ Goto(c, "done")
  /\ IF status = None
       THEN /\ status' = "SCHEDULED"
            /\ item' = [p \in Products |->
                 [expected |-> local[c].levels[p], counted |-> None]]
       ELSE UNCHANGED <<status, item>>
  /\ UNCHANGED <<onHand, adjusted, local>>

-----------------------------------------------------------------------------
(* recordCycleCountItems.                                                  *)

Ended(s) == s \in {"CLOSED", "CANCELLED"}

ReadForRecord(c) ==
  /\ Starts(c)
  /\ status # None
  /\ IF Ended(status)
       THEN Goto(c, "done") /\ UNCHANGED local
       ELSE \E input \in [Products -> Counted \cup {None}] :
              /\ \E p \in Products : input[p] # None
              /\ local' = [local EXCEPT ![c] =
                   [@ EXCEPT !.status = status, !.input = input]]
              /\ Goto(c, "record")
  /\ UNCHANGED tables

\* Mutant: the counted quantity is stored only for the first capture.
KeepFirst(old, input) == IF old.counted # None THEN old ELSE [old EXCEPT !.counted = input]
Captured(old, input) == IF input = None THEN old ELSE [old EXCEPT !.counted = input]

\* One transaction, which writes the status it decides on from the first read.
WriteRecord(c) ==
  /\ pc[c] = "record"
  /\ item' = [p \in Products |-> Captured(item[p], local[c].input[p])]
  /\ status' = IF local[c].status = "SCHEDULED" THEN "IN_PROGRESS" ELSE status
  /\ Goto(c, "done")
  /\ UNCHANGED <<onHand, adjusted, local>>

-----------------------------------------------------------------------------
(* closeCycleCount.                                                        *)

\* Mutant: a count may be closed while products are still to be counted.
NothingPending(items) == TRUE
AllCounted(items) == \A p \in Products : items[p].counted # None

Variance(i) == IF i.counted = None THEN 0 ELSE i.counted - i.expected

ReadForClose(c) ==
  /\ Starts(c)
  /\ status # None
  /\ IF Ended(status) \/ ~AllCounted(item)
       THEN Goto(c, "done") /\ UNCHANGED local
       ELSE /\ local' = [local EXCEPT ![c] =
                 [@ EXCEPT !.item = item,
                           !.todo = {p \in Products : Variance(item[p]) # 0}]]
            /\ Goto(c, "adjust")
  /\ UNCHANGED tables

\* Mutant: the error of one product is swallowed and the loop goes on.
SwallowError(c, p) == /\ local' = [local EXCEPT ![c].todo = @ \ {p}]
                      /\ UNCHANGED <<tables, pc>>
FailClose(c, p) == Goto(c, "done") /\ UNCHANGED <<tables, local>>

\* Mutant: the direction of the adjustment is swapped.
Swapped(i) == i.expected - i.counted
Adjustment(i) == Variance(i)

\* Mutant: the adjustment is posted whatever the stock.
AlwaysCovers(p, v) == TRUE
Covers(p, v) == onHand[p] + v >= 0

\* One turn of the loop: createStockMovement with type ADJUSTMENT, which fails
\* when the stock does not cover a negative variance.
AdjustItem(c) ==
  /\ pc[c] = "adjust"
  /\ \E p \in local[c].todo :
       LET v == Adjustment(local[c].item[p])
       IN  IF ~Covers(p, v)
             THEN FailClose(c, p)
             ELSE /\ onHand' = [onHand EXCEPT ![p] = @ + v]
                  /\ adjusted' = [adjusted EXCEPT ![c][p] = v]
                  /\ local' = [local EXCEPT ![c].todo = @ \ {p}]
                  /\ UNCHANGED <<status, item, pc>>

FinishClose(c) ==
  /\ pc[c] = "adjust"
  /\ local[c].todo = {}
  /\ status' = "CLOSED"
  /\ Goto(c, "closed")
  /\ UNCHANGED <<onHand, item, adjusted, local>>

-----------------------------------------------------------------------------
(* cancelCycleCount.                                                       *)

ReadForCancel(c) ==
  /\ Starts(c)
  /\ status # None
  /\ Goto(c, IF status = "CLOSED" THEN "done" ELSE "cancel")
  /\ UNCHANGED <<tables, local>>

WriteCancel(c) ==
  /\ pc[c] = "cancel"
  /\ status' = "CANCELLED"
  /\ Goto(c, "done")
  /\ UNCHANGED <<onHand, item, adjusted, local>>

-----------------------------------------------------------------------------
\* A movement of another handler.
OtherMovement ==
  /\ \E p \in Products, q \in Moves :
       /\ onHand[p] + q \in 0 .. MaxOnHand
       /\ onHand' = [onHand EXCEPT ![p] = @ + q]
  /\ alone' = FALSE
  /\ UNCHANGED <<status, item, adjusted, pc, local>>

\* The process dies, or its connection does, between two statements.
Die(c) == /\ Deaths
          /\ c \in Running
          /\ Goto(c, "done")
          /\ alone' = FALSE
          /\ UNCHANGED <<tables, local>>

Quiescent == Running = {} /\ UNCHANGED vars

Handler(c) ==
  \/ ReadLevels(c)
  \/ CreateCount(c)
  \/ ReadForRecord(c)
  \/ WriteRecord(c)
  \/ ReadForClose(c)
  \/ AdjustItem(c)
  \/ FinishClose(c)
  \/ ReadForCancel(c)
  \/ WriteCancel(c)

Next ==
  \/ \E c \in Calls : /\ Handler(c)
                      /\ alone' = (alone /\ Cardinality(Running') <= 1)
  \/ \E c \in Calls : Die(c)
  \/ OtherMovement
  \/ Quiescent

Spec == Init /\ [][Next]_vars

-----------------------------------------------------------------------------
(* Properties.                                                             *)

Item == [expected : Nat, counted : Counted \cup {None}]
Items == [Products -> Item]
Locals == [status : Statuses \cup {None}, levels : [Products -> Nat],
           input : [Products -> Counted \cup {None}], item : Items,
           todo : SUBSET Products]

\* The tables and the handlers' locals hold values of their types; on-hand
\* quantities are never negative.
TypeOK ==
  /\ onHand \in [Products -> Nat]
  /\ status \in Statuses \cup {None}
  /\ item \in Items
  /\ adjusted \in [Calls -> [Products -> Int]]
  /\ alone \in BOOLEAN
  /\ pc \in [Calls -> {"idle", "create", "record", "adjust", "cancel", "closed", "done"}]
  /\ local \in [Calls -> Locals]

\* A close that answers success has posted the whole variance of every product
\* that it read, whatever ran beside it (closeCycleCount's loop and its errors).
SuccessMeansAdjusted ==
  \A c \in Calls : pc[c] = "closed" =>
    \A p \in Products : adjusted[c][p] = Variance(local[c].item[p])

\* A closed count has every product counted, even when captures and cancels
\* overlap the close.  This is what closeCycleCount tests and its refusal says
\* ("Faltan ... producto(s) por contar antes de cerrar"); the comment above the
\* method, that products without a capture count as having no variance, says
\* otherwise and is not what the code does.
ClosedIsCounted ==
  status = "CLOSED" => \A p \in Products : item[p].counted # None

\* When requests did not overlap, nothing else moved stock and no process died,
\* closing a count leaves on hand exactly what was counted (closeCycleCount).
ClosedStockIsCounted ==
  alone /\ status = "CLOSED" => \A p \in Products : onHand[p] = item[p].counted

=============================================================================
