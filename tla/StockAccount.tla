---------------------------- MODULE StockAccount ----------------------------
(***************************************************************************)
(* What the stock ledger promises to the rest of the system: every stock   *)
(* movement, every reservation and every release is one indivisible change *)
(* of the stock, or no change at all.  A movement takes its quantity out   *)
(* of one row that has it and puts it into one row, or a new one; holding  *)
(* stock needs it to be available; freeing it happens once.                *)
(*                                                                         *)
(* WarehouseService implements this with transactions of several           *)
(* statements at READ COMMITTED (module StockLedger).                      *)
(***************************************************************************)
EXTENDS Integers

CONSTANTS Calls, Warehouses, Quantities, None

VARIABLES
  level,   \* the stock: [warehouse, quantity, reservedQty] by row id
  moved,   \* what each committed movement moved: [from, to, quantity]
  held     \* the reservations: [warehouse, quantity, status]

vars == <<level, moved, held>>

RowIds == Warehouses \cup Calls

RowsIn(s, w) == {r \in RowIds : s[r] # None /\ s[r].warehouse = w}

Changed(s, r, q) == [x \in RowIds |->
  IF x = r THEN [s[x] EXCEPT !.quantity = @ + q] ELSE s[x]]

\* The stocks that result from taking q out of, or putting it into, a row of w.
TakenFrom(s, w, q) ==
  IF w = None THEN {s}
  ELSE {Changed(s, r, -q) :
          r \in {r \in RowsIn(s, w) : s[r].quantity >= q}}

PutInto(s, m, w, q) ==
  IF w = None THEN {s}
  ELSE {Changed(s, r, q) : r \in RowsIn(s, w)}
       \cup (IF s[m] = None
              THEN {[s EXCEPT ![m] = [warehouse |-> w, quantity |-> q,
                                      reservedQty |-> 0]]}
              ELSE {})

Init == /\ \A r \in RowIds : level[r] # None =>
             level[r].reservedQty \in 0 .. level[r].quantity
        /\ moved = [m \in Calls |-> None]
        /\ held = [k \in Calls |-> None]

Move(m) ==
  /\ moved[m] = None
  /\ \E from, to \in Warehouses \cup {None}, q \in Quantities :
       /\ moved' = [moved EXCEPT ![m] = [from |-> from, to |-> to, quantity |-> q]]
       /\ \E mid \in TakenFrom(level, from, q) : level' \in PutInto(mid, m, to, q)
  /\ UNCHANGED held

Hold(k) ==
  /\ held[k] = None
  /\ \E w \in Warehouses, q \in Quantities :
       /\ held' = [held EXCEPT ![k] =
                     [warehouse |-> w, quantity |-> q, status |-> "ACTIVE"]]
       /\ \E r \in RowsIn(level, w) :
            /\ level[r].quantity - level[r].reservedQty >= q
            /\ level' = [level EXCEPT ![r].reservedQty = @ + q]
  /\ UNCHANGED moved

\* The stock comes back to a row of the warehouse, never below nothing reserved.
Free(k) ==
  /\ held[k] # None
  /\ held[k].status = "ACTIVE"
  /\ held' = [held EXCEPT ![k].status = "RELEASED"]
  /\ \E r \in RowsIn(level, held[k].warehouse) :
       level' = [level EXCEPT ![r].reservedQty =
                   IF @ >= held[k].quantity THEN @ - held[k].quantity ELSE 0]
  /\ UNCHANGED moved

Next == \E c \in Calls : Move(c) \/ Hold(c) \/ Free(c)

Spec == Init /\ [][Next]_vars

=============================================================================
