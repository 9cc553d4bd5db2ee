-------------------------- MODULE CycleCountProofs --------------------------
(***************************************************************************)
(* Invariants of CycleCount, proved for any number of calls and products.  *)
(***************************************************************************)
EXTENDS CycleCount, FiniteSetTheorems, TLAPS

\* What the statements of a call rely on: a count exists once a call has read
\* it, and it is fully counted once a close has passed its test.
CountInv ==
  /\ \A c \in Calls : pc[c] \in {"record", "adjust", "cancel", "closed"} => status # None
  /\ \A c \in Calls : pc[c] \in {"adjust", "closed"} => AllCounted(item)
  /\ status = "CLOSED" => AllCounted(item)

\* What a close has posted: nothing before it begins, and then the variance of
\* every product that is not left to do.
PostedInv ==
  /\ \A c \in Calls : pc[c] = "idle" => \A p \in Products : adjusted[c][p] = 0
  /\ \A c \in Calls : pc[c] = "adjust" => \A p \in Products \ local[c].todo :
       adjusted[c][p] = Variance(local[c].item[p])
  /\ SuccessMeansAdjusted

-----------------------------------------------------------------------------
\* The variance of an item is an integer.
LEMMA VarianceInt ==
  ASSUME NEW i \in Item
  PROVE  Variance(i) \in Int
<1>1. /\ i.expected \in Nat
      /\ i.counted = None \/ i.counted \in Nat
  BY ConstantsAssumption DEF Item
<1> QED  BY <1>1 DEF Variance

\* The initial state.
LEMMA InitInv == Init => TypeOK /\ CountInv /\ PostedInv
<1> SUFFICES ASSUME Init
             PROVE  TypeOK /\ CountInv /\ PostedInv
  OBVIOUS
<1>1. NoItems \in Items
  BY DEF NoItems, Items, Item
<1>2. NoLocal \in Locals
  BY <1>1 DEF NoLocal, Locals
<1>3. TypeOK
  BY <1>1, <1>2, ConstantsAssumption DEF Init, TypeOK
<1>4. CountInv
  BY ConstantsAssumption DEF Init, CountInv, Statuses
<1>5. PostedInv
  BY DEF Init, PostedInv, SuccessMeansAdjusted
<1> QED  BY <1>3, <1>4, <1>5

\* A handler's statement keeps the types.
LEMMA TypeStep ==
  ASSUME TypeOK, [Next]_vars
  PROVE  TypeOK'
<1>1. ASSUME NEW c \in Calls, ReadLevels(c), alone' \in BOOLEAN
      PROVE  TypeOK'
  <2>1. [local[c] EXCEPT !.levels = onHand] \in Locals
    BY DEF TypeOK, Locals
  <2> QED  BY <1>1, <2>1 DEF ReadLevels, Starts, tables, Goto, TypeOK
<1>2. ASSUME NEW c \in Calls, CreateCount(c), alone' \in BOOLEAN
      PROVE  TypeOK'
  <2>1. [p \in Products |-> [expected |-> local[c].levels[p], counted |-> None]] \in Items
    BY DEF TypeOK, Locals, Items, Item
  <2>2. item' \in Items /\ status' \in Statuses \cup {None}
    BY <1>2, <2>1 DEF CreateCount, TypeOK, Statuses
  <2> QED  BY <1>2, <2>2 DEF CreateCount, Goto, TypeOK
<1>3. ASSUME NEW c \in Calls, ReadForRecord(c), alone' \in BOOLEAN
      PROVE  TypeOK'
  <2>1. ASSUME NEW input \in [Products -> Counted \cup {None}]
        PROVE  [local[c] EXCEPT !.status = status, !.input = input] \in Locals
    BY DEF TypeOK, Locals
  <2>2. local' \in [Calls -> Locals]
    BY <1>3, <2>1 DEF ReadForRecord, TypeOK
  <2> QED  BY <1>3, <2>2 DEF ReadForRecord, Starts, tables, Goto, TypeOK
<1>4. ASSUME NEW c \in Calls, WriteRecord(c), alone' \in BOOLEAN
      PROVE  TypeOK'
  <2>1. ASSUME NEW p \in Products
        PROVE  Captured(item[p], local[c].input[p]) \in Item
    <3>1. item[p] \in Item /\ local[c].input[p] \in Counted \cup {None}
      BY DEF TypeOK, Items, Locals
    <3> QED  BY <3>1 DEF Captured, Item
  <2>2. item' \in Items /\ status' \in Statuses \cup {None}
    BY <1>4, <2>1 DEF WriteRecord, TypeOK, Items, Statuses
  <2> QED  BY <1>4, <2>2 DEF WriteRecord, Goto, TypeOK
<1>5. ASSUME NEW c \in Calls, ReadForClose(c), alone' \in BOOLEAN
      PROVE  TypeOK'
  <2>1. [local[c] EXCEPT !.item = item,
                         !.todo = {p \in Products : Variance(item[p]) # 0}] \in Locals
    BY DEF TypeOK, Locals
  <2>2. local' \in [Calls -> Locals]
    BY <1>5, <2>1 DEF ReadForClose, TypeOK
  <2> QED  BY <1>5, <2>2 DEF ReadForClose, Starts, tables, Goto, TypeOK
<1>6. ASSUME NEW c \in Calls, AdjustItem(c), alone' \in BOOLEAN
      PROVE  TypeOK'
  <2>1. PICK p \in local[c].todo :
          LET v == Adjustment(local[c].item[p])
          IN  IF ~Covers(p, v)
                THEN FailClose(c, p)
                ELSE /\ onHand' = [onHand EXCEPT ![p] = @ + v]
                     /\ adjusted' = [adjusted EXCEPT ![c][p] = v]
                     /\ local' = [local EXCEPT ![c].todo = @ \ {p}]
                     /\ UNCHANGED <<status, item, pc>>
    BY <1>6 DEF AdjustItem
  <2> DEFINE v == Variance(local[c].item[p])
  <2>2. p \in Products /\ local[c].item[p] \in Item /\ onHand[p] \in Nat
    BY DEF TypeOK, Locals, Items
  <2>3. v \in Int
    BY <2>2, VarianceInt
  <2>4. CASE FailClose(c, p)
    BY <1>6, <2>4 DEF FailClose, tables, Goto, TypeOK
  <2>5. CASE ~FailClose(c, p)
    <3>1. /\ onHand[p] + v >= 0
          /\ onHand' = [onHand EXCEPT ![p] = @ + v]
          /\ adjusted' = [adjusted EXCEPT ![c][p] = v]
          /\ local' = [local EXCEPT ![c].todo = @ \ {p}]
          /\ UNCHANGED <<status, item, pc>>
      BY <2>1, <2>5 DEF Covers, Adjustment
    <3>2. onHand' \in [Products -> Nat]
      BY <2>2, <2>3, <3>1 DEF TypeOK
    <3>3. adjusted' \in [Calls -> [Products -> Int]]
      BY <2>2, <2>3, <3>1 DEF TypeOK
    <3>4. [local[c] EXCEPT !.todo = @ \ {p}] \in Locals
      BY DEF TypeOK, Locals
    <3>5. local' \in [Calls -> Locals]
      BY <3>1, <3>4 DEF TypeOK
    <3> QED  BY <1>6, <3>1, <3>2, <3>3, <3>5 DEF TypeOK
  <2> QED  BY <2>4, <2>5
<1>7. ASSUME NEW c \in Calls, alone' \in BOOLEAN,
             FinishClose(c) \/ ReadForCancel(c) \/ WriteCancel(c)
      PROVE  TypeOK'
  BY <1>7 DEF FinishClose, ReadForCancel, WriteCancel, Starts, tables, Goto, TypeOK, Statuses
<1>8. ASSUME NEW c \in Calls, Die(c)
      PROVE  TypeOK'
  BY <1>8 DEF Die, tables, Goto, TypeOK
<1>9. ASSUME OtherMovement
      PROVE  TypeOK'
  <2>1. PICK p \in Products, q \in Moves :
          /\ onHand[p] + q \in 0 .. MaxOnHand
          /\ onHand' = [onHand EXCEPT ![p] = @ + q]
    BY <1>9 DEF OtherMovement
  <2>2. onHand' \in [Products -> Nat]
    BY <2>1, ConstantsAssumption DEF TypeOK
  <2> QED  BY <1>9, <2>2 DEF OtherMovement, TypeOK
<1>10. ASSUME UNCHANGED vars
       PROVE  TypeOK'
  BY <1>10 DEF vars, TypeOK
<1>11. ASSUME NEW c \in Calls, Handler(c), alone' = (alone /\ Cardinality(Running') <= 1)
       PROVE  alone' \in BOOLEAN
  BY <1>11
<1> QED  BY <1>1, <1>2, <1>3, <1>4, <1>5, <1>6, <1>7, <1>8, <1>9, <1>10, <1>11
         DEF Next, Handler, Quiescent

\* The tables and the calls' locals keep their types, for any number of calls
\* and of products: no adjustment of a close takes the stock below zero.
THEOREM TypeCorrect == Spec => []TypeOK
<1>1. Init => TypeOK
  BY InitInv
<1> QED  BY <1>1, TypeStep, PTL DEF Spec

-----------------------------------------------------------------------------
\* A product that has been counted stays counted.
LEMMA CountedKept ==
  ASSUME TypeOK, [Next]_vars, status # None, AllCounted(item)
  PROVE  AllCounted(item)'
<1>1. ASSUME NEW c \in Calls, WriteRecord(c)
      PROVE  AllCounted(item)'
  <2>1. ASSUME NEW p \in Products
        PROVE  item'[p].counted # None
    <3>1. item[p] \in Item /\ item[p].counted # None
      BY DEF TypeOK, Items, AllCounted
    <3>2. item'[p] = Captured(item[p], local[c].input[p])
      BY <1>1 DEF WriteRecord
    <3> QED  BY <3>1, <3>2 DEF Captured, Item
  <2> QED  BY <2>1 DEF AllCounted
<1>2. ASSUME NEW c \in Calls, Handler(c), ~WriteRecord(c)
      PROVE  UNCHANGED item
  BY <1>2 DEF Handler, ReadLevels, CreateCount, ReadForRecord, ReadForClose, AdjustItem,
              FailClose, FinishClose, ReadForCancel, WriteCancel, tables
<1> QED  BY <1>1, <1>2 DEF Next, Die, OtherMovement, Quiescent, vars, tables, AllCounted

\* A count that exists does not go away.
LEMMA CountStays ==
  ASSUME TypeOK, [Next]_vars, status # None
  PROVE  status' # None
<1>1. ASSUME NEW c \in Calls, Handler(c)
      PROVE  status' # None
  BY <1>1, ConstantsAssumption
     DEF Handler, ReadLevels, CreateCount, ReadForRecord, WriteRecord, ReadForClose,
         AdjustItem, FailClose, FinishClose, ReadForCancel, WriteCancel, tables, Statuses
<1> QED  BY <1>1 DEF Next, Die, OtherMovement, Quiescent, vars, tables

\* Every step keeps what the statements of the calls rely on.
LEMMA CountStep ==
  ASSUME TypeOK, CountInv, [Next]_vars
  PROVE  CountInv'
<1>1. ASSUME NEW c \in Calls, Handler(c)
      PROVE  CountInv'
  <2>1. \A d \in Calls \ {c} : pc'[d] = pc[d]
    BY <1>1 DEF Handler, ReadLevels, CreateCount, ReadForRecord, WriteRecord, ReadForClose,
                AdjustItem, FailClose, FinishClose, ReadForCancel, WriteCancel, Goto, TypeOK
  <2>2. pc'[c] \in {"record", "adjust", "cancel", "closed"} => status # None
    BY <1>1 DEF Handler, ReadLevels, CreateCount, ReadForRecord, WriteRecord, ReadForClose,
                AdjustItem, FailClose, FinishClose, ReadForCancel, WriteCancel, Goto, TypeOK,
                CountInv
  <2>3. pc'[c] \in {"adjust", "closed"} => AllCounted(item)
    BY <1>1 DEF Handler, ReadLevels, CreateCount, ReadForRecord, WriteRecord, ReadForClose,
                AdjustItem, FailClose, FinishClose, ReadForCancel, WriteCancel, Goto, TypeOK,
                CountInv
  <2>4. status' = "CLOSED" => status # None /\ AllCounted(item)
    BY <1>1, ConstantsAssumption
       DEF Handler, ReadLevels, CreateCount, ReadForRecord, WriteRecord, ReadForClose,
           AdjustItem, FailClose, FinishClose, ReadForCancel, WriteCancel, tables,
           CountInv, Statuses
  <2> QED  BY <2>1, <2>2, <2>3, <2>4, CountedKept, CountStays DEF CountInv
<1>2. ASSUME NEW c \in Calls, Die(c)
      PROVE  CountInv'
  BY <1>2 DEF Die, Goto, tables, TypeOK, CountInv
<1>3. ASSUME OtherMovement \/ UNCHANGED vars
      PROVE  CountInv'
  BY <1>3 DEF OtherMovement, vars, CountInv
<1> QED  BY <1>1, <1>2, <1>3 DEF Next, Quiescent

\* A closed count has every product counted, for any number of calls and
\* products and however captures, closes and cancels overlap (the refusal of
\* closeCycleCount, against the comment above it).
THEOREM ClosedFullyCounted == Spec => []ClosedIsCounted
<1>1. Init => TypeOK /\ CountInv
  BY InitInv
<1>2. TypeOK /\ CountInv /\ [Next]_vars => TypeOK' /\ CountInv'
  BY TypeStep, CountStep
<1>3. CountInv => ClosedIsCounted
  BY DEF CountInv, AllCounted, ClosedIsCounted
<1> QED  BY <1>1, <1>2, <1>3, PTL DEF Spec

-----------------------------------------------------------------------------
\* A step that posts nothing and keeps what every close works on.
LEMMA PostedKept ==
  ASSUME PostedInv, UNCHANGED adjusted,
         \A c \in Calls : /\ pc'[c] = "idle" => pc[c] = "idle"
                          /\ pc'[c] \in {"adjust", "closed"} =>
                               pc'[c] = pc[c] /\ local'[c] = local[c]
  PROVE  PostedInv'
  BY DEF PostedInv, SuccessMeansAdjusted

\* A close begins with the products that have no variance done.
LEMMA PostedAtStart ==
  ASSUME TypeOK, PostedInv, NEW c \in Calls, ReadForClose(c)
  PROVE  PostedInv'
<1> DEFINE todo == {p \in Products : Variance(item[p]) # 0}
<1>1. /\ pc[c] = "idle"
      /\ UNCHANGED adjusted
      /\ \A d \in Calls \ {c} : pc'[d] = pc[d] /\ local'[d] = local[d]
      /\ pc'[c] \in {"adjust", "done"}
  BY DEF ReadForClose, Starts, Goto, tables, TypeOK
<1>2. CASE pc'[c] = "done"
  BY <1>1, <1>2, PostedKept
<1>3. CASE pc'[c] = "adjust"
  <2>1. local'[c] = [local[c] EXCEPT !.item = item, !.todo = todo]
    BY <1>3 DEF ReadForClose, Goto, TypeOK
  <2>2. local'[c].item = item /\ local'[c].todo = todo
    BY <2>1 DEF TypeOK, Locals
  <2>3. \A p \in Products \ local'[c].todo : adjusted[c][p] = Variance(local'[c].item[p])
    BY <1>1, <2>2 DEF PostedInv
  <2> QED  BY <1>1, <1>3, <2>3 DEF PostedInv, SuccessMeansAdjusted
<1> QED  BY <1>1, <1>2, <1>3

\* One adjustment posts the whole variance of one product, or the close fails.
LEMMA PostedByAdjust ==
  ASSUME TypeOK, PostedInv, NEW c \in Calls, AdjustItem(c)
  PROVE  PostedInv'
<1>1. pc[c] = "adjust"
  BY DEF AdjustItem
<1>2. PICK p \in local[c].todo :
        \/ FailClose(c, p)
        \/ /\ adjusted' = [adjusted EXCEPT ![c][p] = Variance(local[c].item[p])]
           /\ local' = [local EXCEPT ![c].todo = @ \ {p}]
           /\ UNCHANGED pc
  BY DEF AdjustItem, Adjustment
<1>3. CASE FailClose(c, p)
  BY <1>3, PostedKept DEF FailClose, Goto, tables, TypeOK
<1>4. CASE ~FailClose(c, p)
  <2>1. /\ adjusted' = [adjusted EXCEPT ![c][p] = Variance(local[c].item[p])]
        /\ local' = [local EXCEPT ![c].todo = @ \ {p}]
        /\ UNCHANGED pc
    BY <1>2, <1>4
  <2>2. /\ local'[c].item = local[c].item
        /\ local'[c].todo = local[c].todo \ {p}
        /\ p \in Products
    BY <2>1 DEF TypeOK, Locals
  <2>3. \A q \in Products :
          adjusted'[c][q] = IF q = p THEN Variance(local[c].item[p]) ELSE adjusted[c][q]
    BY <2>1, <2>2 DEF TypeOK
  <2>4. \A d \in Calls \ {c} : adjusted'[d] = adjusted[d] /\ local'[d] = local[d]
    BY <2>1 DEF TypeOK
  <2>5. \A q \in Products \ local'[c].todo : adjusted'[c][q] = Variance(local'[c].item[q])
    BY <1>1, <2>2, <2>3 DEF PostedInv
  <2> QED  BY <1>1, <2>1, <2>4, <2>5 DEF PostedInv, SuccessMeansAdjusted
<1> QED  BY <1>3, <1>4

\* A close ends when nothing is left to do.
LEMMA PostedAtEnd ==
  ASSUME TypeOK, PostedInv, NEW c \in Calls, FinishClose(c)
  PROVE  PostedInv'
<1>1. /\ UNCHANGED <<adjusted, local>>
      /\ \A d \in Calls \ {c} : pc'[d] = pc[d]
      /\ pc'[c] = "closed"
  BY DEF FinishClose, Goto, TypeOK
<1>2. \A p \in Products : adjusted[c][p] = Variance(local[c].item[p])
  BY DEF FinishClose, PostedInv
<1> QED  BY <1>1, <1>2 DEF PostedInv, SuccessMeansAdjusted

\* Every step keeps what closes have posted.
LEMMA PostedStep ==
  ASSUME TypeOK, PostedInv, [Next]_vars
  PROVE  PostedInv'
<1>1. ASSUME NEW c \in Calls,
             \/ ReadLevels(c) \/ CreateCount(c) \/ ReadForRecord(c) \/ WriteRecord(c)
             \/ ReadForCancel(c) \/ WriteCancel(c)
      PROVE  PostedInv'
  <2>1. /\ UNCHANGED adjusted
        /\ \A d \in Calls \ {c} : pc'[d] = pc[d] /\ local'[d] = local[d]
        /\ pc'[c] \notin {"idle", "adjust", "closed"}
    BY <1>1 DEF ReadLevels, CreateCount, ReadForRecord, WriteRecord, ReadForCancel,
                WriteCancel, Goto, tables, TypeOK
  <2> QED  BY <2>1, PostedKept
<1>2. ASSUME NEW c \in Calls, Die(c)
      PROVE  PostedInv'
  BY <1>2, PostedKept DEF Die, Goto, tables, TypeOK
<1>3. ASSUME OtherMovement \/ UNCHANGED vars
      PROVE  PostedInv'
  BY <1>3, PostedKept DEF OtherMovement, vars
<1> QED  BY <1>1, <1>2, <1>3, PostedAtStart, PostedByAdjust, PostedAtEnd
         DEF Next, Handler, Quiescent

\* A close that answers success has posted the whole variance of every product
\* it read, for any number of calls and products.
THEOREM SuccessPostsAll == Spec => []SuccessMeansAdjusted
<1>1. Init => TypeOK /\ PostedInv
  BY InitInv
<1>2. TypeOK /\ PostedInv /\ [Next]_vars => TypeOK' /\ PostedInv'
  BY TypeStep, PostedStep
<1>3. PostedInv => SuccessMeansAdjusted
  BY DEF PostedInv
<1> QED  BY <1>1, <1>2, <1>3, PTL DEF Spec

-----------------------------------------------------------------------------
(* A count that nothing disturbs.                                          *)

\* Where no two requests ran at once, nothing else moved stock and no process
\* died, what a call has read is still so, and the stock is what the count
\* expects until a close posts the variances one by one.
StockInv ==
  /\ \A c, d \in Running : c = d
  /\ \A c \in Calls :
       /\ pc[c] = "create" => status = None /\ local[c].levels = onHand
       /\ pc[c] = "record" => ~Ended(status)
       /\ pc[c] = "cancel" => status # "CLOSED"
       /\ pc[c] = "adjust" =>
            /\ ~Ended(status)
            /\ local[c].item = item
            /\ \A p \in Products :
                 onHand[p] = IF p \in local[c].todo THEN item[p].expected ELSE item[p].counted
  /\ status \notin {None, "CLOSED"} /\ (\A c \in Calls : pc[c] # "adjust") =>
       \A p \in Products : onHand[p] = item[p].expected
  /\ status = "CLOSED" => \A p \in Products : onHand[p] = item[p].counted

\* Which call runs changes by the call that takes the step.
LEMMA RunningStep ==
  ASSUME TypeOK, NEW c \in Calls, Handler(c) \/ Die(c)
  PROVE  /\ \A d \in Calls \ {c} : pc'[d] = pc[d] /\ local'[d] = local[d]
         /\ Running' \in SUBSET (Running \cup {c})
<1>1. \A d \in Calls \ {c} : pc'[d] = pc[d] /\ local'[d] = local[d]
  BY DEF Handler, ReadLevels, CreateCount, ReadForRecord, WriteRecord, ReadForClose,
         AdjustItem, FailClose, FinishClose, ReadForCancel, WriteCancel, Die, tables, Goto, TypeOK
<1> QED  BY <1>1 DEF Running

\* Requests begin one by one, so that finitely many run.
LEMMA RunningFinite ==
  ASSUME TypeOK, IsFiniteSet(Running), [Next]_vars
  PROVE  IsFiniteSet(Running')
<1>1. ASSUME NEW c \in Calls, Handler(c) \/ Die(c)
      PROVE  IsFiniteSet(Running')
  <2>1. IsFiniteSet(Running \cup {c})
    BY FS_AddElement
  <2> QED  BY <1>1, <2>1, RunningStep, FS_Subset
<1>2. ASSUME OtherMovement \/ UNCHANGED vars
      PROVE  Running' = Running
  BY <1>2 DEF OtherMovement, vars, Running
<1> QED  BY <1>1, <1>2 DEF Next, Quiescent

\* At most one of them does where their number says so.
LEMMA OneRuns ==
  ASSUME NEW S, IsFiniteSet(S), Cardinality(S) <= 1
  PROVE  \A c, d \in S : c = d
<1>1. Cardinality(S) \in Nat
  BY FS_CardinalityType
<1>2. Cardinality(S) = 0 \/ Cardinality(S) = 1
  BY <1>1
<1>3. CASE Cardinality(S) = 0
  BY <1>3, FS_EmptySet
<1>4. CASE Cardinality(S) = 1
  BY <1>4, FS_Singleton
<1> QED  BY <1>2, <1>3, <1>4

\* A statement of the only call that runs keeps the stock explained.
LEMMA StockByHandler ==
  ASSUME TypeOK, CountInv, StockInv, NEW c \in Calls, Handler(c),
         \A d, e \in Running' : d = e
  PROVE  StockInv'
<1>1. \A d \in Calls \ {c} : pc'[d] = pc[d] /\ local'[d] = local[d]
  BY RunningStep
<1>2. CASE pc'[c] = "done" /\ UNCHANGED tables
  <2>1. pc[c] # "adjust"
    \* A close that nothing disturbs does not fail: the stock covers it.
    <3>1. SUFFICES ASSUME pc[c] = "adjust" PROVE FALSE
      OBVIOUS
    <3>2. PICK p \in local[c].todo : ~Covers(p, Adjustment(local[c].item[p]))
      BY <1>2, <3>1 DEF Handler, ReadLevels, CreateCount, ReadForRecord, WriteRecord, Starts,
         ReadForClose, AdjustItem, FinishClose, ReadForCancel, WriteCancel, Goto, TypeOK
    <3>3. p \in Products /\ onHand[p] = item[p].expected /\ local[c].item = item
      BY <3>1, <3>2 DEF StockInv, TypeOK, Locals
    <3>4. item[p] \in Item /\ item[p].counted # None
      BY <3>1, <3>3 DEF TypeOK, Items, CountInv, AllCounted
    <3>5. item[p].counted \in Nat /\ item[p].expected \in Nat
      BY <3>4, ConstantsAssumption DEF Item
    <3> QED  BY <3>2, <3>3, <3>4, <3>5 DEF Covers, Adjustment, Variance
  <2> QED  BY <1>1, <1>2, <2>1 DEF StockInv, tables
<1>3. CASE ~(pc'[c] = "done" /\ UNCHANGED tables)
  <2>0. \A d \in Calls \ {c} : pc[d] \in {"idle", "done", "closed"}
    <3>1. SUFFICES ASSUME NEW d \in Calls \ {c}, d \in Running PROVE FALSE
      BY DEF Running
    <3>2. d \in Running' /\ c \notin Running /\ c \notin Running'
      BY <1>1, <3>1 DEF Running, StockInv
    <3> QED
      BY <1>3, <3>2 DEF Running, Handler, ReadLevels, CreateCount, ReadForRecord, WriteRecord,
         Starts, ReadForClose, AdjustItem, FinishClose, ReadForCancel, WriteCancel, Goto, TypeOK,
         tables
  <2>1. CASE ReadLevels(c)
    <3>1. local'[c].levels = onHand
      BY <2>1 DEF ReadLevels, TypeOK, Locals
    <3> QED  BY <1>1, <2>0, <2>1, <3>1 DEF ReadLevels, Goto, tables, TypeOK, StockInv
  <2>2. CASE CreateCount(c)
    <3>1. /\ status = None /\ status' = "SCHEDULED" /\ UNCHANGED onHand
          /\ item' = [p \in Products |-> [expected |-> local[c].levels[p], counted |-> None]]
          /\ local[c].levels = onHand /\ pc'[c] = "done"
      BY <1>3, <2>2, ConstantsAssumption DEF CreateCount, StockInv, Goto, TypeOK, tables
    <3>2. \A p \in Products : onHand'[p] = item'[p].expected
      BY <3>1
    <3> QED  BY <1>1, <2>0, <3>1, <3>2 DEF StockInv
  <2>3. CASE ReadForRecord(c)
    <3>1. /\ pc'[c] = "record" /\ ~Ended(status) /\ UNCHANGED tables /\ pc[c] = "idle"
      BY <1>3, <2>3 DEF ReadForRecord, Starts, Goto, TypeOK
    <3> QED  BY <1>1, <2>0, <3>1 DEF StockInv, tables, Ended
  <2>4. CASE WriteRecord(c)
    <3>1. /\ pc[c] = "record" /\ pc'[c] = "done" /\ UNCHANGED <<onHand, local>>
          /\ status # None /\ ~Ended(status)
          /\ ~Ended(status') /\ status' # None
      BY <2>4, ConstantsAssumption DEF WriteRecord, CountInv, StockInv, Ended, Goto, TypeOK, Statuses
    <3>2. \A p \in Products : item'[p].expected = item[p].expected
      <4>1. SUFFICES ASSUME NEW p \in Products
                     PROVE  item'[p].expected = item[p].expected
        OBVIOUS
      <4>2. item'[p] = Captured(item[p], local[c].input[p]) /\ item[p] \in Item
        BY <2>4 DEF WriteRecord, TypeOK, Items
      <4> QED  BY <4>2 DEF Captured, Item
    <3> QED  BY <1>1, <2>0, <3>1, <3>2 DEF StockInv, Ended
  <2>5. CASE ReadForClose(c)
    <3>1. /\ pc[c] = "idle" /\ pc'[c] = "adjust" /\ UNCHANGED tables
          /\ ~Ended(status) /\ status # None /\ AllCounted(item)
          /\ local'[c] = [local[c] EXCEPT !.item = item,
                                          !.todo = {p \in Products : Variance(item[p]) # 0}]
      BY <1>3, <2>5 DEF ReadForClose, Starts, Goto, TypeOK
    <3>2. /\ local'[c].item = item
          /\ local'[c].todo = {p \in Products : Variance(item[p]) # 0}
      BY <3>1 DEF TypeOK, Locals
    <3>3. ASSUME NEW p \in Products
          PROVE  onHand[p] = IF Variance(item[p]) # 0 THEN item[p].expected ELSE item[p].counted
      <4>1. item[p] \in Item /\ item[p].counted # None /\ onHand[p] = item[p].expected
        BY <2>0, <3>1 DEF StockInv, Ended, AllCounted, TypeOK, Items
      <4>2. item[p].counted \in Nat /\ item[p].expected \in Nat
        BY <4>1, ConstantsAssumption DEF Item
      <4> QED  BY <4>1, <4>2 DEF Variance
    <3> QED  BY <1>1, <2>0, <3>1, <3>2, <3>3 DEF StockInv, tables, Ended
  <2>6. CASE AdjustItem(c)
    <3>1. PICK p \in local[c].todo :
            /\ onHand' = [onHand EXCEPT ![p] = @ + Variance(local[c].item[p])]
            /\ local' = [local EXCEPT ![c].todo = @ \ {p}]
            /\ UNCHANGED <<status, item, pc>>
      BY <1>3, <2>6 DEF AdjustItem, FailClose, Adjustment, Goto, TypeOK
    <3>2. /\ p \in Products /\ pc[c] = "adjust" /\ ~Ended(status)
          /\ local[c].item = item /\ AllCounted(item) /\ status # None
          /\ \A q \in Products :
               onHand[q] = IF q \in local[c].todo THEN item[q].expected ELSE item[q].counted
      BY <2>6, <3>1 DEF AdjustItem, StockInv, CountInv, TypeOK, Locals
    <3>3. local'[c].item = item /\ local'[c].todo = local[c].todo \ {p}
      BY <3>1, <3>2 DEF TypeOK, Locals
    <3>4. item[p].expected + Variance(item[p]) = item[p].counted
      <4>1. item[p] \in Item /\ item[p].counted # None
        BY <3>2 DEF AllCounted, TypeOK, Items
      <4>2. item[p].counted \in Nat /\ item[p].expected \in Nat
        BY <4>1, ConstantsAssumption DEF Item
      <4> QED  BY <4>1, <4>2 DEF Variance
    <3>5. \A q \in Products : onHand'[q] =
            IF q \in local[c].todo \ {p} THEN item[q].expected ELSE item[q].counted
      BY <3>1, <3>2, <3>4 DEF TypeOK
    <3> QED  BY <1>1, <2>0, <3>1, <3>2, <3>3, <3>5 DEF StockInv, Ended
  <2>7. CASE FinishClose(c)
    <3>1. /\ pc[c] = "adjust" /\ pc'[c] = "closed" /\ local[c].todo = {}
          /\ status' = "CLOSED" /\ UNCHANGED <<onHand, item>>
      BY <2>7 DEF FinishClose, Goto, TypeOK
    <3>2. \A p \in Products : onHand[p] = item[p].counted
      BY <3>1 DEF StockInv
    <3> QED  BY <1>1, <2>0, <3>1, <3>2 DEF StockInv
  <2>8. CASE ReadForCancel(c)
    <3>1. pc'[c] = "cancel" /\ status # "CLOSED" /\ pc[c] = "idle" /\ UNCHANGED tables
      BY <1>3, <2>8 DEF ReadForCancel, Starts, Goto, TypeOK, tables
    <3> QED  BY <1>1, <2>0, <3>1 DEF StockInv, tables
  <2>9. CASE WriteCancel(c)
    <3>1. /\ pc[c] = "cancel" /\ pc'[c] = "done" /\ status' = "CANCELLED" /\ status # None
          /\ status # "CLOSED" /\ UNCHANGED <<onHand, item>>
      BY <2>9 DEF WriteCancel, CountInv, StockInv, Goto, TypeOK
    <3> QED  BY <1>1, <2>0, <3>1 DEF StockInv
  <2> QED  BY <2>1, <2>2, <2>3, <2>4, <2>5, <2>6, <2>7, <2>8, <2>9 DEF Handler
<1> QED  BY <1>2, <1>3

\* Every step keeps it: one that overlaps another ends the quiet.
LEMMA StockStep ==
  ASSUME TypeOK, CountInv, IsFiniteSet(Running), alone => StockInv, [Next]_vars, alone'
  PROVE  StockInv'
<1>1. ASSUME NEW c \in Calls, Handler(c), alone' = (alone /\ Cardinality(Running') <= 1)
      PROVE  StockInv'
  <2>1. \A d, e \in Running' : d = e
    BY <1>1, RunningFinite, OneRuns
  <2> QED  BY <1>1, <2>1, StockByHandler
<1>2. CASE UNCHANGED vars
  BY <1>2 DEF vars, StockInv, Running
<1> QED  BY <1>1, <1>2 DEF Next, Die, OtherMovement, Quiescent

\* Where nothing disturbs a count, closing it leaves on hand exactly what was
\* counted, for any number of products and of requests one after another.
THEOREM ClosedLeavesCounted == Spec => []ClosedStockIsCounted
<1> DEFINE Inv == TypeOK /\ CountInv /\ IsFiniteSet(Running) /\ (alone => StockInv)
<1>1. Init => Inv
  <2>1. Init => Running = {}
    BY DEF Init, Running
  <2>2. Init => StockInv
    BY <2>1, ConstantsAssumption DEF Init, StockInv, Statuses
  <2> QED  BY <2>1, <2>2, InitInv, FS_EmptySet
<1>2. Inv /\ [Next]_vars => Inv'
  BY TypeStep, CountStep, RunningFinite, StockStep
<1>3. Inv => ClosedStockIsCounted
  BY DEF StockInv, ClosedStockIsCounted
<1> QED  BY <1>1, <1>2, <1>3, PTL DEF Spec

=============================================================================
