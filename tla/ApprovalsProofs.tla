--------------------------- MODULE ApprovalsProofs ---------------------------
(***************************************************************************)
(* Invariants of Approvals, proved for any number of calls and of steps.   *)
(***************************************************************************)
EXTENDS Approvals, TLAPS

\* What a call has read when control is at the statements that use it.
LocalsReady(c) ==
  /\ pc[c] \in {"decide", "advance", "reject", "complete"} =>
       /\ local[c].row \in Rows
       /\ local[c].instance = approval[local[c].row].instance
       /\ local[c].decision \in {"APPROVED", "REJECTED"}
  /\ pc[c] = "advance" => approval[local[c].row].step < LastStep
  /\ pc[c] \in {"chain", "publishComplete"} =>
       /\ local[c].instance \in Calls
       /\ instance[local[c].instance] # None

TypeInv == TypeOK /\ \A c \in Calls : LocalsReady(c)

\* Rows keep their instance and their step, and instances stay.
TablesKept ==
  /\ Rows \subseteq Rows'
  /\ \A r \in Rows : /\ approval'[r].instance = approval[r].instance
                     /\ approval'[r].step = approval[r].step
  /\ \A i \in Calls : instance[i] # None => instance'[i] # None

Harmless == {"idle", "find", "create", "publishRejected", "readOpen", "confirm", "done"}

-----------------------------------------------------------------------------
\* Appending a row keeps the rows before it.
LEMMA AppendedRow ==
  ASSUME NEW s \in Seq(Approval), NEW e \in Approval
  PROVE  /\ Append(s, e) \in Seq(Approval)
         /\ Len(Append(s, e)) = Len(s) + 1
         /\ \A r \in 1 .. Len(s) : Append(s, e)[r] = s[r]
         /\ Append(s, e)[Len(s) + 1] = e
  OBVIOUS

\* A row of the table is a record of its type.
LEMMA RowType ==
  ASSUME TypeOK, NEW r \in Rows
  PROVE  /\ approval[r] \in Approval
         /\ approval[r].instance \in Calls
         /\ approval[r].step \in Steps
         /\ instance[approval[r].instance] # None
<1>1. approval \in Seq(Approval)
  BY DEF TypeOK
<1>2. approval[r] \in Approval
  BY <1>1 DEF Rows
<1> QED  BY <1>2 DEF TypeOK, Approval

\* What a call has read stays true when the tables keep what they hold and the
\* call does not move, or moves to a statement that uses none of it.
LEMMA ReadyKept ==
  ASSUME TypeOK, TablesKept, NEW c \in Calls, LocalsReady(c),
         local'[c] = local[c], pc'[c] = pc[c] \/ pc'[c] \in Harmless
  PROVE  LocalsReady(c)'
<1>1. CASE pc'[c] \in Harmless
  BY <1>1 DEF LocalsReady, Harmless
<1>2. CASE pc'[c] = pc[c]
  BY <1>2 DEF LocalsReady, TablesKept
<1> QED  BY <1>1, <1>2

\* A step of one call that keeps the tables keeps what the others have read.
LEMMA OthersKept ==
  ASSUME TypeInv, TablesKept, NEW c \in Calls, LocalsReady(c)',
         \A d \in Calls \ {c} : pc'[d] = pc[d] /\ local'[d] = local[d]
  PROVE  \A d \in Calls : LocalsReady(d)'
<1> SUFFICES ASSUME NEW d \in Calls, d # c
             PROVE  LocalsReady(d)'
  OBVIOUS
<1> QED  BY ReadyKept DEF TypeInv

\* A step that writes no table keeps the tables.
LEMMA NothingWritten ==
  ASSUME UNCHANGED workflow
  PROVE  TablesKept
  BY DEF workflow, TablesKept, Rows

\* A new row of an instance that exists keeps the tables and their types.
LEMMA RowInserted ==
  ASSUME TypeOK, NEW e \in Approval, approval' = Append(approval, e),
         instance' \in [Calls -> Instance \cup {None}],
         \A i \in Calls : instance[i] # None => instance'[i] # None,
         instance'[e.instance] # None
  PROVE  /\ approval' \in Seq(Approval)
         /\ \A r \in Rows' : instance'[approval'[r].instance] # None
         /\ Rows' = Rows \cup {Len(approval) + 1}
         /\ approval'[Len(approval) + 1] = e
         /\ \A r \in Rows : approval'[r] = approval[r]
         /\ TablesKept
<1>1. approval \in Seq(Approval) /\ Len(approval) \in Nat
  BY DEF TypeOK
<1>2. /\ approval' \in Seq(Approval)
      /\ Len(approval') = Len(approval) + 1
      /\ \A r \in Rows : approval'[r] = approval[r]
      /\ approval'[Len(approval) + 1] = e
  BY <1>1, AppendedRow DEF Rows
<1>3. Rows' = Rows \cup {Len(approval) + 1}
  BY <1>1, <1>2 DEF Rows
<1>4. \A r \in Rows : approval[r].instance \in Calls /\ instance[approval[r].instance] # None
  BY RowType
<1>5. \A r \in Rows' : instance'[approval'[r].instance] # None
  BY <1>2, <1>3, <1>4
<1> QED  BY <1>2, <1>3, <1>5 DEF TablesKept

\* The next statement of a call and what it works on, when only they change.
LEMMA CallMoves ==
  ASSUME TypeInv, NEW c \in Calls, NEW step, Goto(c, step),
         UNCHANGED <<workflow, order, listener, local>>, step \in Harmless
  PROVE  TypeInv'
<1>1. TypeOK'
  BY DEF TypeInv, TypeOK, Goto, Harmless, workflow, Rows
<1>2. LocalsReady(c)'
  BY DEF TypeInv, TypeOK, Goto, Harmless, LocalsReady
<1> QED  BY <1>1, <1>2, OthersKept, NothingWritten DEF TypeInv, TypeOK, Goto

-----------------------------------------------------------------------------
\* The tables start empty and no call has read anything.
LEMMA TypeInit == Init => TypeInv
<1> SUFFICES ASSUME Init
             PROVE  TypeInv
  OBVIOUS
<1>1. Rows = {}
  BY DEF Init, Rows
<1>2. approval = <<>> /\ <<>> \in Seq(Approval)
  BY DEF Init
<1>3. /\ instance \in [Calls -> Instance \cup {None}]
      /\ listener \in [Calls -> {"none", "approved", "rejected", "cancel"}]
      /\ local \in [Calls -> [instance : Calls \cup {None}, row : Nat,
                             decision : {"APPROVED", "REJECTED", None}]]
  BY DEF Init, NoLocal
<1>4. TypeOK
  BY <1>1, <1>2, <1>3 DEF Init, TypeOK
<1> QED  BY <1>4 DEF TypeInv, Init, LocalsReady

\* Inserting an instance with its first approval.
LEMMA CreateInstanceTyped ==
  ASSUME TypeInv, NEW c \in Calls, CreateInstance(c)
  PROVE  TypeInv'
<1> DEFINE row == [instance |-> c, step |-> FirstStep, status |-> "PENDING"]
           new == [currentStep |-> 1, isComplete |-> FALSE, isCancelled |-> FALSE]
<1>1. /\ new \in Instance
      /\ new # None
      /\ row \in Approval
  <2>1. 1 \in Steps
    BY ConstantsAssumption DEF Steps
  <2>2. new \in Instance
    BY <2>1 DEF Instance
  <2>3. None \notin Instance
    BY ConstantsAssumption DEF Instance
  <2> HIDE DEF new
  <2> QED  BY <2>1, <2>2, <2>3 DEF Approval, FirstStep
<1>2. /\ instance' = [instance EXCEPT ![c] = new]
      /\ instance \in [Calls -> Instance \cup {None}]
  BY DEF CreateInstance, TypeInv, TypeOK
<1>3. /\ instance' \in [Calls -> Instance \cup {None}]
      /\ \A i \in Calls : instance[i] # None => instance'[i] # None
      /\ instance'[c] # None
  BY <1>1, <1>2
<1>4. /\ approval' \in Seq(Approval)
      /\ \A r \in Rows' : instance'[approval'[r].instance] # None
      /\ TablesKept
  BY <1>1, <1>3, RowInserted DEF CreateInstance, TypeInv
<1>5. TypeOK'
  BY <1>3, <1>4 DEF CreateInstance, TypeInv, TypeOK, Goto
<1>6. LocalsReady(c)'
  BY <1>3 DEF CreateInstance, TypeInv, TypeOK, Goto, LocalsReady
<1> QED  BY <1>4, <1>5, <1>6, OthersKept DEF CreateInstance, TypeInv, TypeOK, Goto

\* Reading a pending approval, by a decider or by the chain.
LEMMA ReadTyped ==
  ASSUME TypeInv, NEW c \in Calls, NEW r \in Rows,
         NEW decision \in {"APPROVED", "REJECTED"},
         TakeUp(c, r, decision),
         Goto(c, "decide"), UNCHANGED <<workflow, order, listener>>
  PROVE  TypeInv'
<1>1. approval[r].instance \in Calls /\ r \in Nat
  BY RowType DEF TypeInv, Rows
<1> DEFINE l == [instance |-> approval[r].instance, row |-> r, decision |-> decision]
<1>2. TypeOK'
  <2>1. l \in [instance : Calls \cup {None}, row : Nat,
               decision : {"APPROVED", "REJECTED", None}]
    BY <1>1
  <2>2. local' = [local EXCEPT ![c] = l]
    BY DEF TakeUp
  <2> HIDE DEF l
  <2> QED  BY <2>1, <2>2 DEF TypeInv, TypeOK, Goto, workflow, Rows
<1>3. LocalsReady(c)'
  <2>1. local'[c] = l
    BY DEF TakeUp, TypeInv, TypeOK
  <2> QED  BY <2>1 DEF TakeUp, TypeInv, TypeOK, Goto, LocalsReady, workflow, Rows
<1> QED  BY <1>2, <1>3, OthersKept, NothingWritten DEF TakeUp, TypeInv, TypeOK, Goto

\* The chain reads some pending approval of its instance or ends.
LEMMA ReadPendingTyped ==
  ASSUME TypeInv, NEW c \in Calls, ReadPending(c)
  PROVE  TypeInv'
<1>1. CASE Goto(c, "done") /\ UNCHANGED local
  BY <1>1, CallMoves DEF ReadPending, Harmless
<1>2. CASE ~(Goto(c, "done") /\ UNCHANGED local)
  <2>1. PICK r \in Rows : TakeUp(c, r, "APPROVED") /\ Goto(c, "decide")
    BY <1>2 DEF ReadPending
  <2> QED  BY <2>1, ReadTyped DEF ReadPending
<1> QED  BY <1>1, <1>2

\* The UPDATE of a decision changes the status of one row.
LEMMA WriteDecisionTyped ==
  ASSUME TypeInv, NEW c \in Calls, WriteDecision(c)
  PROVE  /\ TypeInv'
         /\ TablesKept
         /\ Rows' = Rows
         /\ \A r \in Rows : /\ approval'[r].instance = approval[r].instance
                            /\ approval'[r].step = approval[r].step
<1> DEFINE r == local[c].row
<1>1. /\ r \in Rows
      /\ local[c].instance = approval[r].instance
      /\ local[c].decision \in {"APPROVED", "REJECTED"}
  BY DEF WriteDecision, TypeInv, LocalsReady
<1>2. /\ approval[r] \in Approval
      /\ approval[r].step \in Steps
      /\ local[c].instance \in Calls
      /\ instance[local[c].instance] # None
  BY <1>1, RowType DEF TypeInv
<1>3. /\ approval \in Seq(Approval)
      /\ approval' = [approval EXCEPT ![r].status = local[c].decision]
  BY DEF WriteDecision, TypeInv, TypeOK
<1>4. /\ approval' \in Seq(Approval)
      /\ Len(approval') = Len(approval)
  BY <1>1, <1>2, <1>3 DEF Rows, Approval
<1>5. \A q \in Rows : /\ approval'[q].instance = approval[q].instance
                       /\ approval'[q].step = approval[q].step
  BY <1>1, <1>2, <1>3, <1>4 DEF Rows, Approval
<1>6. Rows' = Rows
  BY <1>4 DEF Rows
<1>7. TablesKept
  BY <1>5, <1>6 DEF WriteDecision, TablesKept
<1>8. TypeOK'
  <2>1. granted' \in SUBSET (Calls \X Steps)
    BY <1>2 DEF WriteDecision, TypeInv, TypeOK
  <2>2. \A q \in Rows' : instance'[approval'[q].instance] # None
    BY <1>5, <1>6 DEF WriteDecision, TypeInv, TypeOK
  <2>3. AfterDecision(c, approval[r].step) \in {"reject", "advance", "complete"}
    BY DEF AfterDecision
  <2> QED  BY <1>4, <2>1, <2>2, <2>3 DEF WriteDecision, TypeInv, TypeOK, Goto
<1>9. LocalsReady(c)'
  <2>1. /\ pc'[c] = AfterDecision(c, approval[r].step)
        /\ local'[c] = local[c]
    BY DEF WriteDecision, TypeInv, TypeOK, Goto
  <2>2. pc'[c] = "advance" => approval[r].step < LastStep
    BY <2>1 DEF AfterDecision
  <2>3. pc'[c] \in {"reject", "advance", "complete"}
    BY <2>1 DEF AfterDecision
  <2> QED  BY <1>1, <1>5, <1>6, <2>1, <2>2, <2>3 DEF LocalsReady
<1>10. \A d \in Calls \ {c} : pc'[d] = pc[d] /\ local'[d] = local[d]
  BY DEF WriteDecision, TypeInv, TypeOK, Goto
<1> QED  BY <1>5, <1>6, <1>7, <1>8, <1>9, <1>10, OthersKept DEF TypeInv

\* Going on to the next step inserts its approval.
LEMMA AdvanceTyped ==
  ASSUME TypeInv, NEW c \in Calls, Advance(c)
  PROVE  /\ TypeInv'
         /\ Rows' = Rows \cup {Len(approval) + 1}
         /\ approval'[Len(approval) + 1] =
              [instance |-> local[c].instance, step |-> approval[local[c].row].step + 1,
               status |-> "PENDING"]
         /\ \A r \in Rows : approval'[r] = approval[r]
<1> DEFINE next == approval[local[c].row].step + 1
           i == local[c].instance
           e == [instance |-> i, step |-> next, status |-> "PENDING"]
<1>1. /\ local[c].row \in Rows
      /\ i = approval[local[c].row].instance
      /\ approval[local[c].row].step < LastStep
  BY DEF Advance, TypeInv, LocalsReady
<1>2. i \in Calls /\ instance[i] # None /\ next \in Steps
  BY <1>1, RowType, ConstantsAssumption DEF TypeInv, Steps
<1>3. e \in Approval
  BY <1>2 DEF Approval
<1>4. /\ instance' = [instance EXCEPT ![i].currentStep = next]
      /\ instance \in [Calls -> Instance \cup {None}]
      /\ instance[i] \in Instance
  BY <1>2 DEF Advance, TypeInv, TypeOK
<1>5. [instance[i] EXCEPT !.currentStep = next] \in Instance
  BY <1>2, <1>4 DEF Instance
<1>6. None \notin Instance
  BY ConstantsAssumption DEF Instance
<1>7. /\ instance' \in [Calls -> Instance \cup {None}]
      /\ \A j \in Calls : instance[j] # None => instance'[j] # None
      /\ instance'[i] # None
  BY <1>2, <1>4, <1>5, <1>6
<1>8. approval' = Append(approval, e)
  BY DEF Advance
<1>9. /\ approval' \in Seq(Approval)
      /\ \A r \in Rows' : instance'[approval'[r].instance] # None
      /\ Rows' = Rows \cup {Len(approval) + 1}
      /\ approval'[Len(approval) + 1] = e
      /\ \A r \in Rows : approval'[r] = approval[r]
      /\ TablesKept
  BY <1>3, <1>7, <1>8, RowInserted DEF TypeInv
<1>10. TypeOK'
  BY <1>7, <1>9 DEF Advance, TypeInv, TypeOK, Goto
<1>11. LocalsReady(c)'
  BY <1>2, <1>7 DEF Advance, TypeInv, TypeOK, Goto, LocalsReady
<1>12. \A d \in Calls \ {c} : pc'[d] = pc[d] /\ local'[d] = local[d]
  BY DEF Advance, TypeInv, TypeOK, Goto
<1> QED  BY <1>9, <1>10, <1>11, <1>12, OthersKept DEF TypeInv

\* An instance that ends, rejected or complete, stays an instance.
LEMMA InstanceEndedTyped ==
  ASSUME TypeInv, NEW c \in Calls, RejectInstance(c) \/ CompleteInstance(c)
  PROVE  TypeInv'
<1> DEFINE i == local[c].instance
<1>1. i \in Calls /\ instance[i] \in Instance
  <2>1. local[c].row \in Rows /\ i = approval[local[c].row].instance
    BY DEF RejectInstance, CompleteInstance, TypeInv, LocalsReady
  <2>2. i \in Calls /\ instance[i] # None
    BY <2>1, RowType DEF TypeInv
  <2> QED  BY <2>2 DEF TypeInv, TypeOK
<1>2. PICK new \in Instance : instance' = [instance EXCEPT ![i] = new]
  <2>1. /\ [instance[i] EXCEPT !.isComplete = TRUE] \in Instance
        /\ [instance[i] EXCEPT !.isComplete = TRUE, !.isCancelled = TRUE] \in Instance
    BY <1>1 DEF Instance
  <2>2. \/ instance' = [instance EXCEPT ![i] = [instance[i] EXCEPT !.isComplete = TRUE]]
        \/ instance' = [instance EXCEPT ![i] =
             [instance[i] EXCEPT !.isComplete = TRUE, !.isCancelled = TRUE]]
    BY DEF RejectInstance, CompleteInstance
  <2> QED  BY <2>1, <2>2
<1>3. None \notin Instance
  BY ConstantsAssumption DEF Instance
<1>4. /\ instance' \in [Calls -> Instance \cup {None}]
      /\ \A j \in Calls : instance[j] # None => instance'[j] # None
  BY <1>1, <1>2, <1>3 DEF TypeInv, TypeOK
<1>5. TablesKept
  BY <1>4 DEF RejectInstance, CompleteInstance, TablesKept, Rows
<1>6. TypeOK'
  <2>1. \A r \in Rows' : instance'[approval'[r].instance] # None
    BY <1>4, RowType DEF RejectInstance, CompleteInstance, TypeInv, Rows
  <2> QED  BY <1>4, <2>1 DEF RejectInstance, CompleteInstance, TypeInv, TypeOK, Goto
<1>7. LocalsReady(c)'
  BY <1>1, <1>4, <1>3 DEF RejectInstance, CompleteInstance, TypeInv, TypeOK, Goto, LocalsReady
<1>8. \A d \in Calls \ {c} : pc'[d] = pc[d] /\ local'[d] = local[d]
  BY DEF RejectInstance, CompleteInstance, TypeInv, TypeOK, Goto
<1> QED  BY <1>5, <1>6, <1>7, <1>8, OthersKept DEF TypeInv

\* Every step of the system keeps types and what the calls have read.
LEMMA TypeStep ==
  ASSUME TypeInv, [Next]_vars
  PROVE  TypeInv'
<1>1. ASSUME NEW c \in Calls, RequestApproval(c)
      PROVE  TypeInv'
  BY <1>1, CallMoves DEF RequestApproval, Harmless
<1>2. ASSUME NEW c \in Calls, FindOpen(c)
      PROVE  TypeInv'
  BY <1>2, CallMoves DEF FindOpen, Harmless
<1>3. ASSUME NEW c \in Calls, ReadApproval(c)
      PROVE  TypeInv'
  BY <1>3, ReadTyped DEF ReadApproval
<1>4. ASSUME NEW c \in Calls, ApproveOrder(c)
      PROVE  TypeInv'
  BY <1>4, CallMoves DEF ApproveOrder, Harmless
<1>5. ASSUME NEW c \in Calls, ReadOpen(c)
      PROVE  TypeInv'
  BY <1>5, CallMoves DEF ReadOpen, Harmless
<1>6. ASSUME NEW c \in Calls, RejectInstance(c) \/ CompleteInstance(c)
      PROVE  TypeInv'
  BY <1>6, InstanceEndedTyped
<1>7. ASSUME NEW c \in Calls, Publish(c)
      PROVE  TypeInv'
  <2>1. /\ TypeOK'
        /\ LocalsReady(c)'
    BY <1>7 DEF Publish, Event, TypeInv, TypeOK, Goto, workflow, Rows, LocalsReady
  <2> QED  BY <1>7, <2>1, OthersKept, NothingWritten DEF Publish, TypeInv, TypeOK, Goto
<1>8. ASSUME NEW c \in Calls, ConfirmOrder(c)
      PROVE  TypeInv'
  <2>1. /\ TypeOK'
        /\ LocalsReady(c)'
    BY <1>8 DEF ConfirmOrder, TypeInv, TypeOK, Goto, workflow, Rows, LocalsReady
  <2> QED  BY <1>8, <2>1, OthersKept, NothingWritten DEF ConfirmOrder, TypeInv, TypeOK, Goto
<1>9. ASSUME NEW c \in Calls, Listen(c)
      PROVE  TypeInv'
  <2>1. UNCHANGED <<workflow, pc, local>>
    BY <1>9 DEF Listen, ConfirmFromWorkflow, ReadForCancel, CancelOrder
  <2>2. /\ order' \in {"DRAFT", "CONFIRMED", "CANCELLED"}
        /\ listener' \in [Calls -> {"none", "approved", "rejected", "cancel"}]
    BY <1>9 DEF Listen, ConfirmFromWorkflow, ReadForCancel, CancelOrder, Heard,
                TypeInv, TypeOK
  <2> QED  BY <2>1, <2>2 DEF TypeInv, TypeOK, workflow, Rows, LocalsReady
<1>10. ASSUME Die
       PROVE  TypeInv'
  <2>1. \A c \in Calls : pc'[c] \in {"idle", "done"}
    BY <1>10 DEF Die
  <2>2. TypeOK'
    BY <1>10 DEF Die, TypeInv, TypeOK, Rows
  <2> QED  BY <2>1, <2>2 DEF TypeInv, LocalsReady
<1>11. ASSUME UNCHANGED vars
       PROVE  TypeInv'
  BY <1>11 DEF vars, TypeInv, TypeOK, Rows, LocalsReady
<1> QED
  BY <1>1, <1>2, <1>3, <1>4, <1>5, <1>6, <1>7, <1>8, <1>9, <1>10, <1>11,
     CreateInstanceTyped, WriteDecisionTyped, AdvanceTyped, ReadPendingTyped
     DEF Next, Step, Quiescent

\* The tables, the listeners and the calls' locals keep their types, for any
\* number of calls and of steps.
THEOREM TypeCorrect == Spec => []TypeOK
<1>1. Spec => []TypeInv
  BY TypeInit, TypeStep, PTL DEF Spec
<1>2. TypeInv => TypeOK
  BY DEF TypeInv
<1> QED  BY <1>1, <1>2, PTL

-----------------------------------------------------------------------------
(* Steps are taken in order.                                               *)

\* StepsInOrder is not inductive: a call about to advance relies on the step of
\* its row being granted, and one about to complete on all of them.
LadderInv ==
  /\ StepsInOrder
  /\ \A c \in Calls : pc[c] = "advance" =>
       <<local[c].instance, approval[local[c].row].step>> \in granted
  /\ \A c \in Calls : pc[c] \in {"complete", "publishComplete"} =>
       Climbed(local[c].instance)

\* No step takes back an approval.
LEMMA GrantedGrows ==
  ASSUME [Next]_vars
  PROVE  granted \subseteq granted'
<1>1. ASSUME NEW c \in Calls, Step(c)
      PROVE  granted \subseteq granted'
  BY <1>1 DEF Step, FindOpen, CreateInstance, WriteDecision, Advance, RejectInstance,
              CompleteInstance, Publish, ReadPending, ReadOpen, ConfirmOrder, workflow
<1>2. ASSUME NEW c \in Calls, Listen(c)
      PROVE  granted \subseteq granted'
  BY <1>2 DEF Listen, ConfirmFromWorkflow, ReadForCancel, CancelOrder, workflow
<1> QED  BY <1>1, <1>2 DEF Next, RequestApproval, ReadApproval, ApproveOrder, Die,
                            Quiescent, vars, workflow

\* A step that writes no approval and takes no call to "advance" or "complete".
LEMMA LadderKept ==
  ASSUME LadderInv, UNCHANGED <<approval, granted>>,
         \A c \in Calls : pc'[c] \in {"advance", "complete", "publishComplete"} =>
           /\ local'[c] = local[c]
           /\ pc'[c] = pc[c] \/ (pc[c] = "complete" /\ pc'[c] = "publishComplete")
  PROVE  LadderInv'
  BY DEF LadderInv, StepsInOrder, Climbed, Rows

\* A new row extends the ladder when the steps below it are granted.
LEMMA LadderExtended ==
  ASSUME TypeInv, LadderInv, NEW e \in Approval, UNCHANGED granted,
         Rows' = Rows \cup {Len(approval) + 1},
         approval'[Len(approval) + 1] = e,
         \A r \in Rows : approval'[r] = approval[r],
         \A s \in 1 .. e.step - 1 : <<e.instance, s>> \in granted,
         \A c \in Calls : pc'[c] \in {"advance", "complete", "publishComplete"} =>
           pc'[c] = pc[c] /\ local'[c] = local[c]
  PROVE  LadderInv'
<1>1. StepsInOrder'
  BY DEF LadderInv, StepsInOrder
<1>2. \A c \in Calls : pc'[c] = "advance" =>
        <<local'[c].instance, approval'[local'[c].row].step>> \in granted'
  BY DEF LadderInv, TypeInv, LocalsReady
<1>3. \A c \in Calls : pc'[c] \in {"complete", "publishComplete"} =>
        Climbed(local[c].instance)'
  BY DEF LadderInv, Climbed
<1> QED  BY <1>1, <1>2, <1>3 DEF LadderInv, Climbed

\* Inserting an instance asks for its first step.
LEMMA CreateInstanceLadder ==
  ASSUME TypeInv, LadderInv, NEW c \in Calls, CreateInstance(c)
  PROVE  LadderInv'
<1> DEFINE e == [instance |-> c, step |-> 1, status |-> "PENDING"]
<1>1. e \in Approval
  BY ConstantsAssumption DEF Approval, Steps
<1>2. approval' = Append(approval, e) /\ UNCHANGED granted
  BY DEF CreateInstance, FirstStep
<1>3. approval \in Seq(Approval) /\ Len(approval) \in Nat
  BY DEF TypeInv, TypeOK
<1>4. /\ Rows' = Rows \cup {Len(approval) + 1}
      /\ approval'[Len(approval) + 1] = e
      /\ \A r \in Rows : approval'[r] = approval[r]
  <2> HIDE DEF e
  <2> QED  BY <1>1, <1>2, <1>3, AppendedRow DEF Rows
<1>5. \A d \in Calls : pc'[d] \in {"advance", "complete", "publishComplete"} =>
        pc'[d] = pc[d] /\ local'[d] = local[d]
  BY DEF CreateInstance, Goto, TypeInv, TypeOK
<1>6. \A s \in 1 .. e.step - 1 : <<e.instance, s>> \in granted
  OBVIOUS
<1> HIDE DEF e
<1> QED  BY <1>1, <1>2, <1>4, <1>5, <1>6, LadderExtended

\* Advancing asks for the step above the one that was just granted.
LEMMA AdvanceLadder ==
  ASSUME TypeInv, LadderInv, NEW c \in Calls, Advance(c)
  PROVE  LadderInv'
<1> DEFINE r == local[c].row
           e == [instance |-> local[c].instance, step |-> approval[r].step + 1,
                 status |-> "PENDING"]
<1>1. /\ r \in Rows
      /\ local[c].instance = approval[r].instance
      /\ approval[r].step < LastStep
      /\ <<local[c].instance, approval[r].step>> \in granted
  BY DEF Advance, TypeInv, LocalsReady, LadderInv
<1>2. approval[r].step \in Steps /\ approval[r].instance \in Calls
  BY <1>1, RowType DEF TypeInv
<1>3. e \in Approval
  BY <1>1, <1>2, ConstantsAssumption DEF Approval, Steps
<1>4. \A s \in 1 .. approval[r].step - 1 : <<local[c].instance, s>> \in granted
  BY <1>1 DEF LadderInv, StepsInOrder
<1>5. \A s \in 1 .. e.step - 1 : <<e.instance, s>> \in granted
  BY <1>1, <1>2, <1>4 DEF Steps
<1>6. /\ Rows' = Rows \cup {Len(approval) + 1}
      /\ approval'[Len(approval) + 1] = e
      /\ \A q \in Rows : approval'[q] = approval[q]
  BY AdvanceTyped
<1>7. \A d \in Calls : pc'[d] \in {"advance", "complete", "publishComplete"} =>
        pc'[d] = pc[d] /\ local'[d] = local[d]
  BY DEF Advance, Goto, TypeInv, TypeOK
<1>8. UNCHANGED granted
  BY DEF Advance
<1> HIDE DEF e
<1> QED  BY <1>3, <1>5, <1>6, <1>7, <1>8, LadderExtended

\* A decision grants the step of its row; the last step completes the climb.
LEMMA WriteDecisionLadder ==
  ASSUME TypeInv, LadderInv, NEW c \in Calls, WriteDecision(c)
  PROVE  LadderInv'
<1> DEFINE r == local[c].row
<1>1. /\ r \in Rows
      /\ local[c].instance = approval[r].instance
      /\ local[c].decision \in {"APPROVED", "REJECTED"}
  BY DEF WriteDecision, TypeInv, LocalsReady
<1>2. approval[r].step \in Steps
  BY <1>1, RowType DEF TypeInv
<1>3. /\ Rows' = Rows
      /\ \A q \in Rows : /\ approval'[q].instance = approval[q].instance
                         /\ approval'[q].step = approval[q].step
      /\ UNCHANGED local
      /\ granted \subseteq granted'
  BY WriteDecisionTyped DEF WriteDecision
<1>4. /\ \A d \in Calls \ {c} : pc'[d] = pc[d]
      /\ pc'[c] = AfterDecision(c, approval[r].step)
  BY DEF WriteDecision, Goto, TypeInv, TypeOK
<1>5. local[c].decision = "APPROVED" =>
        <<local[c].instance, approval[r].step>> \in granted'
  BY DEF WriteDecision
<1>6. StepsInOrder'
  BY <1>3 DEF LadderInv, StepsInOrder
<1>7. ASSUME NEW d \in Calls, pc'[d] = "advance"
      PROVE  <<local'[d].instance, approval'[local'[d].row].step>> \in granted'
  <2>1. CASE d = c
    BY <1>1, <1>3, <1>4, <1>5, <1>7, <2>1 DEF AfterDecision
  <2>2. CASE d # c
    BY <1>3, <1>4, <1>7, <2>2 DEF LadderInv, TypeInv, LocalsReady
  <2> QED  BY <2>1, <2>2
<1>8. ASSUME NEW d \in Calls, pc'[d] \in {"complete", "publishComplete"}
      PROVE  Climbed(local[d].instance)'
  <2>1. CASE d = c
    <3>1. approval[r].step = LastStep /\ local[c].decision = "APPROVED"
      BY <1>1, <1>2, <1>4, <1>8, <2>1, ConstantsAssumption DEF AfterDecision, Steps
    <3>2. \A s \in 1 .. LastStep - 1 : <<local[c].instance, s>> \in granted'
      BY <1>1, <1>3, <3>1 DEF LadderInv, StepsInOrder
    <3> QED  BY <1>3, <1>5, <2>1, <3>1, <3>2, ConstantsAssumption DEF Climbed, Steps
  <2>2. CASE d # c
    BY <1>3, <1>4, <1>8, <2>2 DEF LadderInv, Climbed
  <2> QED  BY <2>1, <2>2
<1> QED  BY <1>3, <1>6, <1>7, <1>8 DEF LadderInv, Climbed

\* Every step of the system keeps the ladder.
LEMMA LadderStep ==
  ASSUME TypeInv, LadderInv, [Next]_vars
  PROVE  LadderInv'
<1>1. ASSUME NEW c \in Calls,
             \/ RequestApproval(c) \/ FindOpen(c) \/ ReadApproval(c) \/ ReadPending(c)
             \/ ApproveOrder(c) \/ ReadOpen(c) \/ ConfirmOrder(c) \/ Publish(c)
             \/ RejectInstance(c)
      PROVE  LadderInv'
  <2>1. UNCHANGED <<approval, granted>>
    BY <1>1 DEF RequestApproval, FindOpen, ReadApproval, ReadPending, ApproveOrder,
                ReadOpen, ConfirmOrder, Publish, RejectInstance, workflow
  <2>2. \A d \in Calls \ {c} : pc'[d] = pc[d] /\ local'[d] = local[d]
    BY <1>1 DEF RequestApproval, FindOpen, ReadApproval, ReadPending, ApproveOrder,
                ReadOpen, ConfirmOrder, Publish, RejectInstance, Goto, TakeUp,
                TypeInv, TypeOK
  <2>3. pc'[c] \notin {"advance", "complete", "publishComplete"}
    BY <1>1 DEF RequestApproval, FindOpen, ReadApproval, ReadPending, ApproveOrder,
                ReadOpen, ConfirmOrder, Publish, RejectInstance, Goto, TypeInv, TypeOK
  <2> QED  BY <2>1, <2>2, <2>3, LadderKept
<1>2. ASSUME NEW c \in Calls, CompleteInstance(c)
      PROVE  LadderInv'
  BY <1>2, LadderKept DEF CompleteInstance, Goto, TypeInv, TypeOK
<1>3. ASSUME NEW c \in Calls, Listen(c)
      PROVE  LadderInv'
  BY <1>3, LadderKept DEF Listen, ConfirmFromWorkflow, ReadForCancel, CancelOrder, workflow
<1>4. ASSUME Die \/ UNCHANGED vars
      PROVE  LadderInv'
  BY <1>4, LadderKept DEF Die, vars
<1> QED
  BY <1>1, <1>2, <1>3, <1>4, CreateInstanceLadder, AdvanceLadder, WriteDecisionLadder
     DEF Next, Step, Quiescent

\* An approval is asked for a step only after the steps below it were granted,
\* however the deciders and the automatic chains of any number of instances and
\* steps overlap.
THEOREM StepsTakenInOrder == Spec => []StepsInOrder
<1>1. Init => TypeInv /\ LadderInv
  BY TypeInit DEF Init, LadderInv, StepsInOrder, Rows
<1>2. TypeInv /\ LadderInv /\ [Next]_vars => TypeInv' /\ LadderInv'
  BY TypeStep, LadderStep
<1>3. LadderInv => StepsInOrder
  BY DEF LadderInv
<1> QED  BY <1>1, <1>2, <1>3, PTL DEF Spec

-----------------------------------------------------------------------------
(* A capped order is confirmed only after all steps.                       *)

SomeClimbed == \E i \in Calls : Climbed(i)

\* What a confirmation relies on: instances that authorize, events on their way
\* and calls that passed the gate all come after a full climb.
OutcomeInv ==
  /\ \A i \in Calls : IsAuthorized(i) => Climbed(i)
  /\ \A c \in Calls : listener[c] = "approved" => SomeClimbed
  /\ \A c \in Calls : Capped /\ pc[c] = "confirm" => SomeClimbed
  /\ ConfirmedOnlyAfterAllSteps

\* A climb is never undone.
LEMMA ClimbKept ==
  ASSUME [Next]_vars
  PROVE  /\ \A i \in Calls : Climbed(i) => Climbed(i)'
         /\ SomeClimbed => SomeClimbed'
  BY GrantedGrows DEF Climbed, SomeClimbed

\* A step after which no new instance authorizes, no new event is on its way,
\* no call has newly passed the gate and the order is not newly confirmed.
LEMMA OutcomeKept ==
  ASSUME OutcomeInv, [Next]_vars,
         \A i \in Calls : IsAuthorized(i)' => IsAuthorized(i),
         \A c \in Calls : listener'[c] = "approved" => listener[c] = "approved",
         \A c \in Calls : pc'[c] = "confirm" => pc[c] = "confirm",
         order' = "CONFIRMED" => order = "CONFIRMED"
  PROVE  OutcomeInv'
  BY ClimbKept DEF OutcomeInv, ConfirmedOnlyAfterAllSteps, SomeClimbed

\* Every step of the system keeps it.
LEMMA OutcomeStep ==
  ASSUME TypeInv, LadderInv, OutcomeInv, [Next]_vars
  PROVE  OutcomeInv'
<1>1. ASSUME NEW c \in Calls, ApproveOrder(c)
      PROVE  OutcomeInv'
  <2>1. Capped /\ pc'[c] = "confirm" => SomeClimbed
    BY <1>1 DEF ApproveOrder, Authorizes, OutcomeInv, SomeClimbed, Goto, TypeInv, TypeOK
  <2>2. \A d \in Calls \ {c} : pc'[d] = pc[d]
    BY <1>1 DEF ApproveOrder, Goto, TypeInv, TypeOK
  <2> QED  BY <1>1, <2>1, <2>2, ClimbKept
           DEF ApproveOrder, OutcomeInv, ConfirmedOnlyAfterAllSteps, SomeClimbed,
               IsAuthorized, workflow
<1>2. ASSUME NEW c \in Calls, CompleteInstance(c)
      PROVE  OutcomeInv'
  <2> DEFINE i == local[c].instance
  <2>1. Climbed(i)
    BY <1>2 DEF CompleteInstance, LadderInv
  <2>2. \A j \in Calls : j # i => instance'[j] = instance[j]
    BY <1>2 DEF CompleteInstance, TypeInv, TypeOK
  <2>3. \A j \in Calls : IsAuthorized(j)' => Climbed(j)
    BY <2>1, <2>2 DEF OutcomeInv, IsAuthorized
  <2>4. \A d \in Calls : pc'[d] = "confirm" => pc[d] = "confirm"
    BY <1>2 DEF CompleteInstance, Goto, TypeInv, TypeOK
  <2> QED  BY <1>2, <2>3, <2>4, ClimbKept
           DEF CompleteInstance, OutcomeInv, ConfirmedOnlyAfterAllSteps, SomeClimbed
<1>3. ASSUME NEW c \in Calls, Publish(c)
      PROVE  OutcomeInv'
  <2>1. listener'[c] = "approved" => SomeClimbed
    <3>1. pc[c] = "publishComplete" => local[c].instance \in Calls /\ Climbed(local[c].instance)
      BY DEF LadderInv, TypeInv, LocalsReady
    <3> QED  BY <1>3, <3>1 DEF Publish, SomeClimbed, TypeInv, TypeOK
  <2>2. \A d \in Calls \ {c} : listener'[d] = listener[d]
    BY <1>3 DEF Publish, TypeInv, TypeOK
  <2>3. \A d \in Calls : pc'[d] = "confirm" => pc[d] = "confirm"
    BY <1>3 DEF Publish, Goto, TypeInv, TypeOK
  <2> QED  BY <1>3, <2>1, <2>2, <2>3, ClimbKept
           DEF Publish, OutcomeInv, ConfirmedOnlyAfterAllSteps, SomeClimbed,
               IsAuthorized, workflow
<1>4. ASSUME NEW c \in Calls, ConfirmOrder(c)
      PROVE  OutcomeInv'
  <2>1. Capped => SomeClimbed
    BY <1>4 DEF ConfirmOrder, OutcomeInv
  <2>2. \A d \in Calls : pc'[d] = "confirm" => pc[d] = "confirm"
    BY <1>4 DEF ConfirmOrder, Goto, TypeInv, TypeOK
  <2> QED  BY <1>4, <2>1, <2>2, ClimbKept
           DEF ConfirmOrder, OutcomeInv, ConfirmedOnlyAfterAllSteps, SomeClimbed,
               IsAuthorized, workflow
<1>5. ASSUME NEW c \in Calls, Listen(c)
      PROVE  OutcomeInv'
  <2>1. /\ UNCHANGED <<workflow, pc>>
        /\ \A d \in Calls : listener'[d] = "approved" => listener[d] = "approved"
    BY <1>5 DEF Listen, ConfirmFromWorkflow, ReadForCancel, CancelOrder, Heard,
                TypeInv, TypeOK
  <2>2. order' = "CONFIRMED" => order = "CONFIRMED" \/ SomeClimbed
    BY <1>5 DEF Listen, ConfirmFromWorkflow, ReadForCancel, CancelOrder, OutcomeInv
  <2> QED  BY <2>1, <2>2, ClimbKept
           DEF OutcomeInv, ConfirmedOnlyAfterAllSteps, SomeClimbed, IsAuthorized, workflow
<1>6. ASSUME NEW c \in Calls, CreateInstance(c) \/ RejectInstance(c)
      PROVE  OutcomeInv'
  <2>1. \A i \in Calls : IsAuthorized(i)' => IsAuthorized(i)
    <3>1. CASE CreateInstance(c)
      BY <3>1 DEF CreateInstance, IsAuthorized, TypeInv, TypeOK
    <3>2. CASE RejectInstance(c)
      <4> DEFINE i == local[c].instance
      <4>1. i \in Calls /\ instance[i] \in Instance
        <5>1. local[c].row \in Rows /\ i = approval[local[c].row].instance
          BY <3>2 DEF RejectInstance, TypeInv, LocalsReady
        <5>2. i \in Calls /\ instance[i] # None
          BY <5>1, RowType DEF TypeInv
        <5> QED  BY <5>2 DEF TypeInv, TypeOK
      <4>2. /\ instance'[i].isCancelled
            /\ \A j \in Calls : j # i => instance'[j] = instance[j]
        BY <3>2, <4>1 DEF RejectInstance, TypeInv, TypeOK, Instance
      <4> QED  BY <4>2 DEF IsAuthorized
    <3> QED  BY <1>6, <3>1, <3>2
  <2>2. \A d \in Calls : pc'[d] = "confirm" => pc[d] = "confirm"
    BY <1>6 DEF CreateInstance, RejectInstance, Goto, TypeInv, TypeOK
  <2> QED  BY <1>6, <2>1, <2>2, OutcomeKept DEF CreateInstance, RejectInstance
<1>7. ASSUME NEW c \in Calls, Advance(c)
      PROVE  OutcomeInv'
  <2>1. \A i \in Calls : IsAuthorized(i)' => IsAuthorized(i)
    <3> DEFINE i == local[c].instance
               next == approval[local[c].row].step + 1
    <3>1. i \in Calls /\ instance[i] \in Instance
      <4>1. local[c].row \in Rows /\ i = approval[local[c].row].instance
        BY <1>7 DEF Advance, TypeInv, LocalsReady
      <4>2. i \in Calls /\ instance[i] # None
        BY <4>1, RowType DEF TypeInv
      <4> QED  BY <4>2 DEF TypeInv, TypeOK
    <3>2. /\ [instance[i] EXCEPT !.currentStep = next].isComplete = instance[i].isComplete
          /\ [instance[i] EXCEPT !.currentStep = next].isCancelled = instance[i].isCancelled
      BY <3>1 DEF Instance
    <3>3. instance' = [instance EXCEPT ![i] = [instance[i] EXCEPT !.currentStep = next]]
      BY <1>7 DEF Advance
    <3>4. None \notin Instance
      BY ConstantsAssumption DEF Instance
    <3> QED  BY <3>1, <3>2, <3>3, <3>4 DEF IsAuthorized, TypeInv, TypeOK
  <2>2. \A d \in Calls : pc'[d] = "confirm" => pc[d] = "confirm"
    BY <1>7 DEF Advance, Goto, TypeInv, TypeOK
  <2> QED  BY <1>7, <2>1, <2>2, OutcomeKept DEF Advance
<1>8. ASSUME NEW c \in Calls, WriteDecision(c)
      PROVE  OutcomeInv'
  <2>1. \A d \in Calls : pc'[d] = "confirm" => pc[d] = "confirm"
    BY <1>8 DEF WriteDecision, AfterDecision, Goto, TypeInv, TypeOK
  <2> QED  BY <1>8, <2>1, OutcomeKept DEF WriteDecision, IsAuthorized
<1>9. ASSUME NEW c \in Calls,
             \/ RequestApproval(c) \/ FindOpen(c) \/ ReadApproval(c) \/ ReadPending(c)
             \/ ReadOpen(c)
      PROVE  OutcomeInv'
  <2>1. \A d \in Calls : pc'[d] = "confirm" => pc[d] = "confirm"
    BY <1>9 DEF RequestApproval, FindOpen, ReadApproval, ReadPending, ReadOpen, Goto,
                TypeInv, TypeOK
  <2>2. UNCHANGED <<instance, listener, order>>
    BY <1>9 DEF RequestApproval, FindOpen, ReadApproval, ReadPending, ReadOpen, workflow
  <2> QED  BY <2>1, <2>2, OutcomeKept DEF IsAuthorized
<1>10. ASSUME Die \/ UNCHANGED vars
       PROVE  OutcomeInv'
  BY <1>10, OutcomeKept DEF Die, vars, IsAuthorized
<1> QED
  BY <1>1, <1>2, <1>3, <1>4, <1>5, <1>6, <1>7, <1>8, <1>9, <1>10 DEF Next, Step, Quiescent

\* Where the amount needs the workflow, the order is confirmed, directly or by
\* the completion listener, only after some instance had all its steps granted.
THEOREM ConfirmedAfterClimb == Spec => []ConfirmedOnlyAfterAllSteps
<1>1. Init => TypeInv /\ LadderInv /\ OutcomeInv
  <2>1. Init => TypeInv /\ LadderInv
    BY TypeInit DEF Init, LadderInv, StepsInOrder, Rows
  <2>2. Init => OutcomeInv
    BY DEF Init, OutcomeInv, ConfirmedOnlyAfterAllSteps, IsAuthorized
  <2> QED  BY <2>1, <2>2
<1>2. TypeInv /\ LadderInv /\ OutcomeInv /\ [Next]_vars => (TypeInv /\ LadderInv /\ OutcomeInv)'
  BY TypeStep, LadderStep, OutcomeStep
<1>3. OutcomeInv => ConfirmedOnlyAfterAllSteps
  BY DEF OutcomeInv
<1> QED  BY <1>1, <1>2, <1>3, PTL DEF Spec

-----------------------------------------------------------------------------
(* The workflow implements ApprovalLadder.                                 *)

Approved == {i \in Calls : IsAuthorized(i)}
Rejected == {i \in Calls : instance[i] # None /\ instance[i].isCancelled}

\* A call inserts its instance once, and what is on its way to cancel the order
\* comes after a rejection.
EndsInv ==
  /\ \A c \in Calls : pc[c] \in {"idle", "find", "readOpen", "create"} => instance[c] = None
  /\ \A c \in Calls : pc[c] = "publishRejected" \/ listener[c] \in {"rejected", "cancel"} =>
       Rejected # {}

\* The instance a call writes about is a row of the table.
LEMMA WrittenInstance ==
  ASSUME TypeInv, NEW c \in Calls, pc[c] \in {"decide", "advance", "reject", "complete"}
  PROVE  local[c].instance \in Calls /\ instance[local[c].instance] \in Instance
<1>1. local[c].row \in Rows /\ local[c].instance = approval[local[c].row].instance
  BY DEF TypeInv, LocalsReady
<1>2. local[c].instance \in Calls /\ instance[local[c].instance] # None
  BY <1>1, RowType DEF TypeInv
<1> QED  BY <1>2 DEF TypeInv, TypeOK

\* One instance is written: what the others authorize and reject stays.
LEMMA InstanceWritten ==
  ASSUME TypeInv, NEW i \in Calls, NEW new \in Instance, instance' = [instance EXCEPT ![i] = new]
  PROVE  /\ \A j \in Calls : j # i => instance'[j] = instance[j]
         /\ Rejected' = IF new.isCancelled THEN Rejected \cup {i} ELSE Rejected \ {i}
         /\ Approved' = IF new.isComplete /\ ~new.isCancelled
                          THEN Approved \cup {i} ELSE Approved \ {i}
<1>1. /\ instance'[i] = new
      /\ \A j \in Calls : j # i => instance'[j] = instance[j]
  BY DEF TypeInv, TypeOK
<1>2. new # None
  BY ConstantsAssumption DEF Instance
<1> QED  BY <1>1, <1>2 DEF Rejected, Approved, IsAuthorized

LEMMA CreateOutcome ==
  ASSUME TypeInv, EndsInv, NEW c \in Calls, CreateInstance(c)
  PROVE  UNCHANGED <<Approved, Rejected>> /\ \A j \in Calls : j # c => instance'[j] = instance[j]
<1> DEFINE new == [currentStep |-> 1, isComplete |-> FALSE, isCancelled |-> FALSE]
<1>1. new \in Instance /\ new.isComplete = FALSE /\ new.isCancelled = FALSE
  BY ConstantsAssumption DEF Instance, Steps
<1>2. instance' = [instance EXCEPT ![c] = new]
  BY DEF CreateInstance
<1>3. c \notin Approved /\ c \notin Rejected
  BY DEF CreateInstance, EndsInv, Approved, Rejected, IsAuthorized
<1> HIDE DEF new
<1> QED  BY <1>1, <1>2, <1>3, InstanceWritten

LEMMA AdvanceOutcome ==
  ASSUME TypeInv, NEW c \in Calls, Advance(c)
  PROVE  /\ UNCHANGED <<Approved, Rejected>>
         /\ \A j \in Calls : instance[j] = None => instance'[j] = None
<1> DEFINE i == local[c].instance
           next == approval[local[c].row].step + 1
           new == [instance[i] EXCEPT !.currentStep = next]
<1>1. i \in Calls /\ instance[i] \in Instance /\ instance[i] # None
  BY WrittenInstance, ConstantsAssumption DEF Advance, Instance
<1>2. next \in Steps
  <2>1. local[c].row \in Rows /\ approval[local[c].row].step < LastStep
    BY DEF Advance, TypeInv, LocalsReady
  <2>2. approval[local[c].row].step \in Steps
    BY <2>1, RowType DEF TypeInv
  <2> QED  BY <2>1, <2>2, ConstantsAssumption DEF Steps
<1>3. instance' = [instance EXCEPT ![i] = new]
  BY DEF Advance
<1> HIDE DEF next
<1>4. /\ new \in Instance /\ new.isComplete = instance[i].isComplete
      /\ new.isCancelled = instance[i].isCancelled
  BY <1>1, <1>2 DEF Instance
<1>5. /\ i \in Rejected <=> instance[i].isCancelled
      /\ i \in Approved <=> instance[i].isComplete /\ ~instance[i].isCancelled
  BY <1>1 DEF Rejected, Approved, IsAuthorized
<1> HIDE DEF new, i
<1>6. /\ \A j \in Calls : j # i => instance'[j] = instance[j]
      /\ Rejected' = IF new.isCancelled THEN Rejected \cup {i} ELSE Rejected \ {i}
      /\ Approved' = IF new.isComplete /\ ~new.isCancelled
                       THEN Approved \cup {i} ELSE Approved \ {i}
  BY <1>1, <1>3, <1>4, InstanceWritten
<1>7. \A j \in Calls : instance[j] = None => instance'[j] = None
  BY <1>1, <1>6
<1>8. Rejected' = Rejected
  <2>1. CASE new.isCancelled
    BY <1>4, <1>5, <1>6, <2>1
  <2>2. CASE ~new.isCancelled
    BY <1>4, <1>5, <1>6, <2>2
  <2> QED  BY <2>1, <2>2
<1>9. Approved' = Approved
  <2>1. CASE new.isComplete /\ ~new.isCancelled
    BY <1>4, <1>5, <1>6, <2>1
  <2>2. CASE ~(new.isComplete /\ ~new.isCancelled)
    BY <1>4, <1>5, <1>6, <2>2
  <2> QED  BY <2>1, <2>2
<1> QED  BY <1>7, <1>8, <1>9

LEMMA RejectOutcome ==
  ASSUME TypeInv, NEW c \in Calls, RejectInstance(c)
  PROVE  /\ local[c].instance \in Calls
         /\ Rejected' = Rejected \cup {local[c].instance}
         /\ Approved' = Approved \ {local[c].instance}
         /\ \A j \in Calls : instance[j] = None => instance'[j] = None
<1> DEFINE i == local[c].instance
           new == [instance[i] EXCEPT !.isComplete = TRUE, !.isCancelled = TRUE]
<1>1. i \in Calls /\ instance[i] \in Instance /\ instance[i] # None
  BY WrittenInstance, ConstantsAssumption DEF RejectInstance, Instance
<1>2. instance' = [instance EXCEPT ![i] = new]
  BY DEF RejectInstance
<1>3. new \in Instance /\ new.isCancelled = TRUE
  BY <1>1 DEF Instance
<1> HIDE DEF new
<1> QED  BY <1>1, <1>2, <1>3, InstanceWritten

LEMMA CompleteOutcome ==
  ASSUME TypeInv, NEW c \in Calls, CompleteInstance(c)
  PROVE  /\ local[c].instance \in Calls
         /\ Rejected' = Rejected
         /\ Approved' = IF local[c].instance \in Rejected THEN Approved
                          ELSE Approved \cup {local[c].instance}
         /\ \A j \in Calls : instance[j] = None => instance'[j] = None
<1> DEFINE i == local[c].instance
           new == [instance[i] EXCEPT !.isComplete = TRUE]
<1>1. i \in Calls /\ instance[i] \in Instance /\ instance[i] # None
  BY WrittenInstance, ConstantsAssumption DEF CompleteInstance, Instance
<1>2. instance' = [instance EXCEPT ![i] = new]
  BY DEF CompleteInstance
<1>3. new \in Instance /\ new.isCancelled = instance[i].isCancelled /\ new.isComplete = TRUE
  BY <1>1 DEF Instance
<1>4. /\ i \in Rejected <=> instance[i].isCancelled
      /\ i \in Approved => ~instance[i].isCancelled
  BY <1>1 DEF Rejected, Approved, IsAuthorized
<1> HIDE DEF new, i
<1>5. /\ \A j \in Calls : j # i => instance'[j] = instance[j]
      /\ Rejected' = IF new.isCancelled THEN Rejected \cup {i} ELSE Rejected \ {i}
      /\ Approved' = IF new.isComplete /\ ~new.isCancelled
                       THEN Approved \cup {i} ELSE Approved \ {i}
  BY <1>1, <1>2, <1>3, InstanceWritten
<1>6. \A j \in Calls : instance[j] = None => instance'[j] = None
  BY <1>1, <1>5
<1>7. Rejected' = Rejected /\ Approved' = IF i \in Rejected THEN Approved ELSE Approved \cup {i}
  <2>1. CASE i \in Rejected
    BY <1>3, <1>4, <1>5, <2>1
  <2>2. CASE i \notin Rejected
    BY <1>3, <1>4, <1>5, <2>2
  <2> QED  BY <2>1, <2>2
<1> QED  BY <1>1, <1>6, <1>7 DEF i

\* Statements that write no instance.
LEMMA SameInstances ==
  ASSUME UNCHANGED instance
  PROVE  UNCHANGED <<Approved, Rejected>>
  BY DEF Approved, Rejected, IsAuthorized

\* Every step of the system keeps it.
LEMMA EndsStep ==
  ASSUME TypeInv, EndsInv, [Next]_vars
  PROVE  EndsInv'
<1> DEFINE Before == {"idle", "find", "readOpen", "create"}
\* What a step must respect.
<1>1. ASSUME Rejected \subseteq Rejected',
             \A d \in Calls : pc'[d] \in Before => pc[d] \in Before,
             \A d \in Calls : pc'[d] \in Before /\ instance[d] = None => instance'[d] = None,
             \A d \in Calls : pc'[d] = "publishRejected" =>
               pc[d] = "publishRejected" \/ Rejected' # {},
             \A d \in Calls : listener'[d] \in {"rejected", "cancel"} =>
               listener[d] \in {"rejected", "cancel"} \/ pc[d] = "publishRejected"
      PROVE  EndsInv'
  BY <1>1 DEF EndsInv
<1>2. ASSUME NEW c \in Calls,
             \/ RequestApproval(c) \/ FindOpen(c) \/ ReadApproval(c) \/ ReadPending(c)
             \/ ApproveOrder(c) \/ ReadOpen(c) \/ ConfirmOrder(c) \/ WriteDecision(c)
      PROVE  EndsInv'
  <2>1. UNCHANGED <<instance, listener>>
    BY <1>2 DEF RequestApproval, FindOpen, ReadApproval, ReadPending, ApproveOrder,
                ReadOpen, ConfirmOrder, WriteDecision, workflow
  <2>2. \A d \in Calls \ {c} : pc'[d] = pc[d]
    BY <1>2 DEF RequestApproval, FindOpen, ReadApproval, ReadPending, ApproveOrder,
                ReadOpen, ConfirmOrder, WriteDecision, Goto, TypeInv, TypeOK
  <2>3. (pc'[c] \in Before => pc[c] \in Before) /\ pc'[c] # "publishRejected"
    BY <1>2 DEF RequestApproval, FindOpen, ReadApproval, ReadPending, ApproveOrder,
                ReadOpen, ConfirmOrder, WriteDecision, AfterDecision, Goto, TypeInv, TypeOK
  <2> QED  BY <1>1, <2>1, <2>2, <2>3, SameInstances
<1>3. ASSUME NEW c \in Calls, CreateInstance(c)
      PROVE  EndsInv'
  <2>1. UNCHANGED <<Approved, Rejected>> /\ \A j \in Calls : j # c => instance'[j] = instance[j]
    BY <1>3, CreateOutcome
  <2>2. pc'[c] = "chain" /\ (\A d \in Calls \ {c} : pc'[d] = pc[d]) /\ UNCHANGED listener
    BY <1>3 DEF CreateInstance, Goto, TypeInv, TypeOK
  <2> QED  BY <1>1, <2>1, <2>2
<1>4. ASSUME NEW c \in Calls, Advance(c)
      PROVE  EndsInv'
  <2>1. pc'[c] = "chain" /\ (\A d \in Calls \ {c} : pc'[d] = pc[d]) /\ UNCHANGED listener
    BY <1>4 DEF Advance, Goto, TypeInv, TypeOK
  <2> QED  BY <1>1, <1>4, <2>1, AdvanceOutcome
<1>5. ASSUME NEW c \in Calls, RejectInstance(c)
      PROVE  EndsInv'
  <2>1. /\ pc'[c] = "publishRejected" /\ (\A d \in Calls \ {c} : pc'[d] = pc[d])
        /\ UNCHANGED listener
    BY <1>5 DEF RejectInstance, Goto, TypeInv, TypeOK
  <2> QED  BY <1>1, <1>5, <2>1, RejectOutcome
<1>6. ASSUME NEW c \in Calls, CompleteInstance(c)
      PROVE  EndsInv'
  <2>1. /\ pc'[c] = "publishComplete" /\ (\A d \in Calls \ {c} : pc'[d] = pc[d])
        /\ UNCHANGED listener
    BY <1>6 DEF CompleteInstance, Goto, TypeInv, TypeOK
  <2> QED  BY <1>1, <1>6, <2>1, CompleteOutcome
<1>7. ASSUME NEW c \in Calls, Publish(c)
      PROVE  EndsInv'
  <2>1. /\ pc'[c] = "done" /\ (\A d \in Calls \ {c} : pc'[d] = pc[d])
        /\ \A d \in Calls \ {c} : listener'[d] = listener[d]
        /\ UNCHANGED instance
    BY <1>7 DEF Publish, Goto, TypeInv, TypeOK, workflow
  <2>2. listener'[c] \in {"rejected", "cancel"} => pc[c] = "publishRejected"
    BY <1>7 DEF Publish, Event, TypeInv, TypeOK
  <2> QED  BY <1>1, <2>1, <2>2, SameInstances
<1>8. ASSUME NEW c \in Calls, Listen(c)
      PROVE  EndsInv'
  <2>1. /\ UNCHANGED <<instance, pc>>
        /\ \A d \in Calls : listener'[d] \in {"rejected", "cancel"} =>
             listener[d] \in {"rejected", "cancel"}
    BY <1>8 DEF Listen, ConfirmFromWorkflow, ReadForCancel, CancelOrder, Heard, workflow,
                TypeInv, TypeOK
  <2> QED  BY <1>1, <2>1, SameInstances
<1>9. ASSUME Die
      PROVE  EndsInv'
  <2>1. /\ UNCHANGED instance
        /\ \A d \in Calls : listener'[d] = "none"
        /\ \A d \in Calls : pc'[d] = pc[d] \/ pc'[d] = "done"
    BY <1>9 DEF Die
  <2> QED  BY <1>1, <2>1, SameInstances
<1>10. ASSUME UNCHANGED vars
       PROVE  EndsInv'
  BY <1>1, <1>10, SameInstances DEF vars
<1> QED
  BY <1>2, <1>3, <1>4, <1>5, <1>6, <1>7, <1>8, <1>9, <1>10 DEF Next, Step, Quiescent

LEMMA LadderStutters ==
  ASSUME UNCHANGED <<order, granted, Approved, Rejected>>
  PROVE  UNCHANGED Ladder!vars
  BY DEF Ladder!vars, Approved, Rejected

\* A decision grants a step whose lower steps are granted, or none.
LEMMA GrantOfDecision ==
  ASSUME TypeInv, LadderInv, NEW c \in Calls, WriteDecision(c)
  PROVE  Ladder!Next \/ UNCHANGED Ladder!vars
<1> DEFINE i == local[c].instance
           r == local[c].row
           s == approval[r].step
<1>1. /\ r \in Rows /\ i = approval[r].instance /\ i \in Calls
  BY WrittenInstance DEF WriteDecision, TypeInv, LocalsReady
<1>2. s \in Steps /\ \A below \in 1 .. s - 1 : <<i, below>> \in granted
  BY <1>1, RowType DEF TypeInv, LadderInv, StepsInOrder
<1>3. UNCHANGED <<order, Approved, Rejected>>
  BY SameInstances DEF WriteDecision
<1>4. granted' = granted \/ granted' = granted \cup {<<i, s>>}
  BY DEF WriteDecision
<1> HIDE DEF i, s
<1>5. CASE granted' = granted \cup {<<i, s>>}
  <2>1. Ladder!Grant(i, s)
    BY <1>2, <1>3, <1>5 DEF Ladder!Grant, Approved, Rejected
  <2> QED  BY <1>1, <1>2, <2>1 DEF Ladder!Next, Steps, i
<1>6. CASE granted' = granted
  BY <1>3, <1>6, LadderStutters
<1> QED  BY <1>4, <1>5, <1>6

\* Each step of the workflow is a step of the ladder or a stutter.
LEMMA LadderRefined ==
  ASSUME TypeInv, LadderInv, OutcomeInv, EndsInv, [Next]_vars
  PROVE  Ladder!Next \/ UNCHANGED Ladder!vars
<1>0. \A i : Ladder!Climbed(i) <=> Climbed(i)
  BY DEF Ladder!Climbed, Climbed, Steps
<1>1. ASSUME NEW c \in Calls,
             \/ RequestApproval(c) \/ FindOpen(c) \/ ReadApproval(c) \/ ReadPending(c)
             \/ ApproveOrder(c) \/ ReadOpen(c) \/ Publish(c) \/ ReadForCancel(c)
      PROVE  UNCHANGED Ladder!vars
  <2>1. UNCHANGED <<order, granted, instance>>
    BY <1>1 DEF RequestApproval, FindOpen, ReadApproval, ReadPending, ApproveOrder,
                ReadOpen, Publish, ReadForCancel, workflow
  <2> QED  BY <2>1, SameInstances, LadderStutters
<1>2. ASSUME NEW c \in Calls, CreateInstance(c) \/ Advance(c)
      PROVE  UNCHANGED Ladder!vars
  <2>1. UNCHANGED <<order, granted>>
    BY <1>2 DEF CreateInstance, Advance
  <2> QED  BY <1>2, <2>1, CreateOutcome, AdvanceOutcome, LadderStutters
<1>3. ASSUME NEW c \in Calls, RejectInstance(c)
      PROVE  Ladder!Next
  <2> DEFINE i == local[c].instance
  <2>1. UNCHANGED <<order, granted>>
    BY <1>3 DEF RejectInstance
  <2>2. i \in Calls /\ Rejected' = Rejected \cup {i} /\ Approved' = Approved \ {i}
    BY <1>3, RejectOutcome
  <2>3. PICK j \in Calls : j = i
    BY <2>2
  <2> HIDE DEF i
  <2>4. Ladder!Reject(j)
    BY <2>1, <2>2, <2>3 DEF Ladder!Reject, Approved, Rejected
  <2> QED  BY <2>4 DEF Ladder!Next
<1>4. ASSUME NEW c \in Calls, CompleteInstance(c)
      PROVE  Ladder!Next \/ UNCHANGED Ladder!vars
  <2> DEFINE i == local[c].instance
  <2>1. UNCHANGED <<order, granted>> /\ Climbed(i)
    BY <1>4 DEF CompleteInstance, LadderInv
  <2>2. /\ i \in Calls /\ Rejected' = Rejected
        /\ Approved' = IF i \in Rejected THEN Approved ELSE Approved \cup {i}
    BY <1>4, CompleteOutcome
  <2> HIDE DEF i
  <2>3. CASE i \in Rejected
    BY <2>1, <2>2, <2>3, LadderStutters
  <2>4. CASE i \notin Rejected
    <3>1. Ladder!Authorize(i)
      BY <1>0, <2>1, <2>2, <2>4 DEF Ladder!Authorize, Approved, Rejected
    <3> QED  BY <2>2, <3>1 DEF Ladder!Next
  <2> QED  BY <2>3, <2>4
<1>5. ASSUME NEW c \in Calls, ConfirmOrder(c) \/ ConfirmFromWorkflow(c)
      PROVE  Ladder!Next \/ UNCHANGED Ladder!vars
  <2>1. UNCHANGED <<granted, Approved, Rejected>>
    BY <1>5, SameInstances DEF ConfirmOrder, ConfirmFromWorkflow, workflow
  <2>2. Capped => \E i \in Calls : Climbed(i)
    BY <1>5 DEF ConfirmOrder, ConfirmFromWorkflow, OutcomeInv, SomeClimbed
  <2>3. order' = "CONFIRMED" \/ order' = order
    BY <1>5 DEF ConfirmOrder, ConfirmFromWorkflow
  <2>4. CASE order' = "CONFIRMED"
    <3>1. Ladder!Confirm
      BY <1>0, <2>1, <2>2, <2>4 DEF Ladder!Confirm, Approved, Rejected
    <3> QED  BY <3>1 DEF Ladder!Next
  <2>5. CASE order' = order
    BY <2>1, <2>5, LadderStutters
  <2> QED  BY <2>3, <2>4, <2>5
<1>6. ASSUME NEW c \in Calls, CancelOrder(c)
      PROVE  Ladder!Next
  <2>1. UNCHANGED <<granted, Approved, Rejected>> /\ order' = "CANCELLED"
    BY <1>6, SameInstances DEF CancelOrder, workflow
  <2>2. Rejected # {}
    BY <1>6 DEF CancelOrder, EndsInv
  <2>3. Ladder!Cancel
    BY <2>1, <2>2 DEF Ladder!Cancel, Approved, Rejected
  <2> QED  BY <2>3 DEF Ladder!Next
<1>7. ASSUME Die \/ UNCHANGED vars
      PROVE  UNCHANGED Ladder!vars
  BY <1>7, SameInstances, LadderStutters DEF Die, vars
<1> QED
  BY <1>1, <1>2, <1>3, <1>4, <1>5, <1>6, <1>7, GrantOfDecision DEF Next, Step, Listen, Quiescent

\* However deciders, chains, direct approvals and listeners overlap and die, the
\* workflow implements ApprovalLadder: steps are granted in order, only a full
\* climb that nobody rejected authorizes, only a full climb confirms an order
\* that needs it, and only a rejection lets the workflow cancel it.
THEOREM WorkflowClimbsLadder == Spec => WorkflowIsLadder
<1>1. Init => TypeInv /\ LadderInv /\ OutcomeInv /\ EndsInv
  <2>1. Init => TypeInv /\ LadderInv
    BY TypeInit DEF Init, LadderInv, StepsInOrder, Rows
  <2>2. Init => OutcomeInv /\ EndsInv
    BY DEF Init, OutcomeInv, ConfirmedOnlyAfterAllSteps, IsAuthorized, EndsInv
  <2> QED  BY <2>1, <2>2
<1>2. TypeInv /\ LadderInv /\ OutcomeInv /\ EndsInv /\ [Next]_vars
        => (TypeInv /\ LadderInv /\ OutcomeInv /\ EndsInv)'
  BY TypeStep, LadderStep, OutcomeStep, EndsStep
<1>3. Init => Ladder!Init
  BY DEF Init, Ladder!Init, IsAuthorized
<1>4. TypeInv /\ LadderInv /\ OutcomeInv /\ EndsInv /\ [Next]_vars => [Ladder!Next]_(Ladder!vars)
  BY LadderRefined
<1> QED  BY <1>1, <1>2, <1>3, <1>4, PTL DEF Spec, WorkflowIsLadder, Ladder!Spec

=============================================================================
