----------------------------- MODULE Approvals -----------------------------
(***************************************************************************)
(* The approval workflow of one purchase order: requestApproval, decide    *)
(* and the automatic chain of WorkflowService, the listeners that carry    *)
(* the outcome to the order, and approvePurchaseOrder, which asks          *)
(* ApprovalThresholdService whether the amount needs the workflow first.   *)
(*                                                                         *)
(* None of the handlers uses a transaction: every awaited statement is a   *)
(* step, and nothing is tested again when a row is written.  Events are    *)
(* published in the process, so that they die with it.                     *)
(***************************************************************************)
EXTENDS Integers, Sequences

CONSTANTS
  Calls,      \* the requests the API receives
  LastStep,   \* the number of steps of the workflow's definition
  AutoSteps,  \* steps whose autoApproveCondition the order meets
  Capped,     \* whether who approves orders directly needs the workflow first
  Deaths,     \* whether the process may die between two statements
  None        \* no row

Steps == 1 .. LastStep

ASSUME ConstantsAssumption ==
  /\ LastStep \in Nat \ {0}
  /\ AutoSteps \subseteq Steps
  /\ Capped \in BOOLEAN
  /\ Deaths \in BOOLEAN
  /\ None \notin Calls
  /\ None \notin [currentStep : Steps, isComplete : BOOLEAN, isCancelled : BOOLEAN]

VARIABLES
  instance,  \* workflow_instances of the order, by the call that inserted them
  approval,  \* workflow_approvals in the order of their ids
  order,     \* purchase_orders.status
  listener,  \* what the listener of the event that a call published has to do
  granted,   \* history: the steps of each instance that were ever approved
  died,      \* history: the process has died
  pc,        \* the next statement of each call
  local      \* what each call works on: [instance, row, decision]

vars == <<instance, approval, order, listener, granted, died, pc, local>>
workflow == <<instance, approval, granted, died>>

Instance == [currentStep : Steps, isComplete : BOOLEAN, isCancelled : BOOLEAN]
Approval == [instance : Calls, step : Steps, status : {"PENDING", "APPROVED", "REJECTED"}]
NoLocal == [instance |-> None, row |-> 0, decision |-> None]

Rows == 1 .. Len(approval)
Goto(c, step) == pc' = [pc EXCEPT ![c] = step]

Init == /\ instance = [i \in Calls |-> None]
        /\ approval = <<>>
        /\ order = "DRAFT"
        /\ listener = [c \in Calls |-> "none"]
        /\ granted = {}
        /\ died = FALSE
        /\ pc = [c \in Calls |-> "idle"]
        /\ local = [c \in Calls |-> NoLocal]

-----------------------------------------------------------------------------
(* requestApproval.                                                        *)

IsOpen(i) == /\ instance[i] # None
             /\ ~instance[i].isComplete
             /\ ~instance[i].isCancelled

IsAuthorized(i) == /\ instance[i] # None
                   /\ instance[i].isComplete
                   /\ ~instance[i].isCancelled

RequestApproval(c) ==
  /\ pc[c] = "idle"
  /\ Goto(c, "find")
  /\ UNCHANGED <<workflow, order, listener, local>>

FindOpen(c) ==
  /\ pc[c] = "find"
  /\ Goto(c, IF \E i \in Calls : IsOpen(i) THEN "done" ELSE "create")
  /\ UNCHANGED <<workflow, order, listener, local>>

\* Mutant: the instance starts at the last step.
LastFirst == LastStep
FirstStep == 1

CreateInstance(c) ==
  /\ pc[c] = "create"
  /\ instance' = [instance EXCEPT ![c] =
       [currentStep |-> 1, isComplete |-> FALSE, isCancelled |-> FALSE]]
  /\ approval' = Append(approval,
       [instance |-> c, step |-> FirstStep, status |-> "PENDING"])
  /\ local' = [local EXCEPT ![c].instance = c]
  /\ Goto(c, "chain")
  /\ UNCHANGED <<order, listener, granted, died>>

-----------------------------------------------------------------------------
(* decide, and what the automatic chain shares with it.                    *)

TakeUp(c, r, decision) == local' = [local EXCEPT ![c] =
  [instance |-> approval[r].instance, row |-> r, decision |-> decision]]

\* Only the status of the approval is tested, not that of its instance.
ReadApproval(c) ==
  /\ pc[c] = "idle"
  /\ \E r \in Rows, decision \in {"APPROVED", "REJECTED"} :
       /\ approval[r].status = "PENDING"
       /\ TakeUp(c, r, decision)
  /\ Goto(c, "decide")
  /\ UNCHANGED <<workflow, order, listener>>

\* Mutant: the last step is not told apart.
NoLastStep(c, s) == IF local[c].decision = "REJECTED" THEN "reject" ELSE "advance"
AfterDecision(c, s) ==
  IF local[c].decision = "REJECTED" THEN "reject"
  ELSE IF s < LastStep THEN "advance" ELSE "complete"

\* UPDATE by id: whatever the row's status has become.
WriteDecision(c) ==
  LET r == local[c].row
  IN  /\ pc[c] = "decide"
      /\ approval' = [approval EXCEPT ![r].status = local[c].decision]
      /\ granted' = IF local[c].decision = "APPROVED"
                      THEN granted \cup {<<local[c].instance, approval[r].step>>}
                      ELSE granted
      /\ Goto(c, AfterDecision(c, approval[r].step))
      /\ UNCHANGED <<instance, order, listener, died, local>>

Advance(c) ==
  LET next == approval[local[c].row].step + 1
  IN  /\ pc[c] = "advance"
      /\ instance' = [instance EXCEPT ![local[c].instance].currentStep = next]
      /\ approval' = Append(approval,
           [instance |-> local[c].instance, step |-> next, status |-> "PENDING"])
      /\ Goto(c, "chain")
      /\ UNCHANGED <<order, listener, granted, died, local>>

RejectInstance(c) ==
  /\ pc[c] = "reject"
  /\ instance' = [instance EXCEPT ![local[c].instance] =
       [@ EXCEPT !.isComplete = TRUE, !.isCancelled = TRUE]]
  /\ Goto(c, "publishRejected")
  /\ UNCHANGED <<approval, order, listener, granted, died, local>>

CompleteInstance(c) ==
  /\ pc[c] = "complete"
  /\ instance' = [instance EXCEPT ![local[c].instance].isComplete = TRUE]
  /\ Goto(c, "publishComplete")
  /\ UNCHANGED <<approval, order, listener, granted, died, local>>

\* Mutant: the chain completes an instance and publishes nothing.
Silent(c, outcome) == "none"
Event(c, outcome) == outcome

\* After the notification or the read that precedes it, the event is published.
Publish(c) ==
  /\ \/ pc[c] = "publishRejected" /\ listener' = [listener EXCEPT ![c] = "rejected"]
     \/ pc[c] = "publishComplete"
          /\ listener' = [listener EXCEPT ![c] = Event(c, "approved")]
  /\ Goto(c, "done")
  /\ UNCHANGED <<workflow, order, local>>

-----------------------------------------------------------------------------
(* tryAutoApproveChain, which goes on after the response.                  *)

\* findFirst: any pending approval of the instance.
ReadPending(c) ==
  LET pending == {r \in Rows : /\ approval[r].instance = local[c].instance
                               /\ approval[r].status = "PENDING"}
  IN  /\ pc[c] = "chain"
      /\ \/ /\ pending = {}
            /\ Goto(c, "done")
            /\ UNCHANGED local
         \/ \E r \in pending :
              IF approval[r].step \in AutoSteps
                THEN /\ TakeUp(c, r, "APPROVED")
                     /\ Goto(c, "decide")
                ELSE Goto(c, "done") /\ UNCHANGED local
      /\ UNCHANGED <<workflow, order, listener>>

-----------------------------------------------------------------------------
(* approvePurchaseOrder with ApprovalThresholdService.exigir.              *)

\* Mutant: a complete instance authorizes, also when it was rejected.
AnyComplete(i) == instance[i] # None /\ instance[i].isComplete
Authorizes(i) == IsAuthorized(i)

ApproveOrder(c) ==
  /\ pc[c] = "idle"
  /\ Goto(c, IF Capped => \E i \in Calls : Authorizes(i) THEN "confirm" ELSE "readOpen")
  /\ UNCHANGED <<workflow, order, listener, local>>

\* Without an open request it asks for one; either way the call answers 409.
ReadOpen(c) ==
  /\ pc[c] = "readOpen"
  /\ Goto(c, IF \E i \in Calls : IsOpen(i) THEN "done" ELSE "find")
  /\ UNCHANGED <<workflow, order, listener, local>>

\* UPDATE by id: whatever the order's status is.
ConfirmOrder(c) ==
  /\ pc[c] = "confirm"
  /\ order' = "CONFIRMED"
  /\ Goto(c, "done")
  /\ UNCHANGED <<workflow, listener, local>>

-----------------------------------------------------------------------------
(* The listeners of the order: onPurchaseOrderWorkflowApproved, -Rejected. *)

Heard(c, what) == listener' = [listener EXCEPT ![c] = what]

ConfirmFromWorkflow(c) ==
  /\ listener[c] = "approved"
  /\ order' = IF order = "DRAFT" THEN "CONFIRMED" ELSE order
  /\ Heard(c, "none")
  /\ UNCHANGED <<workflow, pc, local>>

ReadForCancel(c) ==
  /\ listener[c] = "rejected"
  /\ Heard(c, IF order = "DRAFT" THEN "cancel" ELSE "none")
  /\ UNCHANGED <<workflow, order, pc, local>>

CancelOrder(c) ==
  /\ listener[c] = "cancel"
  /\ order' = "CANCELLED"
  /\ Heard(c, "none")
  /\ UNCHANGED <<workflow, pc, local>>

-----------------------------------------------------------------------------
Running(c) == pc[c] \notin {"idle", "done"} \/ listener[c] # "none"

\* The process dies with the handlers and the events it holds.
Die ==
  /\ Deaths
  /\ \E c \in Calls : Running(c)
  /\ pc' = [c \in Calls |-> IF pc[c] = "idle" THEN "idle" ELSE "done"]
  /\ listener' = [c \in Calls |-> "none"]
  /\ died' = TRUE
  /\ UNCHANGED <<instance, approval, granted, order, local>>

Quiescent == (\A c \in Calls : ~Running(c)) /\ UNCHANGED vars

Step(c) ==
  \/ FindOpen(c)
  \/ CreateInstance(c)
  \/ WriteDecision(c)
  \/ Advance(c)
  \/ RejectInstance(c)
  \/ CompleteInstance(c)
  \/ Publish(c)
  \/ ReadPending(c)
  \/ ReadOpen(c)
  \/ ConfirmOrder(c)

Listen(c) ==
  \/ ConfirmFromWorkflow(c)
  \/ ReadForCancel(c)
  \/ CancelOrder(c)

Next ==
  \/ \E c \in Calls :
       \/ RequestApproval(c)
       \/ ReadApproval(c)
       \/ ApproveOrder(c)
       \/ Step(c)
       \/ Listen(c)
  \/ Die
  \/ Quiescent

Spec == Init /\ [][Next]_vars

\* A process that does not die runs its handlers and its listeners on.
Fairness == \A c \in Calls : WF_vars(Step(c)) /\ WF_vars(Listen(c))

FairSpec == Spec /\ Fairness

-----------------------------------------------------------------------------
(* Properties.                                                             *)

\* Every step of instance i was approved at some time.
Climbed(i) == \A s \in Steps : <<i, s>> \in granted

\* The tables hold values of their types, and rows belong to instances.
TypeOK ==
  /\ instance \in [Calls -> Instance \cup {None}]
  /\ approval \in Seq(Approval)
  /\ order \in {"DRAFT", "CONFIRMED", "CANCELLED"}
  /\ listener \in [Calls -> {"none", "approved", "rejected", "cancel"}]
  /\ granted \in SUBSET (Calls \X Steps)
  /\ died \in BOOLEAN
  /\ pc \in [Calls -> {"idle", "find", "create", "chain", "decide", "advance",
                       "reject", "complete", "publishRejected",
                       "publishComplete", "readOpen", "confirm", "done"}]
  /\ local \in [Calls -> [instance : Calls \cup {None}, row : Nat,
                          decision : {"APPROVED", "REJECTED", None}]]
  /\ \A r \in Rows : instance[approval[r].instance] # None

\* An approval is asked for a step only after the step before it was approved,
\* however deciders and the automatic chain overlap (decide's next step).
StepsInOrder ==
  \A r \in Rows : \A s \in 1 .. approval[r].step - 1 :
    <<approval[r].instance, s>> \in granted

\* Where the amount needs the workflow, the order is confirmed only after an
\* instance had every one of its steps approved (exigir and the listener).
ConfirmedOnlyAfterAllSteps ==
  Capped /\ order = "CONFIRMED" => \E i \in Calls : Climbed(i)

\* An instance that ends, approved or rejected, reaches the order, which does
\* not stay a draft unless the process died with the event (the completion and
\* rejection listeners).
OutcomeReachesOrder ==
  \A i \in Calls :
    (instance[i] # None /\ instance[i].isComplete) ~> (order # "DRAFT" \/ died)

\* The workflow as ApprovalLadder sees it: outcomes without rows and events.
Ladder == INSTANCE ApprovalLadder WITH
  authorized <- {i \in Calls : IsAuthorized(i)},
  rejected   <- {i \in Calls : instance[i] # None /\ instance[i].isCancelled}

\* However deciders, chains, direct approvals and listeners overlap and die:
\* steps are granted in order, only a full climb that nobody rejected authorizes,
\* only a full climb confirms an order that needs it, and only a rejection lets
\* the workflow cancel it (decide, exigir and the listeners together).
WorkflowIsLadder == Ladder!Spec

=============================================================================
