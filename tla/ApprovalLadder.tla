--------------------------- MODULE ApprovalLadder ---------------------------
(***************************************************************************)
(* What the approval workflow promises about one order: the steps of an    *)
(* instance are granted from the first upwards, an instance authorizes     *)
(* only when all are granted and it was never rejected, an order that      *)
(* needs the workflow is confirmed only after a full climb, and the        *)
(* workflow cancels it only after a rejection.                             *)
(*                                                                         *)
(* WorkflowService and its listeners implement this with statements that   *)
(* lock nothing (module Approvals).                                        *)
(***************************************************************************)
EXTENDS Integers

CONSTANTS Calls, LastStep, Capped

VARIABLES
  order,       \* DRAFT, CONFIRMED or CANCELLED
  granted,     \* the steps of each instance that were approved
  authorized,  \* instances that are approved
  rejected     \* instances that were rejected

vars == <<order, granted, authorized, rejected>>

Climbed(i) == \A s \in 1 .. LastStep : <<i, s>> \in granted

Init == /\ order = "DRAFT"
        /\ granted = {} /\ authorized = {} /\ rejected = {}

Grant(i, s) ==
  /\ \A below \in 1 .. s - 1 : <<i, below>> \in granted
  /\ granted' = granted \cup {<<i, s>>}
  /\ UNCHANGED <<order, authorized, rejected>>

Authorize(i) ==
  /\ Climbed(i)
  /\ i \notin rejected
  /\ authorized' = authorized \cup {i}
  /\ UNCHANGED <<order, granted, rejected>>

\* A rejection stands, also against an approval given at the same time.
Reject(i) ==
  /\ rejected' = rejected \cup {i}
  /\ authorized' = authorized \ {i}
  /\ UNCHANGED <<order, granted>>

Confirm ==
  /\ Capped => \E i \in Calls : Climbed(i)
  /\ order' = "CONFIRMED"
  /\ UNCHANGED <<granted, authorized, rejected>>

Cancel ==
  /\ rejected # {}
  /\ order' = "CANCELLED"
  /\ UNCHANGED <<granted, authorized, rejected>>

Next == \/ \E i \in Calls : \/ \E s \in 1 .. LastStep : Grant(i, s)
                            \/ Authorize(i)
                            \/ Reject(i)
        \/ Confirm
        \/ Cancel

Spec == Init /\ [][Next]_vars

=============================================================================
