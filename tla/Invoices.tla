------------------------------ MODULE Invoices ------------------------------
(***************************************************************************)
(* One customer invoice paid in instalments (PPD) and its fiscal receipts: *)
(* stampInvoice, updateInvoiceDraft, deleteInvoice, registerPayment,       *)
(* stampPaymentComplement, cancelInvoice and createCreditNote of           *)
(* AccountingService, and the emission of FacturamaAdapter.                *)
(*                                                                         *)
(* Requests interleave statement by statement.  Only registerPayment locks *)
(* the row; stampInvoice claims it with a conditional UPDATE; the others   *)
(* read it, decide and write by id.  The provider (PAC) is outside: it may *)
(* refuse, issue a receipt (CFDI) and answer, issue it and never answer,   *)
(* or answer without its UUID.  A request it does not answer is either     *)
(* processed before the adapter gives up or never.  A receipt is named     *)
(* after the call that had it issued, a payment after the call that made   *)
(* it.  A request that is refused when it arrives changes nothing and is   *)
(* left out.  Periods are open and the receipts' data are valid.           *)
(***************************************************************************)
EXTENDS Integers, FiniteSets, Functions

CONSTANTS
  MaxCalls,    \* how many requests the API receives
  Totals,      \* totals an invoice may have
  Amounts,     \* amounts that are paid
  MaxRunning,  \* how many requests run at the same time
  Deaths,      \* whether the process may die between two statements
  None,        \* SQL NULL
  Blank        \* the empty string

Calls == 1 .. MaxCalls   \* numbered as they arrive
ForInvoice == 0          \* the serie and folio of the invoice; others are of payments

Statuses == {"DRAFT", "STAMPING", "SENT", "PARTIALLY_PAID", "PAID", "CREDITED", "CANCELLED"}

ASSUME ConstantsAssumption ==
  /\ MaxCalls \in Nat
  /\ Totals \subseteq Nat
  /\ Amounts \subseteq Nat \ {0}
  /\ MaxRunning \in Nat \ {0}
  /\ Deaths \in BOOLEAN
  /\ None \notin Nat \cup {Blank}
  /\ Blank \notin Nat

VARIABLES
  invoice,   \* the row: [status, total, paid, uuid, cancelled, deleted]
  lock,      \* the call that holds the row's lock (SELECT ... FOR UPDATE)
  payment,   \* payments: [amount, banked, uuid], amount 0 before they exist
  bank,      \* balance of the bank account
  notes,     \* the calls that created a credit note
  cfdi,      \* receipts the provider issued: [key, total, number, active]
  alone,     \* history: no two requests ran at once, none died and the
             \* provider answered all it was asked
  pc,        \* the next statement of each call
  local      \* what each call has read: [read, amount, banked, cfdi, uuid]

vars == <<invoice, lock, payment, bank, notes, cfdi, alone, pc, local>>
tables == <<invoice, lock, payment, bank, notes, cfdi>>

NoPayment == [amount |-> 0, banked |-> FALSE, uuid |-> None]
NoCfdi == [key |-> None, total |-> 0, number |-> 0, active |-> FALSE]
Draft(t) == [status |-> "DRAFT", total |-> t, paid |-> 0, uuid |-> None,
             cancelled |-> FALSE, deleted |-> FALSE]
NoLocal == [read |-> None, amount |-> 0, banked |-> FALSE,
            cfdi |-> NoCfdi, uuid |-> None]

Ended == {"done", "unanswered", "dead"}
Running == {c \in Calls : pc[c] \notin {"idle"} \cup Ended}
Starts(c) == /\ pc[c] = "idle"
             /\ \A d \in 1 .. c - 1 : pc[d] # "idle"
             /\ Cardinality(Running) < MaxRunning
Goto(c, step) == pc' = [pc EXCEPT ![c] = step]
End(c, how) == Goto(c, how) /\ local' = [local EXCEPT ![c] = NoLocal]
Stamped(i) == i.uuid # None
Paid == {p \in Calls : payment[p].amount > 0}
AmountOf(p) == payment[p].amount

Init == /\ \E t \in Totals : invoice = Draft(t)
        /\ lock = None
        /\ payment = [c \in Calls |-> NoPayment]
        /\ bank = 0
        /\ notes = {}
        /\ cfdi = [c \in Calls |-> NoCfdi]
        /\ alone = TRUE
        /\ pc = [c \in Calls |-> "idle"]
        /\ local = [c \in Calls |-> NoLocal]

\* A statement that writes the row waits for the transaction that locked it.
WriteInvoice(row) == lock = None /\ invoice' = row

-----------------------------------------------------------------------------
(* FacturamaAdapter.emitir: look the serie and folio up, post, look again. *)

\* The adapter throws: stampInvoice returns the invoice to DRAFT.
Fail(c) == IF local[c].cfdi.key = ForInvoice
             THEN Goto(c, "revert") /\ UNCHANGED local
             ELSE End(c, "done")
Answer(c, uuid) == /\ Goto(c, IF local[c].cfdi.key = ForInvoice THEN "persist" ELSE "record")
                   /\ local' = [local EXCEPT ![c] = [@ EXCEPT !.uuid = uuid]]

\* Mutant: the look-up does not compare serie and folio.
FoundAny(c) == {d \in Calls : cfdi[d].active}
Found(c) == {d \in Calls : cfdi[d].active /\ cfdi[d].key = local[c].cfdi.key}
\* One with another total stops the emission.
Reuse(c, d) == IF cfdi[d].total = local[c].cfdi.total THEN Answer(c, d) ELSE Fail(c)

Search(c) ==
  /\ pc[c] = "search"
  /\ \/ Fail(c)
     \/ \E d \in Found(c) : Reuse(c, d)
     \/ Found(c) = {} /\ Goto(c, "post") /\ UNCHANGED local
  /\ UNCHANGED tables

Issue(c) == cfdi' = [cfdi EXCEPT ![c] = local[c].cfdi]
NoAnswer(c) == Goto(c, "recover") /\ UNCHANGED local
\* stampInvoice leaves the invoice in STAMPING; a complement stores the blank.
NoUuid(c) == IF local[c].cfdi.key = ForInvoice
               THEN End(c, "unanswered")
               ELSE Answer(c, Blank)

Post(c) ==
  /\ pc[c] = "post"
  /\ \/ Issue(c) /\ (Answer(c, c) \/ NoAnswer(c) \/ NoUuid(c))
     \/ UNCHANGED cfdi /\ (Fail(c) \/ NoAnswer(c))
  /\ UNCHANGED <<invoice, lock, payment, bank, notes>>

Recover(c) ==
  /\ pc[c] = "recover"
  /\ Fail(c) \/ \E d \in Found(c) : Reuse(c, d)
  /\ UNCHANGED tables

-----------------------------------------------------------------------------
(* stampInvoice.                                                           *)

ReadForStamp(c) ==
  /\ Starts(c)
  /\ ~invoice.deleted /\ ~invoice.cancelled /\ ~Stamped(invoice) /\ invoice.status = "DRAFT"
  /\ local' = [local EXCEPT ![c] = [@ EXCEPT !.read = invoice]]
  /\ Goto(c, "claim")
  /\ UNCHANGED tables

\* Mutant: the invoice is set to STAMPING by id, on the strength of the read.
ClaimById == TRUE
Claimable == invoice.status = "DRAFT" /\ ~Stamped(invoice) /\ ~invoice.cancelled

ClaimStamp(c) ==
  /\ pc[c] = "claim"
  /\ IF Claimable
       THEN /\ WriteInvoice([invoice EXCEPT !.status = "STAMPING"])
            /\ local' = [local EXCEPT ![c] = [@ EXCEPT !.cfdi =
                 [key |-> ForInvoice, total |-> local[c].read.total, number |-> 0,
                  active |-> TRUE]]]
            /\ Goto(c, "search")
       ELSE lock = None /\ End(c, "done") /\ UNCHANGED invoice
  /\ UNCHANGED <<lock, payment, bank, notes, cfdi>>

Stamping == invoice.status = "STAMPING" /\ ~Stamped(invoice)

\* Mutant: an emission that fails leaves the invoice as it is.
NoRevert == UNCHANGED invoice
Reverted == WriteInvoice(IF Stamping THEN [invoice EXCEPT !.status = "DRAFT"] ELSE invoice)

RevertStamp(c) ==
  /\ pc[c] = "revert"
  /\ Reverted
  /\ End(c, "done")
  /\ UNCHANGED <<lock, payment, bank, notes, cfdi>>

PersistStamp(c) ==
  /\ pc[c] = "persist"
  /\ WriteInvoice(IF Stamping
                    THEN [invoice EXCEPT !.status = "SENT", !.uuid = local[c].uuid]
                    ELSE invoice)
  /\ End(c, "done")
  /\ UNCHANGED <<lock, payment, bank, notes, cfdi>>

-----------------------------------------------------------------------------
(* updateInvoiceDraft and deleteInvoice.                                   *)

\* Mutant: any invoice that is not deleted may be edited.
EditAny == ~invoice.deleted
CanEdit == ~invoice.deleted /\ invoice.status = "DRAFT" /\ ~Stamped(invoice)

ReadForEdit(c) ==
  /\ Starts(c)
  /\ CanEdit
  /\ \E t \in Totals : local' = [local EXCEPT ![c] = [@ EXCEPT !.amount = t]]
  /\ Goto(c, "edit")
  /\ UNCHANGED tables

WriteEdit(c) ==
  /\ pc[c] = "edit"
  /\ WriteInvoice([invoice EXCEPT !.total = local[c].amount])
  /\ End(c, "done")
  /\ UNCHANGED <<lock, payment, bank, notes, cfdi>>

CanDelete == /\ ~invoice.deleted
             /\ Paid = {}
             /\ invoice.cancelled \/ invoice.status = "DRAFT"

ReadForDelete(c) ==
  /\ Starts(c)
  /\ CanDelete
  /\ Goto(c, "delete")
  /\ UNCHANGED <<tables, local>>

WriteDelete(c) ==
  /\ pc[c] = "delete"
  /\ WriteInvoice([invoice EXCEPT !.deleted = TRUE])
  /\ End(c, "done")
  /\ UNCHANGED <<lock, payment, bank, notes, cfdi>>

-----------------------------------------------------------------------------
(* registerPayment: one transaction, then the complement.                  *)

LockForPayment(c) ==
  /\ Starts(c)
  /\ lock = None
  /\ lock' = c
  /\ \E amount \in Amounts, banked \in BOOLEAN :
       local' = [local EXCEPT ![c] = [@ EXCEPT !.read = invoice, !.amount = amount,
                                               !.banked = banked]]
  /\ Goto(c, "pay")
  /\ UNCHANGED <<invoice, payment, bank, notes, cfdi>>

Release(c) == lock' = IF lock = c THEN None ELSE lock

\* Mutant: the paid amount is that of the last payment.
LastAmount(l) == l.amount
NewPaid(l) == l.read.paid + l.amount

Rejects(l) == l.read.cancelled \/ l.read.deleted \/ l.read.paid + l.amount > l.read.total

\* The status is not tested: a draft may be paid.
CommitPayment(c) ==
  LET l == local[c] IN
  /\ pc[c] = "pay"
  /\ lock \in {c, None}
  /\ Release(c)
  /\ IF Rejects(l) \/ invoice.paid # l.read.paid
       THEN End(c, "done") /\ UNCHANGED <<invoice, payment, bank>>
       ELSE /\ payment' = [payment EXCEPT ![c] =
                 [amount |-> l.amount, banked |-> l.banked, uuid |-> None]]
            /\ invoice' = [invoice EXCEPT
                 !.paid = NewPaid(l),
                 !.status = IF NewPaid(l) >= l.read.total THEN "PAID" ELSE "PARTIALLY_PAID"]
            /\ bank' = IF l.banked THEN bank + l.amount ELSE bank
            /\ IF Stamped(l.read)
                 THEN Goto(c, "complement") /\ UNCHANGED local
                 ELSE End(c, "done")
  /\ UNCHANGED <<notes, cfdi>>

-----------------------------------------------------------------------------
(* stampPaymentComplement, by itself or at the end of registerPayment.     *)

\* Mutant: every other payment counts as a previous instalment.
OtherPayments(p) == Paid \ {p}
PreviousPayments(p) == {q \in Paid \ {p} : payment[q].uuid \in Calls}

PreviousBalance(p) ==
  invoice.total - SumFunction([q \in PreviousPayments(p) |-> AmountOf(q)])

\* Neither the invoice's cancellation nor its deletion is tested.
CanComplement(p) == /\ payment[p].uuid \notin Calls
                    /\ Stamped(invoice)
                    /\ AmountOf(p) <= PreviousBalance(p)

PrepareComplement(c, p) ==
  /\ local' = [local EXCEPT ![c] = [NoLocal EXCEPT
       !.cfdi = [key |-> p, total |-> AmountOf(p), active |-> TRUE,
                 number |-> Cardinality(PreviousPayments(p)) + 1]]]
  /\ Goto(c, "search")

ReadForComplement(c) ==
  /\ Starts(c)
  /\ \E p \in Paid : CanComplement(p) /\ PrepareComplement(c, p)
  /\ UNCHANGED tables

ComplementPayment(c) ==
  /\ pc[c] = "complement"
  /\ IF CanComplement(c) THEN PrepareComplement(c, c) ELSE End(c, "done")
  /\ UNCHANGED tables

\* cfdiPaymentUuid is still null, and it is unique.
Recordable(c, p) == /\ payment[p].uuid = None
                    /\ \A q \in Paid : payment[q].uuid # local[c].uuid

RecordComplement(c) ==
  LET p == local[c].cfdi.key IN
  /\ pc[c] = "record"
  /\ payment' = IF Recordable(c, p)
                  THEN [payment EXCEPT ![p] = [@ EXCEPT !.uuid = local[c].uuid]]
                  ELSE payment
  /\ End(c, "done")
  /\ UNCHANGED <<invoice, lock, bank, notes, cfdi>>

-----------------------------------------------------------------------------
(* cancelInvoice.                                                          *)

ReadForCancel(c) ==
  /\ Starts(c)
  /\ ~invoice.deleted /\ ~invoice.cancelled /\ Stamped(invoice)
  /\ local' = [local EXCEPT ![c] = [@ EXCEPT !.uuid = invoice.uuid]]
  /\ Goto(c, "annul")
  /\ UNCHANGED tables

Annul(c) == cfdi' = [cfdi EXCEPT ![local[c].uuid] = [@ EXCEPT !.active = FALSE]]

\* The provider annuls and answers; annuls and its answer is lost (or the
\* customer accepts after the request was reported pending); or refuses.
PacCancel(c) ==
  /\ pc[c] = "annul"
  /\ \/ Annul(c) /\ Goto(c, "cancel") /\ UNCHANGED local
     \/ Annul(c) /\ End(c, "unanswered")
     \/ UNCHANGED cfdi /\ End(c, "done")
  /\ UNCHANGED <<invoice, lock, payment, bank, notes>>

WriteCancel(c) ==
  /\ pc[c] = "cancel"
  /\ WriteInvoice([invoice EXCEPT !.cancelled = TRUE, !.status = "CANCELLED"])
  /\ End(c, "done")
  /\ UNCHANGED <<lock, payment, bank, notes, cfdi>>

-----------------------------------------------------------------------------
(* createCreditNote.                                                       *)

ReadForCredit(c) ==
  /\ Starts(c)
  /\ ~invoice.deleted /\ ~invoice.cancelled /\ Stamped(invoice)
  /\ Goto(c, "credit")
  /\ UNCHANGED <<tables, local>>

CreateNote(c) ==
  /\ pc[c] = "credit"
  /\ notes' = notes \cup {c}
  /\ Goto(c, "mark")
  /\ UNCHANGED <<invoice, lock, payment, bank, cfdi, local>>

MarkCredited(c) ==
  /\ pc[c] = "mark"
  /\ WriteInvoice([invoice EXCEPT !.status = "CREDITED"])
  /\ End(c, "done")
  /\ UNCHANGED <<lock, payment, bank, notes, cfdi>>

-----------------------------------------------------------------------------
\* The process dies, or its connection does; its transaction rolls back.
Die(c) == /\ Deaths
          /\ c \in Running
          /\ Release(c)
          /\ End(c, "dead")
          /\ alone' = FALSE
          /\ UNCHANGED <<invoice, payment, bank, notes, cfdi>>

Quiescent == Running = {} /\ UNCHANGED vars

Begin(c) ==
  \/ ReadForStamp(c)
  \/ ReadForEdit(c)
  \/ ReadForDelete(c)
  \/ LockForPayment(c)
  \/ ReadForComplement(c)
  \/ ReadForCancel(c)
  \/ ReadForCredit(c)

Continue(c) ==
  \/ ClaimStamp(c)
  \/ Search(c)
  \/ Post(c)
  \/ Recover(c)
  \/ RevertStamp(c)
  \/ PersistStamp(c)
  \/ WriteEdit(c)
  \/ WriteDelete(c)
  \/ CommitPayment(c)
  \/ ComplementPayment(c)
  \/ RecordComplement(c)
  \/ PacCancel(c)
  \/ WriteCancel(c)
  \/ CreateNote(c)
  \/ MarkCredited(c)

Faulty == {"recover", "unanswered", "dead"}
Step(c) == /\ Begin(c) \/ Continue(c)
           /\ alone' = (alone /\ Running \subseteq {c}
                              /\ \A d \in Calls : /\ pc'[d] \notin Faulty
                                                 /\ local'[d].uuid # Blank)

Next == (\E c \in Calls : Step(c) \/ Die(c)) \/ Quiescent

Spec == Init /\ [][Next]_vars

\* A request that has begun goes on: the statements, the provider's answer or
\* the adapter's timeout come.  Nobody has to begin a request.
Fairness == \A c \in Calls : WF_vars(Step(c) /\ pc[c] # "idle")

FairSpec == Spec /\ Fairness

-----------------------------------------------------------------------------
(* Properties.                                                             *)

Row == [status : Statuses, total : Nat, paid : Nat, uuid : Calls \cup {None},
        cancelled : BOOLEAN, deleted : BOOLEAN]
Payments == [amount : Nat, banked : BOOLEAN, uuid : Calls \cup {None, Blank}]
Receipts == [key : Calls \cup {ForInvoice, None}, total : Nat, number : Nat, active : BOOLEAN]
Locals == [read : Row \cup {None}, amount : Nat, banked : BOOLEAN, 
           cfdi : Receipts, uuid : Calls \cup {None, Blank}]
Steps == {"idle", "claim", "search", "post", "recover", "revert", "persist", "edit", "delete",
          "pay", "complement", "record", "annul", "cancel", "credit", "mark"}

\* The tables and the handlers' locals hold values of their types, and an
\* invoice that carries a UUID is not a draft again.
TypeOK ==
  /\ invoice \in Row
  /\ lock \in Calls \cup {None}
  /\ payment \in [Calls -> Payments]
  /\ bank \in Nat
  /\ notes \subseteq Calls
  /\ cfdi \in [Calls -> Receipts]
  /\ alone \in BOOLEAN
  /\ pc \in [Calls -> Steps \cup Ended]
  /\ local \in [Calls -> Locals]
  /\ Stamped(invoice) => invoice.status \notin {"DRAFT", "STAMPING"}

Issued(key) == {d \in Calls : cfdi[d].key = key}
Active(key) == {d \in Issued(key) : cfdi[d].active}

\* However requests overlap, fail, die and are retried, the tax authority never
\* holds two receipts in force for the invoice: stampInvoice's claim and the
\* look-up of emitir ("antes de timbrar se vuelve a buscar ese folio, asi que
\* no se duplica") cover each other.
OneReceiptInForce == Cardinality(Active(ForInvoice)) <= 1

AmountBanked(p) == IF payment[p].banked THEN AmountOf(p) ELSE 0

\* What the invoice has been paid, and what the bank account received, is the
\* sum of its payments (registerPayment's transaction).
PaidIsPayments ==
  /\ invoice.paid = SumFunction([p \in Calls |-> AmountOf(p)])
  /\ bank = SumFunction([p \in Calls |-> AmountBanked(p)])

\* Money is only taken for an invoice that is neither cancelled nor deleted at
\* that moment, and never above its total (registerPayment's lock).
MoneyOnlyOnLiveInvoice ==
  [][invoice'.paid # invoice.paid =>
       ~invoice.cancelled /\ ~invoice.deleted /\ invoice'.paid <= invoice.total]_vars

\* A receipt for the invoice is the one it records, for its total, and is
\* annulled exactly if the invoice is cancelled.
InvoiceAgrees ==
  /\ \A d \in Issued(ForInvoice) :
       /\ invoice.uuid = d
       /\ cfdi[d].total = invoice.total
       /\ cfdi[d].active = ~invoice.cancelled
  /\ invoice.cancelled => invoice.status = "CANCELLED"
  /\ Stamped(invoice) /\ invoice.deleted => invoice.cancelled

\* Complements number the instalments 1, 2, 3 ... without gap or repetition,
\* and each is recorded by its payment.
ComplementsInOrder ==
  LET Complements == {d \in Calls : cfdi[d].key \in Calls}
  IN  /\ {cfdi[d].number : d \in Complements} = 1 .. Cardinality(Complements)
      /\ \A d \in Complements : payment[cfdi[d].key].uuid = d

\* Where requests did not overlap, none died and the provider answered, books
\* and tax authority agree whenever nothing runs (updateInvoiceDraft,
\* stampInvoice, cancelInvoice and deleteInvoice for the invoice's receipt;
\* partialityNumber and previousBalance of stampPaymentComplement).
ReceiptsAgree == alone /\ Running = {} => InvoiceAgrees /\ ComplementsInOrder

\* STAMPING ends: the call that claimed the invoice stamps it or returns it to
\* DRAFT, unless it died or the provider gave it no UUID (stampInvoice).
StampingEnds ==
  invoice.status = "STAMPING" ~>
    \/ invoice.status # "STAMPING"
    \/ \E c \in Calls : pc[c] \in {"unanswered", "dead"}

\* A payment has one complement in force (the adapter's "asi que no se duplica").
OneComplementInForce == \A p \in Calls : Cardinality(Active(p)) <= 1

\* What the books record about receipts was issued for it: the invoice's UUID is
\* of a receipt for the invoice, a payment's of a complement of that payment, and
\* an invoice is cancelled only after its receipt was annulled, whatever
\* overlaps, fails or is retried (emitir's look-up by serie and folio;
\* stampPaymentComplement; cancelInvoice).
RecordsAreIssued ==
  /\ Stamped(invoice) => cfdi[invoice.uuid].key = ForInvoice
  /\ \A p \in Paid : payment[p].uuid \in Calls => cfdi[payment[p].uuid].key = p
  /\ invoice.cancelled => Stamped(invoice) /\ ~cfdi[invoice.uuid].active

=============================================================================
