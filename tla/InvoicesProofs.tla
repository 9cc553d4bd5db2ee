--------------------------- MODULE InvoicesProofs ---------------------------
(***************************************************************************)
(* Invariants of Invoices, proved for any number of requests, any totals   *)
(* and amounts, and every behaviour of the provider: no two receipts are   *)
(* in force for the invoice, money is only taken for a live invoice, what  *)
(* is paid is the sum of the payments, and where nothing overlapped or     *)
(* failed the books agree with the receipts.                               *)
(***************************************************************************)
EXTENDS Invoices, SumProofs

\* The tables of TypeOK.
Tables ==
  /\ invoice \in Row
  /\ lock \in Calls \cup {None}
  /\ payment \in [Calls -> Payments]
  /\ bank \in Nat
  /\ notes \subseteq Calls
  /\ cfdi \in [Calls -> Receipts]
  /\ Stamped(invoice) => invoice.status \notin {"DRAFT", "STAMPING"}

\* What call c holds and has read in l when it has come to a step.
Known(c, step, l) ==
  /\ step = "claim" => l.read \in Row
  /\ step = "pay" => lock = c /\ l.read = invoice
  /\ step \in {"search", "post", "recover", "record"} =>
       l.cfdi.key \in Calls \cup {ForInvoice}
  /\ step = "persist" => l.uuid \in Calls /\ l.cfdi.key = ForInvoice
  /\ step = "revert" => l.cfdi.key = ForInvoice
  /\ step = "record" => l.cfdi.key \in Calls /\ l.uuid \in Calls \cup {Blank}
  /\ step = "annul" => l.uuid \in Calls
Reads == \A c \in Calls : Known(c, pc[c], local[c])

\* The calls that have claimed the invoice and not let it go yet.
Stamps(step, l) == /\ step \in {"search", "post", "recover", "persist", "revert"}
                   /\ l.cfdi.key = ForInvoice
Stampers == {c \in Calls : Stamps(pc[c], local[c])}

\* One call stamps the invoice at a time, and it asks for a receipt only while
\* there is none.
OneStamper ==
  /\ \A c, d \in Stampers : c = d
  /\ Stampers # {} => invoice.status # "DRAFT"
  /\ \A c \in Stampers : pc[c] = "post" => Active(ForInvoice) = {}
  /\ \A d, e \in Active(ForInvoice) : d = e

\* The inductive invariant.
Inv == /\ Tables
       /\ alone \in BOOLEAN
       /\ pc \in [Calls -> Steps \cup Ended]
       /\ local \in [Calls -> Locals]
       /\ Reads
       /\ OneStamper

LEMMA Values ==
  /\ None \notin Calls
  /\ None # Blank
  /\ ForInvoice \notin Calls
  /\ None # ForInvoice
  /\ NoLocal \in Locals
  BY ConstantsAssumption DEF Calls, ForInvoice, NoLocal, Locals, NoCfdi, Receipts

\* The initial state.
LEMMA InitInv == Init => Inv
<1> SUFFICES ASSUME Init
             PROVE  Inv
  OBVIOUS
<1>1. PICK t \in Totals : invoice = Draft(t)
  BY DEF Init
<1>2. invoice \in Row /\ ~Stamped(invoice)
  BY <1>1, ConstantsAssumption DEF Draft, Row, Stamped, Statuses
<1>3. Tables
  BY <1>2, Values DEF Init, Tables, NoPayment, Payments, NoCfdi, Receipts
<1>4. Reads /\ Stampers = {}
  BY DEF Init, Reads, Known, Stampers, Stamps
<1>5. Active(ForInvoice) = {}
  BY DEF Init, Active, Issued, NoCfdi
<1>6. OneStamper
  BY <1>4, <1>5 DEF OneStamper
<1>7. pc \in [Calls -> Steps \cup Ended] /\ local \in [Calls -> Locals] /\ alone \in BOOLEAN
  BY Values DEF Init, Steps
<1> QED  BY <1>3, <1>4, <1>6, <1>7 DEF Inv

-----------------------------------------------------------------------------
(* A step of one call c that brings it to a step with l.                   *)

LEMMA CallStep ==
  ASSUME NEW c \in Calls, Inv, NEW step \in Steps \cup Ended, NEW l \in Locals,
         pc' = [pc EXCEPT ![c] = step],
         local' = [local EXCEPT ![c] = l],
         alone' \in BOOLEAN,
         Tables',
         Known(c, step, l)',
         invoice' = invoice \/ lock \in {None, c},
         lock' = lock \/ lock \in {None, c},
         \/ ~Stamps(step, l)
         \/ Stamps(pc[c], local[c]) /\ invoice'.status = invoice.status
         \/ invoice.status = "DRAFT" /\ invoice'.status # "DRAFT",
         \/ invoice'.status # "DRAFT"
         \/ invoice.status = "DRAFT"
         \/ Stamps(pc[c], local[c]) /\ ~Stamps(step, l),
         Stamps(step, l) /\ step = "post" => Active(ForInvoice)' = {},
         \/ Active(ForInvoice)' \subseteq Active(ForInvoice)
         \/ /\ Stamps(pc[c], local[c]) /\ pc[c] = "post"
            /\ Active(ForInvoice)' \subseteq {c}
  PROVE  Inv'
<1>1. /\ pc'[c] = step
      /\ local'[c] = l
      /\ \A d \in Calls \ {c} : pc'[d] = pc[d] /\ local'[d] = local[d]
  BY DEF Inv
<1>2. pc' \in [Calls -> Steps \cup Ended] /\ local' \in [Calls -> Locals]
  BY DEF Inv
<1>3. Reads'
  <2>1. Known(c, pc[c], local[c])'
    BY <1>1 DEF Known
  <2>2. ASSUME NEW d \in Calls \ {c}
        PROVE  Known(d, pc[d], local[d])'
    <3>1. Known(d, pc[d], local[d])
      BY DEF Inv, Reads
    <3>2. pc[d] = "pay" => lock' = d /\ invoice' = invoice
      BY <3>1, Values DEF Known
    <3> QED  BY <1>1, <3>1, <3>2 DEF Known
  <2> QED  BY <2>1, <2>2 DEF Reads
<1>4. Stampers' = (Stampers \ {c}) \cup (IF Stamps(step, l) THEN {c} ELSE {})
  <2>1. \A d \in Calls \ {c} : Stamps(pc[d], local[d])' <=> Stamps(pc[d], local[d])
    BY <1>1 DEF Stamps
  <2>2. Stamps(pc[c], local[c])' <=> Stamps(step, l)
    BY <1>1 DEF Stamps
  <2> QED  BY <2>1, <2>2 DEF Stampers
<1>5. c \in Stampers <=> Stamps(pc[c], local[c])
  BY DEF Stampers
<1>6. OneStamper
  BY DEF Inv
<1>7. \A d, e \in Stampers' : d = e
  BY <1>4, <1>5, <1>6 DEF OneStamper
<1>8. Stampers' # {} => invoice'.status # "DRAFT"
  <2>1. CASE Stamps(step, l)
    BY <1>4, <1>5, <1>6, <2>1 DEF OneStamper
  <2>2. CASE ~Stamps(step, l) /\ Stamps(pc[c], local[c])
    <3>1. Stampers' = {}
      BY <1>4, <1>5, <1>6, <2>2 DEF OneStamper
    <3> QED  BY <3>1
  <2>3. CASE ~Stamps(step, l) /\ ~Stamps(pc[c], local[c])
    <3>1. Stampers' = Stampers
      BY <1>4, <1>5, <2>3
    <3> QED  BY <1>6, <2>3, <3>1 DEF OneStamper
  <2> QED  BY <2>1, <2>2, <2>3
<1>9. \A d \in Stampers' : pc'[d] = "post" => Active(ForInvoice)' = {}
  <2> SUFFICES ASSUME NEW d \in Stampers', pc'[d] = "post"
               PROVE  Active(ForInvoice)' = {}
    OBVIOUS
  <2>1. CASE d = c
    BY <1>1, <1>4, <2>1
  <2>2. CASE d # c
    <3>1. d \in Stampers /\ pc[d] = "post"
      BY <1>1, <1>4, <2>2 DEF Stampers
    <3>2. ~Stamps(pc[c], local[c])
      BY <1>5, <1>6, <2>2, <3>1 DEF OneStamper
    <3> QED  BY <1>6, <3>1, <3>2 DEF OneStamper
  <2> QED  BY <2>1, <2>2
<1>10. \A d, e \in Active(ForInvoice)' : d = e
  BY <1>6 DEF OneStamper
<1> QED  BY <1>2, <1>3, <1>7, <1>8, <1>9, <1>10 DEF Inv, OneStamper

\* A step that issues and annuls no receipt and does not stamp.
LEMMA QuietStep ==
  ASSUME NEW c \in Calls, Inv, NEW step \in Steps \cup Ended, NEW l \in Locals,
         pc' = [pc EXCEPT ![c] = step],
         local' = [local EXCEPT ![c] = l],
         alone' \in BOOLEAN,
         Tables',
         Known(c, step, l)',
         invoice' = invoice \/ lock \in {None, c},
         lock' = lock \/ lock \in {None, c},
         ~Stamps(step, l),
         invoice'.status # "DRAFT" \/ invoice.status = "DRAFT",
         UNCHANGED cfdi
  PROVE  Inv'
<1>1. Active(ForInvoice)' = Active(ForInvoice)
  BY DEF Active, Issued
<1> QED  BY <1>1, CallStep

-----------------------------------------------------------------------------
(* The provider.                                                           *)

\* The adapter throws while a call asks for a receipt.
LEMMA Throws ==
  ASSUME NEW c \in Calls, Inv, pc[c] \in {"search", "post", "recover"}, Fail(c)
  PROVE  \E step \in {"revert", "done"}, l \in Locals :
           /\ pc' = [pc EXCEPT ![c] = step] /\ local' = [local EXCEPT ![c] = l]
           /\ step = "revert" => l.cfdi.key = ForInvoice /\ Stamps(pc[c], local[c])
<1>1. local[c] \in Locals /\ local = [local EXCEPT ![c] = local[c]]
  BY DEF Inv
<1>2. CASE local[c].cfdi.key = ForInvoice
  <2>1. pc' = [pc EXCEPT ![c] = "revert"] /\ local' = [local EXCEPT ![c] = local[c]]
    BY <1>1, <1>2 DEF Fail, Goto
  <2> QED  BY <1>1, <1>2, <2>1 DEF Stamps
<1>3. CASE local[c].cfdi.key # ForInvoice
  <2>1. pc' = [pc EXCEPT ![c] = "done"] /\ local' = [local EXCEPT ![c] = NoLocal]
    BY <1>3 DEF Fail, Goto, End
  <2> QED  BY <2>1, Values
<1> QED  BY <1>2, <1>3

\* It returns a UUID.
LEMMA Answers ==
  ASSUME NEW c \in Calls, Inv, pc[c] \in {"search", "post", "recover"},
         NEW uuid \in Calls \cup {Blank}, Answer(c, uuid)
  PROVE  \E step \in {"persist", "record"}, l \in Locals :
           /\ pc' = [pc EXCEPT ![c] = step] /\ local' = [local EXCEPT ![c] = l]
           /\ l.uuid = uuid
           /\ l.cfdi = local[c].cfdi
           /\ step = "persist" <=> l.cfdi.key = ForInvoice
<1> DEFINE l == [local[c] EXCEPT !.uuid = uuid]
           step == IF local[c].cfdi.key = ForInvoice THEN "persist" ELSE "record"
<1>1. local[c] \in Locals
  BY DEF Inv
<1>2. l \in Locals /\ l.uuid = uuid /\ l.cfdi = local[c].cfdi
  BY <1>1 DEF Locals
<1>3. pc' = [pc EXCEPT ![c] = step] /\ local' = [local EXCEPT ![c] = l]
  BY DEF Answer, Goto
<1>4. step \in {"persist", "record"} /\ (step = "persist" <=> local[c].cfdi.key = ForInvoice)
  OBVIOUS
<1> HIDE DEF l, step
<1> QED  BY <1>2, <1>3, <1>4

\* It asks for a receipt of the invoice or of a payment.
LEMMA Asks ==
  ASSUME NEW c \in Calls, Inv, pc[c] \in {"search", "post", "recover"}
  PROVE  local[c] \in Locals /\ local[c].cfdi.key \in Calls \cup {ForInvoice}
  BY DEF Inv, Reads, Known

\* The look-up before and the one after the request.
LEMMA LookUpStep ==
  ASSUME NEW c \in Calls, Inv, alone' \in BOOLEAN, Search(c) \/ Recover(c)
  PROVE  Inv'
<1>1. /\ pc[c] \in {"search", "post", "recover"}
      /\ UNCHANGED <<invoice, lock, payment, bank, notes, cfdi>>
  BY DEF Search, Recover, tables
<1>2. Tables' /\ invoice' = invoice /\ lock' = lock
  BY <1>1 DEF Inv, Tables, Stamped
<1>3. Active(ForInvoice)' = Active(ForInvoice)
  BY <1>1 DEF Active, Issued
<1>4. CASE Fail(c)
  <2>1. PICK step \in {"revert", "done"}, l \in Locals :
          /\ pc' = [pc EXCEPT ![c] = step] /\ local' = [local EXCEPT ![c] = l]
          /\ step = "revert" => l.cfdi.key = ForInvoice /\ Stamps(pc[c], local[c])
    BY <1>1, <1>4, Throws
  <2>2. Known(c, step, l)'
    BY <2>1 DEF Known
  <2>3. step \in Steps \cup Ended /\ (Stamps(step, l) => Stamps(pc[c], local[c]))
    BY <2>1 DEF Steps, Ended, Stamps
  <2>4. ~(step = "post") /\ (invoice.status = "DRAFT" \/ invoice'.status # "DRAFT")
    BY <1>2
  <2> QED  BY <1>2, <1>3, <2>1, <2>2, <2>3, <2>4, CallStep
<1>5. CASE \E d \in Found(c) : Answer(c, d)
  <2>1. PICK d \in Found(c) : Answer(c, d)
    BY <1>5
  <2>2. d \in Calls /\ d # Blank
    BY <2>1, ConstantsAssumption DEF Found, Calls
  <2>3. PICK step \in {"persist", "record"}, l \in Locals :
          /\ pc' = [pc EXCEPT ![c] = step] /\ local' = [local EXCEPT ![c] = l]
          /\ l.uuid = d
          /\ l.cfdi = local[c].cfdi
          /\ step = "persist" <=> l.cfdi.key = ForInvoice
    BY <1>1, <2>1, <2>2, Answers
  <2>4. local[c].cfdi.key \in Calls \cup {ForInvoice}
    BY <1>1, Asks
  <2>5. Known(c, step, l)'
    BY <2>2, <2>3, <2>4 DEF Known
  <2>6. step \in Steps \cup Ended /\ (Stamps(step, l) => Stamps(pc[c], local[c]))
    BY <1>1, <2>3 DEF Steps, Stamps
  <2>7. step # "post" /\ (invoice.status = "DRAFT" \/ invoice'.status # "DRAFT")
    BY <1>2, <2>3
  <2> QED  BY <1>2, <1>3, <2>3, <2>5, <2>6, <2>7, CallStep
<1>6. CASE pc[c] = "search" /\ Found(c) = {} /\ Goto(c, "post") /\ UNCHANGED local
  <2>1. pc' = [pc EXCEPT ![c] = "post"] /\ local' = [local EXCEPT ![c] = local[c]]
    BY <1>6 DEF Goto, Inv
  <2>2. local[c] \in Locals /\ local[c].cfdi.key \in Calls \cup {ForInvoice}
    BY <1>1, Asks
  <2>3. Known(c, "post", local[c])
    BY <2>2 DEF Known
  <2>4. Stamps("post", local[c]) => Stamps(pc[c], local[c])
    BY <1>6 DEF Stamps
  <2>5. Stamps("post", local[c]) => Active(ForInvoice)' = {}
    <3>1. Stamps("post", local[c]) => Active(ForInvoice) \subseteq Found(c)
      BY DEF Stamps, Active, Issued, Found
    <3> QED  BY <1>3, <1>6, <3>1
  <2>6. PICK l \in Locals : l = local[c]
    BY <2>2
  <2>7. Known(c, "post", l)'
    BY <2>2, <2>6 DEF Known
  <2>8. /\ "post" \in Steps \cup Ended
        /\ local' = [local EXCEPT ![c] = l]
        /\ Stamps("post", l) => Stamps(pc[c], local[c]) /\ Active(ForInvoice)' = {}
        /\ invoice.status = "DRAFT" \/ invoice'.status # "DRAFT"
    BY <1>2, <2>1, <2>4, <2>5, <2>6 DEF Steps
  <2> QED  BY <1>2, <1>3, <2>1, <2>7, <2>8, CallStep
<1>7. (\E d \in Found(c) : Reuse(c, d)) => Fail(c) \/ \E d \in Found(c) : Answer(c, d)
  BY DEF Reuse
<1> QED  BY <1>4, <1>5, <1>6, <1>7 DEF Search, Recover

\* The request itself.
LEMMA PostStep ==
  ASSUME NEW c \in Calls, Inv, alone' \in BOOLEAN, Post(c)
  PROVE  Inv'
<1>1. /\ pc[c] = "post"
      /\ UNCHANGED <<invoice, lock, payment, bank, notes>>
      /\ Issue(c) \/ UNCHANGED cfdi
  BY DEF Post
<1>2. /\ local[c] \in Locals
      /\ local[c].cfdi \in Receipts
      /\ local[c].cfdi.key \in Calls \cup {ForInvoice}
  BY <1>1, Asks DEF Locals
<1>3. Tables' /\ invoice' = invoice /\ lock' = lock
  <2>1. cfdi' \in [Calls -> Receipts]
    BY <1>1, <1>2 DEF Issue, Inv, Tables
  <2> QED  BY <1>1, <2>1 DEF Inv, Tables, Stamped
<1>4. \/ Active(ForInvoice)' \subseteq Active(ForInvoice)
      \/ Stamps(pc[c], local[c]) /\ Active(ForInvoice)' \subseteq {c}
  <2>1. CASE UNCHANGED cfdi
    BY <2>1 DEF Active, Issued
  <2>2. CASE Issue(c) /\ local[c].cfdi.key # ForInvoice
    <3>1. \A d \in Calls \ {c} : cfdi'[d] = cfdi[d]
      BY <2>2 DEF Issue, Inv, Tables
    <3>2. cfdi'[c].key # ForInvoice
      BY <2>2 DEF Issue, Inv, Tables
    <3> QED  BY <3>1, <3>2 DEF Active, Issued
  <2>3. CASE Issue(c) /\ local[c].cfdi.key = ForInvoice
    <3>1. \A d \in Calls \ {c} : cfdi'[d] = cfdi[d]
      BY <2>3 DEF Issue, Inv, Tables
    <3>2. Stamps(pc[c], local[c])
      BY <1>1, <2>3 DEF Stamps
    <3>3. Active(ForInvoice) = {}
      BY <1>1, <3>2 DEF Stampers, Inv, OneStamper
    <3>4. Active(ForInvoice)' \subseteq {c}
      BY <3>1, <3>3 DEF Active, Issued
    <3> QED  BY <3>2, <3>4
  <2> QED  BY <1>1, <2>1, <2>2, <2>3
<1>5. invoice.status = "DRAFT" \/ invoice'.status # "DRAFT"
  BY <1>3
<1>6. CASE Fail(c)
  <2>1. PICK step \in {"revert", "done"}, l \in Locals :
          /\ pc' = [pc EXCEPT ![c] = step] /\ local' = [local EXCEPT ![c] = l]
          /\ step = "revert" => l.cfdi.key = ForInvoice /\ Stamps(pc[c], local[c])
    BY <1>1, <1>6, Throws
  <2>2. Known(c, step, l)'
    BY <2>1 DEF Known
  <2>3. /\ step \in Steps \cup Ended
        /\ Stamps(step, l) => Stamps(pc[c], local[c])
        /\ step # "post"
    BY <2>1 DEF Steps, Ended, Stamps
  <2> QED  BY <1>1, <1>3, <1>4, <1>5, <2>1, <2>2, <2>3, CallStep
<1>7. CASE \E uuid \in Calls \cup {Blank} :
             Answer(c, uuid) /\ (uuid = Blank => local[c].cfdi.key # ForInvoice)
  <2>1. PICK uuid \in Calls \cup {Blank} :
             Answer(c, uuid) /\ (uuid = Blank => local[c].cfdi.key # ForInvoice)
    BY <1>7
  <2>2. PICK step \in {"persist", "record"}, l \in Locals :
          /\ pc' = [pc EXCEPT ![c] = step] /\ local' = [local EXCEPT ![c] = l]
          /\ l.uuid = uuid
          /\ l.cfdi = local[c].cfdi
          /\ step = "persist" <=> l.cfdi.key = ForInvoice
    BY <1>1, <2>1, Answers
  <2>3. Known(c, step, l)'
    BY <1>2, <2>1, <2>2 DEF Known
  <2>4. /\ step \in Steps \cup Ended
        /\ Stamps(step, l) => Stamps(pc[c], local[c])
        /\ step # "post"
    BY <1>1, <2>2 DEF Steps, Stamps
  <2> QED  BY <1>1, <1>3, <1>4, <1>5, <2>2, <2>3, <2>4, CallStep
<1>8. CASE NoAnswer(c)
  <2>1. pc' = [pc EXCEPT ![c] = "recover"] /\ local' = [local EXCEPT ![c] = local[c]]
    BY <1>8 DEF NoAnswer, Goto, Inv
  <2>2. PICK l \in Locals : l = local[c]
    BY <1>2
  <2>3. Known(c, "recover", l)'
    BY <1>2, <2>2 DEF Known
  <2>4. /\ "recover" \in Steps \cup Ended
        /\ local' = [local EXCEPT ![c] = l]
        /\ Stamps("recover", l) => Stamps(pc[c], local[c])
    BY <1>1, <2>1, <2>2 DEF Steps, Stamps
  <2> QED  BY <1>1, <1>3, <1>4, <1>5, <2>1, <2>3, <2>4, CallStep
<1>9. CASE End(c, "unanswered")
  <2>1. pc' = [pc EXCEPT ![c] = "unanswered"] /\ local' = [local EXCEPT ![c] = NoLocal]
    BY <1>9 DEF End, Goto
  <2>2. /\ Known(c, "unanswered", NoLocal)'
        /\ "unanswered" \in Steps \cup Ended
        /\ ~Stamps("unanswered", NoLocal)
    BY DEF Known, Ended, Stamps
  <2> QED  BY <1>1, <1>3, <1>4, <1>5, <2>1, <2>2, Values, CallStep
<1>10. NoUuid(c) => \/ End(c, "unanswered")
                    \/ Answer(c, Blank) /\ local[c].cfdi.key # ForInvoice
  BY DEF NoUuid
<1>11. c \in Calls /\ c # Blank
  BY ConstantsAssumption DEF Calls
<1> QED  BY <1>6, <1>7, <1>8, <1>9, <1>10, <1>11 DEF Post

-----------------------------------------------------------------------------
(* The requests that begin.                                                *)

\* A complement asks for the receipt of a payment.
LEMMA PrepareStep ==
  ASSUME NEW c \in Calls, Inv, alone' \in BOOLEAN, NEW p \in Calls, PrepareComplement(c, p),
         UNCHANGED <<invoice, lock, payment, bank, notes, cfdi>>
  PROVE  Inv'
<1> DEFINE number == Cardinality(PreviousPayments(p)) + 1
           asked == [key |-> p, total |-> AmountOf(p), active |-> TRUE, number |-> number]
<1>1. number \in Nat
  <2>1. IsFiniteSet(Calls)
    BY FS_Interval, ConstantsAssumption DEF Calls
  <2>2. PreviousPayments(p) \subseteq Calls
    BY DEF PreviousPayments, Paid
  <2>3. Cardinality(PreviousPayments(p)) \in Nat
    BY <2>1, <2>2, FS_Subset, FS_CardinalityType
  <2> QED  BY <2>3
<1>2. asked \in Receipts /\ asked.key = p
  <2>1. AmountOf(p) \in Nat
    BY DEF AmountOf, Payments, Inv, Tables
  <2> HIDE DEF number
  <2> QED  BY <1>1, <2>1 DEF Receipts
<1>3. pc' = [pc EXCEPT ![c] = "search"] /\ local' = [local EXCEPT ![c] = [NoLocal EXCEPT !.cfdi = asked]]
  BY DEF PrepareComplement, Goto
<1> HIDE DEF asked
<1> DEFINE l == [NoLocal EXCEPT !.cfdi = asked]
<1>4. PICK m \in Locals : m = l /\ m.cfdi.key = p
  <2>1. l.cfdi = asked
    BY DEF NoLocal
  <2>2. l \in Locals
    BY <1>2, Values DEF Locals
  <2> HIDE DEF l
  <2> QED  BY <1>2, <2>1, <2>2
<1>5. local' = [local EXCEPT ![c] = m]
  BY <1>3, <1>4
<1>6. Known(c, "search", m)' /\ "search" \in Steps \cup Ended /\ ~Stamps("search", m)
  BY <1>4, Values DEF Known, Steps, Stamps
<1>7. Tables' /\ (invoice'.status # "DRAFT" \/ invoice.status = "DRAFT")
  BY DEF Inv, Tables, Stamped
<1> QED  BY <1>3, <1>5, <1>6, <1>7, QuietStep

LEMMA BeginStep ==
  ASSUME NEW c \in Calls, Inv, alone' \in BOOLEAN, Begin(c)
  PROVE  Inv' /\ UNCHANGED invoice
<1>1. local[c] \in Locals /\ local = [local EXCEPT ![c] = local[c]]
  BY DEF Inv
<1>2. ASSUME UNCHANGED <<invoice, lock, payment, bank, notes, cfdi>>
      PROVE  /\ Tables'
             /\ invoice' = invoice /\ lock' = lock
             /\ invoice'.status # "DRAFT" \/ invoice.status = "DRAFT"
  BY <1>2 DEF Inv, Tables, Stamped
<1>3. CASE ReadForStamp(c)
  <2> DEFINE l == [local[c] EXCEPT !.read = invoice]
  <2>1. /\ pc' = [pc EXCEPT ![c] = "claim"]
        /\ local' = [local EXCEPT ![c] = l]
        /\ UNCHANGED <<invoice, lock, payment, bank, notes, cfdi>>
    BY <1>3 DEF ReadForStamp, Goto, tables
  <2>2. invoice \in Row
    BY DEF Inv, Tables
  <2>3. PICK m \in Locals : m = l /\ m.read \in Row
    <3>1. l \in Locals /\ l.read \in Row
      BY <1>1, <2>2 DEF Locals
    <3> HIDE DEF l
    <3> QED  BY <3>1
  <2>4. Known(c, "claim", m)' /\ "claim" \in Steps \cup Ended /\ ~Stamps("claim", m)
    BY <2>3 DEF Known, Steps, Stamps
  <2> QED  BY <1>2, <2>1, <2>3, <2>4, QuietStep
<1>4. CASE ReadForEdit(c)
  <2>1. PICK t \in Totals : local' = [local EXCEPT ![c] = [local[c] EXCEPT !.amount = t]]
    BY <1>4 DEF ReadForEdit
  <2>2. /\ pc' = [pc EXCEPT ![c] = "edit"]
        /\ UNCHANGED <<invoice, lock, payment, bank, notes, cfdi>>
    BY <1>4 DEF ReadForEdit, Goto, tables
  <2>3. PICK m \in Locals : m = [local[c] EXCEPT !.amount = t]
    BY <1>1, ConstantsAssumption DEF Locals
  <2>4. Known(c, "edit", m)' /\ "edit" \in Steps \cup Ended /\ ~Stamps("edit", m)
    BY DEF Known, Steps, Stamps
  <2>5. local' = [local EXCEPT ![c] = m]
    BY <2>1, <2>3
  <2> QED  BY <1>2, <2>2, <2>4, <2>5, QuietStep
<1>5. CASE ReadForDelete(c) \/ ReadForCredit(c)
  <2>1. PICK step \in {"delete", "credit"} : pc' = [pc EXCEPT ![c] = step]
    BY <1>5 DEF ReadForDelete, ReadForCredit, Goto
  <2>2. /\ local' = [local EXCEPT ![c] = local[c]]
        /\ UNCHANGED <<invoice, lock, payment, bank, notes, cfdi>>
    BY <1>1, <1>5 DEF ReadForDelete, ReadForCredit, tables
  <2>3. PICK m \in Locals : m = local[c]
    BY <1>1
  <2>4. Known(c, step, m)' /\ step \in Steps \cup Ended /\ ~Stamps(step, m)
    BY <2>1 DEF Known, Steps, Stamps
  <2>5. local' = [local EXCEPT ![c] = m]
    BY <2>2, <2>3
  <2> QED  BY <1>2, <2>1, <2>2, <2>4, <2>5, QuietStep
<1>6. CASE LockForPayment(c)
  <2>1. /\ lock = None
        /\ lock' = c
        /\ pc' = [pc EXCEPT ![c] = "pay"]
        /\ UNCHANGED <<invoice, payment, bank, notes, cfdi>>
    BY <1>6 DEF LockForPayment, Goto
  <2>2. PICK amount \in Amounts, banked \in BOOLEAN :
          local' = [local EXCEPT ![c] = [local[c] EXCEPT !.read = invoice, !.amount = amount,
                                                         !.banked = banked]]
    BY <1>6 DEF LockForPayment
  <2>3. invoice \in Row /\ amount \in Nat
    BY ConstantsAssumption DEF Inv, Tables
  <2> DEFINE l == [local[c] EXCEPT !.read = invoice, !.amount = amount, !.banked = banked]
  <2>4. PICK m \in Locals : m = l /\ m.read = invoice
    <3>1. l.read = invoice
      BY <1>1 DEF Locals
    <3>2. l \in Locals
      BY <1>1, <2>3 DEF Locals
    <3> HIDE DEF l
    <3> QED  BY <3>1, <3>2
  <2>5. local' = [local EXCEPT ![c] = m]
    BY <2>2, <2>4
  <2>6. Known(c, "pay", m)' /\ "pay" \in Steps \cup Ended /\ ~Stamps("pay", m)
    BY <2>1, <2>4 DEF Known, Steps, Stamps
  <2>7. Tables' /\ (invoice'.status # "DRAFT" \/ invoice.status = "DRAFT")
    BY <2>1 DEF Inv, Tables, Stamped
  <2> QED  BY <2>1, <2>5, <2>6, <2>7, QuietStep
<1>7. CASE ReadForComplement(c)
  <2>1. PICK p \in Paid : PrepareComplement(c, p)
    BY <1>7 DEF ReadForComplement
  <2> QED  BY <1>2, <1>7, <2>1, PrepareStep DEF ReadForComplement, Paid, tables
<1>8. CASE ReadForCancel(c)
  <2> DEFINE l == [local[c] EXCEPT !.uuid = invoice.uuid]
  <2>1. /\ pc' = [pc EXCEPT ![c] = "annul"]
        /\ local' = [local EXCEPT ![c] = l]
        /\ UNCHANGED <<invoice, lock, payment, bank, notes, cfdi>>
    BY <1>8 DEF ReadForCancel, Goto, tables
  <2>2. invoice.uuid \in Calls
    BY <1>8 DEF ReadForCancel, Stamped, Row, Inv, Tables
  <2>3. PICK m \in Locals : m = l /\ m.uuid \in Calls
    <3>1. l \in Locals /\ l.uuid \in Calls
      BY <1>1, <2>2 DEF Locals
    <3> HIDE DEF l
    <3> QED  BY <3>1
  <2>4. Known(c, "annul", m)' /\ "annul" \in Steps \cup Ended /\ ~Stamps("annul", m)
    BY <2>3 DEF Known, Steps, Stamps
  <2> QED  BY <1>2, <2>1, <2>3, <2>4, QuietStep
<1> QED  BY <1>3, <1>4, <1>5, <1>6, <1>7, <1>8 DEF Begin

-----------------------------------------------------------------------------
(* The requests that go on.                                                *)

\* A call that ends.
LEMMA EndStep ==
  ASSUME NEW c \in Calls, Inv, alone' \in BOOLEAN, NEW how \in Ended, End(c, how),
         Tables', UNCHANGED cfdi,
         invoice' = invoice \/ lock \in {None, c},
         lock' = lock \/ lock \in {None, c},
         \/ invoice'.status # "DRAFT" \/ invoice.status = "DRAFT" \/ Stamps(pc[c], local[c])
  PROVE  Inv'
<1>1. pc' = [pc EXCEPT ![c] = how] /\ local' = [local EXCEPT ![c] = NoLocal]
  BY DEF End, Goto
<1>2. Known(c, how, NoLocal)' /\ how \in Steps \cup Ended /\ ~Stamps(how, NoLocal) /\ how # "post"
  BY DEF Known, Ended, Stamps
<1>3. Active(ForInvoice)' = Active(ForInvoice)
  BY DEF Active, Issued
<1> QED  BY <1>1, <1>2, <1>3, Values, CallStep

LEMMA ClaimStep ==
  ASSUME NEW c \in Calls, Inv, alone' \in BOOLEAN, ClaimStamp(c)
  PROVE  Inv' /\ invoice'.paid = invoice.paid
<1>1. /\ pc[c] = "claim"
      /\ lock = None
      /\ UNCHANGED <<lock, payment, bank, notes, cfdi>>
      /\ local[c] \in Locals
      /\ local[c].read \in Row
      /\ invoice \in Row
  BY DEF ClaimStamp, WriteInvoice, Inv, Tables, Reads, Known
<1>2. CASE Claimable
  <2> DEFINE asked == [key |-> ForInvoice, total |-> local[c].read.total, number |-> 0,
                       active |-> TRUE]
             l == [local[c] EXCEPT !.cfdi = asked]
  <2>1. /\ invoice' = [invoice EXCEPT !.status = "STAMPING"]
        /\ local' = [local EXCEPT ![c] = l]
        /\ pc' = [pc EXCEPT ![c] = "search"]
        /\ invoice.status = "DRAFT"
        /\ ~Stamped(invoice)
    BY <1>2 DEF ClaimStamp, Claimable, WriteInvoice, Goto
  <2>2. asked \in Receipts /\ asked.key = ForInvoice
    BY <1>1 DEF Receipts, Row
  <2>3. PICK m \in Locals : m = l /\ m.cfdi.key = ForInvoice
    <3> HIDE DEF asked
    <3>1. l \in Locals /\ l.cfdi.key = ForInvoice
      BY <1>1, <2>2 DEF Locals
    <3> HIDE DEF l
    <3> QED  BY <3>1
  <2>4. invoice' \in Row /\ invoice'.status = "STAMPING" /\ ~Stamped(invoice)'
        /\ invoice'.paid = invoice.paid
    BY <1>1, <2>1 DEF Row, Statuses, Stamped
  <2>5. Tables'
    BY <1>1, <2>4 DEF Inv, Tables
  <2>6. Known(c, "search", m)' /\ "search" \in Steps \cup Ended
    BY <2>3 DEF Known, Steps
  <2>7. Active(ForInvoice)' = Active(ForInvoice)
    BY <1>1 DEF Active, Issued
  <2>8. local' = [local EXCEPT ![c] = m]
    BY <2>1, <2>3
  <2> QED  BY <1>1, <2>1, <2>4, <2>5, <2>6, <2>7, <2>8, CallStep
<1>3. CASE ~Claimable
  <2>1. End(c, "done") /\ invoice' = invoice
    BY <1>3 DEF ClaimStamp
  <2>2. Tables' /\ (invoice'.status # "DRAFT" \/ invoice.status = "DRAFT")
    BY <1>1, <2>1 DEF Inv, Tables, Stamped
  <2> QED  BY <1>1, <2>1, <2>2, EndStep DEF Ended
<1> QED  BY <1>2, <1>3

\* What writes the row and ends.
LEMMA WriteStep ==
  ASSUME NEW c \in Calls, Inv, alone' \in BOOLEAN,
         \/ RevertStamp(c) \/ PersistStamp(c) \/ WriteEdit(c) \/ WriteDelete(c)
         \/ WriteCancel(c) \/ MarkCredited(c)
  PROVE  Inv' /\ invoice'.paid = invoice.paid
<1>1. /\ lock = None
      /\ UNCHANGED <<lock, payment, bank, notes, cfdi>>
      /\ End(c, "done")
      /\ local[c] \in Locals
      /\ Known(c, pc[c], local[c])
      /\ invoice \in Row
      /\ Stamped(invoice) => invoice.status \notin {"DRAFT", "STAMPING"}
  BY DEF RevertStamp, PersistStamp, WriteEdit, WriteDelete, WriteCancel, MarkCredited,
         Reverted, WriteInvoice, Inv, Tables, Reads
<1>2. /\ invoice' \in Row
      /\ Stamped(invoice)' => invoice'.status \notin {"DRAFT", "STAMPING"}
      /\ invoice'.status # "DRAFT" \/ invoice.status = "DRAFT" \/ Stamps(pc[c], local[c])
      /\ invoice'.paid = invoice.paid
  <2>1. CASE RevertStamp(c)
    <3>1. pc[c] = "revert" /\ Stamps(pc[c], local[c])
      BY <1>1, <2>1 DEF RevertStamp, Known, Stamps
    <3>2. CASE Stamping
      <4>1. invoice' = [invoice EXCEPT !.status = "DRAFT"] /\ ~Stamped(invoice)
        BY <2>1, <3>2 DEF RevertStamp, Reverted, WriteInvoice, Stamping
      <4> QED  BY <1>1, <3>1, <4>1 DEF Row, Statuses, Stamped
    <3>3. CASE ~Stamping
      <4>1. invoice' = invoice
        BY <2>1, <3>3 DEF RevertStamp, Reverted, WriteInvoice
      <4> QED  BY <1>1, <3>1, <4>1 DEF Stamped
    <3> QED  BY <3>2, <3>3
  <2>2. CASE PersistStamp(c)
    <3>1. CASE Stamping
      <4>1. invoice' = [invoice EXCEPT !.status = "SENT", !.uuid = local[c].uuid]
        BY <2>2, <3>1 DEF PersistStamp, WriteInvoice
      <4>2. local[c].uuid \in Calls
        BY <1>1, <2>2 DEF PersistStamp, Known
      <4> QED  BY <1>1, <4>1, <4>2 DEF Row, Statuses
    <3>2. CASE ~Stamping
      <4>1. invoice' = invoice
        BY <2>2, <3>2 DEF PersistStamp, WriteInvoice
      <4> QED  BY <1>1, <4>1 DEF Stamped
    <3> QED  BY <3>1, <3>2
  <2>3. CASE WriteEdit(c)
    <3>1. invoice' = [invoice EXCEPT !.total = local[c].amount]
      BY <2>3 DEF WriteEdit, WriteInvoice
    <3>2. local[c].amount \in Nat
      BY <1>1 DEF Locals
    <3> QED  BY <1>1, <3>1, <3>2 DEF Row, Stamped
  <2>4. CASE WriteDelete(c)
    <3>1. invoice' = [invoice EXCEPT !.deleted = TRUE]
      BY <2>4 DEF WriteDelete, WriteInvoice
    <3> QED  BY <1>1, <3>1 DEF Row, Stamped
  <2>5. CASE WriteCancel(c)
    <3>1. invoice' = [invoice EXCEPT !.cancelled = TRUE, !.status = "CANCELLED"]
      BY <2>5 DEF WriteCancel, WriteInvoice
    <3> QED  BY <1>1, <3>1 DEF Row, Statuses
  <2>6. CASE MarkCredited(c)
    <3>1. invoice' = [invoice EXCEPT !.status = "CREDITED"]
      BY <2>6 DEF MarkCredited, WriteInvoice
    <3> QED  BY <1>1, <3>1 DEF Row, Statuses
  <2> QED  BY <2>1, <2>2, <2>3, <2>4, <2>5, <2>6
<1>3. Tables'
  BY <1>1, <1>2 DEF Inv, Tables
<1> QED  BY <1>1, <1>2, <1>3, EndStep DEF Ended

\* The payment, which holds the row's lock since it read the row.
LEMMA PaymentStep ==
  ASSUME NEW c \in Calls, Inv, alone' \in BOOLEAN, CommitPayment(c)
  PROVE  /\ Inv'
         /\ invoice'.paid # invoice.paid =>
              ~invoice.cancelled /\ ~invoice.deleted /\ invoice'.paid <= invoice.total
<1> DEFINE l == local[c]
<1>1. /\ pc[c] = "pay"
      /\ lock = c
      /\ lock' = None
      /\ l.read = invoice
      /\ l \in Locals
      /\ l.amount \in Nat
      /\ l.banked \in BOOLEAN
      /\ invoice \in Row
      /\ UNCHANGED <<notes, cfdi>>
  BY DEF CommitPayment, Release, Inv, Tables, Reads, Known, Locals
<1>2. CASE Rejects(l) \/ invoice.paid # l.read.paid
  <2>1. End(c, "done") /\ UNCHANGED <<invoice, payment, bank>>
    BY <1>2 DEF CommitPayment
  <2>2. Tables' /\ (invoice'.status # "DRAFT" \/ invoice.status = "DRAFT")
    BY <1>1, <2>1 DEF Inv, Tables, Stamped
  <2> QED  BY <1>1, <2>1, <2>2, EndStep DEF Ended
<1>3. CASE ~(Rejects(l) \/ invoice.paid # l.read.paid)
  <2> DEFINE status == IF NewPaid(l) >= l.read.total THEN "PAID" ELSE "PARTIALLY_PAID"
  <2>1. /\ payment' = [payment EXCEPT ![c] = [amount |-> l.amount, banked |-> l.banked,
                                              uuid |-> None]]
        /\ invoice' = [invoice EXCEPT !.paid = NewPaid(l), !.status = status]
        /\ bank' = IF l.banked THEN bank + l.amount ELSE bank
        /\ IF Stamped(l.read)
             THEN Goto(c, "complement") /\ UNCHANGED local
             ELSE End(c, "done")
    BY <1>3 DEF CommitPayment
  <2>2. /\ NewPaid(l) = invoice.paid + l.amount
        /\ NewPaid(l) \in Nat
        /\ ~invoice.cancelled
        /\ ~invoice.deleted
        /\ NewPaid(l) <= invoice.total
    <3>1. invoice.paid \in Nat /\ invoice.total \in Nat
      BY <1>1 DEF Row
    <3>2. ~invoice.cancelled /\ ~invoice.deleted /\ ~(invoice.paid + l.amount > invoice.total)
      BY <1>1, <1>3 DEF Rejects
    <3>3. NewPaid(l) = invoice.paid + l.amount
      BY <1>1 DEF NewPaid
    <3> HIDE DEF l
    <3> QED  BY <1>1, <3>1, <3>2, <3>3
  <2>3. status \in {"PAID", "PARTIALLY_PAID"}
    OBVIOUS
  <2>4. /\ invoice' \in Row
        /\ invoice'.status \in {"PAID", "PARTIALLY_PAID"}
        /\ invoice'.paid = NewPaid(l)
    <3> HIDE DEF status, l
    <3> QED  BY <1>1, <2>1, <2>2, <2>3 DEF Row, Statuses
  <2>5. payment' \in [Calls -> Payments]
    <3>1. [amount |-> l.amount, banked |-> l.banked, uuid |-> None] \in Payments
      BY <1>1 DEF Payments
    <3> QED  BY <2>1, <3>1 DEF Inv, Tables
  <2>6. bank' \in Nat
    <3> HIDE DEF l
    <3> QED  BY <1>1, <2>1 DEF Inv, Tables
  <2>7. Tables'
    BY <1>1, <2>4, <2>5, <2>6 DEF Inv, Tables
  <2>8. CASE Stamped(l.read)
    <3>1. pc' = [pc EXCEPT ![c] = "complement"] /\ local' = [local EXCEPT ![c] = local[c]]
      BY <2>1, <2>8 DEF Goto, Inv
    <3>2. PICK m \in Locals : m = local[c]
      BY <1>1
    <3>3. local' = [local EXCEPT ![c] = m]
      BY <3>1, <3>2
    <3>4. /\ Known(c, "complement", m)'
          /\ "complement" \in Steps \cup Ended
          /\ ~Stamps("complement", m)
      BY DEF Known, Steps, Stamps
    <3>5. Inv'
      BY <1>1, <2>4, <2>7, <3>1, <3>3, <3>4, QuietStep
    <3> QED  BY <2>2, <2>4, <3>5
  <2>9. CASE ~Stamped(l.read)
    <3>1. End(c, "done")
      BY <2>1, <2>9
    <3>2. Inv'
      BY <1>1, <2>4, <2>7, <3>1, EndStep DEF Ended
    <3> QED  BY <2>2, <2>4, <3>2
  <2> QED  BY <2>8, <2>9
<1> QED  BY <1>2, <1>3

\* The rest leaves the invoice alone.
LEMMA AsideStep ==
  ASSUME NEW c \in Calls, Inv, alone' \in BOOLEAN,
         ComplementPayment(c) \/ RecordComplement(c) \/ PacCancel(c) \/ CreateNote(c)
  PROVE  Inv' /\ UNCHANGED invoice
<1>1. /\ UNCHANGED <<invoice, lock>>
      /\ local[c] \in Locals
      /\ Known(c, pc[c], local[c])
  BY DEF ComplementPayment, RecordComplement, PacCancel, CreateNote, tables, Inv, Reads
<1>2. invoice'.status # "DRAFT" \/ invoice.status = "DRAFT"
  BY <1>1
<1>3. CASE ComplementPayment(c)
  <2>1. UNCHANGED <<invoice, lock, payment, bank, notes, cfdi>>
    BY <1>3 DEF ComplementPayment, tables
  <2>2. Tables'
    BY <2>1 DEF Inv, Tables, Stamped
  <2> QED  BY <1>1, <1>2, <1>3, <2>1, <2>2, PrepareStep, EndStep DEF ComplementPayment, Ended
<1>4. CASE RecordComplement(c)
  <2>1. /\ UNCHANGED <<invoice, lock, bank, notes, cfdi>>
        /\ End(c, "done")
        /\ pc[c] = "record"
        /\ \/ payment' = payment
           \/ payment' = [payment EXCEPT ![local[c].cfdi.key] =
                            [payment[local[c].cfdi.key] EXCEPT !.uuid = local[c].uuid]]
    BY <1>4 DEF RecordComplement
  <2>2. local[c].cfdi.key \in Calls /\ local[c].uuid \in Calls \cup {Blank}
    BY <1>1, <2>1 DEF Known
  <2>3. payment' \in [Calls -> Payments]
    <3>1. [payment[local[c].cfdi.key] EXCEPT !.uuid = local[c].uuid] \in Payments
      BY <2>2 DEF Inv, Tables, Payments
    <3> QED  BY <2>1, <3>1 DEF Inv, Tables
  <2>4. Tables'
    BY <2>1, <2>3 DEF Inv, Tables, Stamped
  <2> QED  BY <1>1, <1>2, <2>1, <2>4, EndStep DEF Ended
<1>5. CASE PacCancel(c)
  <2>1. /\ UNCHANGED <<invoice, lock, payment, bank, notes>>
        /\ pc[c] = "annul"
        /\ Annul(c) \/ UNCHANGED cfdi
    BY <1>5 DEF PacCancel
  <2>2. local[c].uuid \in Calls
    BY <1>1, <2>1 DEF Known
  <2>3. /\ cfdi' \in [Calls -> Receipts]
        /\ Active(ForInvoice)' \subseteq Active(ForInvoice)
    <3>1. CASE Annul(c)
      <4> DEFINE row == [cfdi[local[c].uuid] EXCEPT !.active = FALSE]
      <4>1. cfdi' = [cfdi EXCEPT ![local[c].uuid] = row] /\ cfdi \in [Calls -> Receipts]
        BY <3>1 DEF Annul, Inv, Tables
      <4>2. row \in Receipts /\ ~row.active
        BY <2>2, <4>1 DEF Receipts
      <4> HIDE DEF row
      <4>3. cfdi' \in [Calls -> Receipts]
        BY <4>1, <4>2
      <4>4. \A d \in Calls : cfdi'[d] = cfdi[d] \/ ~cfdi'[d].active
        BY <4>1, <4>2
      <4> QED  BY <4>3, <4>4 DEF Active, Issued
    <3>2. CASE UNCHANGED cfdi
      BY <3>2 DEF Active, Issued, Inv, Tables
    <3> QED  BY <2>1, <3>1, <3>2
  <2>4. Tables'
    BY <2>1, <2>3 DEF Inv, Tables, Stamped
  <2>5. CASE Goto(c, "cancel") /\ UNCHANGED local
    <3>1. PICK m \in Locals : m = local[c]
      BY <1>1
    <3>2. pc' = [pc EXCEPT ![c] = "cancel"] /\ local' = [local EXCEPT ![c] = m]
      BY <2>5, <3>1 DEF Goto, Inv
    <3>3. Known(c, "cancel", m)' /\ "cancel" \in Steps \cup Ended /\ ~Stamps("cancel", m)
      BY DEF Known, Steps, Stamps
    <3> QED  BY <1>1, <1>2, <2>3, <2>4, <3>2, <3>3, CallStep
  <2>6. CASE End(c, "unanswered") \/ End(c, "done")
    <3>1. PICK how \in Ended : End(c, how)
      BY <2>6 DEF Ended
    <3>2. pc' = [pc EXCEPT ![c] = how] /\ local' = [local EXCEPT ![c] = NoLocal]
      BY <3>1 DEF End, Goto
    <3>3. Known(c, how, NoLocal)' /\ how \in Steps \cup Ended /\ ~Stamps(how, NoLocal)
      BY <3>1 DEF Known, Ended, Stamps
    <3> QED  BY <1>1, <1>2, <2>3, <2>4, <3>2, <3>3, Values, CallStep
  <2> QED  BY <1>5, <2>5, <2>6 DEF PacCancel
<1>6. CASE CreateNote(c)
  <2>1. /\ UNCHANGED <<invoice, lock, payment, bank, cfdi>>
        /\ notes' = notes \cup {c}
        /\ pc' = [pc EXCEPT ![c] = "mark"]
        /\ local' = [local EXCEPT ![c] = local[c]]
    BY <1>6 DEF CreateNote, Goto, Inv
  <2>2. PICK m \in Locals : m = local[c]
    BY <1>1
  <2>3. Known(c, "mark", m)' /\ "mark" \in Steps \cup Ended /\ ~Stamps("mark", m)
    BY DEF Known, Steps, Stamps
  <2>4. Tables'
    BY <2>1 DEF Inv, Tables, Stamped
  <2>5. local' = [local EXCEPT ![c] = m]
    BY <2>1, <2>2
  <2> QED  BY <1>1, <1>2, <2>1, <2>3, <2>4, <2>5, QuietStep
<1> QED  BY <1>3, <1>4, <1>5, <1>6

LEMMA DieStep ==
  ASSUME NEW c \in Calls, Inv, Die(c)
  PROVE  Inv' /\ UNCHANGED invoice
<1>1. /\ UNCHANGED <<invoice, payment, bank, notes, cfdi>>
      /\ End(c, "dead")
      /\ alone' \in BOOLEAN
      /\ lock' = IF lock = c THEN None ELSE lock
  BY DEF Die, Release
<1>2. Tables' /\ (invoice'.status # "DRAFT" \/ invoice.status = "DRAFT")
  BY <1>1 DEF Inv, Tables, Stamped
<1> QED  BY <1>1, <1>2, EndStep DEF Ended

-----------------------------------------------------------------------------
\* Every step keeps the invariant and takes money only for a live invoice.
LEMMA NextStep ==
  ASSUME Inv, [Next]_vars
  PROVE  /\ Inv'
         /\ invoice'.paid # invoice.paid =>
              ~invoice.cancelled /\ ~invoice.deleted /\ invoice'.paid <= invoice.total
<1>1. ASSUME NEW c \in Calls, Step(c)
      PROVE  /\ Inv'
             /\ invoice'.paid # invoice.paid =>
                  ~invoice.cancelled /\ ~invoice.deleted /\ invoice'.paid <= invoice.total
  <2>1. alone' \in BOOLEAN
    BY <1>1 DEF Step
  <2>2. CASE Begin(c)
    BY <2>1, <2>2, BeginStep
  <2>3. CASE Search(c) \/ Recover(c) \/ Post(c)
    <3>1. UNCHANGED invoice
      BY <2>3 DEF Search, Recover, Post, tables
    <3> QED  BY <2>1, <2>3, <3>1, LookUpStep, PostStep
  <2>4. CASE ClaimStamp(c)
    BY <2>1, <2>4, ClaimStep
  <2>5. CASE \/ RevertStamp(c) \/ PersistStamp(c) \/ WriteEdit(c) \/ WriteDelete(c)
             \/ WriteCancel(c) \/ MarkCredited(c)
    BY <2>1, <2>5, WriteStep
  <2>6. CASE CommitPayment(c)
    BY <2>1, <2>6, PaymentStep
  <2>7. CASE ComplementPayment(c) \/ RecordComplement(c) \/ PacCancel(c) \/ CreateNote(c)
    BY <2>1, <2>7, AsideStep
  <2> QED  BY <1>1, <2>2, <2>3, <2>4, <2>5, <2>6, <2>7 DEF Step, Continue
<1>2. ASSUME NEW c \in Calls, Die(c)
      PROVE  Inv' /\ UNCHANGED invoice
  BY <1>2, DieStep
<1>3. CASE UNCHANGED vars
  BY <1>3 DEF vars, Inv, Tables, Stamped, Reads, Known, OneStamper, Stampers, Stamps, Active,
              Issued
<1> QED  BY <1>1, <1>2, <1>3 DEF Next, Quiescent

\* The invariant holds of every reachable state.
THEOREM InductiveInvariant == Spec => []Inv
<1> QED  BY InitInv, NextStep, PTL DEF Spec

\* The invoice, its payments, the provider's receipts and the handlers' locals
\* keep their types, and a stamped invoice is never a draft again.
THEOREM TypeCorrect == Spec => []TypeOK
<1>1. Inv => TypeOK
  BY DEF Inv, Tables, TypeOK
<1> QED  BY <1>1, InductiveInvariant, PTL

\* However stamps overlap, fail, die and are retried, the tax authority never
\* holds two receipts in force for the invoice (the claim of stampInvoice and
\* the look-up of emitir).
THEOREM NoDoubleStamp == Spec => []OneReceiptInForce
<1>1. Inv => OneReceiptInForce
  <2> SUFFICES ASSUME Inv
               PROVE  Cardinality(Active(ForInvoice)) <= 1
    BY DEF OneReceiptInForce
  <2>1. CASE Active(ForInvoice) = {}
    BY <2>1, FS_EmptySet
  <2>2. CASE Active(ForInvoice) # {}
    <3>1. PICK d \in Active(ForInvoice) : TRUE
      BY <2>2
    <3>2. Active(ForInvoice) = {d}
      BY <3>1 DEF Inv, OneStamper
    <3>3. Cardinality({d}) = 1
      BY FS_Singleton
    <3> QED  BY <3>2, <3>3
  <2> QED  BY <2>1, <2>2
<1> QED  BY <1>1, InductiveInvariant, PTL

\* Money is only taken for an invoice that is neither cancelled nor deleted at
\* that moment, and never above its total (registerPayment's lock).
THEOREM PaidInTime == Spec => MoneyOnlyOnLiveInvoice
<1>1. Inv /\ [Next]_vars =>
        [invoice'.paid # invoice.paid =>
           ~invoice.cancelled /\ ~invoice.deleted /\ invoice'.paid <= invoice.total]_vars
  BY NextStep
<1> QED  BY <1>1, InductiveInvariant, PTL DEF Spec, MoneyOnlyOnLiveInvoice

-----------------------------------------------------------------------------
\* A request that has not committed its payment has none.
NotYetPaid == \A c \in Calls : pc[c] \in {"idle", "pay"} => c \notin Paid

PaidInv == Inv /\ NotYetPaid /\ PaidIsPayments

\* The amounts, and those that went to the bank, are finitely many integers.
LEMMA AmountsKnown ==
  ASSUME Inv
  PROVE  /\ IsFiniteSet(Calls)
         /\ [p \in Calls |-> AmountOf(p)] \in [Calls -> Int]
         /\ [p \in Calls |-> AmountBanked(p)] \in [Calls -> Int]
         /\ \A p \in Calls \ Paid : AmountOf(p) = 0 /\ AmountBanked(p) = 0
<1>1. IsFiniteSet(Calls)
  <2>1. MaxCalls \in Int
    BY ConstantsAssumption
  <2> QED  BY <2>1, FS_Interval DEF Calls
<1>2. \A p \in Calls : AmountOf(p) \in Nat
  BY DEF Inv, Tables, Payments, AmountOf
<1>3. \A p \in Calls : AmountBanked(p) = AmountOf(p) \/ AmountBanked(p) = 0
  BY DEF AmountBanked
<1>4. \A p \in Calls \ Paid : AmountOf(p) = 0
  BY <1>2 DEF Paid, AmountOf
<1> QED  BY <1>1, <1>2, <1>3, <1>4

\* A step that changes no amount leaves the sums as they are.
LEMMA SameAmounts ==
  ASSUME PaidInv, Inv', invoice'.paid = invoice.paid, bank' = bank,
         \A p \in Calls : /\ payment'[p].amount = payment[p].amount
                          /\ payment'[p].banked = payment[p].banked,
         \A c \in Calls : pc'[c] \in {"idle", "pay"} => pc[c] \in {"idle", "pay"}
  PROVE  PaidInv'
<1>1. \A p \in Calls : AmountOf(p)' = AmountOf(p) /\ AmountBanked(p)' = AmountBanked(p)
  BY DEF AmountOf, AmountBanked
<1>2. /\ [p \in Calls |-> AmountOf(p)]' = [p \in Calls |-> AmountOf(p)]
      /\ [p \in Calls |-> AmountBanked(p)]' = [p \in Calls |-> AmountBanked(p)]
  BY <1>1
<1>3. Paid' = Paid
  BY DEF Paid
<1>4. NotYetPaid'
  BY <1>3 DEF PaidInv, NotYetPaid
<1> QED  BY <1>2, <1>4 DEF PaidInv, PaidIsPayments

\* A payment adds its amount to what is paid and, if it is banked, to the bank.
LEMMA AmountAdded ==
  ASSUME NEW c \in Calls, PaidInv, CommitPayment(c), Inv'
  PROVE  PaidInv'
<1> DEFINE l == local[c]
<1>1. /\ pc[c] = "pay"
      /\ l.read = invoice
      /\ l.amount \in Nat
      /\ l.banked \in BOOLEAN
      /\ invoice.paid \in Nat
      /\ bank \in Nat
  BY DEF CommitPayment, PaidInv, Inv, Tables, Reads, Known, Locals, Row
<1>2. \A d \in Calls : d # c => pc'[d] = pc[d]
  BY DEF CommitPayment, Goto, End, PaidInv, Inv
<1>3. pc'[c] \notin {"idle", "pay"}
  BY DEF CommitPayment, Goto, End, PaidInv, Inv
<1>4. CASE UNCHANGED <<invoice, payment, bank>>
  <2>1. /\ invoice'.paid = invoice.paid /\ bank' = bank
        /\ \A p \in Calls : /\ payment'[p].amount = payment[p].amount
                             /\ payment'[p].banked = payment[p].banked
    BY <1>4
  <2>2. \A d \in Calls : pc'[d] \in {"idle", "pay"} => pc[d] \in {"idle", "pay"}
    BY <1>2, <1>3
  <2> QED  BY <2>1, <2>2, SameAmounts
<1>5. CASE ~ UNCHANGED <<invoice, payment, bank>>
  <2>1. /\ payment' = [payment EXCEPT ![c] = [amount |-> l.amount, banked |-> l.banked,
                                              uuid |-> None]]
        /\ invoice'.paid = NewPaid(l)
        /\ bank' = IF l.banked THEN bank + l.amount ELSE bank
    BY <1>5 DEF CommitPayment, PaidInv, Inv, Tables, Row
  <2>2. invoice'.paid = invoice.paid + l.amount
    BY <1>1, <2>1 DEF NewPaid
  <2>3. /\ payment'[c].amount = l.amount
        /\ payment'[c].banked = l.banked
        /\ \A d \in Calls \ {c} : payment'[d] = payment[d]
    BY <2>1 DEF PaidInv, Inv, Tables
  <2>4. /\ AmountOf(c)' = l.amount
        /\ AmountBanked(c)' = IF l.banked THEN l.amount ELSE 0
        /\ \A d \in Calls \ {c} : AmountOf(d)' = AmountOf(d) /\ AmountBanked(d)' = AmountBanked(d)
    BY <2>3 DEF AmountOf, AmountBanked
  <2>5. c \notin Paid
    BY <1>1 DEF PaidInv, NotYetPaid
  <2> DEFINE f == [p \in Calls |-> AmountOf(p)]
             F == [p \in Calls |-> AmountOf(p)']
             b == [p \in Calls |-> AmountBanked(p)]
             B == [p \in Calls |-> AmountBanked(p)']
  <2>6. /\ IsFiniteSet(Calls)
        /\ f \in [Calls -> Int] /\ b \in [Calls -> Int]
        /\ f[c] = 0 /\ b[c] = 0
    BY <2>5, AmountsKnown DEF PaidInv
  <2>7. F \in [Calls -> Int] /\ B \in [Calls -> Int]
    BY <1>1, <2>4, <2>6
  <2>8. /\ \A d \in Calls \ {c} : F[d] = f[d] /\ B[d] = b[d]
        /\ F[c] = l.amount
        /\ B[c] = IF l.banked THEN l.amount ELSE 0
    BY <2>4
  <2>9. invoice.paid = SumFunction(f) /\ bank = SumFunction(b)
    BY DEF PaidInv, PaidIsPayments
  <2>10. /\ SumFunction(F) = SumFunction(f) + (F[c] - f[c])
         /\ SumFunction(B) = SumFunction(b) + (B[c] - b[c])
    <3> HIDE DEF f, F, b, B
    <3> QED  BY <2>6, <2>7, <2>8, ChangedSum
  <2>11. invoice'.paid = SumFunction(F) /\ bank' = SumFunction(B)
    <3> HIDE DEF f, F, b, B, l
    <3> QED  BY <1>1, <2>1, <2>2, <2>6, <2>8, <2>9, <2>10
  <2>12. PaidIsPayments'
    BY <2>11 DEF PaidIsPayments
  <2>13. NotYetPaid'
    BY <1>2, <1>3, <2>3 DEF PaidInv, NotYetPaid, Paid
  <2> QED  BY <2>12, <2>13 DEF PaidInv
<1> QED  BY <1>4, <1>5

\* No step but a payment changes an amount, what is paid or the bank.
LEMMA AmountsKept ==
  ASSUME NEW c \in Calls, Inv, Inv', ~CommitPayment(c), Begin(c) \/ Continue(c)
  PROVE  /\ invoice'.paid = invoice.paid
         /\ bank' = bank
         /\ \A p \in Calls : /\ payment'[p].amount = payment[p].amount
                              /\ payment'[p].banked = payment[p].banked
<1>1. invoice \in Row /\ payment \in [Calls -> Payments]
  BY DEF Inv, Tables
<1>2. CASE Begin(c)
  BY <1>2 DEF Begin, ReadForStamp, ReadForEdit, ReadForDelete, LockForPayment, ReadForComplement,
              ReadForCancel, ReadForCredit, tables
<1>3. CASE RecordComplement(c)
  <2>1. /\ UNCHANGED <<invoice, bank>>
        /\ \/ payment' = payment
           \/ payment' = [payment EXCEPT ![local[c].cfdi.key] =
                            [payment[local[c].cfdi.key] EXCEPT !.uuid = local[c].uuid]]
    BY <1>3 DEF RecordComplement
  <2> QED  BY <1>1, <2>1 DEF Payments
<1>4. CASE \/ Search(c) \/ Post(c) \/ Recover(c) \/ ComplementPayment(c) \/ PacCancel(c)
           \/ CreateNote(c)
  BY <1>4 DEF Search, Post, Recover, ComplementPayment, PacCancel, CreateNote, tables
<1>5. CASE \/ ClaimStamp(c) \/ RevertStamp(c) \/ PersistStamp(c) \/ WriteEdit(c) \/ WriteDelete(c)
           \/ WriteCancel(c) \/ MarkCredited(c)
  <2>1. UNCHANGED <<bank, payment>>
    BY <1>5 DEF ClaimStamp, RevertStamp, PersistStamp, WriteEdit, WriteDelete, WriteCancel,
                MarkCredited, tables
  <2>2. invoice'.paid = invoice.paid
    BY <1>1, <1>5 DEF ClaimStamp, RevertStamp, Reverted, PersistStamp, WriteEdit, WriteDelete,
                      WriteCancel, MarkCredited, WriteInvoice, tables, Row
  <2> QED  BY <2>1, <2>2
<1> QED  BY <1>2, <1>3, <1>4, <1>5 DEF Continue

\* A step takes no request to its beginning, nor to a payment it has not begun.
LEMMA PaysOnce ==
  ASSUME NEW c \in Calls, Inv, Inv', ~CommitPayment(c), Begin(c) \/ Continue(c)
  PROVE  \A d \in Calls : pc'[d] \in {"idle", "pay"} => pc[d] \in {"idle", "pay"}
<1>1. CASE Begin(c)
  <2>1. pc[c] = "idle" /\ \A d \in Calls \ {c} : pc'[d] = pc[d]
    BY <1>1 DEF Begin, ReadForStamp, ReadForEdit, ReadForDelete, LockForPayment,
                ReadForComplement, PrepareComplement, ReadForCancel, ReadForCredit, Starts, Goto,
                Inv
  <2> QED  BY <2>1
<1>2. CASE Continue(c)
  <2>1. CASE Search(c) \/ Post(c) \/ Recover(c)
    <3>1. \E step \in {"revert", "persist", "record", "done", "unanswered", "post", "recover"} :
            pc' = [pc EXCEPT ![c] = step]
      BY <2>1 DEF Search, Post, Recover, Reuse, Fail, Answer, NoAnswer, NoUuid, Goto, End
    <3> QED  BY <3>1 DEF Inv
  <2>2. CASE ~(Search(c) \/ Post(c) \/ Recover(c))
    <3>1. \E step \in {"search", "done", "cancel", "unanswered", "mark"} :
            pc' = [pc EXCEPT ![c] = step]
      BY <1>2, <2>2 DEF Continue, ClaimStamp, RevertStamp, PersistStamp, WriteEdit, WriteDelete,
                        ComplementPayment, PrepareComplement, RecordComplement, PacCancel,
                        WriteCancel, CreateNote, MarkCredited, Goto, End
    <3> QED  BY <3>1 DEF Inv
  <2> QED  BY <2>1, <2>2
<1> QED  BY <1>1, <1>2

LEMMA PaidStep == PaidInv /\ [Next]_vars => PaidInv'
<1> SUFFICES ASSUME PaidInv, [Next]_vars
             PROVE  PaidInv'
  OBVIOUS
<1>1. Inv /\ Inv'
  BY NextStep DEF PaidInv
<1>2. ASSUME NEW c \in Calls, Step(c)
      PROVE  PaidInv'
  BY <1>1, <1>2, AmountAdded, AmountsKept, PaysOnce, SameAmounts DEF Step
<1>3. ASSUME NEW c \in Calls, Die(c)
      PROVE  PaidInv'
  <2>1. UNCHANGED <<invoice, payment, bank>>
    BY <1>3 DEF Die
  <2>2. \A d \in Calls : pc'[d] \in {"idle", "pay"} => pc[d] \in {"idle", "pay"}
    BY <1>1, <1>3 DEF Die, End, Goto, Inv
  <2> QED  BY <1>1, <2>1, <2>2, SameAmounts
<1>4. CASE UNCHANGED vars
  BY <1>1, <1>4, SameAmounts DEF vars
<1> QED  BY <1>2, <1>3, <1>4 DEF Next, Quiescent

LEMMA InitPaid == Init => PaidInv
<1> SUFFICES ASSUME Init
             PROVE  PaidInv
  OBVIOUS
<1>1. Inv
  BY InitInv
<1>2. \A p \in Calls : payment[p] = NoPayment
  BY DEF Init
<1>3. NotYetPaid
  BY <1>2 DEF NotYetPaid, Paid, NoPayment
<1>4. /\ [p \in Calls |-> AmountOf(p)] = [p \in Calls |-> 0]
      /\ [p \in Calls |-> AmountBanked(p)] = [p \in Calls |-> 0]
  BY <1>2 DEF AmountOf, AmountBanked, NoPayment
<1>5. SumFunction([p \in Calls |-> 0]) = 0
  BY <1>1, AmountsKnown, ZeroSum
<1>6. invoice.paid = 0 /\ bank = 0
  BY DEF Init, Draft
<1> QED  BY <1>1, <1>3, <1>4, <1>5, <1>6 DEF PaidInv, PaidIsPayments

\* What the invoice has been paid, and what the bank account received, is the
\* sum of its payments, whatever overlaps (registerPayment's transaction).
THEOREM PaymentsAddUp == Spec => []PaidIsPayments
<1>1. PaidInv => PaidIsPayments
  BY DEF PaidInv
<1> QED  BY <1>1, InitPaid, PaidStep, PTL DEF Spec

-----------------------------------------------------------------------------
(* Histories in which nothing overlapped, died or went unanswered.         *)

Complements == {d \in Calls : cfdi[d].key \in Calls}

\* The receipts the tables refer to are of what refers to them, and the
\* complements are numbered without gap or repetition.
Linked ==
  /\ Stamped(invoice) => cfdi[invoice.uuid].key = ForInvoice
  /\ \A q \in Calls : payment[q].uuid # None =>
       q \in Paid /\ payment[q].uuid \in Calls /\ cfdi[payment[q].uuid].key = q
  /\ {cfdi[d].number : d \in Complements} = 1 .. Cardinality(Complements)

\* Its payment records every complement but those in D.
Recorded(D) == \A d \in Complements \ D : payment[cfdi[d].key].uuid = d

\* The invoice waits for its receipt and there is none but those in D.
Awaits(D) ==
  /\ invoice.status = "STAMPING"
  /\ ~Stamped(invoice) /\ ~invoice.cancelled /\ ~invoice.deleted
  /\ Issued(ForInvoice) = D

\* What a call that is about to ask for a receipt asks for.
Asking(asked) ==
  /\ asked.active
  /\ asked.key = ForInvoice => Awaits({}) /\ asked.total = invoice.total
  /\ asked.key # ForInvoice =>
       /\ asked.key \in Paid
       /\ payment[asked.key].uuid = None
       /\ asked.number = Cardinality(Complements) + 1

\* What a call that runs alone knows at a step with l.
Facts(c, step, l) ==
  /\ step \in {"idle", "claim", "search", "post", "pay", "complement"} => cfdi[c].key = None
  /\ step = "claim" =>
       /\ l.read = invoice
       /\ ~invoice.deleted /\ ~invoice.cancelled
  /\ step \in {"search", "post"} => Asking(l.cfdi)
  /\ step = "persist" =>
       /\ Awaits({l.uuid})
       /\ cfdi[l.uuid].total = invoice.total /\ cfdi[l.uuid].active
  /\ step = "record" =>
       /\ l.uuid \in Complements
       /\ cfdi[l.uuid].key = l.cfdi.key
       /\ l.cfdi.key \in Paid
       /\ payment[l.cfdi.key].uuid = None
       /\ Recorded({l.uuid})
  /\ step = "pay" => l.amount > 0
  /\ step = "complement" => c \in Paid
  /\ step = "edit" => CanEdit
  /\ step = "delete" => CanDelete
  /\ step = "annul" =>
       /\ Stamped(invoice) /\ ~invoice.cancelled /\ ~invoice.deleted
       /\ l.uuid = invoice.uuid
  /\ step = "cancel" =>
       /\ ~invoice.cancelled
       /\ \A d \in Issued(ForInvoice) :
            invoice.uuid = d /\ cfdi[d].total = invoice.total /\ ~cfdi[d].active
  /\ step \in {"credit", "mark"} => ~invoice.cancelled

\* What holds when call c alone may run.
Now(c) ==
  /\ Linked
  /\ pc[c] \notin {"persist", "cancel"} => InvoiceAgrees
  /\ pc[c] # "record" => Recorded({})
  /\ Facts(c, pc[c], local[c])

\* The invariant of such histories.
Together ==
  /\ \A c, d \in Running : c = d
  /\ \A c \in Calls : pc[c] \notin Faulty
  /\ Linked
  /\ (\A c \in Calls : pc[c] \notin {"persist", "cancel"}) => InvoiceAgrees
  /\ (\A c \in Calls : pc[c] # "record") => Recorded({})
  /\ \A c \in Calls : Facts(c, pc[c], local[c])

AgreeInv == PaidInv /\ (alone => Together)

\* A call that runs alone finds what Now says, and the others keep out of it.
LEMMA RunsAlone ==
  ASSUME NEW c \in Calls, Inv, Together, Running \subseteq {c}
  PROVE  Now(c) /\ \A d \in Calls \ {c} : pc[d] \in {"idle", "done"}
<1>1. \A d \in Calls \ {c} : pc[d] \in {"idle", "done"}
  BY DEF Together, Running, Ended, Faulty
<1> QED  BY <1>1 DEF Together, Now

LEMMA KeepsTogether ==
  ASSUME NEW c \in Calls, Inv, Now(c)', pc'[c] \notin Faulty,
         \A d \in Calls \ {c} : /\ pc[d] \in {"idle", "done"} /\ Facts(d, pc[d], local[d])
                               /\ pc'[d] = pc[d] /\ cfdi'[d].key = cfdi[d].key
  PROVE  Together'
<1>1. \A d \in Calls \ {c} : pc'[d] \in {"idle", "done"} /\ Facts(d, pc[d], local[d])'
  BY DEF Facts
<1>2. \A d \in Calls : pc'[d] \notin Faulty
  BY <1>1 DEF Faulty
<1>3. \A d, e \in Running' : d = e
  BY <1>1 DEF Running, Ended
<1> QED  BY <1>1, <1>2, <1>3 DEF Together, Now

\* The number of the next complement.
LEMMA NextNumber ==
  ASSUME Inv, Linked, Recorded({}), NEW p \in Calls, payment[p].uuid = None
  PROVE  Cardinality(PreviousPayments(p)) = Cardinality(Complements)
<1> DEFINE f == [q \in PreviousPayments(p) |-> payment[q].uuid]
<1>1. IsFiniteSet(PreviousPayments(p))
  <2>1. PreviousPayments(p) \subseteq Calls
    BY DEF PreviousPayments, Paid
  <2> QED  BY <2>1, AmountsKnown, FS_Subset
<1> HIDE DEF f
<1>0. \A q \in PreviousPayments(p) :
        /\ q \in Calls /\ payment[q].uuid \in Calls
        /\ cfdi[payment[q].uuid].key = q
        /\ f[q] = payment[q].uuid
  BY Values DEF PreviousPayments, Paid, Linked, f
<1>2. f \in [PreviousPayments(p) -> Complements]
  <2>1. \A q \in PreviousPayments(p) : payment[q].uuid \in Complements
    BY <1>0 DEF Complements
  <2> QED  BY <2>1 DEF f
<1>3. \A q, r \in PreviousPayments(p) : f[q] = f[r] => q = r
  BY <1>0
<1>4. \A d \in Complements : \E q \in PreviousPayments(p) : f[q] = d
  <2> SUFFICES ASSUME NEW d \in Complements
               PROVE  \E q \in PreviousPayments(p) : f[q] = d
    OBVIOUS
  <2>1. /\ d \in Calls /\ cfdi[d].key \in Calls
        /\ payment[cfdi[d].key].uuid = d
        /\ d # None
    BY Values DEF Complements, Recorded
  <2>2. cfdi[d].key \in PreviousPayments(p)
    BY <2>1 DEF PreviousPayments, Linked
  <2> QED  BY <1>0, <2>1, <2>2
<1>5. f \in Bijection(PreviousPayments(p), Complements)
  BY <1>2, <1>3, <1>4 DEF Bijection, Injection, Surjection, IsInjective
<1> QED  BY <1>1, <1>5, FS_Bijection DEF ExistsBijection

\* A step that only reads.
LEMMA SameBooks ==
  ASSUME UNCHANGED <<invoice, payment, cfdi>>
  PROVE  /\ Linked' <=> Linked
         /\ InvoiceAgrees' <=> InvoiceAgrees
         /\ Recorded({})' <=> Recorded({})
         /\ Complements' = Complements
         /\ Issued(ForInvoice)' = Issued(ForInvoice)
         /\ Paid' = Paid
         /\ Stamped(invoice)' <=> Stamped(invoice)
<1>1. /\ Complements' = Complements
      /\ Issued(ForInvoice)' = Issued(ForInvoice)
      /\ Paid' = Paid
      /\ Stamped(invoice)' <=> Stamped(invoice)
  BY DEF Complements, Issued, Paid, Stamped
<1>2. Linked' <=> Linked
  BY <1>1 DEF Linked
<1>3. InvoiceAgrees' <=> InvoiceAgrees
  BY <1>1 DEF InvoiceAgrees
<1>4. Recorded({})' <=> Recorded({})
  BY <1>1 DEF Recorded
<1> QED  BY <1>1, <1>2, <1>3, <1>4

\* A call that asks for a payment's receipt gives it the next number.
LEMMA PrepareFacts ==
  ASSUME NEW c \in Calls, Inv, Linked, Recorded({}), InvoiceAgrees, cfdi[c].key = None,
         NEW p \in Paid, CanComplement(p), PrepareComplement(c, p),
         UNCHANGED <<invoice, payment, cfdi>>
  PROVE  Now(c)'
<1> DEFINE asked == [key |-> p, total |-> AmountOf(p), active |-> TRUE,
                     number |-> Cardinality(PreviousPayments(p)) + 1]
<1>1. p \in Calls /\ p # ForInvoice
  BY Values DEF Paid
<1>2. payment[p].uuid = None
  BY <1>1 DEF CanComplement, Linked
<1>3. /\ pc'[c] = "search"
      /\ local'[c].cfdi = asked
  BY DEF PrepareComplement, Goto, Inv, NoLocal
<1>4. asked.number = Cardinality(Complements) + 1 /\ asked.active /\ asked.key = p
  BY <1>1, <1>2, NextNumber
<1> HIDE DEF asked
<1>5. Asking(local[c].cfdi)'
  BY <1>1, <1>2, <1>3, <1>4, SameBooks DEF Asking
<1>6. Facts(c, pc[c], local[c])'
  BY <1>3, <1>5 DEF Facts
<1> QED  BY <1>6, SameBooks DEF Now

\* A request that begins.
LEMMA BeginFacts ==
  ASSUME NEW c \in Calls, Inv, Now(c), Begin(c)
  PROVE  Now(c)' /\ UNCHANGED cfdi
<1>1. /\ UNCHANGED <<invoice, payment, cfdi>>
      /\ pc[c] = "idle"
      /\ local[c] \in Locals
  BY DEF Begin, ReadForStamp, ReadForEdit, ReadForDelete, LockForPayment, ReadForComplement,
         ReadForCancel, ReadForCredit, tables, Starts, Inv
<1>2. Linked /\ InvoiceAgrees /\ Recorded({}) /\ cfdi[c].key = None
  BY <1>1 DEF Now, Facts
<1>3. CASE ReadForComplement(c)
  BY <1>1, <1>2, <1>3, PrepareFacts DEF ReadForComplement
<1>4. CASE ReadForStamp(c)
  <2>1. pc'[c] = "claim" /\ local'[c].read = invoice
    BY <1>1, <1>4 DEF ReadForStamp, Goto, Inv, Locals
  <2>2. Facts(c, "claim", local[c])'
    BY <1>1, <1>2, <1>4, <2>1 DEF Facts, ReadForStamp
  <2> QED  BY <1>1, <1>2, <2>1, <2>2, SameBooks DEF Now
<1>5. CASE ReadForEdit(c)
  <2>1. pc'[c] = "edit" /\ CanEdit'
    BY <1>1, <1>5 DEF ReadForEdit, Goto, Inv, CanEdit, Stamped
  <2>2. Facts(c, "edit", local[c])'
    BY <2>1 DEF Facts
  <2> QED  BY <1>1, <1>2, <2>1, <2>2, SameBooks DEF Now
<1>6. CASE ReadForDelete(c)
  <2>1. pc'[c] = "delete" /\ CanDelete'
    BY <1>1, <1>6 DEF ReadForDelete, Goto, Inv, CanDelete, Paid
  <2>2. Facts(c, "delete", local[c])'
    BY <2>1 DEF Facts
  <2> QED  BY <1>1, <1>2, <2>1, <2>2, SameBooks DEF Now
<1>7. CASE LockForPayment(c)
  <2>1. PICK amount \in Amounts, banked \in BOOLEAN :
          local' = [local EXCEPT ![c] = [@ EXCEPT !.read = invoice, !.amount = amount,
                                                  !.banked = banked]]
    BY <1>7 DEF LockForPayment
  <2>2. pc'[c] = "pay" /\ local'[c].amount = amount
    BY <1>1, <1>7, <2>1 DEF LockForPayment, Goto, Inv, Locals
  <2>3. amount > 0
    BY ConstantsAssumption
  <2>4. Facts(c, "pay", local[c])'
    BY <1>1, <1>2, <2>2, <2>3 DEF Facts
  <2> QED  BY <1>1, <1>2, <2>2, <2>4, SameBooks DEF Now
<1>8. CASE ReadForCancel(c)
  <2>1. /\ pc'[c] = "annul" /\ local'[c].uuid = invoice.uuid
        /\ Stamped(invoice) /\ ~invoice.cancelled /\ ~invoice.deleted
    BY <1>1, <1>8 DEF ReadForCancel, Goto, Inv, Locals
  <2>2. Facts(c, "annul", local[c])'
    BY <1>1, <2>1 DEF Facts, Stamped
  <2> QED  BY <1>1, <1>2, <2>1, <2>2, SameBooks DEF Now
<1>9. CASE ReadForCredit(c)
  <2>1. pc'[c] = "credit" /\ ~invoice.cancelled
    BY <1>9 DEF ReadForCredit, Goto, Inv
  <2>2. Facts(c, "credit", local[c])'
    BY <1>1, <2>1 DEF Facts
  <2> QED  BY <1>1, <1>2, <2>1, <2>2, SameBooks DEF Now
<1> QED  BY <1>1, <1>3, <1>4, <1>5, <1>6, <1>7, <1>8, <1>9 DEF Begin

\* A step that changes no table and leads where nothing has to be known.
Free == {"done", "revert", "mark"}

LEMMA ReadingFacts ==
  ASSUME NEW c \in Calls, Inv, Now(c), pc[c] \notin {"persist", "cancel", "record"},
         UNCHANGED <<invoice, payment, cfdi>>, pc'[c] \in Free,
         pc'[c] = "mark" => pc[c] = "credit"
  PROVE  Now(c)'
<1>1. Facts(c, pc[c], local[c])'
  BY DEF Free, Now, Facts
<1> QED  BY <1>1, SameBooks DEF Now, Free

\* Nothing is found that the call could have asked for before.
LEMMA NothingFound ==
  ASSUME NEW c \in Calls, Inv, Now(c), pc[c] = "search"
  PROVE  Found(c) = {}
<1>1. Asking(local[c].cfdi) /\ Recorded({}) /\ local[c].cfdi.key \in Calls \cup {ForInvoice}
  BY Asks DEF Now, Facts
<1>2. CASE local[c].cfdi.key = ForInvoice
  BY <1>1, <1>2 DEF Asking, Awaits, Issued, Found
<1>3. CASE local[c].cfdi.key \in Calls /\ local[c].cfdi.key # ForInvoice
  <2>1. ASSUME NEW d \in Found(c)
        PROVE  FALSE
    <3>1. d \in Complements /\ cfdi[d].key = local[c].cfdi.key
      BY <1>3, <2>1 DEF Found, Complements
    <3>2. payment[cfdi[d].key].uuid = d
      BY <1>1, <3>1 DEF Recorded
    <3>3. d # None
      BY <3>1, Values DEF Complements
    <3> QED  BY <1>1, <1>3, <3>1, <3>2, <3>3 DEF Asking
  <2> QED  BY <2>1
<1> QED  BY <1>1, <1>2, <1>3

LEMMA FailFacts ==
  ASSUME NEW c \in Calls, Inv, Now(c), pc[c] \in {"search", "post"}, Fail(c),
         UNCHANGED <<invoice, payment, cfdi>>
  PROVE  Now(c)'
<1>1. pc'[c] \in {"revert", "done"}
  BY DEF Fail, Goto, End, Inv
<1> QED  BY <1>1, ReadingFacts DEF Free

LEMMA SearchFacts ==
  ASSUME NEW c \in Calls, Inv, Now(c), Search(c)
  PROVE  Now(c)' /\ UNCHANGED cfdi
<1>1. pc[c] = "search" /\ UNCHANGED <<invoice, payment, cfdi>>
  BY DEF Search, tables
<1>2. CASE Fail(c)
  BY <1>1, <1>2, FailFacts
<1>3. CASE Goto(c, "post") /\ UNCHANGED local
  <2>1. pc'[c] = "post" /\ local' = local
    BY <1>3 DEF Goto, Inv
  <2>2. Asking(local[c].cfdi) /\ cfdi[c].key = None
    BY <1>1 DEF Now, Facts
  <2>3. Asking(local[c].cfdi)'
    BY <1>1, <2>1, <2>2, SameBooks DEF Asking, Awaits
  <2>4. Facts(c, "post", local[c])'
    BY <1>1, <2>2, <2>3 DEF Facts
  <2> QED  BY <1>1, <2>1, <2>4, SameBooks DEF Now
<1> QED  BY <1>1, <1>2, <1>3, NothingFound DEF Search

\* The provider issues the invoice's receipt.
LEMMA InvoiceIssued ==
  ASSUME NEW c \in Calls, Inv, Now(c), pc[c] = "post", Issue(c), Answer(c, c),
         local[c].cfdi.key = ForInvoice, UNCHANGED <<invoice, payment>>
  PROVE  Now(c)'
<1>1. /\ Linked /\ Recorded({}) /\ cfdi[c].key = None
      /\ Awaits({}) /\ local[c].cfdi.total = invoice.total /\ local[c].cfdi.active
  BY DEF Now, Facts, Asking
<1>2. /\ pc'[c] = "persist" /\ local'[c].uuid = c
      /\ cfdi'[c] = local[c].cfdi
      /\ \A d \in Calls \ {c} : cfdi'[d] = cfdi[d]
  BY DEF Answer, Goto, Issue, Inv, Tables, Locals
<1>3. c \notin Complements /\ Complements' = Complements
  BY <1>1, <1>2, Values DEF Complements
<1>4. Issued(ForInvoice)' = {c}
  BY <1>1, <1>2 DEF Awaits, Issued
<1>5. Linked'
  <2>1. {cfdi'[d].number : d \in Complements'} = {cfdi[d].number : d \in Complements}
    <3>1. \A d \in Complements : cfdi'[d] = cfdi[d]
      BY <1>2, <1>3 DEF Complements
    <3> QED  BY <1>3, <3>1
  <2>2. \A q \in Calls : payment[q].uuid # None => payment[q].uuid # c
    BY <1>1, Values DEF Linked
  <2>3. \A q \in Calls : payment'[q].uuid # None =>
          q \in Paid' /\ payment'[q].uuid \in Calls /\ cfdi'[payment'[q].uuid].key = q
    BY <1>1, <1>2, <2>2 DEF Linked, Paid
  <2>4. ~Stamped(invoice)'
    BY <1>1 DEF Awaits, Stamped
  <2> QED  BY <1>1, <1>3, <2>1, <2>3, <2>4 DEF Linked
<1>6. Recorded({})'
  BY <1>1, <1>2, <1>3 DEF Recorded, Complements
<1>7. Awaits({local[c].uuid})'
  BY <1>1, <1>2, <1>4 DEF Awaits, Stamped
<1>8. Facts(c, "persist", local[c])'
  BY <1>1, <1>2, <1>7 DEF Facts
<1> QED  BY <1>2, <1>5, <1>6, <1>8 DEF Now

\* The provider issues a complement.
LEMMA ComplementIssued ==
  ASSUME NEW c \in Calls, Inv, Now(c), pc[c] = "post", Issue(c), Answer(c, c),
         local[c].cfdi.key # ForInvoice, UNCHANGED <<invoice, payment>>
  PROVE  Now(c)'
<1> DEFINE asked == local[c].cfdi
           p == local[c].cfdi.key
           n == Cardinality(Complements)
<1>1. /\ Linked /\ InvoiceAgrees /\ Recorded({}) /\ cfdi[c].key = None
      /\ p \in Paid /\ payment[p].uuid = None
      /\ asked.number = n + 1
  BY DEF Now, Facts, Asking
<1>2. /\ pc'[c] = "record" /\ local'[c].uuid = c /\ local'[c].cfdi = asked
      /\ cfdi'[c] = asked
      /\ \A d \in Calls \ {c} : cfdi'[d] = cfdi[d]
  BY DEF Answer, Goto, Issue, Inv, Tables, Locals
<1>3. p \in Calls /\ p # ForInvoice /\ p # None
  BY <1>1, Values DEF Paid
<1>4. c \notin Complements /\ Complements' = Complements \cup {c}
  BY <1>1, <1>2, <1>3, Values DEF Complements
<1>5. IsFiniteSet(Complements) /\ n \in Nat /\ Cardinality(Complements') = n + 1
  <2>1. Complements \subseteq Calls
    BY DEF Complements
  <2>2. IsFiniteSet(Complements)
    BY <2>1, AmountsKnown, FS_Subset
  <2> QED  BY <1>4, <2>2, FS_CardinalityType, FS_AddElement
<1>6. Linked'
  <2>1. {cfdi'[d].number : d \in Complements'} = 1 .. n + 1
    <3>1. \A d \in Complements : cfdi'[d] = cfdi[d]
      BY <1>2, <1>4 DEF Complements
    <3>2. {cfdi'[d].number : d \in Complements'} =
            {cfdi[d].number : d \in Complements} \cup {asked.number}
      BY <1>2, <1>4, <3>1
    <3>3. {cfdi[d].number : d \in Complements} = 1 .. n
      BY <1>1 DEF Linked
    <3>4. (1 .. n) \cup {n + 1} = 1 .. n + 1
      <4> HIDE DEF n
      <4> QED  BY <1>5
    <3> QED  BY <1>1, <3>2, <3>3, <3>4
  <2>2. \A q \in Calls : payment[q].uuid # None => payment[q].uuid # c
    BY <1>1, Values DEF Linked
  <2>3. \A q \in Calls : payment'[q].uuid # None =>
          q \in Paid' /\ payment'[q].uuid \in Calls /\ cfdi'[payment'[q].uuid].key = q
    BY <1>1, <1>2, <2>2 DEF Linked, Paid
  <2>4. Stamped(invoice)' => cfdi'[invoice'.uuid].key = ForInvoice
    <3>1. Stamped(invoice) => invoice.uuid \in Calls /\ invoice.uuid # c
      BY <1>1, Values DEF Linked, Stamped, Inv, Tables, Row
    <3> QED  BY <1>1, <1>2, <3>1 DEF Linked, Stamped
  <2> QED  BY <1>5, <2>1, <2>3, <2>4 DEF Linked
<1>7. Recorded({c})'
  BY <1>1, <1>2, <1>4 DEF Recorded, Complements
<1>8. InvoiceAgrees'
  <2>1. Issued(ForInvoice)' = Issued(ForInvoice) /\ c \notin Issued(ForInvoice)
    BY <1>1, <1>2, <1>3, Values DEF Issued
  <2>2. \A d \in Issued(ForInvoice) : cfdi'[d] = cfdi[d]
    BY <1>2, <2>1 DEF Issued
  <2> QED  BY <1>1, <2>1, <2>2 DEF InvoiceAgrees, Stamped
<1>9. Facts(c, "record", local[c])'
  <2>1. /\ local'[c].uuid \in Complements'
        /\ cfdi'[local'[c].uuid].key = local'[c].cfdi.key
        /\ local'[c].cfdi.key \in Paid'
        /\ payment'[local'[c].cfdi.key].uuid = None
    BY <1>1, <1>2, <1>4 DEF Paid
  <2>2. Recorded({local[c].uuid})'
    BY <1>2, <1>7
  <2> QED  BY <2>1, <2>2 DEF Facts
<1> QED  BY <1>2, <1>6, <1>8, <1>9 DEF Now

LEMMA PostFacts ==
  ASSUME NEW c \in Calls, Inv, Now(c), Post(c), pc'[c] \notin Faulty, local'[c].uuid # Blank
  PROVE  Now(c)' /\ \A d \in Calls \ {c} : cfdi'[d].key = cfdi[d].key
<1>1. pc[c] = "post" /\ UNCHANGED <<invoice, payment>> /\ local[c] \in Locals
  BY DEF Post, Inv
<1>2. ~NoAnswer(c)
  BY DEF NoAnswer, Goto, Faulty, Inv
<1>3. ~NoUuid(c)
  <2>1. ~End(c, "unanswered")
    BY DEF End, Goto, Faulty, Inv
  <2>2. ~Answer(c, Blank)
    BY <1>1 DEF Answer, Inv, Locals
  <2> QED  BY <2>1, <2>2 DEF NoUuid
<1>4. CASE Issue(c) /\ Answer(c, c)
  <2>1. Now(c)'
    BY <1>1, <1>4, InvoiceIssued, ComplementIssued
  <2>2. \A d \in Calls \ {c} : cfdi'[d] = cfdi[d]
    BY <1>4 DEF Issue, Inv, Tables
  <2> QED  BY <2>1, <2>2
<1>5. CASE UNCHANGED cfdi /\ Fail(c)
  BY <1>1, <1>5, FailFacts
<1> QED  BY <1>2, <1>3, <1>4, <1>5 DEF Post

\* A step that writes the invoice and no UUID.
LEMMA WriteFacts ==
  ASSUME NEW c \in Calls, Inv, Now(c), pc[c] # "record", pc'[c] # "record",
         invoice'.uuid = invoice.uuid, UNCHANGED <<payment, cfdi>>,
         Facts(c, pc[c], local[c])', InvoiceAgrees'
  PROVE  Now(c)'
<1>1. Complements' = Complements /\ Paid' = Paid /\ (Stamped(invoice)' <=> Stamped(invoice))
  BY DEF Complements, Paid, Stamped
<1>2. Linked'
  BY <1>1 DEF Now, Linked
<1>3. Recorded({})'
  BY <1>1 DEF Now, Recorded
<1> QED  BY <1>2, <1>3 DEF Now

LEMMA ClaimFacts ==
  ASSUME NEW c \in Calls, Inv, Now(c), ClaimStamp(c)
  PROVE  Now(c)' /\ UNCHANGED cfdi
<1>1. /\ pc[c] = "claim" /\ UNCHANGED <<payment, cfdi>> /\ local[c] \in Locals
      /\ invoice \in Row
  BY DEF ClaimStamp, Inv, Tables
<1>2. /\ local[c].read = invoice /\ ~invoice.deleted /\ ~invoice.cancelled
      /\ InvoiceAgrees /\ cfdi[c].key = None
  BY <1>1 DEF Now, Facts
<1>3. CASE Claimable
  <2> DEFINE asked == [key |-> ForInvoice, total |-> local[c].read.total, number |-> 0,
                       active |-> TRUE]
  <2>1. /\ invoice' = [invoice EXCEPT !.status = "STAMPING"]
        /\ pc'[c] = "search" /\ local'[c].cfdi = asked
    BY <1>1, <1>3 DEF ClaimStamp, WriteInvoice, Goto, Inv, Locals
  <2>2. /\ invoice'.status = "STAMPING"
        /\ invoice'.uuid = invoice.uuid /\ invoice'.total = invoice.total
        /\ ~invoice'.cancelled /\ ~invoice'.deleted
    BY <1>1, <1>2, <2>1 DEF Row
  <2>3. Issued(ForInvoice) = {} /\ Issued(ForInvoice)' = Issued(ForInvoice)
    BY <1>1, <1>2, <1>3, Values DEF InvoiceAgrees, Claimable, Stamped, Issued
  <2>4. Awaits({})' /\ InvoiceAgrees'
    BY <1>3, <2>2, <2>3 DEF Awaits, InvoiceAgrees, Claimable, Stamped
  <2>5. asked.active /\ asked.key = ForInvoice /\ asked.total = invoice.total
    BY <1>2
  <2> HIDE DEF asked
  <2>6. Facts(c, "search", local[c])'
    BY <1>1, <1>2, <2>1, <2>2, <2>4, <2>5 DEF Facts, Asking
  <2> QED  BY <1>1, <2>1, <2>2, <2>4, <2>6, WriteFacts
<1>4. CASE ~Claimable
  <2>1. pc'[c] = "done" /\ UNCHANGED <<invoice, payment, cfdi>>
    BY <1>1, <1>4 DEF ClaimStamp, End, Goto, Inv
  <2> QED  BY <1>1, <2>1, ReadingFacts DEF Free
<1> QED  BY <1>3, <1>4

\* The statements that write the invoice and end the request.
LEMMA EndFacts ==
  ASSUME NEW c \in Calls, Inv, Now(c),
         \/ RevertStamp(c) \/ WriteEdit(c) \/ WriteDelete(c) \/ WriteCancel(c) \/ MarkCredited(c)
  PROVE  Now(c)' /\ UNCHANGED cfdi
<1>1. /\ UNCHANGED <<payment, cfdi>> /\ invoice \in Row
      /\ pc[c] \in {"revert", "edit", "delete", "cancel", "mark"}
      /\ pc'[c] = "done"
  BY DEF RevertStamp, WriteEdit, WriteDelete, WriteCancel, MarkCredited, End, Goto, Inv, Tables
<1>2. Facts(c, pc[c], local[c])'
  BY <1>1 DEF Facts
<1>3. Issued(ForInvoice)' = Issued(ForInvoice)
  BY <1>1 DEF Issued
<1>4. Stamped(invoice) => invoice.status \notin {"DRAFT", "STAMPING"}
  BY DEF Inv, Tables
<1>5. pc[c] # "cancel" => InvoiceAgrees
  BY <1>1 DEF Now
<1>6. CASE RevertStamp(c)
  <2>1. invoice' = IF Stamping THEN [invoice EXCEPT !.status = "DRAFT"] ELSE invoice
    BY <1>6 DEF RevertStamp, Reverted, WriteInvoice
  <2>2. /\ invoice'.uuid = invoice.uuid /\ invoice'.total = invoice.total
        /\ invoice'.cancelled = invoice.cancelled /\ invoice'.deleted = invoice.deleted
        /\ invoice'.status = invoice.status \/ Stamping
    BY <1>1, <2>1 DEF Row
  <2>3. InvoiceAgrees'
    BY <1>1, <1>3, <1>5, <1>6, <2>2 DEF InvoiceAgrees, RevertStamp, Stamping, Stamped
  <2> QED  BY <1>1, <1>2, <2>2, <2>3, WriteFacts
<1>7. CASE WriteEdit(c)
  <2>1. /\ invoice' = [invoice EXCEPT !.total = local[c].amount]
        /\ pc[c] = "edit"
    BY <1>7 DEF WriteEdit, WriteInvoice
  <2>2. /\ invoice'.uuid = invoice.uuid /\ invoice'.status = invoice.status
        /\ invoice'.cancelled = invoice.cancelled /\ invoice'.deleted = invoice.deleted
    BY <1>1, <2>1 DEF Row
  <2>3. ~Stamped(invoice)
    BY <2>1 DEF Now, Facts, CanEdit
  <2>4. Issued(ForInvoice) = {}
    BY <1>5, <2>1, <2>3, Values DEF InvoiceAgrees, Stamped, Issued
  <2>5. InvoiceAgrees'
    BY <1>3, <1>5, <2>1, <2>2, <2>4 DEF InvoiceAgrees, Stamped
  <2> QED  BY <1>1, <1>2, <2>2, <2>5, WriteFacts
<1>8. CASE WriteDelete(c)
  <2>1. /\ invoice' = [invoice EXCEPT !.deleted = TRUE]
        /\ pc[c] = "delete"
    BY <1>8 DEF WriteDelete, WriteInvoice
  <2>2. /\ invoice'.uuid = invoice.uuid /\ invoice'.status = invoice.status
        /\ invoice'.cancelled = invoice.cancelled /\ invoice'.total = invoice.total
    BY <1>1, <2>1 DEF Row
  <2>3. invoice.cancelled \/ ~Stamped(invoice)
    BY <1>4, <2>1 DEF Now, Facts, CanDelete
  <2>4. InvoiceAgrees'
    BY <1>1, <1>3, <1>5, <2>1, <2>2, <2>3 DEF InvoiceAgrees, Stamped
  <2> QED  BY <1>1, <1>2, <2>2, <2>4, WriteFacts
<1>9. CASE WriteCancel(c)
  <2>1. /\ invoice' = [invoice EXCEPT !.cancelled = TRUE, !.status = "CANCELLED"]
        /\ pc[c] = "cancel"
    BY <1>9 DEF WriteCancel, WriteInvoice
  <2>2. /\ invoice'.uuid = invoice.uuid /\ invoice'.status = "CANCELLED"
        /\ invoice'.cancelled /\ invoice'.total = invoice.total
    BY <1>1, <2>1 DEF Row
  <2>3. \A d \in Issued(ForInvoice) :
          invoice.uuid = d /\ cfdi[d].total = invoice.total /\ ~cfdi[d].active
    BY <2>1 DEF Now, Facts
  <2>4. \A d \in Issued(ForInvoice) : cfdi[d].active \in BOOLEAN
    BY DEF Issued, Inv, Tables, Receipts
  <2>5. InvoiceAgrees'
    BY <1>1, <1>3, <2>2, <2>3, <2>4 DEF InvoiceAgrees
  <2> QED  BY <1>1, <1>2, <2>2, <2>5, WriteFacts
<1>10. CASE MarkCredited(c)
  <2>1. /\ invoice' = [invoice EXCEPT !.status = "CREDITED"]
        /\ pc[c] = "mark"
    BY <1>10 DEF MarkCredited, WriteInvoice
  <2>2. /\ invoice'.uuid = invoice.uuid /\ invoice'.deleted = invoice.deleted
        /\ invoice'.cancelled = invoice.cancelled /\ invoice'.total = invoice.total
    BY <1>1, <2>1 DEF Row
  <2>3. ~invoice.cancelled
    BY <2>1 DEF Now, Facts
  <2>4. InvoiceAgrees'
    BY <1>1, <1>3, <1>5, <2>1, <2>2, <2>3 DEF InvoiceAgrees, Stamped
  <2> QED  BY <1>1, <1>2, <2>2, <2>4, WriteFacts
<1> QED  BY <1>1, <1>6, <1>7, <1>8, <1>9, <1>10

LEMMA PersistFacts ==
  ASSUME NEW c \in Calls, Inv, Now(c), PersistStamp(c)
  PROVE  Now(c)' /\ UNCHANGED cfdi
<1> DEFINE d == local[c].uuid
<1>1. /\ pc[c] = "persist" /\ pc'[c] = "done" /\ UNCHANGED <<payment, cfdi>>
      /\ invoice \in Row
  BY DEF PersistStamp, End, Goto, Inv, Tables
<1>2. /\ Awaits({d}) /\ Linked /\ Recorded({})
      /\ cfdi[d].total = invoice.total /\ cfdi[d].active
  BY <1>1 DEF Now, Facts
<1>3. d \in Calls /\ cfdi[d].key = ForInvoice /\ Issued(ForInvoice)' = {d}
  BY <1>1, <1>2 DEF Awaits, Issued
<1>4. invoice' = [invoice EXCEPT !.status = "SENT", !.uuid = d]
  BY <1>2 DEF PersistStamp, Stamping, Awaits, WriteInvoice
<1>5. /\ invoice'.uuid = d /\ invoice'.total = invoice.total
      /\ ~invoice'.cancelled /\ ~invoice'.deleted
  BY <1>1, <1>2, <1>4 DEF Row, Awaits
<1> HIDE DEF d
<1>6. InvoiceAgrees'
  BY <1>1, <1>2, <1>3, <1>5 DEF InvoiceAgrees
<1>7. Linked'
  BY <1>1, <1>2, <1>3, <1>5 DEF Linked, Paid, Complements
<1>8. Recorded({})'
  BY <1>1, <1>2 DEF Recorded, Complements
<1>9. Facts(c, "done", local[c])'
  BY DEF Facts
<1> QED  BY <1>1, <1>6, <1>7, <1>8, <1>9 DEF Now

LEMMA PacFacts ==
  ASSUME NEW c \in Calls, Inv, Now(c), PacCancel(c), pc'[c] \notin Faulty
  PROVE  Now(c)' /\ \A d \in Calls \ {c} : cfdi'[d].key = cfdi[d].key
<1>1. pc[c] = "annul" /\ UNCHANGED <<invoice, payment>>
  BY DEF PacCancel
<1>2. ~End(c, "unanswered")
  BY DEF End, Goto, Faulty, Inv
<1>3. CASE UNCHANGED cfdi /\ End(c, "done")
  <2>1. pc'[c] = "done"
    BY <1>3 DEF End, Goto, Inv
  <2> QED  BY <1>1, <1>3, <2>1, ReadingFacts DEF Free
<1>4. CASE Annul(c) /\ Goto(c, "cancel")
  <2> DEFINE u == invoice.uuid
  <2>1. /\ Stamped(invoice) /\ ~invoice.cancelled /\ local[c].uuid = u
        /\ Linked /\ InvoiceAgrees /\ Recorded({})
    BY <1>1 DEF Now, Facts
  <2>2. u \in Calls /\ cfdi[u] \in Receipts
    BY <2>1, Values DEF Stamped, Inv, Tables, Row
  <2>3. /\ pc'[c] = "cancel"
        /\ cfdi' = [cfdi EXCEPT ![u] = [cfdi[u] EXCEPT !.active = FALSE]]
    BY <1>4, <2>1 DEF Annul, Goto, Inv
  <2>4. /\ \A d \in Calls : /\ cfdi'[d].key = cfdi[d].key
                            /\ cfdi'[d].number = cfdi[d].number
                            /\ cfdi'[d].total = cfdi[d].total
        /\ ~cfdi'[u].active
    BY <2>2, <2>3 DEF Inv, Tables, Receipts
  <2>5. Complements' = Complements /\ Issued(ForInvoice)' = Issued(ForInvoice)
    BY <2>4 DEF Complements, Issued
  <2>6. Linked'
    <3>1. {cfdi'[d].number : d \in Complements'} = {cfdi[d].number : d \in Complements}
      <4>1. \A d \in Complements : cfdi'[d].number = cfdi[d].number
        BY <2>4 DEF Complements
      <4> QED  BY <2>5, <4>1
    <3>2. Stamped(invoice)' => cfdi'[invoice'.uuid].key = ForInvoice
      BY <1>1, <2>1, <2>2, <2>4 DEF Linked
    <3>3. \A q \in Calls : payment'[q].uuid # None =>
            q \in Paid' /\ payment'[q].uuid \in Calls /\ cfdi'[payment'[q].uuid].key = q
      BY <1>1, <2>1, <2>4 DEF Linked, Paid
    <3> QED  BY <2>1, <2>5, <3>1, <3>2, <3>3 DEF Linked
  <2>7. Recorded({})'
    BY <1>1, <2>1, <2>4, <2>5 DEF Recorded, Complements
  <2>8. \A d \in Issued(ForInvoice) :
          invoice.uuid = d /\ cfdi'[d].total = invoice.total /\ ~cfdi'[d].active
    BY <2>1, <2>4 DEF InvoiceAgrees, Issued
  <2>9. Facts(c, "cancel", local[c])'
    BY <1>1, <2>1, <2>5, <2>8 DEF Facts
  <2> QED  BY <2>3, <2>4, <2>6, <2>7, <2>9 DEF Now
<1> QED  BY <1>2, <1>3, <1>4 DEF PacCancel

\* A step moves its own call only.
LEMMA OthersWait ==
  ASSUME NEW c \in Calls, Inv, Begin(c) \/ Continue(c)
  PROVE  \A d \in Calls \ {c} : pc'[d] = pc[d]
<1>1. CASE Begin(c)
  BY <1>1 DEF Begin, ReadForStamp, ReadForEdit, ReadForDelete, LockForPayment, ReadForComplement,
              PrepareComplement, ReadForCancel, ReadForCredit, Goto, Inv
<1>2. CASE Search(c) \/ Post(c) \/ Recover(c)
  BY <1>2 DEF Search, Post, Recover, Reuse, Fail, Answer, NoAnswer, NoUuid, Goto, End, Inv
<1>3. CASE \/ ClaimStamp(c) \/ RevertStamp(c) \/ PersistStamp(c) \/ WriteEdit(c) \/ WriteDelete(c)
           \/ CommitPayment(c) \/ ComplementPayment(c) \/ RecordComplement(c) \/ PacCancel(c)
           \/ WriteCancel(c) \/ CreateNote(c) \/ MarkCredited(c)
  BY <1>3 DEF ClaimStamp, RevertStamp, PersistStamp, WriteEdit, WriteDelete, CommitPayment,
              ComplementPayment, PrepareComplement, RecordComplement, PacCancel, WriteCancel,
              CreateNote, MarkCredited, Goto, End, Inv
<1> QED  BY <1>1, <1>2, <1>3 DEF Continue

LEMMA CommitFacts ==
  ASSUME NEW c \in Calls, PaidInv, Now(c), CommitPayment(c)
  PROVE  Now(c)' /\ UNCHANGED cfdi
<1> DEFINE l == local[c]
<1>1. /\ pc[c] = "pay" /\ UNCHANGED cfdi /\ invoice \in Row
      /\ l.read = invoice /\ l.amount > 0
      /\ Linked /\ InvoiceAgrees /\ Recorded({}) /\ cfdi[c].key = None
  BY DEF CommitPayment, PaidInv, Inv, Tables, Reads, Known, Now, Facts
<1>2. CASE UNCHANGED <<invoice, payment, bank>> /\ End(c, "done")
  <2>1. pc'[c] = "done"
    BY <1>2 DEF End, Goto, PaidInv, Inv
  <2> QED  BY <1>1, <1>2, <2>1, ReadingFacts DEF Free, PaidInv
<1>3. CASE ~(Rejects(l) \/ invoice.paid # l.read.paid)
  <2> DEFINE status == IF NewPaid(l) >= l.read.total THEN "PAID" ELSE "PARTIALLY_PAID"
             row == [amount |-> l.amount, banked |-> l.banked, uuid |-> None]
  <2>1. /\ payment' = [payment EXCEPT ![c] = row]
        /\ invoice' = [invoice EXCEPT !.paid = NewPaid(l), !.status = status]
    BY <1>3 DEF CommitPayment
  <2>2. /\ invoice'.uuid = invoice.uuid /\ invoice'.total = invoice.total
        /\ invoice'.cancelled = invoice.cancelled /\ invoice'.deleted = invoice.deleted
    <3> HIDE DEF status, l
    <3> QED  BY <1>1, <2>1 DEF Row
  <2>3. ~invoice.cancelled
    BY <1>1, <1>3 DEF Rejects
  <2>4. /\ payment'[c].uuid = None /\ payment'[c].amount = l.amount
        /\ \A q \in Calls \ {c} : payment'[q] = payment[q]
    BY <2>1 DEF PaidInv, Inv, Tables
  <2>5. c \notin Paid /\ payment[c].uuid = None
    BY <1>1 DEF PaidInv, NotYetPaid, Linked
  <2>6. c \in Paid' /\ Paid \subseteq Paid'
    BY <1>1, <2>4, <2>5 DEF Paid
  <2>7. Complements' = Complements /\ Issued(ForInvoice)' = Issued(ForInvoice)
    BY <1>1 DEF Complements, Issued
  <2>8. Linked'
    <3>1. \A q \in Calls : payment'[q].uuid = payment[q].uuid
      BY <2>4, <2>5
    <3> QED  BY <1>1, <2>2, <2>6, <2>7, <3>1 DEF Linked, Stamped
  <2>9. Recorded({})'
    <3>1. \A q \in Calls : payment'[q].uuid = payment[q].uuid
      BY <2>4, <2>5
    <3> QED  BY <1>1, <2>7, <3>1 DEF Recorded, Complements
  <2>10. InvoiceAgrees'
    BY <1>1, <2>2, <2>3, <2>7 DEF InvoiceAgrees, Stamped
  <2>11. pc'[c] \in {"complement", "done"}
    BY <1>3 DEF CommitPayment, End, Goto, PaidInv, Inv
  <2>12. Facts(c, pc[c], local[c])'
    BY <1>1, <2>6, <2>11 DEF Facts
  <2> QED  BY <1>1, <2>8, <2>9, <2>10, <2>12 DEF Now
<1> QED  BY <1>2, <1>3 DEF CommitPayment

LEMMA RecordFacts ==
  ASSUME NEW c \in Calls, Inv, Now(c), RecordComplement(c)
  PROVE  Now(c)' /\ UNCHANGED cfdi
<1> DEFINE u == local[c].uuid
           p == local[c].cfdi.key
<1>1. /\ pc[c] = "record" /\ pc'[c] = "done" /\ UNCHANGED <<invoice, cfdi>>
  BY DEF RecordComplement, End, Goto, Inv
<1>2. /\ u \in Complements /\ cfdi[u].key = p /\ p \in Paid /\ payment[p].uuid = None
      /\ Recorded({u}) /\ Linked /\ InvoiceAgrees
  BY <1>1 DEF Now, Facts
<1>3. /\ p \in Calls /\ u \in Calls /\ u # None
  BY <1>2, Values DEF Paid, Complements
<1>4. Recordable(c, p)
  <2>1. ASSUME NEW q \in Paid, payment[q].uuid = u
        PROVE  FALSE
    <3>1. q \in Calls /\ cfdi[u].key = q
      BY <1>2, <1>3, <2>1 DEF Paid, Linked
    <3> QED  BY <1>2, <1>3, <2>1, <3>1
  <2> QED  BY <1>2, <2>1 DEF Recordable
<1>5. payment' = [payment EXCEPT ![p] = [payment[p] EXCEPT !.uuid = u]]
  BY <1>4 DEF RecordComplement
<1> HIDE DEF u, p
<1>6. /\ payment'[p].uuid = u
      /\ \A q \in Calls \ {p} : payment'[q] = payment[q]
      /\ \A q \in Calls : payment'[q].amount = payment[q].amount
  BY <1>3, <1>5 DEF Inv, Tables, Payments
<1>7. Paid' = Paid /\ Complements' = Complements
  BY <1>1, <1>6 DEF Paid, Complements
<1>8. Linked'
  <2>1. \A q \in Calls : payment'[q].uuid # None =>
          q \in Paid' /\ payment'[q].uuid \in Calls /\ cfdi'[payment'[q].uuid].key = q
    BY <1>1, <1>2, <1>3, <1>6, <1>7 DEF Linked
  <2> QED  BY <1>1, <1>2, <1>7, <2>1 DEF Linked, Stamped
<1>9. Recorded({})'
  <2> SUFFICES ASSUME NEW d \in Complements
               PROVE  payment'[cfdi[d].key].uuid = d
    BY <1>1, <1>7 DEF Recorded
  <2>1. CASE d = u
    BY <1>2, <1>6, <2>1
  <2>2. CASE d # u
    <3>1. payment[cfdi[d].key].uuid = d /\ cfdi[d].key \in Calls /\ d # None
      BY <1>2, <2>2, Values DEF Recorded, Complements
    <3>2. cfdi[d].key # p
      BY <1>2, <3>1
    <3> QED  BY <1>6, <3>1, <3>2
  <2> QED  BY <2>1, <2>2
<1>10. InvoiceAgrees'
  BY <1>1, <1>2 DEF InvoiceAgrees, Issued, Stamped
<1>11. Facts(c, "done", local[c])'
  BY DEF Facts
<1> QED  BY <1>1, <1>8, <1>9, <1>10, <1>11 DEF Now

LEMMA RestFacts ==
  ASSUME NEW c \in Calls, Inv, Now(c), ComplementPayment(c) \/ CreateNote(c)
  PROVE  Now(c)' /\ UNCHANGED cfdi
<1>1. UNCHANGED <<invoice, payment, cfdi>>
  BY DEF ComplementPayment, CreateNote, tables
<1>2. CASE ComplementPayment(c)
  <2>1. pc[c] = "complement"
    BY <1>2 DEF ComplementPayment
  <2>2. Linked /\ Recorded({}) /\ InvoiceAgrees /\ cfdi[c].key = None /\ c \in Paid
    BY <2>1 DEF Now, Facts
  <2>3. CASE CanComplement(c) /\ PrepareComplement(c, c)
    BY <1>1, <2>2, <2>3, PrepareFacts
  <2>4. CASE End(c, "done")
    <3>1. pc'[c] = "done"
      BY <2>4 DEF End, Goto, Inv
    <3> QED  BY <1>1, <2>1, <3>1, ReadingFacts DEF Free
  <2> QED  BY <1>2, <2>3, <2>4 DEF ComplementPayment
<1>3. CASE CreateNote(c)
  <2>1. pc[c] = "credit" /\ pc'[c] = "mark"
    BY <1>3 DEF CreateNote, Goto, Inv
  <2> QED  BY <1>1, <2>1, ReadingFacts DEF Free
<1> QED  BY <1>2, <1>3

LEMMA AgreeStep == AgreeInv /\ [Next]_vars => AgreeInv'
<1> SUFFICES ASSUME AgreeInv, [Next]_vars
             PROVE  AgreeInv'
  OBVIOUS
<1>1. PaidInv /\ PaidInv' /\ Inv /\ Inv'
  BY PaidStep DEF AgreeInv, PaidInv
<1>2. ASSUME NEW c \in Calls, Step(c), alone'
      PROVE  Together'
  <2>1. /\ alone /\ Running \subseteq {c}
        /\ pc'[c] \notin Faulty /\ local'[c].uuid # Blank
        /\ Begin(c) \/ Continue(c)
    BY <1>2 DEF Step
  <2>2. Together
    BY <2>1 DEF AgreeInv
  <2>3. Now(c) /\ \A d \in Calls \ {c} : pc[d] \in {"idle", "done"}
    BY <1>1, <2>1, <2>2, RunsAlone
  <2>4. pc[c] \notin Faulty
    BY <2>2 DEF Together
  <2>5. Now(c)' /\ \A d \in Calls \ {c} : cfdi'[d].key = cfdi[d].key
    <3>1. ~Recover(c)
      BY <2>4 DEF Recover, Faulty
    <3> QED  BY <1>1, <2>1, <2>3, <3>1, BeginFacts, SearchFacts, PostFacts, ClaimFacts, EndFacts,
                PersistFacts, PacFacts, CommitFacts, RecordFacts, RestFacts DEF Continue
  <2>6. \A d \in Calls \ {c} : pc'[d] = pc[d]
    BY <1>1, <2>1, OthersWait
  <2> QED  BY <1>1, <2>1, <2>2, <2>3, <2>5, <2>6, KeepsTogether DEF Together
<1>3. ASSUME NEW c \in Calls, Die(c), alone'
      PROVE  Together'
  BY <1>3 DEF Die
<1>4. CASE UNCHANGED vars
  <2>1. /\ Running' = Running
        /\ \A c \in Calls : pc'[c] = pc[c]
        /\ UNCHANGED <<invoice, payment, cfdi>>
    BY <1>4 DEF vars, Running
  <2>2. ASSUME NEW c \in Calls, Facts(c, pc[c], local[c])
        PROVE  Facts(c, pc[c], local[c])'
    BY <1>4, <2>2 DEF vars, Facts, Asking, Awaits, Recorded, Complements, CanEdit, CanDelete,
                      Issued, Paid, Stamped
  <2>3. Together => Together'
    BY <2>1, <2>2, SameBooks DEF Together
  <2> QED  BY <1>1, <1>4, <2>3 DEF AgreeInv, vars
<1> QED  BY <1>1, <1>2, <1>3, <1>4 DEF AgreeInv, Next, Quiescent

LEMMA InitAgree == Init => AgreeInv
<1> SUFFICES ASSUME Init
             PROVE  AgreeInv
  OBVIOUS
<1>1. PaidInv
  BY InitPaid
<1>2. /\ \A c \in Calls : /\ pc[c] = "idle" /\ cfdi[c].key = None
                          /\ payment[c].uuid = None
      /\ ~Stamped(invoice) /\ ~invoice.cancelled
  BY DEF Init, NoCfdi, NoPayment, Draft, Stamped
<1>3. Complements = {} /\ Issued(ForInvoice) = {}
  BY <1>2, Values DEF Complements, Issued
<1>4. Linked
  <2>1. Cardinality(Complements) = 0
    BY <1>3, FS_EmptySet
  <2>2. {cfdi[d].number : d \in Complements} = 1 .. 0
    BY <1>3
  <2> QED  BY <1>2, <2>1, <2>2 DEF Linked
<1>5. InvoiceAgrees /\ Recorded({})
  BY <1>2, <1>3 DEF InvoiceAgrees, Recorded
<1>6. \A c \in Calls : Facts(c, pc[c], local[c]) /\ pc[c] \notin Faulty
  BY <1>2 DEF Facts, Faulty
<1>7. Running = {}
  BY <1>2 DEF Running
<1> QED  BY <1>1, <1>4, <1>5, <1>6, <1>7 DEF AgreeInv, Together

\* Where requests did not overlap, none died and the provider answered, books
\* and tax authority agree whenever nothing runs: the invoice's receipt, and the
\* numbers of the complements (stampInvoice, cancelInvoice, registerPayment,
\* stampPaymentComplement).
THEOREM BooksAgree == Spec => []ReceiptsAgree
<1>1. AgreeInv => ReceiptsAgree
  <2> SUFFICES ASSUME AgreeInv, alone, Running = {}
               PROVE  InvoiceAgrees /\ ComplementsInOrder
    BY DEF ReceiptsAgree
  <2>1. \A c \in Calls : pc[c] \in {"idle"} \cup Ended
    BY DEF Running
  <2>2. InvoiceAgrees /\ Recorded({}) /\ Linked
    BY <2>1 DEF AgreeInv, Together, Ended
  <2>3. ComplementsInOrder
    BY <2>2 DEF ComplementsInOrder, Linked, Recorded, Complements
  <2> QED  BY <2>2, <2>3
<1> QED  BY <1>1, InitAgree, AgreeStep, PTL DEF Spec

-----------------------------------------------------------------------------
(* What is recorded was issued.                                            *)

\* What call c relies on: it has not had a receipt issued before it asks for
\* one, the UUID it is to record is of a receipt like the one it asked for, and
\* the invoice it is to cancel is the one whose receipt it names.
NotAsked == {"idle", "claim", "search", "post", "pay", "complement"}
Holds(c) ==
  /\ pc[c] \in NotAsked => cfdi[c].key = None
  /\ pc[c] \in {"persist", "record"} /\ local[c].uuid \in Calls =>
       cfdi[local[c].uuid].key = local[c].cfdi.key
  /\ pc[c] \in {"annul", "cancel"} => Stamped(invoice) /\ local[c].uuid = invoice.uuid
  /\ pc[c] = "cancel" => ~cfdi[invoice.uuid].active

PaymentsIssued == \A p \in Calls : payment[p].uuid \in Calls => cfdi[payment[p].uuid].key = p

RecordsInv ==
  /\ Stamped(invoice) => cfdi[invoice.uuid].key = ForInvoice
  /\ PaymentsIssued
  /\ invoice.cancelled => Stamped(invoice) /\ ~cfdi[invoice.uuid].active
  /\ \A c \in Calls : Holds(c)

\* Receipts are not taken back, and are not put in force again.
ReceiptsStand(c) ==
  /\ \A d \in Calls : cfdi[d].key # None =>
       cfdi'[d].key = cfdi[d].key /\ (cfdi'[d].active => cfdi[d].active)
  /\ \A d \in Calls \ {c} : cfdi[d].key = None => cfdi'[d].key = None

\* A step of one call.
LEMMA KeepsRecords ==
  ASSUME Inv, Inv', RecordsInv, NEW c \in Calls,
         \A d \in Calls \ {c} : pc'[d] = pc[d] /\ local'[d] = local[d],
         ReceiptsStand(c),
         Holds(c)',
         Stamped(invoice) => invoice'.uuid = invoice.uuid,
         Stamped(invoice)' => Stamped(invoice) \/ cfdi'[invoice'.uuid].key = ForInvoice,
         \A p \in Calls : \/ payment'[p].uuid = payment[p].uuid
                          \/ payment'[p].uuid \in Calls => cfdi'[payment'[p].uuid].key = p,
         invoice'.cancelled => \/ invoice.cancelled
                               \/ Stamped(invoice) /\ ~cfdi'[invoice'.uuid].active
  PROVE  RecordsInv'
<1>1. /\ None \notin Calls /\ None # ForInvoice
      /\ invoice.uuid \in Calls \cup {None} /\ invoice'.uuid \in Calls \cup {None}
  BY Values DEF Inv, Tables, Row
<1>2. Stamped(invoice) => /\ Stamped(invoice)'
                          /\ cfdi[invoice.uuid].key = ForInvoice
                          /\ cfdi'[invoice.uuid].key = ForInvoice
                          /\ cfdi'[invoice.uuid].active => cfdi[invoice.uuid].active
  BY <1>1 DEF RecordsInv, ReceiptsStand, Stamped
<1>3. Stamped(invoice)' => cfdi'[invoice'.uuid].key = ForInvoice
  BY <1>2
<1>4. PaymentsIssued'
  <2> SUFFICES ASSUME NEW p \in Calls, payment'[p].uuid \in Calls,
                      payment'[p].uuid = payment[p].uuid
               PROVE  cfdi'[payment'[p].uuid].key = p
    BY DEF PaymentsIssued
  <2>1. cfdi[payment[p].uuid].key = p
    BY DEF RecordsInv, PaymentsIssued
  <2> QED  BY <1>1, <2>1 DEF ReceiptsStand
<1>5. invoice'.cancelled => Stamped(invoice)' /\ ~cfdi'[invoice'.uuid].active
  BY <1>2 DEF RecordsInv
<1>6. ASSUME NEW d \in Calls \ {c}
      PROVE  Holds(d)'
  <2>1. Holds(d) /\ pc'[d] = pc[d] /\ local'[d] = local[d]
    BY DEF RecordsInv
  <2>2. pc[d] \in NotAsked => cfdi'[d].key = None
    BY <2>1 DEF Holds, ReceiptsStand
  <2>3. ASSUME pc[d] \in {"persist", "record"}, local[d].uuid \in Calls
        PROVE  cfdi'[local[d].uuid].key = local[d].cfdi.key
    <3>1. cfdi[local[d].uuid].key = local[d].cfdi.key
      BY <2>1, <2>3 DEF Holds
    <3>2. local[d].cfdi.key # None
      BY <1>1, <2>3 DEF Inv, Reads, Known
    <3> QED  BY <2>3, <3>1, <3>2 DEF ReceiptsStand
  <2>4. pc[d] \in {"annul", "cancel"} => Stamped(invoice)' /\ local[d].uuid = invoice'.uuid
    BY <1>2, <2>1 DEF Holds
  <2>5. pc[d] = "cancel" => ~cfdi'[invoice'.uuid].active
    BY <1>2, <2>1 DEF Holds
  <2> QED  BY <2>1, <2>2, <2>3, <2>4, <2>5 DEF Holds
<1> QED  BY <1>3, <1>4, <1>5, <1>6 DEF RecordsInv

LEMMA SameReceipts ==
  ASSUME NEW c \in Calls, UNCHANGED cfdi
  PROVE  ReceiptsStand(c)
  BY DEF ReceiptsStand

\* A call that ends relies on nothing.
LEMMA EndHolds ==
  ASSUME NEW c \in Calls, Inv, NEW how \in Ended, End(c, how)
  PROVE  Holds(c)' /\ \A d \in Calls \ {c} : pc'[d] = pc[d] /\ local'[d] = local[d]
  BY DEF Holds, Inv, End, Goto, Ended, NotAsked

\* An adapter that throws.
LEMMA FailHolds ==
  ASSUME NEW c \in Calls, Inv, Fail(c)
  PROVE  Holds(c)' /\ \A d \in Calls \ {c} : pc'[d] = pc[d] /\ local'[d] = local[d]
<1>1. CASE local[c].cfdi.key = ForInvoice
  BY <1>1 DEF Fail, Goto, Holds, Inv, NotAsked
<1>2. CASE local[c].cfdi.key # ForInvoice
  BY <1>2, EndHolds DEF Fail, Ended
<1> QED  BY <1>1, <1>2

\* An answer of the adapter with the UUID of what was asked for, or without one.
LEMMA AnswerHolds ==
  ASSUME NEW c \in Calls, Inv, NEW uuid \in Calls \cup {Blank}, Answer(c, uuid),
         uuid \in Calls => cfdi'[uuid].key = local[c].cfdi.key
  PROVE  Holds(c)' /\ \A d \in Calls \ {c} : pc'[d] = pc[d] /\ local'[d] = local[d]
<1>1. /\ pc'[c] \in {"persist", "record"}
      /\ \A d \in Calls \ {c} : pc'[d] = pc[d] /\ local'[d] = local[d]
  BY DEF Answer, Goto, Inv
<1>2. local'[c].uuid = uuid /\ local'[c].cfdi = local[c].cfdi
  BY DEF Answer, Inv, Locals
<1> QED  BY <1>1, <1>2 DEF Holds, NotAsked

\* A complement is prepared.
LEMMA PrepareHolds ==
  ASSUME NEW c \in Calls, Inv, RecordsInv, pc[c] \in NotAsked, UNCHANGED cfdi,
         NEW p, PrepareComplement(c, p)
  PROVE  Holds(c)' /\ \A d \in Calls \ {c} : pc'[d] = pc[d] /\ local'[d] = local[d]
<1>1. pc'[c] = "search" /\ \A d \in Calls \ {c} : pc'[d] = pc[d] /\ local'[d] = local[d]
  BY DEF PrepareComplement, Goto, Inv
<1>2. cfdi'[c].key = None
  BY DEF RecordsInv, Holds
<1> QED  BY <1>1, <1>2 DEF Holds

LEMMA BeginKeeps ==
  ASSUME NEW c \in Calls, Inv, Inv', RecordsInv, Begin(c)
  PROVE  RecordsInv'
<1>1. pc[c] = "idle" /\ cfdi[c].key = None
  BY DEF Begin, ReadForStamp, ReadForEdit, ReadForDelete, LockForPayment, ReadForComplement,
         ReadForCancel, ReadForCredit, Starts, RecordsInv, Holds, NotAsked
<1>2. UNCHANGED <<invoice, payment, cfdi>>
  BY DEF Begin, ReadForStamp, ReadForEdit, ReadForDelete, LockForPayment, ReadForComplement,
         ReadForCancel, ReadForCredit, tables
<1>3. Holds(c)' /\ \A d \in Calls \ {c} : pc'[d] = pc[d] /\ local'[d] = local[d]
  <2>1. CASE ReadForComplement(c)
    BY <1>1, <1>2, <2>1, PrepareHolds DEF ReadForComplement, NotAsked
  <2>2. CASE ReadForCancel(c)
    BY <2>2 DEF ReadForCancel, Goto, Holds, Inv, NotAsked, Locals, tables
  <2>3. CASE \/ ReadForStamp(c) \/ ReadForEdit(c) \/ ReadForDelete(c)
             \/ LockForPayment(c) \/ ReadForCredit(c)
    <3>1. /\ pc'[c] \in {"claim", "edit", "delete", "pay", "credit"}
          /\ \A d \in Calls \ {c} : pc'[d] = pc[d] /\ local'[d] = local[d]
      BY <2>3 DEF ReadForStamp, ReadForEdit, ReadForDelete, LockForPayment, ReadForCredit,
                  Goto, Inv
    <3> QED  BY <1>1, <1>2, <3>1 DEF Holds
  <2> QED  BY <2>1, <2>2, <2>3 DEF Begin
<1> QED  BY <1>2, <1>3, KeepsRecords, SameReceipts DEF Stamped

\* The adapter.
LEMMA AdapterKeeps ==
  ASSUME NEW c \in Calls, Inv, Inv', RecordsInv, Search(c) \/ Post(c) \/ Recover(c)
  PROVE  RecordsInv'
<1>1. UNCHANGED <<invoice, payment>>
  BY DEF Search, Post, Recover, tables
<1>2. ReceiptsStand(c)
  <2>1. CASE UNCHANGED cfdi
    BY <2>1, SameReceipts
  <2>2. CASE Post(c) /\ Issue(c)
    <3>1. cfdi[c].key = None
      BY <2>2 DEF Post, RecordsInv, Holds, NotAsked
    <3>2. \A d \in Calls \ {c} : cfdi'[d] = cfdi[d]
      BY <2>2 DEF Issue, Inv, Tables
    <3> QED  BY <3>1, <3>2 DEF ReceiptsStand
  <2> QED  BY <2>1, <2>2 DEF Search, Post, Recover, tables
<1>3. Holds(c)' /\ \A d \in Calls \ {c} : pc'[d] = pc[d] /\ local'[d] = local[d]
  <2>1. CASE Fail(c)
    BY <2>1, FailHolds
  <2>2. CASE UNCHANGED cfdi /\ \E d \in Found(c) : Answer(c, d)
    <3>1. PICK d \in Found(c) : Answer(c, d)
      BY <2>2
    <3>2. d \in Calls /\ cfdi'[d].key = local[c].cfdi.key
      BY <2>2, <3>1 DEF Found
    <3> QED  BY <3>1, <3>2, AnswerHolds
  <2>3. CASE Search(c) /\ UNCHANGED cfdi /\ Goto(c, "post") /\ UNCHANGED local
    <3>1. cfdi'[c].key = None
      BY <2>3 DEF Search, RecordsInv, Holds, NotAsked
    <3> QED  BY <2>3, <3>1 DEF Goto, Holds, Inv
  <2>4. CASE Issue(c) /\ Answer(c, c)
    <3>1. cfdi'[c].key = local[c].cfdi.key
      BY <2>4 DEF Issue, Inv, Tables
    <3> QED  BY <2>4, <3>1, AnswerHolds
  <2>5. CASE NoAnswer(c)
    BY <2>5 DEF NoAnswer, Goto, Holds, Inv, NotAsked
  <2>6. CASE NoUuid(c)
    <3>1. Blank \notin Calls
      BY ConstantsAssumption DEF Calls
    <3> QED  BY <2>6, <3>1, EndHolds, AnswerHolds DEF NoUuid, Ended
  <2> QED  BY <2>1, <2>2, <2>3, <2>4, <2>5, <2>6 DEF Search, Post, Recover, Reuse, tables
<1> QED  BY <1>1, <1>2, <1>3, KeepsRecords DEF Stamped

\* The statements that write the row.
LEMMA RowKeeps ==
  ASSUME NEW c \in Calls, Inv, Inv', RecordsInv,
         \/ RevertStamp(c) \/ PersistStamp(c) \/ WriteEdit(c) \/ WriteDelete(c)
         \/ WriteCancel(c) \/ MarkCredited(c)
  PROVE  RecordsInv'
<1>1. UNCHANGED <<payment, cfdi>> /\ End(c, "done") /\ invoice \in Row
  BY DEF RevertStamp, PersistStamp, WriteEdit, WriteDelete, WriteCancel, MarkCredited, Inv, Tables
<1>2. Holds(c)' /\ \A d \in Calls \ {c} : pc'[d] = pc[d] /\ local'[d] = local[d]
  BY <1>1, EndHolds DEF Ended
<1>3. ASSUME invoice'.uuid = invoice.uuid, invoice'.cancelled = invoice.cancelled
      PROVE  RecordsInv'
  BY <1>1, <1>2, <1>3, KeepsRecords, SameReceipts DEF Stamped
<1>4. CASE RevertStamp(c) \/ WriteEdit(c) \/ WriteDelete(c) \/ MarkCredited(c)
  <2>1. invoice'.uuid = invoice.uuid /\ invoice'.cancelled = invoice.cancelled
    BY <1>1, <1>4 DEF RevertStamp, Reverted, WriteEdit, WriteDelete, MarkCredited, WriteInvoice, Row
  <2> QED  BY <1>3, <2>1
<1>5. CASE PersistStamp(c) /\ Stamping
  <2>1. invoice'.uuid = local[c].uuid /\ invoice'.cancelled = invoice.cancelled
    BY <1>1, <1>5 DEF PersistStamp, WriteInvoice, Row
  <2>2. cfdi[local[c].uuid].key = ForInvoice
    BY <1>5 DEF PersistStamp, Inv, Reads, Known, RecordsInv, Holds
  <2> QED  BY <1>1, <1>2, <1>5, <2>1, <2>2, KeepsRecords, SameReceipts DEF Stamped, Stamping
<1>6. CASE PersistStamp(c) /\ ~Stamping
  BY <1>3, <1>6 DEF PersistStamp, WriteInvoice
<1>7. CASE WriteCancel(c)
  <2>1. invoice'.uuid = invoice.uuid
    BY <1>1, <1>7 DEF WriteCancel, WriteInvoice, Row
  <2>2. Stamped(invoice) /\ ~cfdi'[invoice'.uuid].active
    BY <1>1, <1>7, <2>1 DEF WriteCancel, RecordsInv, Holds
  <2> QED  BY <1>1, <1>2, <2>1, <2>2, KeepsRecords, SameReceipts DEF Stamped
<1> QED  BY <1>4, <1>5, <1>6, <1>7

LEMMA PaymentKeeps ==
  ASSUME NEW c \in Calls, Inv, Inv', RecordsInv, CommitPayment(c)
  PROVE  RecordsInv'
<1>1. UNCHANGED cfdi /\ pc[c] = "pay" /\ cfdi[c].key = None /\ invoice \in Row
  BY DEF CommitPayment, RecordsInv, Holds, NotAsked, Inv, Tables
<1>2. invoice'.uuid = invoice.uuid /\ invoice'.cancelled = invoice.cancelled
  BY <1>1 DEF CommitPayment, Row
<1>3. \A p \in Calls : payment'[p].uuid = payment[p].uuid \/ payment'[p].uuid = None
  BY DEF CommitPayment, Inv, Tables
<1>4. Holds(c)' /\ \A d \in Calls \ {c} : pc'[d] = pc[d] /\ local'[d] = local[d]
  <2>1. CASE End(c, "done")
    BY <2>1, EndHolds DEF Ended
  <2>2. CASE Goto(c, "complement") /\ UNCHANGED local
    BY <1>1, <2>2 DEF Goto, Holds, Inv
  <2> QED  BY <2>1, <2>2 DEF CommitPayment
<1> QED  BY <1>1, <1>2, <1>3, <1>4, Values, KeepsRecords, SameReceipts DEF Stamped

LEMMA RecordKeeps ==
  ASSUME NEW c \in Calls, Inv, Inv', RecordsInv, RecordComplement(c)
  PROVE  RecordsInv'
<1>1. UNCHANGED <<invoice, cfdi>> /\ End(c, "done") /\ pc[c] = "record"
  BY DEF RecordComplement
<1>2. Holds(c)' /\ \A d \in Calls \ {c} : pc'[d] = pc[d] /\ local'[d] = local[d]
  BY <1>1, EndHolds DEF Ended
<1>3. PICK p \in Calls : p = local[c].cfdi.key
  BY <1>1 DEF Inv, Reads, Known
<1>4. local[c].uuid \in Calls => cfdi[local[c].uuid].key = p
  BY <1>1, <1>3 DEF RecordsInv, Holds
<1>5. /\ \A q \in Calls \ {p} : payment'[q] = payment[q]
      /\ payment'[p] = payment[p] \/ payment'[p].uuid = local[c].uuid
  BY <1>3 DEF RecordComplement, Inv, Tables, Payments
<1> QED  BY <1>1, <1>2, <1>4, <1>5, KeepsRecords, SameReceipts DEF Stamped

LEMMA CancelKeeps ==
  ASSUME NEW c \in Calls, Inv, Inv', RecordsInv, PacCancel(c)
  PROVE  RecordsInv'
<1>1. UNCHANGED <<invoice, payment>> /\ pc[c] = "annul"
  BY DEF PacCancel
<1>2. PICK d \in Calls : d = local[c].uuid
  BY <1>1 DEF Inv, Reads, Known
<1>3. Stamped(invoice) /\ d = invoice.uuid /\ cfdi[d].key = ForInvoice
  BY <1>1, <1>2 DEF RecordsInv, Holds
<1>4. CASE UNCHANGED cfdi /\ End(c, "done")
  BY <1>1, <1>4, EndHolds, KeepsRecords, SameReceipts DEF Stamped, Ended
<1>5. CASE Annul(c)
  <2>1. /\ cfdi'[d].key = cfdi[d].key /\ ~cfdi'[d].active
        /\ \A e \in Calls \ {d} : cfdi'[e] = cfdi[e]
    BY <1>2, <1>5 DEF Annul, Inv, Tables, Receipts
  <2>2. ReceiptsStand(c)
    BY <1>3, <2>1, Values DEF ReceiptsStand
  <2>3. Holds(c)' /\ \A e \in Calls \ {c} : pc'[e] = pc[e] /\ local'[e] = local[e]
    <3>1. CASE End(c, "unanswered") \/ End(c, "done")
      BY <3>1, EndHolds DEF Ended
    <3>2. CASE Goto(c, "cancel") /\ UNCHANGED local
      BY <1>1, <1>2, <1>3, <2>1, <3>2 DEF Goto, Holds, Inv, NotAsked, Stamped
    <3> QED  BY <3>1, <3>2 DEF PacCancel
  <2> QED  BY <1>1, <2>2, <2>3, KeepsRecords DEF Stamped
<1> QED  BY <1>4, <1>5 DEF PacCancel

\* The rest of what goes on.
LEMMA RestKeeps ==
  ASSUME NEW c \in Calls, Inv, Inv', RecordsInv,
         ClaimStamp(c) \/ ComplementPayment(c) \/ CreateNote(c) \/ Die(c)
  PROVE  RecordsInv'
<1>1. UNCHANGED <<payment, cfdi>> /\ invoice \in Row
  BY DEF ClaimStamp, ComplementPayment, CreateNote, Die, Inv, Tables, tables
<1>2. invoice'.uuid = invoice.uuid /\ invoice'.cancelled = invoice.cancelled
  BY <1>1 DEF ClaimStamp, ComplementPayment, CreateNote, Die, WriteInvoice, Row, tables
<1>3. Holds(c)' /\ \A d \in Calls \ {c} : pc'[d] = pc[d] /\ local'[d] = local[d]
  <2>1. CASE End(c, "done") \/ End(c, "dead")
    BY <2>1, EndHolds DEF Ended
  <2>2. CASE ClaimStamp(c) /\ Claimable
    <3>1. cfdi[c].key = None
      BY <2>2 DEF ClaimStamp, RecordsInv, Holds, NotAsked
    <3>2. pc'[c] = "search" /\ \A d \in Calls \ {c} : pc'[d] = pc[d] /\ local'[d] = local[d]
      BY <2>2 DEF ClaimStamp, Goto, Inv
    <3> QED  BY <1>1, <3>1, <3>2 DEF Holds
  <2>3. CASE ComplementPayment(c) /\ CanComplement(c)
    BY <1>1, <2>3, PrepareHolds DEF ComplementPayment, NotAsked
  <2>4. CASE CreateNote(c)
    BY <2>4 DEF CreateNote, Goto, Holds, Inv, NotAsked
  <2> QED  BY <2>1, <2>2, <2>3, <2>4 DEF ClaimStamp, ComplementPayment, Die
<1> QED  BY <1>1, <1>2, <1>3, KeepsRecords, SameReceipts DEF Stamped

LEMMA RecordsStep == Inv /\ RecordsInv /\ [Next]_vars => RecordsInv'
<1> SUFFICES ASSUME Inv, RecordsInv, [Next]_vars
             PROVE  RecordsInv'
  OBVIOUS
<1>1. Inv'
  BY NextStep
<1>2. ASSUME NEW c \in Calls, Step(c) \/ Die(c)
      PROVE  RecordsInv'
  BY <1>1, <1>2, BeginKeeps, AdapterKeeps, RowKeeps, PaymentKeeps, RecordKeeps, CancelKeeps,
     RestKeeps DEF Step, Continue
<1>3. CASE UNCHANGED vars
  BY <1>3 DEF vars, RecordsInv, PaymentsIssued, Holds, Stamped
<1> QED  BY <1>2, <1>3 DEF Next, Quiescent

\* A UUID in the books is of a receipt issued for the invoice, or for the payment
\* that records it, and only an annulled invoice is cancelled, for any number of
\* requests and whatever the provider does (the adapter's look-up by serie and
\* folio, cancelInvoice).
THEOREM RecordsGenuine == Spec => []RecordsAreIssued
<1>1. Init => RecordsInv
  <2> SUFFICES ASSUME Init
               PROVE  RecordsInv
    OBVIOUS
  <2>1. invoice.uuid = None /\ ~invoice.cancelled
    BY DEF Init, Draft
  <2>2. \A c \in Calls : payment[c].uuid = None /\ cfdi[c].key = None /\ pc[c] = "idle"
    BY DEF Init, NoPayment, NoCfdi
  <2> QED  BY <2>1, <2>2, Values DEF RecordsInv, PaymentsIssued, Holds, Stamped
<1>2. RecordsInv => RecordsAreIssued
  BY DEF RecordsInv, PaymentsIssued, RecordsAreIssued, Paid
<1> QED  BY <1>1, <1>2, RecordsStep, InductiveInvariant, PTL DEF Spec

=============================================================================
