------------------------------ MODULE Journals ------------------------------
(***************************************************************************)
(* Journal entries and the fiscal period they fall in: createJournalEntry, *)
(* postJournalEntry, reverseJournalEntry, createAndPostAutoJournal,        *)
(* reopenFiscalPeriod and closeFiscalPeriod of AccountingService, and      *)
(* closePeriod of PeriodCloseService.                                      *)
(*                                                                         *)
(* Every handler tests the period and the entry's status first and writes  *)
(* later; posting and reversing claim the entry with a conditional UPDATE  *)
(* in the transaction that moves the balances.  One period covers every    *)
(* date.  An entry is named after the call that created it, and its amount *)
(* is what it adds to one account (the other side moves by the opposite).  *)
(* A request that is refused when it arrives changes nothing and is left   *)
(* out.                                                                    *)
(***************************************************************************)
EXTENDS Integers, FiniteSets, Functions

CONSTANTS
  MaxCalls,    \* how many requests the API receives
  Amounts,     \* net amounts of an entry for the account
  MaxRunning,  \* how many requests run at the same time
  Deaths,      \* whether the process may die between two statements
  None         \* SQL NULL

Calls == 1 .. MaxCalls   \* numbered as they arrive
Document == "PAY-1"      \* the reference of the one automatic entry

ASSUME ConstantsAssumption ==
  /\ MaxCalls \in Nat
  /\ Amounts \subseteq Int
  /\ MaxRunning \in Nat \ {0}
  /\ Deaths \in BOOLEAN
  /\ None \notin Int \cup {Document, "DRAFT", "POSTED", "REVERSED"}

VARIABLES
  entry,    \* journal_entries: [status, amount, reference, reversalOf]
  balance,  \* Account.balance
  closed,   \* FiscalPeriod.isClosed
  posts,    \* history: how often each entry's lines moved the balance
  alone,    \* history: no two requests ran at once and none died
  pc,       \* the next statement of each call
  target    \* the entry each call has read

vars == <<entry, balance, closed, posts, alone, pc, target>>
books == <<entry, balance, posts>>

NoEntry == [status |-> None, amount |-> 0, reference |-> None, reversalOf |-> None]
NewEntry(a, reference) ==
  [status |-> "DRAFT", amount |-> a, reference |-> reference, reversalOf |-> None]
Entries == {e \in Calls : entry[e].status # None}

Ended == {"done", "refused", "dead"}
Running == {c \in Calls : pc[c] \notin {"idle"} \cup Ended}
Starts(c) == /\ pc[c] = "idle"
             /\ \A d \in 1 .. c - 1 : pc[d] # "idle"
             /\ Cardinality(Running) < MaxRunning
Goto(c, step) == pc' = [pc EXCEPT ![c] = step]

Init == /\ entry = [c \in Calls |-> NoEntry]
        /\ balance = 0
        /\ closed = FALSE
        /\ posts = [c \in Calls |-> 0]
        /\ alone = TRUE
        /\ pc = [c \in Calls |-> "idle"]
        /\ target = [c \in Calls |-> None]

\* applyLineBalances, by UPDATE ... SET balance = balance + delta.
Apply(e, amount) == /\ balance' = balance + amount
                    /\ posts' = [posts EXCEPT ![e] = @ + 1]

-----------------------------------------------------------------------------
(* createJournalEntry.                                                     *)

ReadForCreate(c) ==
  /\ Starts(c)
  /\ ~closed
  /\ Goto(c, "create")
  /\ UNCHANGED <<books, closed, target>>

CreateEntry(c) ==
  /\ pc[c] = "create"
  /\ \E a \in Amounts : entry' = [entry EXCEPT ![c] = NewEntry(a, None)]
  /\ Goto(c, "done")
  /\ UNCHANGED <<balance, posts, closed, target>>

-----------------------------------------------------------------------------
(* postJournalEntry.                                                       *)

\* Mutant: the period is not tested before posting.
PostAny(e) == e \in Entries /\ entry[e].status # "POSTED"
\* A reversed entry is not POSTED either.
CanPost(e) == e \in Entries /\ entry[e].status # "POSTED" /\ ~closed

ReadForPost(c) ==
  /\ Starts(c)
  /\ \E e \in Entries : /\ CanPost(e)
                        /\ target' = [target EXCEPT ![c] = e]
  /\ Goto(c, "post")
  /\ UNCHANGED <<books, closed>>

\* Mutant: the claim does not look at the status again.
AlwaysPostable(e) == TRUE
Postable(e) == entry[e].status # "POSTED"

PostEntry(c) ==
  LET e == target[c] IN
  /\ pc[c] = "post"
  /\ IF Postable(e)
       THEN /\ entry' = [entry EXCEPT ![e] = [@ EXCEPT !.status = "POSTED"]]
            /\ Apply(e, entry[e].amount)
       ELSE UNCHANGED books
  /\ Goto(c, "done")
  /\ UNCHANGED <<closed, target>>

-----------------------------------------------------------------------------
(* reverseJournalEntry.                                                    *)

ReadForReverse(c) ==
  /\ Starts(c)
  /\ ~closed
  /\ \E e \in Entries : /\ entry[e].status = "POSTED"
                        /\ target' = [target EXCEPT ![c] = e]
  /\ Goto(c, "reverse")
  /\ UNCHANGED <<books, closed>>

ReversedBy(e) == {r \in Entries : entry[r].reversalOf = e}

\* Mutant: the entry is set to REVERSED by id, and reversalOfId is not unique.
AlwaysReversible(e) == TRUE
\* The conditional UPDATE finds it POSTED, and reversalOfId is unique.
Reversible(e) == entry[e].status = "POSTED" /\ ReversedBy(e) = {}

\* Mutant: the reversal is created but the balance is not touched.
KeepBalance(c, amount) == UNCHANGED balance /\ posts' = [posts EXCEPT ![c] = @ + 1]
ApplyReversal(c, amount) == Apply(c, amount)

ReverseEntry(c) ==
  LET e == target[c] IN
  /\ pc[c] = "reverse"
  /\ IF Reversible(e)
       THEN /\ entry' = [entry EXCEPT
                 ![e] = [@ EXCEPT !.status = "REVERSED"],
                 ![c] = [status |-> "POSTED", amount |-> -entry[e].amount,
                         reference |-> None, reversalOf |-> e]]
            /\ ApplyReversal(c, -entry[e].amount)
       ELSE UNCHANGED books
  /\ Goto(c, "done")
  /\ UNCHANGED <<closed, target>>

-----------------------------------------------------------------------------
(* createAndPostAutoJournal.                                               *)

AutoEntries == {e \in Entries : entry[e].reference = Document}

\* The look-up by reference finds nothing; the period is tested next.
ReadForAuto(c) ==
  /\ Starts(c)
  /\ AutoEntries = {}
  /\ ~closed
  /\ Goto(c, "auto")
  /\ UNCHANGED <<books, closed, target>>

\* Mutant: nothing keeps two entries from sharing a reference.
AnyReference == TRUE
ReferenceFree == AutoEntries = {}

\* The unique key stops the second, which answers with the first's entry.
CreateAuto(c) ==
  /\ pc[c] = "auto"
  /\ IF ReferenceFree
       THEN /\ \E a \in Amounts : entry' = [entry EXCEPT ![c] = NewEntry(a, Document)]
            /\ Goto(c, "reread")
       ELSE Goto(c, "done") /\ UNCHANGED entry
  /\ UNCHANGED <<balance, posts, closed, target>>

PostsAuto(c) == IF CanPost(c)
                  THEN Goto(c, "post") /\ target' = [target EXCEPT ![c] = c]
                  ELSE Goto(c, "refused") /\ UNCHANGED target

\* postJournalEntry reads the entry and the period anew.
RereadAuto(c) ==
  /\ pc[c] = "reread"
  /\ PostsAuto(c)
  /\ UNCHANGED <<books, closed>>

-----------------------------------------------------------------------------
(* closePeriod, closeFiscalPeriod and reopenFiscalPeriod.                  *)

\* The checklist's points do not keep the period open: with a justification it
\* is closed over entries in draft.
ReadForClose(c) ==
  /\ Starts(c)
  /\ ~closed
  /\ Goto(c, "close")
  /\ UNCHANGED <<books, closed, target>>

\* closeFiscalPeriod's UPDATE tests isClosed again: it closes the period or
\* finds it closed.
ClosePeriod(c) ==
  /\ pc[c] = "close"
  /\ closed' = TRUE
  /\ Goto(c, "done")
  /\ UNCHANGED <<books, target>>

ReopenPeriod(c) ==
  /\ Starts(c)
  /\ closed' = FALSE
  /\ Goto(c, "done")
  /\ UNCHANGED <<books, target>>

-----------------------------------------------------------------------------
\* The process dies, or its connection does; its transaction rolls back.
Die(c) == /\ Deaths
          /\ c \in Running
          /\ Goto(c, "dead")
          /\ alone' = FALSE
          /\ UNCHANGED <<books, closed, target>>

Quiescent == Running = {} /\ UNCHANGED vars

Begin(c) ==
  \/ ReadForCreate(c)
  \/ ReadForPost(c)
  \/ ReadForReverse(c)
  \/ ReadForAuto(c)
  \/ ReadForClose(c)
  \/ ReopenPeriod(c)

Continue(c) ==
  \/ CreateEntry(c)
  \/ PostEntry(c)
  \/ ReverseEntry(c)
  \/ CreateAuto(c)
  \/ RereadAuto(c)
  \/ ClosePeriod(c)

Step(c) == /\ Begin(c) \/ Continue(c)
           /\ alone' = (alone /\ Running \subseteq {c})

Next == (\E c \in Calls : Step(c) \/ Die(c)) \/ Quiescent

Spec == Init /\ [][Next]_vars

-----------------------------------------------------------------------------
(* Properties.                                                             *)

Entry == [status : {"DRAFT", "POSTED", "REVERSED", None}, amount : Int,
          reference : {Document, None}, reversalOf : Calls \cup {None}]

\* The books, the period and what the handlers have read keep their types; no
\* entry moves the balance a third time.
TypeOK ==
  /\ entry \in [Calls -> Entry]
  /\ balance \in Int
  /\ closed \in BOOLEAN
  /\ posts \in [Calls -> 0 .. 2]
  /\ alone \in BOOLEAN
  /\ pc \in [Calls -> {"idle", "create", "post", "reverse", "auto", "reread", "close"} \cup Ended]
  /\ target \in [Calls -> Calls \cup {None}]

Moved == {e \in Entries : entry[e].status # "DRAFT"}
Ledger == SumFunction([e \in Moved |-> entry[e].amount])

\* As long as nobody posts an entry that was reversed, an account's balance is
\* the sum of the entries that are posted or reversed, whatever overlaps
\* (postJournalEntry's and reverseJournalEntry's claims; applyLineBalances).
BalanceIsLedger ==
  (\A e \in Calls : posts[e] <= 1) => balance = Ledger

\* An entry moves the balance a second time only after its reversal took the
\* first back: two requests to post, or to reverse, never both succeed (the
\* claims; reversalOfId is unique).
OneReversalPerPosting ==
  \A e \in Entries :
    /\ posts[e] - Cardinality(ReversedBy(e)) \in {0, 1}
    /\ posts[e] > Cardinality(ReversedBy(e)) <=> entry[e].status = "POSTED"

\* Two racing requests never leave two automatic entries for one document, and
\* the document's amount is in the balance at most once as long as its entry is
\* not reversed (createAndPostAutoJournal's look-up and the unique key).
OneAutoEntry ==
  /\ Cardinality(AutoEntries) <= 1
  /\ \A e \in AutoEntries : ReversedBy(e) = {} => posts[e] <= 1

\* Where requests did not overlap and none died, nothing changes the books of a
\* closed period until it is reopened (the "proteccion" of getChecklist).
ClosedKeepsBooks == [][alone' /\ closed => entry' = entry /\ balance' = balance]_vars

\* The books as GeneralLedger sees them: entries by status, without requests.
General == INSTANCE GeneralLedger WITH
  drafts    <- {e \in Calls : entry[e].status = "DRAFT"},
  posted    <- {e \in Calls : entry[e].status = "POSTED"},
  reversed  <- {e \in Calls : entry[e].status = "REVERSED"},
  undone    <- {e \in Calls : ReversedBy(e) # {}},
  automatic <- AutoEntries,
  amount    <- [e \in Calls |-> entry[e].amount]

\* However requests that tested first and write later overlap and die, each is
\* one change of the general ledger or none: an entry and the balance move
\* together, an entry is reversed once, by its opposite, and a document has one
\* automatic entry (postJournalEntry, reverseJournalEntry and
\* createAndPostAutoJournal together).
JournalsAreLedger == General!Spec

=============================================================================
