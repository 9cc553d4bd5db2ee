---------------------------- MODULE GeneralLedger ----------------------------
(***************************************************************************)
(* What accounting promises about journal entries and an account: an entry *)
(* is written once, a document has one automatic entry, posting an entry   *)
(* and adding its amount to the balance are one change, and so are         *)
(* marking an entry reversed and posting the opposite entry, which is done *)
(* once for each entry.  Nothing else moves the balance, and no amount     *)
(* changes after it was written.                                           *)
(*                                                                         *)
(* A reversed entry may be posted again, as postJournalEntry allows.       *)
(* Module Journals implements this with requests that test first and claim *)
(* later.                                                                  *)
(***************************************************************************)
EXTENDS Integers

CONSTANT Calls   \* what entries are named after

VARIABLES
  drafts, posted, reversed,  \* the entries, by status
  undone,     \* entries that were reversed at some time
  automatic,  \* the automatic entries of the document
  amount,     \* what each entry adds to the account
  balance     \* of the account

vars == <<drafts, posted, reversed, undone, automatic, amount, balance>>

Init == /\ drafts = {} /\ posted = {} /\ reversed = {}
        /\ undone = {} /\ automatic = {}
        /\ amount = [e \in Calls |-> 0]
        /\ balance = 0

IsNew(e) == e \notin drafts \cup posted \cup reversed

Write(e) ==
  /\ IsNew(e)
  /\ drafts' = drafts \cup {e}
  /\ amount' \in [Calls -> Int]
  /\ \A d \in Calls \ {e} : amount'[d] = amount[d]
  /\ \/ automatic' = automatic
     \/ automatic = {} /\ automatic' = {e}
  /\ UNCHANGED <<posted, reversed, undone, balance>>

Post(e) ==
  /\ e \in drafts \cup reversed
  /\ drafts' = drafts \ {e}
  /\ reversed' = reversed \ {e}
  /\ posted' = posted \cup {e}
  /\ balance' = balance + amount[e]
  /\ UNCHANGED <<undone, automatic, amount>>

Reverse(e, opposite) ==
  /\ e \in posted \ undone
  /\ IsNew(opposite)
  /\ reversed' = reversed \cup {e}
  /\ undone' = undone \cup {e}
  /\ posted' = (posted \ {e}) \cup {opposite}
  /\ amount' = [amount EXCEPT ![opposite] = -amount[e]]
  /\ balance' = balance - amount[e]
  /\ UNCHANGED <<drafts, automatic>>

Next == \E e \in Calls : \/ Write(e)
                         \/ Post(e)
                         \/ \E opposite \in Calls : Reverse(e, opposite)

Spec == Init /\ [][Next]_vars

=============================================================================
