--------------------------- MODULE JournalsProofs ---------------------------
(***************************************************************************)
(* Invariants of Journals, proved for any number of requests and any       *)
(* amounts.                                                                *)
(***************************************************************************)
EXTENDS Journals, SumProofs

\* TypeOK, without the bound on the postings.
Types ==
  /\ entry \in [Calls -> Entry]
  /\ balance \in Int
  /\ closed \in BOOLEAN
  /\ posts \in [Calls -> Nat]
  /\ alone \in BOOLEAN
  /\ pc \in [Calls -> {"idle", "create", "post", "reverse", "auto", "reread", "close"} \cup Ended]
  /\ target \in [Calls -> Calls \cup {None}]

\* A request that is to create an entry has not created it, and one that is to
\* change an entry has read one that exists.
Reads ==
  \A c \in Calls :
    /\ pc[c] \in {"idle", "create", "reverse", "auto"} => c \notin Entries
    /\ pc[c] = "reread" => c \in Entries
    /\ pc[c] \in {"post", "reverse"} => target[c] \in Entries

\* An entry that does not exist reverses nothing and was never posted; one that
\* reverses an entry is alone in doing so.
Links ==
  /\ \A c \in Calls \ Entries : entry[c].reversalOf = None /\ posts[c] = 0
  /\ \A c \in Entries : entry[c].reversalOf \in Entries \cup {None}
  /\ \A c, d \in Entries :
       entry[c].reversalOf # None /\ entry[c].reversalOf = entry[d].reversalOf => c = d

IsReversed(e) == \E r \in Entries : entry[r].reversalOf = e

\* How often an entry's lines moved the balance follows from its status and
\* from whether it has been reversed.
Postings ==
  \A e \in Entries :
    IF IsReversed(e)
      THEN \/ entry[e].status = "REVERSED" /\ posts[e] = 1
           \/ entry[e].status = "POSTED" /\ posts[e] = 2
      ELSE \/ entry[e].status = "DRAFT" /\ posts[e] = 0
           \/ entry[e].status = "POSTED" /\ posts[e] = 1

OneReference == \A c, d \in AutoEntries : c = d

\* The inductive invariant.
BooksInv == Types /\ Reads /\ Links /\ Postings /\ OneReference

-----------------------------------------------------------------------------
\* The initial state.
LEMMA InitInv == Init => BooksInv
<1> SUFFICES ASSUME Init
             PROVE  BooksInv
  OBVIOUS
<1>1. Types
  <2>1. NoEntry \in Entry
    BY DEF NoEntry, Entry
  <2>2. entry \in [Calls -> Entry]
    BY <2>1 DEF Init
  <2>3. closed \in BOOLEAN /\ alone \in BOOLEAN
    BY DEF Init
  <2>5. balance \in Int /\ posts \in [Calls -> Nat]
    BY DEF Init
  <2>6. target \in [Calls -> Calls \cup {None}]
    BY DEF Init
  <2>4. pc \in [Calls -> {"idle", "create", "post", "reverse", "auto", "reread", "close"} \cup Ended]
    BY DEF Init
  <2> QED  BY <2>2, <2>3, <2>4, <2>5, <2>6 DEF Types
<1>2. Entries = {}
  BY DEF Init, Entries, NoEntry
<1>3. Reads
  BY <1>2 DEF Init, Reads
<1>4. Links /\ Postings /\ OneReference
  BY <1>2 DEF Init, Links, Postings, OneReference, AutoEntries, NoEntry
<1> QED  BY <1>1, <1>3, <1>4 DEF BooksInv

\* A step that leaves the books alone.
LEMMA ReadingStep ==
  ASSUME BooksInv, UNCHANGED books, Types', Reads'
  PROVE  BooksInv'
<1>1. Entries' = Entries /\ AutoEntries' = AutoEntries
  BY DEF books, Entries, AutoEntries
<1>2. Links'
  BY <1>1 DEF BooksInv, Links, books
<1>3. Postings'
  BY <1>1 DEF BooksInv, Postings, IsReversed, books
<1>4. OneReference'
  BY <1>1 DEF BooksInv, OneReference
<1> QED  BY <1>2, <1>3, <1>4 DEF BooksInv

\* A step that inserts an entry in draft.
LEMMA InsertingStep ==
  ASSUME NEW c \in Calls \ Entries, BooksInv, Types', Reads',
         NEW e \in Entry, e.status = "DRAFT", e.reversalOf = None,
         e.reference = Document => AutoEntries = {},
         entry' = [entry EXCEPT ![c] = e], UNCHANGED <<balance, posts>>
  PROVE  BooksInv'
<1>0. Entries \subseteq Calls /\ None \notin Calls
  BY ConstantsAssumption DEF Entries, Calls
<1>1. Entries' = Entries \cup {c}
  BY ConstantsAssumption DEF BooksInv, Types, Entries
<1>2. \A d \in Entries : entry'[d] = entry[d]
  BY DEF BooksInv, Types, Entries
<1>3. entry'[c] = e
  BY DEF BooksInv, Types
<1>4. posts[c] = 0
  BY DEF BooksInv, Links
<1>5. Links'
  BY <1>1, <1>2, <1>3, ConstantsAssumption DEF BooksInv, Links, Types
<1>6. \A d \in Entries' : IsReversed(d)' <=> IsReversed(d)
  BY <1>0, <1>1, <1>2, <1>3 DEF IsReversed
<1>7. ~IsReversed(c)
  BY ConstantsAssumption DEF BooksInv, Links, IsReversed, Calls
<1>8. Postings'
  BY <1>1, <1>2, <1>3, <1>4, <1>6, <1>7 DEF BooksInv, Postings
<1>9. OneReference'
  <2>1. CASE e.reference = Document
    <3>1. AutoEntries' = {c}
      BY <2>1, <1>1, <1>2, <1>3 DEF AutoEntries
    <3> QED  BY <3>1 DEF OneReference
  <2>2. CASE e.reference # Document
    <3>1. AutoEntries' = AutoEntries
      BY <2>2, <1>1, <1>2, <1>3 DEF AutoEntries
    <3> QED  BY <3>1 DEF OneReference, BooksInv
  <2> QED  BY <2>1, <2>2
<1> QED  BY <1>5, <1>8, <1>9 DEF BooksInv

\* The types after a step.
LEMMA TypesStep ==
  ASSUME BooksInv, [Next]_vars
  PROVE  Types'
<1> USE DEF BooksInv
<1>1. ASSUME NEW c \in Calls, Begin(c), alone' \in BOOLEAN
      PROVE  Types'
  <2>1. /\ UNCHANGED books
        /\ closed' \in BOOLEAN
        /\ \E step \in {"create", "post", "reverse", "auto", "close", "done"} : Goto(c, step)
    BY <1>1 DEF Begin, ReadForCreate, ReadForPost, ReadForReverse, ReadForAuto, ReadForClose,
                ReopenPeriod, books, Types
  <2>2. target' \in [Calls -> Calls \cup {None}]
    BY <1>1 DEF Begin, ReadForCreate, ReadForPost, ReadForReverse, ReadForAuto, ReadForClose,
                ReopenPeriod, Types, Entries
  <2> QED  BY <1>1, <2>1, <2>2 DEF Goto, books, Types, Ended
<1>2. ASSUME NEW c \in Calls, CreateEntry(c) \/ CreateAuto(c), alone' \in BOOLEAN
      PROVE  Types'
  <2>1. \A a \in Amounts : NewEntry(a, None) \in Entry /\ NewEntry(a, Document) \in Entry
    BY ConstantsAssumption DEF NewEntry, Entry
  <2>2. entry' \in [Calls -> Entry]
    BY <1>2, <2>1 DEF CreateEntry, CreateAuto, Types
  <2>3. \E step \in {"reread", "done"} : Goto(c, step)
    BY <1>2 DEF CreateEntry, CreateAuto
  <2> QED  BY <1>2, <2>2, <2>3 DEF CreateEntry, CreateAuto, Goto, Types, Ended
<1>3. ASSUME NEW c \in Calls, PostEntry(c), alone' \in BOOLEAN
      PROVE  Types'
  <2>1. /\ target[c] \in Calls
        /\ entry[target[c]] \in Entry
        /\ entry[target[c]].amount \in Int
    BY <1>3 DEF PostEntry, Reads, Entries, Types, Entry
  <2>2. [entry[target[c]] EXCEPT !.status = "POSTED"] \in Entry
    BY <2>1 DEF Entry
  <2>3. entry' \in [Calls -> Entry] /\ balance' \in Int /\ posts' \in [Calls -> Nat]
    BY <1>3, <2>1, <2>2 DEF PostEntry, Apply, Types, books
  <2> QED  BY <1>3, <2>3 DEF PostEntry, Goto, Types, Ended
<1>4. ASSUME NEW c \in Calls, ReverseEntry(c), alone' \in BOOLEAN
      PROVE  Types'
  <2>1. /\ target[c] \in Calls
        /\ entry[target[c]] \in Entry
        /\ entry[target[c]].amount \in Int
    BY <1>4 DEF ReverseEntry, Reads, Entries, Types, Entry
  <2>2. [entry[target[c]] EXCEPT !.status = "REVERSED"] \in Entry
    BY <2>1 DEF Entry
  <2>3. [status |-> "POSTED", amount |-> -entry[target[c]].amount,
         reference |-> None, reversalOf |-> target[c]] \in Entry
    BY <2>1 DEF Entry
  <2>4. entry' \in [Calls -> Entry] /\ balance' \in Int /\ posts' \in [Calls -> Nat]
    BY <1>4, <2>1, <2>2, <2>3 DEF ReverseEntry, ApplyReversal, Apply, Types, books
  <2> QED  BY <1>4, <2>4 DEF ReverseEntry, Goto, Types, Ended
<1>5. ASSUME NEW c \in Calls, RereadAuto(c) \/ ClosePeriod(c), alone' \in BOOLEAN
      PROVE  Types'
  <2>1. /\ UNCHANGED books
        /\ closed' \in BOOLEAN
        /\ target' \in [Calls -> Calls \cup {None}]
        /\ \E step \in {"post", "refused", "done"} : Goto(c, step)
    BY <1>5 DEF RereadAuto, PostsAuto, ClosePeriod, books, Types
  <2> QED  BY <1>5, <2>1 DEF Goto, books, Types, Ended
<1>6. ASSUME NEW c \in Calls, Die(c)
      PROVE  Types'
  BY <1>6 DEF Die, Goto, books, Types, Ended
<1>7. CASE UNCHANGED vars
  BY <1>7 DEF vars, Types
<1>8. alone \in BOOLEAN
  BY DEF Types
<1>9. ASSUME NEW c \in Calls, Step(c)
      PROVE  Types'
  <2>1. alone' \in BOOLEAN
    BY <1>9, <1>8 DEF Step
  <2> QED  BY <1>1, <1>2, <1>3, <1>4, <1>5, <1>9, <2>1 DEF Step, Continue
<1> QED  BY <1>6, <1>7, <1>9 DEF Next, Quiescent

-----------------------------------------------------------------------------
\* What the requests rely on, after a step of c that creates no entry but its
\* own and leaves c at one of its later statements.
LEMMA ReadsStep ==
  ASSUME NEW c \in Calls, BooksInv, Types', NEW step,
         Entries' = Entries \/ Entries' = Entries \cup {c},
         \A d \in Calls \ {c} : target'[d] = target[d],
         Goto(c, step),
         step \in {"idle", "create", "reverse", "auto"} => c \notin Entries',
         step = "reread" => c \in Entries',
         step \in {"post", "reverse"} => target'[c] \in Entries'
  PROVE  Reads'
<1>1. pc'[c] = step /\ \A d \in Calls \ {c} : pc'[d] = pc[d]
  BY DEF Goto, BooksInv, Types
<1>2. ASSUME NEW d \in Calls \ {c}
      PROVE  /\ pc'[d] \in {"idle", "create", "reverse", "auto"} => d \notin Entries'
             /\ pc'[d] = "reread" => d \in Entries'
             /\ pc'[d] \in {"post", "reverse"} => target'[d] \in Entries'
  BY <1>1, <1>2 DEF BooksInv, Reads
<1> QED  BY <1>1, <1>2 DEF Reads

\* Posting an entry.
LEMMA PostingStep ==
  ASSUME NEW c \in Calls, BooksInv, Types', PostEntry(c)
  PROVE  BooksInv'
<1> DEFINE e == target[c]
<1>1. e \in Entries /\ e \in Calls /\ None \notin Calls
  BY ConstantsAssumption DEF PostEntry, BooksInv, Reads, Entries, Calls
<1>2. CASE ~Postable(e)
  <2>1. UNCHANGED books
    BY <1>2 DEF PostEntry
  <2>2. Entries' = Entries
    BY <2>1 DEF books, Entries
  <2>3. Reads'
    BY <2>2, ReadsStep DEF PostEntry
  <2> QED  BY <2>1, <2>3, ReadingStep
<1>3. CASE Postable(e)
  <2>1. /\ entry' = [entry EXCEPT ![e] = [@ EXCEPT !.status = "POSTED"]]
        /\ posts' = [posts EXCEPT ![e] = @ + 1]
    BY <1>3 DEF PostEntry, Apply
  <2>2. /\ entry[e] \in Entry
        /\ entry'[e].status = "POSTED"
        /\ entry'[e].reversalOf = entry[e].reversalOf
        /\ entry'[e].reference = entry[e].reference
        /\ posts'[e] = posts[e] + 1
        /\ \A d \in Calls \ {e} : entry'[d] = entry[d] /\ posts'[d] = posts[d]
    BY <2>1, <1>1 DEF BooksInv, Types, Entry
  <2>3. Entries' = Entries
    BY <2>2, <1>1, ConstantsAssumption DEF Entries
  <2>4. Reads'
    BY <2>3, ReadsStep DEF PostEntry
  <2>5. \A d \in Calls : entry'[d].reversalOf = entry[d].reversalOf
    BY <2>2
  <2>6. \A d \in Calls \ Entries : posts'[d] = posts[d]
    BY <2>2, <1>1
  <2>7. Links'
    BY <2>3, <2>5, <2>6 DEF BooksInv, Links, Entries
  <2>8. \A d \in Entries : IsReversed(d)' <=> IsReversed(d)
    BY <2>3, <2>5 DEF IsReversed, Entries
  <2>9. Postings'
    <3>1. ASSUME NEW d \in Entries, d # e
          PROVE  entry'[d] = entry[d] /\ posts'[d] = posts[d]
      BY <2>2, <3>1 DEF Entries
    <3>2. entry[e].status # "POSTED"
      BY <1>3 DEF Postable
    <3>3. IF IsReversed(e) THEN posts[e] = 1 ELSE posts[e] = 0
      BY <3>2, <1>1 DEF BooksInv, Postings
    <3> QED  BY <2>2, <2>3, <2>8, <3>1, <3>3 DEF BooksInv, Postings
  <2>10. AutoEntries' = AutoEntries
    BY <2>2, <2>3 DEF AutoEntries, Entries
  <2> QED  BY <2>4, <2>7, <2>9, <2>10 DEF BooksInv, OneReference
<1> QED  BY <1>2, <1>3

\* Reversing an entry.
LEMMA ReversingStep ==
  ASSUME NEW c \in Calls, BooksInv, Types', ReverseEntry(c)
  PROVE  BooksInv'
<1>1. /\ target[c] \in Entries /\ c \notin Entries
      /\ Entries \subseteq Calls /\ None \notin Calls
  BY ConstantsAssumption DEF ReverseEntry, BooksInv, Reads, Entries, Calls
<1> PICK e \in Entries : e = target[c]
  BY <1>1
<1>2. CASE ~Reversible(e)
  <2>1. UNCHANGED books
    BY <1>2 DEF ReverseEntry
  <2>2. Entries' = Entries
    BY <2>1 DEF books, Entries
  <2>3. Reads'
    BY <2>2, ReadsStep DEF ReverseEntry
  <2> QED  BY <2>1, <2>3, ReadingStep
<1>3. CASE Reversible(e)
  <2> DEFINE r == [status |-> "POSTED", amount |-> -entry[e].amount,
                   reference |-> None, reversalOf |-> e]
  <2>1. /\ entry' = [entry EXCEPT ![e] = [@ EXCEPT !.status = "REVERSED"], ![c] = r]
        /\ posts' = [posts EXCEPT ![c] = @ + 1]
    BY <1>3 DEF ReverseEntry, ApplyReversal, Apply
  <2>2. /\ entry[e] \in Entry
        /\ entry'[e].status = "REVERSED"
        /\ entry'[e].reversalOf = entry[e].reversalOf
        /\ entry'[e].reference = entry[e].reference
        /\ entry'[c] = r
        /\ posts'[c] = posts[c] + 1
        /\ \A d \in Calls \ {e, c} : entry'[d] = entry[d]
        /\ \A d \in Calls \ {c} : posts'[d] = posts[d]
    BY <2>1, <1>1 DEF BooksInv, Types, Entry
  <2>3. Entries' = Entries \cup {c}
    BY <2>2, <1>1, ConstantsAssumption DEF Entries
  <2>4. Reads'
    BY <2>3, ReadsStep DEF ReverseEntry
  <2>5. posts[c] = 0 /\ posts'[c] = 1
    BY <2>2, <1>1 DEF BooksInv, Links
  <2>6. \A d \in Entries : entry'[d].reversalOf = entry[d].reversalOf /\ posts'[d] = posts[d]
    BY <2>2, <1>1 DEF Entries
  <2>7. ~IsReversed(e) /\ ~IsReversed(c)
    BY <1>1, <1>3 DEF Reversible, ReversedBy, IsReversed, BooksInv, Links
  <2>8. \A d \in Entries \ {e} : IsReversed(d)' <=> IsReversed(d)
    BY <2>2, <2>3, <2>6 DEF IsReversed
  <2>9. IsReversed(e)' /\ ~IsReversed(c)'
    <3>1. c \in Entries' /\ entry'[c].reversalOf = e /\ e # c
      BY <1>1, <2>2, <2>3
    <3>2. \A d \in Entries : entry'[d].reversalOf # c
      BY <2>6, <2>7 DEF IsReversed
    <3> QED  BY <2>3, <3>1, <3>2 DEF IsReversed
  <2>10. Links'
    <3>1. \A d \in Entries : entry'[d].reversalOf # e
      BY <2>6, <2>7 DEF IsReversed
    <3> QED  BY <1>1, <2>2, <2>3, <2>6, <3>1 DEF BooksInv, Links
  <2>11. Postings'
    <3>1. entry'[e].status = "REVERSED" /\ posts'[e] = 1
      BY <1>1, <1>3, <2>2, <2>6, <2>7 DEF BooksInv, Postings, Reversible
    <3>2. entry'[c].status = "POSTED" /\ posts'[c] = 1
      BY <2>2, <2>5
    <3>3. \A d \in Entries \ {e} : entry'[d].status = entry[d].status /\ posts'[d] = posts[d]
      BY <2>2, <1>1 DEF Entries
    <3>4. ASSUME NEW d \in Entries \ {e}
          PROVE  IF IsReversed(d)'
                   THEN \/ entry'[d].status = "REVERSED" /\ posts'[d] = 1
                        \/ entry'[d].status = "POSTED" /\ posts'[d] = 2
                   ELSE \/ entry'[d].status = "DRAFT" /\ posts'[d] = 0
                        \/ entry'[d].status = "POSTED" /\ posts'[d] = 1
      BY <2>8, <3>3 DEF BooksInv, Postings
    <3> QED  BY <2>3, <2>9, <3>1, <3>2, <3>4 DEF Postings
  <2>12. AutoEntries' = AutoEntries
    <3>1. None # Document
      BY ConstantsAssumption
    <3> QED  BY <1>1, <2>2, <2>3, <3>1 DEF AutoEntries, Entries
  <2> QED  BY <2>4, <2>10, <2>11, <2>12 DEF BooksInv, OneReference
<1> QED  BY <1>2, <1>3

\* Every step keeps the invariant.
LEMMA InvStep == BooksInv /\ [Next]_vars => BooksInv'
<1> SUFFICES ASSUME BooksInv, [Next]_vars
             PROVE  BooksInv'
  OBVIOUS
<1>1. Types'
  BY TypesStep
<1>2. ASSUME NEW c \in Calls, Begin(c)
      PROVE  BooksInv'
  <2>1. UNCHANGED books /\ Entries' = Entries /\ c \notin Entries
    BY <1>2 DEF Begin, ReadForCreate, ReadForPost, ReadForReverse, ReadForAuto, ReadForClose,
                ReopenPeriod, Starts, BooksInv, Reads, books, Entries
  <2>2. PICK step \in {"create", "post", "reverse", "auto", "close", "done"} :
          /\ Goto(c, step)
          /\ step \in {"post", "reverse"} => \E e \in Entries : target' = [target EXCEPT ![c] = e]
          /\ step \notin {"post", "reverse"} => target' = target
    BY <1>2 DEF Begin, ReadForCreate, ReadForPost, ReadForReverse, ReadForAuto, ReadForClose,
                ReopenPeriod
  <2>3. /\ step \in {"post", "reverse"} => target'[c] \in Entries
        /\ \A d \in Calls \ {c} : target'[d] = target[d]
    BY <2>2 DEF BooksInv, Types
  <2>4. Reads'
    BY <1>1, <2>1, <2>2, <2>3, ReadsStep
  <2> QED  BY <1>1, <2>1, <2>4, ReadingStep
<1>3. ASSUME NEW c \in Calls, CreateEntry(c)
      PROVE  BooksInv'
  <2>1. PICK a \in Amounts : entry' = [entry EXCEPT ![c] = NewEntry(a, None)]
    BY <1>3 DEF CreateEntry
  <2>2. c \in Calls \ Entries
    BY <1>3 DEF CreateEntry, BooksInv, Reads
  <2>3. /\ NewEntry(a, None) \in Entry
        /\ NewEntry(a, None).status = "DRAFT"
        /\ NewEntry(a, None).reversalOf = None
        /\ NewEntry(a, None).reference # Document
    BY ConstantsAssumption DEF NewEntry, Entry
  <2>4. Entries' = Entries \cup {c}
    BY <2>1, <2>3, ConstantsAssumption DEF Entries, BooksInv, Types
  <2>5. Reads'
    BY <1>1, <1>3, <2>4, ReadsStep DEF CreateEntry
  <2> QED  BY <1>1, <1>3, <2>1, <2>2, <2>3, <2>5, InsertingStep DEF CreateEntry
<1>4. ASSUME NEW c \in Calls, CreateAuto(c)
      PROVE  BooksInv'
  <2>1. c \in Calls \ Entries
    BY <1>4 DEF CreateAuto, BooksInv, Reads
  <2>2. CASE ~ReferenceFree
    <3>1. UNCHANGED books /\ Entries' = Entries
      BY <1>4, <2>2 DEF CreateAuto, books, Entries
    <3>2. Goto(c, "done") /\ UNCHANGED target
      BY <1>4, <2>2 DEF CreateAuto
    <3>3. Reads'
      BY <1>1, <3>1, <3>2, ReadsStep
    <3> QED  BY <1>1, <3>1, <3>3, ReadingStep
  <2>3. CASE ReferenceFree
    <3>1. PICK a \in Amounts : entry' = [entry EXCEPT ![c] = NewEntry(a, Document)]
      BY <1>4, <2>3 DEF CreateAuto
    <3>2. /\ NewEntry(a, Document) \in Entry
          /\ NewEntry(a, Document).status = "DRAFT"
          /\ NewEntry(a, Document).reversalOf = None
      BY ConstantsAssumption DEF NewEntry, Entry
    <3>3. Entries' = Entries \cup {c}
      BY <3>1, <3>2, ConstantsAssumption, <2>1 DEF Entries, BooksInv, Types
    <3>4. Goto(c, "reread") /\ UNCHANGED <<target, balance, posts>>
      BY <1>4, <2>3 DEF CreateAuto
    <3>5. Reads'
      BY <1>1, <3>3, <3>4, ReadsStep
    <3>6. AutoEntries = {}
      BY <2>3 DEF ReferenceFree
    <3> QED  BY <1>1, <2>1, <3>1, <3>2, <3>4, <3>5, <3>6, InsertingStep
  <2> QED  BY <2>2, <2>3
<1>5. ASSUME NEW c \in Calls, RereadAuto(c)
      PROVE  BooksInv'
  <2>1. c \in Entries /\ UNCHANGED books /\ Entries' = Entries
    BY <1>5 DEF RereadAuto, BooksInv, Reads, books, Entries
  <2>2. \/ Goto(c, "post") /\ target' = [target EXCEPT ![c] = c]
        \/ Goto(c, "refused") /\ UNCHANGED target
    BY <1>5 DEF RereadAuto, PostsAuto
  <2>3. /\ \A d \in Calls \ {c} : target'[d] = target[d]
        /\ target' = [target EXCEPT ![c] = c] => target'[c] = c
    BY <2>2 DEF BooksInv, Types
  <2>4. Reads'
    BY <1>1, <2>1, <2>2, <2>3, ReadsStep
  <2> QED  BY <1>1, <2>1, <2>4, ReadingStep
<1>6. ASSUME NEW c \in Calls, ClosePeriod(c) \/ Die(c)
      PROVE  BooksInv'
  <2>1. UNCHANGED books /\ UNCHANGED target /\ Entries' = Entries
    BY <1>6 DEF ClosePeriod, Die, books, Entries
  <2>2. Goto(c, "done") \/ Goto(c, "dead")
    BY <1>6 DEF ClosePeriod, Die
  <2>3. Reads'
    BY <1>1, <2>1, <2>2, ReadsStep
  <2> QED  BY <1>1, <2>1, <2>3, ReadingStep
<1>7. CASE UNCHANGED vars
  <2>1. UNCHANGED books /\ UNCHANGED <<pc, target>> /\ Entries' = Entries
    BY <1>7 DEF vars, books, Entries
  <2>2. Reads'
    BY <2>1 DEF BooksInv, Reads
  <2> QED  BY <1>1, <2>1, <2>2, ReadingStep
<1>8. ASSUME NEW c \in Calls, Step(c) \/ Die(c)
      PROVE  BooksInv'
  BY <1>1, <1>2, <1>3, <1>4, <1>5, <1>6, <1>8, PostingStep, ReversingStep DEF Step, Continue
<1> QED  BY <1>7, <1>8 DEF Next, Quiescent

-----------------------------------------------------------------------------
\* The invariant holds in every state.
THEOREM InductiveInvariant == Spec => []BooksInv
<1> QED  BY InitInv, InvStep, PTL DEF Spec

\* The books, the period and what the requests have read keep their types, and
\* no entry moves the balance a third time (claims of postJournalEntry and
\* reverseJournalEntry).
THEOREM TypeCorrect == Spec => []TypeOK
<1>1. BooksInv => TypeOK
  <2> SUFFICES ASSUME BooksInv
               PROVE  TypeOK
    OBVIOUS
  <2>1. ASSUME NEW e \in Calls
        PROVE  posts[e] \in 0 .. 2
    <3>1. CASE e \in Entries
      BY <3>1 DEF BooksInv, Postings
    <3>2. CASE e \notin Entries
      BY <3>2 DEF BooksInv, Links
    <3> QED  BY <3>1, <3>2
  <2>2. posts \in [Calls -> 0 .. 2]
    BY <2>1 DEF BooksInv, Types
  <2> QED  BY <2>2 DEF BooksInv, Types, TypeOK
<1> QED  BY <1>1, InductiveInvariant, PTL

\* The reversals of an entry are one or none.
LEMMA ReversalsCounted ==
  ASSUME BooksInv, NEW e \in Entries
  PROVE  Cardinality(ReversedBy(e)) = IF IsReversed(e) THEN 1 ELSE 0
<1>1. None \notin Calls /\ e \in Calls
  BY ConstantsAssumption DEF Entries, Calls
<1>2. CASE IsReversed(e)
  <2>1. PICK r \in Entries : entry[r].reversalOf = e
    BY <1>2 DEF IsReversed
  <2>2. ReversedBy(e) = {r}
    BY <1>1, <2>1 DEF ReversedBy, BooksInv, Links
  <2> QED  BY <1>2, <2>2, FS_Singleton
<1>3. CASE ~IsReversed(e)
  <2>1. ReversedBy(e) = {}
    BY <1>3 DEF ReversedBy, IsReversed
  <2> QED  BY <1>3, <2>1, FS_EmptySet
<1> QED  BY <1>2, <1>3

\* An entry is posted again only after its reversal, and reversed once: no two
\* requests to post or to reverse it both succeed (claims of postJournalEntry
\* and reverseJournalEntry; reversalOfId is unique).
THEOREM ReversedOnce == Spec => []OneReversalPerPosting
<1>1. BooksInv => OneReversalPerPosting
  <2> SUFFICES ASSUME BooksInv, NEW e \in Entries
               PROVE  /\ posts[e] - Cardinality(ReversedBy(e)) \in {0, 1}
                      /\ posts[e] > Cardinality(ReversedBy(e)) <=> entry[e].status = "POSTED"
    BY DEF OneReversalPerPosting
  <2>1. Cardinality(ReversedBy(e)) = IF IsReversed(e) THEN 1 ELSE 0
    BY ReversalsCounted
  <2> QED  BY <2>1 DEF BooksInv, Postings
<1> QED  BY <1>1, InductiveInvariant, PTL

\* Racing requests leave one automatic entry for a document, which is in the
\* balance at most once (createAndPostAutoJournal).
THEOREM AutomaticOnce == Spec => []OneAutoEntry
<1>1. BooksInv => OneAutoEntry
  <2> SUFFICES ASSUME BooksInv
               PROVE  OneAutoEntry
    OBVIOUS
  <2>1. Cardinality(AutoEntries) <= 1
    <3>1. CASE AutoEntries = {}
      BY <3>1, FS_EmptySet
    <3>2. CASE AutoEntries # {}
      <4>1. PICK a \in AutoEntries : AutoEntries = {a}
        BY <3>2 DEF BooksInv, OneReference
      <4>2. Cardinality(AutoEntries) = 1
        BY <4>1, FS_Singleton
      <4> QED  BY <4>2
    <3> QED  BY <3>1, <3>2
  <2>2. ASSUME NEW e \in AutoEntries, ReversedBy(e) = {}
        PROVE  posts[e] <= 1
    <3>1. e \in Entries /\ ~IsReversed(e)
      BY <2>2 DEF AutoEntries, ReversedBy, IsReversed
    <3> QED  BY <3>1 DEF BooksInv, Postings
  <2> QED  BY <2>1, <2>2 DEF OneAutoEntry
<1> QED  BY <1>1, InductiveInvariant, PTL

-----------------------------------------------------------------------------
Writing == {"create", "post", "reverse", "auto"}

\* Where requests did not overlap, the period a running one has tested is still
\* open.
AloneInv ==
  /\ Types
  /\ alone => /\ \A c, d \in Running : c = d
              /\ \A c \in Calls : pc[c] \in Writing => ~closed

\* A request that has begun begins nothing, and one that runs is no other.
LEMMA AloneStep == AloneInv /\ BooksInv /\ [Next]_vars => AloneInv'
<1> SUFFICES ASSUME AloneInv, BooksInv, [Next]_vars
             PROVE  AloneInv'
  OBVIOUS
<1>1. Types'
  BY TypesStep
<1>2. ASSUME NEW c \in Calls, Step(c), alone'
      PROVE  AloneInv'
  <2>1. alone /\ Running \subseteq {c}
    BY <1>2 DEF Step
  <2>2. PICK step : Goto(c, step) /\ (step \in Writing => ~closed /\ UNCHANGED closed)
    <3>1. CASE Begin(c)
      BY <3>1 DEF Begin, ReadForCreate, ReadForPost, ReadForReverse, ReadForAuto, ReadForClose,
                  ReopenPeriod, CanPost, Writing
    <3>2. CASE Continue(c)
      BY <3>2 DEF Continue, CreateEntry, PostEntry, ReverseEntry, CreateAuto, RereadAuto,
                  PostsAuto, CanPost, ClosePeriod, Writing
    <3> QED  BY <1>2, <3>1, <3>2 DEF Step
  <2>3. pc'[c] = step /\ \A d \in Calls \ {c} : pc'[d] = pc[d]
    BY <2>2 DEF Goto, AloneInv, Types
  <2>4. \A d \in Calls \ {c} : pc[d] \in {"idle"} \cup Ended
    BY <2>1 DEF Running
  <2>5. Running' \subseteq {c}
    BY <2>3, <2>4 DEF Running
  <2>6. \A d \in Calls \ {c} : pc'[d] \notin Writing
    BY <2>3, <2>4 DEF Writing, Ended
  <2> QED  BY <1>1, <2>2, <2>3, <2>5, <2>6 DEF AloneInv
<1>3. ASSUME NEW c \in Calls, Step(c), ~alone'
      PROVE  AloneInv'
  BY <1>1, <1>3 DEF AloneInv
<1>4. ASSUME NEW c \in Calls, Die(c)
      PROVE  AloneInv'
  BY <1>1, <1>4 DEF Die, AloneInv
<1>5. CASE UNCHANGED vars
  BY <1>1, <1>5 DEF vars, AloneInv, Running
<1> QED  BY <1>2, <1>3, <1>4, <1>5 DEF Next, Quiescent

\* Where requests did not overlap and none died, the books of a closed period
\* stay as they are (the tests of createJournalEntry, postJournalEntry,
\* reverseJournalEntry and createAndPostAutoJournal).
THEOREM ClosedPeriodKept == Spec => ClosedKeepsBooks
<1>1. Init => AloneInv
  <2>1. Init => Types
    BY InitInv DEF BooksInv
  <2> QED  BY <2>1 DEF Init, AloneInv, Running, Writing
<1>2. AloneInv /\ [Next]_vars => [alone' /\ closed => entry' = entry /\ balance' = balance]_vars
  <2> SUFFICES ASSUME AloneInv, Next, alone', closed
               PROVE  entry' = entry /\ balance' = balance
    OBVIOUS
  <2>1. ASSUME NEW c \in Calls, Step(c)
        PROVE  entry' = entry /\ balance' = balance
    <3>1. alone
      BY <2>1 DEF Step
    <3>2. pc[c] \notin Writing
      BY <3>1 DEF AloneInv
    <3>3. CASE Begin(c)
      BY <3>3 DEF Begin, ReadForCreate, ReadForPost, ReadForReverse, ReadForAuto, ReadForClose,
                  ReopenPeriod, books
    <3>4. CASE Continue(c)
      BY <3>2, <3>4 DEF Continue, CreateEntry, PostEntry, ReverseEntry, CreateAuto, RereadAuto,
                        ClosePeriod, books, Writing
    <3> QED  BY <2>1, <3>3, <3>4 DEF Step
  <2>2. ASSUME NEW c \in Calls, Die(c)
        PROVE  entry' = entry /\ balance' = balance
    BY <2>2 DEF Die, books
  <2> QED  BY <2>1, <2>2 DEF Next, Quiescent, vars
<1>3. Spec => []AloneInv
  BY <1>1, AloneStep, InductiveInvariant, PTL DEF Spec
<1> QED  BY <1>2, <1>3, PTL DEF Spec, ClosedKeepsBooks

-----------------------------------------------------------------------------
\* The entries that have moved the balance are finitely many, with amounts.
LEMMA LedgerAmounts ==
  ASSUME Types
  PROVE  /\ IsFiniteSet(Moved) /\ Moved \subseteq Calls
         /\ [e \in Moved |-> entry[e].amount] \in [Moved -> Int]
<1>1. Moved \subseteq Calls
  BY DEF Moved, Entries
<1>2. IsFiniteSet(Moved)
  <2>1. MaxCalls \in Int
    BY ConstantsAssumption
  <2>2. IsFiniteSet(1 .. MaxCalls)
    BY <2>1, FS_Interval
  <2>3. IsFiniteSet(Calls)
    BY <2>2 DEF Calls
  <2> QED  BY <1>1, <2>3, FS_Subset
<1>3. \A e \in Moved : entry[e].amount \in Int
  BY <1>1 DEF Types, Entry
<1> QED  BY <1>1, <1>2, <1>3

\* One entry more that moves the balance.
LEMMA LedgerGrows ==
  ASSUME Types, Types', NEW x \in Calls, x \notin Moved, Moved' = Moved \cup {x},
         \A e \in Moved : entry'[e].amount = entry[e].amount
  PROVE  Ledger' = Ledger + entry'[x].amount
<1> DEFINE S == Moved
           T == Moved'
           f == [e \in S |-> entry[e].amount]
           g == [e \in T |-> entry'[e].amount]
<1>1. IsFiniteSet(S) /\ f \in [S -> Int]
  BY LedgerAmounts
<1>2. g \in [T -> Int]
  <2>1. \A e \in T : e \in Calls
    BY LedgerAmounts
  <2>2. \A e \in T : entry'[e].amount \in Int
    BY <2>1 DEF Types, Entry
  <2> QED  BY <2>2
<1>3. \A e \in S : g[e] = f[e]
  OBVIOUS
<1>4. g[x] = entry'[x].amount
  OBVIOUS
<1>5. Ledger = SumFunction(f) /\ Ledger' = SumFunction(g)
  BY DEF Ledger
<1>6. T = S \cup {x} /\ x \notin S
  OBVIOUS
<1> HIDE DEF S, T, f, g
<1>7. SumFunction(g) = SumFunction(f) + g[x]
  BY <1>1, <1>2, <1>3, <1>6, ExtendedSum
<1> QED  BY <1>4, <1>5, <1>7

\* Every step keeps the balance the sum of the ledger.
LEMMA LedgerStep == BooksInv /\ BalanceIsLedger /\ [Next]_vars => BalanceIsLedger'
<1> SUFFICES ASSUME BooksInv, BalanceIsLedger, [Next]_vars, \A e \in Calls : posts'[e] <= 1
             PROVE  balance' = Ledger'
  BY DEF BalanceIsLedger
<1>1. Types /\ Types'
  BY TypesStep DEF BooksInv
<1>2. ASSUME UNCHANGED balance, UNCHANGED posts, Moved' = Moved,
             \A e \in Moved : entry'[e].amount = entry[e].amount
      PROVE  balance' = Ledger'
  <2>1. [e \in Moved' |-> entry'[e].amount] = [e \in Moved |-> entry[e].amount]
    BY <1>2
  <2>2. Ledger' = Ledger
    BY <2>1 DEF Ledger
  <2> QED  BY <1>2, <2>2 DEF BalanceIsLedger
<1>3. CASE UNCHANGED books
  BY <1>2, <1>3 DEF books, Moved, Entries
<1>4. ASSUME NEW c \in Calls, CreateEntry(c) \/ CreateAuto(c)
      PROVE  balance' = Ledger'
  <2>1. c \notin Entries
    BY <1>4 DEF CreateEntry, CreateAuto, BooksInv, Reads
  <2>2. \A e \in Calls \ {c} : entry'[e] = entry[e]
    BY <1>1, <1>4 DEF CreateEntry, CreateAuto, Types
  <2>3. c \notin Moved /\ c \notin Moved'
    <3>1. entry'[c].status = "DRAFT" \/ entry'[c] = entry[c]
      BY <1>1, <1>4 DEF CreateEntry, CreateAuto, NewEntry, Types
    <3> QED  BY <2>1, <3>1 DEF Moved, Entries
  <2>4. Moved' = Moved
    BY <2>2, <2>3 DEF Moved, Entries
  <2>5. \A e \in Moved : entry'[e].amount = entry[e].amount
    BY <2>2, <2>3 DEF Moved, Entries
  <2>6. UNCHANGED balance /\ UNCHANGED posts
    BY <1>4 DEF CreateEntry, CreateAuto
  <2> QED  BY <1>2, <2>4, <2>5, <2>6
<1>5. ASSUME NEW c \in Calls, PostEntry(c), Postable(target[c])
      PROVE  balance' = Ledger'
  <2> PICK e : e = target[c]
    OBVIOUS
  <2>1. e \in Entries /\ e \in Calls /\ entry[e] \in Entry
    BY <1>1, <1>5 DEF PostEntry, BooksInv, Reads, Entries, Types
  <2>2. /\ entry' = [entry EXCEPT ![e] = [@ EXCEPT !.status = "POSTED"]]
        /\ balance' = balance + entry[e].amount
        /\ posts' = [posts EXCEPT ![e] = @ + 1]
    BY <1>5 DEF PostEntry, Apply
  <2>3. /\ entry'[e].status = "POSTED" /\ entry'[e].amount = entry[e].amount
        /\ posts'[e] = posts[e] + 1
        /\ \A d \in Calls \ {e} : entry'[d] = entry[d] /\ posts'[d] = posts[d]
    BY <1>1, <2>1, <2>2 DEF Types, Entry
  <2>4. posts[e] = 0
    BY <1>1, <2>1, <2>3 DEF Types
  <2>5. entry[e].status = "DRAFT"
    BY <2>1, <2>4 DEF BooksInv, Postings
  <2>6. Moved' = Moved \cup {e} /\ e \notin Moved
    BY <2>1, <2>3, <2>5, ConstantsAssumption DEF Moved, Entries
  <2>7. \A d \in Moved : entry'[d].amount = entry[d].amount
    BY <2>3 DEF Moved, Entries
  <2>8. Ledger' = Ledger + entry'[e].amount
    BY <1>1, <2>1, <2>6, <2>7, LedgerGrows
  <2>9. balance = Ledger
    <3>1. \A d \in Calls : posts[d] <= 1
      BY <2>3, <2>4
    <3> QED  BY <3>1 DEF BalanceIsLedger
  <2> QED  BY <2>2, <2>3, <2>8, <2>9
<1>6. ASSUME NEW c \in Calls, ReverseEntry(c), Reversible(target[c])
      PROVE  balance' = Ledger'
  <2> PICK e : e = target[c]
    OBVIOUS
  <2>1. e \in Entries /\ e \in Calls /\ entry[e] \in Entry /\ c \notin Entries /\ e # c
    BY <1>1, <1>6 DEF ReverseEntry, BooksInv, Reads, Entries, Types
  <2>2. /\ entry' = [entry EXCEPT
             ![e] = [@ EXCEPT !.status = "REVERSED"],
             ![c] = [status |-> "POSTED", amount |-> -entry[e].amount,
                     reference |-> None, reversalOf |-> e]]
        /\ balance' = balance + (-entry[e].amount)
        /\ posts' = [posts EXCEPT ![c] = @ + 1]
    BY <1>6 DEF ReverseEntry, ApplyReversal, Apply
  <2>3. /\ entry'[e].status = "REVERSED" /\ entry'[e].amount = entry[e].amount
        /\ entry'[c].status = "POSTED" /\ entry'[c].amount = -entry[e].amount
        /\ posts'[c] = posts[c] + 1
        /\ \A d \in Calls \ {e, c} : entry'[d] = entry[d]
        /\ \A d \in Calls \ {c} : posts'[d] = posts[d]
    BY <1>1, <2>1, <2>2 DEF Types, Entry
  <2>4. e \in Moved /\ c \notin Moved
    BY <1>6, <2>1 DEF Reversible, Moved
  <2>5. Moved' = Moved \cup {c}
    BY <2>1, <2>3, <2>4, ConstantsAssumption DEF Moved, Entries
  <2>6. \A d \in Moved : entry'[d].amount = entry[d].amount
    BY <2>3, <2>4 DEF Moved, Entries
  <2>7. Ledger' = Ledger + entry'[c].amount
    BY <1>1, <2>4, <2>5, <2>6, LedgerGrows
  <2>8. balance = Ledger
    <3>1. posts[c] = 0
      BY <2>1 DEF BooksInv, Links
    <3>2. \A d \in Calls : posts[d] <= 1
      BY <2>3, <3>1
    <3> QED  BY <3>2 DEF BalanceIsLedger
  <2> QED  BY <2>2, <2>3, <2>7, <2>8
<1>7. ASSUME NEW c \in Calls, Begin(c) \/ RereadAuto(c) \/ ClosePeriod(c) \/ Die(c)
      PROVE  UNCHANGED books
  BY <1>7 DEF Begin, ReadForCreate, ReadForPost, ReadForReverse, ReadForAuto, ReadForClose,
              ReopenPeriod, RereadAuto, ClosePeriod, Die
<1>8. ASSUME NEW c \in Calls, Step(c) \/ Die(c)
      PROVE  balance' = Ledger'
  <2>1. CASE PostEntry(c) /\ ~Postable(target[c])
    BY <1>3, <2>1 DEF PostEntry
  <2>2. CASE ReverseEntry(c) /\ ~Reversible(target[c])
    BY <1>3, <2>2 DEF ReverseEntry
  <2> QED  BY <1>3, <1>4, <1>5, <1>6, <1>7, <1>8, <2>1, <2>2 DEF Step, Continue
<1>9. CASE UNCHANGED vars
  BY <1>3, <1>9 DEF vars, books
<1> QED  BY <1>8, <1>9 DEF Next, Quiescent

\* As long as no reversed entry is posted again, an account's balance is the sum
\* of the entries posted or reversed, for any number of requests and whatever
\* overlaps (claims of postJournalEntry and reverseJournalEntry).
THEOREM LedgerAddsUp == Spec => []BalanceIsLedger
<1>1. Init => BalanceIsLedger
  <2> SUFFICES ASSUME Init
               PROVE  balance = Ledger
    BY DEF BalanceIsLedger
  <2>1. Moved = {}
    BY DEF Init, Moved, Entries, NoEntry
  <2>2. Ledger = 0
    BY <2>1, EmptySum DEF Ledger
  <2> QED  BY <2>2 DEF Init
<1> QED  BY <1>1, LedgerStep, InductiveInvariant, PTL DEF Spec

-----------------------------------------------------------------------------
(* The requests implement GeneralLedger.                                   *)

OfStatus(status) == {e \in Calls : entry[e].status = status}
Undone == {e \in Calls : ReversedBy(e) # {}}
AmountsOf == [e \in Calls |-> entry[e].amount]

LEMMA LedgerStutters ==
  ASSUME UNCHANGED books
  PROVE  UNCHANGED General!vars
  BY DEF General!vars, books, AutoEntries, ReversedBy, Entries

\* Entries are what has a status; an undone one is one that some entry reverses.
LEMMA StatusSplits ==
  ASSUME BooksInv
  PROVE  /\ Entries = OfStatus("DRAFT") \cup OfStatus("POSTED") \cup OfStatus("REVERSED")
         /\ \A e \in Calls : e \in Undone <=> IsReversed(e)
         /\ \A e \in Undone : entry[e].status # "DRAFT"
<1>1. Entries = OfStatus("DRAFT") \cup OfStatus("POSTED") \cup OfStatus("REVERSED")
  BY ConstantsAssumption DEF BooksInv, Types, Entry, Entries, OfStatus
<1>2. \A e \in Calls : e \in Undone <=> IsReversed(e)
  BY DEF Undone, ReversedBy, IsReversed
<1>3. \A e \in Undone : e \in Entries
  <2>1. None \notin Calls
    BY ConstantsAssumption DEF Calls
  <2> QED  BY <2>1 DEF BooksInv, Links, Undone, ReversedBy
<1> QED  BY <1>1, <1>2, <1>3 DEF BooksInv, Postings, Undone

\* An insert of a draft.
LEMMA WritesEntry ==
  ASSUME NEW c \in Calls \ Entries, BooksInv, NEW e \in Entry,
         e.status = "DRAFT", e.reversalOf = None,
         e.reference = Document => AutoEntries = {},
         entry' = [entry EXCEPT ![c] = e], UNCHANGED <<balance, posts>>
  PROVE  General!Write(c)
<1>1. entry'[c] = e /\ \A d \in Calls \ {c} : entry'[d] = entry[d]
  BY DEF BooksInv, Types
<1>2. Entries' = Entries \cup {c}
  BY <1>1, ConstantsAssumption DEF Entries
<1>3. /\ OfStatus("DRAFT")' = OfStatus("DRAFT") \cup {c}
      /\ OfStatus("POSTED")' = OfStatus("POSTED")
      /\ OfStatus("REVERSED")' = OfStatus("REVERSED")
  <2>1. entry[c].status = None /\ None \notin {"POSTED", "REVERSED"}
    BY ConstantsAssumption DEF Entries
  <2> QED  BY <1>1, <2>1 DEF OfStatus
<1>4. \/ AutoEntries' = AutoEntries
      \/ AutoEntries = {} /\ AutoEntries' = {c}
  <2>1. CASE e.reference = Document
    BY <1>1, <1>2, <2>1 DEF AutoEntries
  <2>2. CASE e.reference # Document
    <3>1. \A d \in Entries : entry'[d] = entry[d]
      BY <1>1 DEF Entries
    <3> QED  BY <1>1, <1>2, <2>2, <3>1 DEF AutoEntries
  <2> QED  BY <2>1, <2>2
<1>5. Undone' = Undone
  <2>1. \A d \in Calls : ReversedBy(d)' = ReversedBy(d)
    BY <1>1, <1>2, ConstantsAssumption DEF ReversedBy, Calls
  <2> QED  BY <2>1 DEF Undone
<1>6. AmountsOf' \in [Calls -> Int] /\ \A d \in Calls \ {c} : AmountsOf'[d] = AmountsOf[d]
  <2>1. \A d \in Calls : entry'[d].amount \in Int
    BY <1>1 DEF BooksInv, Types, Entry
  <2> QED  BY <1>1, <2>1 DEF AmountsOf
<1>7. c \notin OfStatus("DRAFT") \cup OfStatus("POSTED") \cup OfStatus("REVERSED")
  BY StatusSplits
<1> QED
  BY <1>3, <1>4, <1>5, <1>6, <1>7
  DEF General!Write, General!IsNew, OfStatus, Undone, AmountsOf

\* A posting whose claim succeeds is one change.
LEMMA PostsEntry ==
  ASSUME NEW c \in Calls, BooksInv, PostEntry(c), Postable(target[c])
  PROVE  \E e \in Calls : General!Post(e)
<1>1. target[c] \in Entries /\ Entries \subseteq Calls /\ None \notin Calls
  BY ConstantsAssumption DEF PostEntry, BooksInv, Reads, Entries, Calls
<1> PICK e \in Entries : e = target[c]
  BY <1>1
<1>2. /\ entry' = [entry EXCEPT ![e] = [@ EXCEPT !.status = "POSTED"]]
      /\ balance' = balance + entry[e].amount
  BY DEF PostEntry, Apply
<1>3. /\ entry'[e].status = "POSTED"
      /\ entry'[e].amount = entry[e].amount
      /\ entry'[e].reference = entry[e].reference
      /\ entry'[e].reversalOf = entry[e].reversalOf
      /\ \A d \in Calls \ {e} : entry'[d] = entry[d]
  BY <1>1, <1>2 DEF BooksInv, Types, Entry
<1>4. Entries' = Entries
  BY <1>1, <1>3, ConstantsAssumption DEF Entries
<1>5. e \in OfStatus("DRAFT") \cup OfStatus("REVERSED")
  BY <1>1, StatusSplits DEF Postable, OfStatus
<1>6. /\ OfStatus("DRAFT")' = OfStatus("DRAFT") \ {e}
      /\ OfStatus("POSTED")' = OfStatus("POSTED") \cup {e}
      /\ OfStatus("REVERSED")' = OfStatus("REVERSED") \ {e}
  BY <1>1, <1>3 DEF OfStatus
<1>7. AutoEntries' = AutoEntries
  BY <1>1, <1>3, <1>4 DEF AutoEntries
<1>8. Undone' = Undone
  <2>1. \A d \in Calls : ReversedBy(d)' = ReversedBy(d)
    BY <1>1, <1>3, <1>4 DEF ReversedBy
  <2> QED  BY <2>1 DEF Undone
<1>9. AmountsOf' = AmountsOf /\ AmountsOf[e] = entry[e].amount
  BY <1>1, <1>3 DEF AmountsOf
<1>10. balance' = balance + AmountsOf[e]
  BY <1>2, <1>9
<1>11. General!Post(e)
  BY <1>5, <1>6, <1>7, <1>8, <1>9, <1>10 DEF General!Post, OfStatus, Undone, AmountsOf
<1> QED  BY <1>1, <1>11

\* So is a reversal whose claim succeeds.
LEMMA ReversesEntry ==
  ASSUME NEW c \in Calls, BooksInv, ReverseEntry(c), Reversible(target[c])
  PROVE  \E e \in Calls : General!Reverse(e, c)
<1>1. /\ target[c] \in Entries /\ c \notin Entries
      /\ Entries \subseteq Calls /\ None \notin Calls
  BY ConstantsAssumption DEF ReverseEntry, BooksInv, Reads, Entries, Calls
<1> PICK e \in Entries : e = target[c]
  BY <1>1
<1> DEFINE r == [status |-> "POSTED", amount |-> -entry[e].amount,
                 reference |-> None, reversalOf |-> e]
<1>2. /\ entry' = [entry EXCEPT ![e] = [@ EXCEPT !.status = "REVERSED"], ![c] = r]
      /\ balance' = balance + (-entry[e].amount)
  BY DEF ReverseEntry, ApplyReversal, Apply
<1>3. /\ entry'[e].status = "REVERSED"
      /\ entry'[e].amount = entry[e].amount
      /\ entry'[e].reference = entry[e].reference
      /\ entry'[e].reversalOf = entry[e].reversalOf
      /\ entry'[c] = r
      /\ \A d \in Calls \ {e, c} : entry'[d] = entry[d]
  BY <1>1, <1>2 DEF BooksInv, Types, Entry
<1>4. Entries' = Entries \cup {c}
  BY <1>1, <1>3, ConstantsAssumption DEF Entries
<1>5. entry[e].amount \in Int /\ balance \in Int
  BY <1>1 DEF BooksInv, Types, Entry
<1>6. e \in OfStatus("POSTED") \ Undone
  BY <1>1 DEF Reversible, OfStatus, Undone
<1>7. c \notin OfStatus("DRAFT") \cup OfStatus("POSTED") \cup OfStatus("REVERSED")
  BY <1>1, StatusSplits
<1>8. /\ OfStatus("DRAFT")' = OfStatus("DRAFT")
      /\ OfStatus("POSTED")' = (OfStatus("POSTED") \ {e}) \cup {c}
      /\ OfStatus("REVERSED")' = OfStatus("REVERSED") \cup {e}
  BY <1>1, <1>3, <1>6, <1>7 DEF OfStatus
<1>9. AutoEntries' = AutoEntries
  <2>1. None # Document
    BY ConstantsAssumption
  <2> QED  BY <1>1, <1>3, <1>4, <2>1 DEF AutoEntries
<1>10. Undone' = Undone \cup {e}
  <2>1. \A d \in Calls \ {e} : ReversedBy(d)' = ReversedBy(d)
    BY <1>1, <1>3, <1>4 DEF ReversedBy
  <2>2. c \in ReversedBy(e)'
    BY <1>1, <1>3, <1>4 DEF ReversedBy
  <2> QED  BY <1>1, <2>1, <2>2 DEF Undone
<1>11. AmountsOf' = [AmountsOf EXCEPT ![c] = -AmountsOf[e]] /\ AmountsOf[e] = entry[e].amount
  BY <1>1, <1>3 DEF AmountsOf
<1>12. balance' = balance - AmountsOf[e]
  BY <1>2, <1>5, <1>11
<1>13. General!Reverse(e, c)
  BY <1>6, <1>7, <1>8, <1>9, <1>10, <1>11, <1>12
  DEF General!Reverse, General!IsNew, OfStatus, Undone, AmountsOf
<1> QED  BY <1>1, <1>13

\* Each step of the requests is a change of the general ledger or none.
LEMMA LedgerRefined ==
  ASSUME BooksInv, [Next]_vars
  PROVE  General!Next \/ UNCHANGED General!vars
<1>1. ASSUME NEW c \in Calls, CreateEntry(c) \/ CreateAuto(c)
      PROVE  General!Next \/ UNCHANGED General!vars
  <2>1. c \in Calls \ Entries
    BY <1>1 DEF CreateEntry, CreateAuto, BooksInv, Reads
  <2>2. \/ UNCHANGED books
        \/ \E a \in Amounts, reference \in {None, Document} :
             /\ reference = Document => AutoEntries = {}
             /\ entry' = [entry EXCEPT ![c] = NewEntry(a, reference)]
             /\ UNCHANGED <<balance, posts>>
    BY <1>1, ConstantsAssumption DEF CreateEntry, CreateAuto, ReferenceFree, books
  <2>3. ASSUME NEW a \in Amounts, NEW reference \in {None, Document},
               reference = Document => AutoEntries = {},
               entry' = [entry EXCEPT ![c] = NewEntry(a, reference)],
               UNCHANGED <<balance, posts>>
        PROVE  General!Write(c)
    <3> DEFINE e == NewEntry(a, reference)
    <3>1. /\ e \in Entry /\ e.status = "DRAFT" /\ e.reversalOf = None
          /\ e.reference = reference
      BY ConstantsAssumption DEF NewEntry, Entry
    <3> HIDE DEF e
    <3> QED  BY <2>1, <2>3, <3>1, WritesEntry DEF e
  <2>4. General!Write(c) => General!Next
    BY DEF General!Next
  <2> QED  BY <2>2, <2>3, <2>4, LedgerStutters
<1>2. ASSUME NEW c \in Calls, PostEntry(c)
      PROVE  General!Next \/ UNCHANGED General!vars
  <2>1. CASE Postable(target[c])
    <3>1. \E e \in Calls : General!Post(e)
      BY <1>2, <2>1, PostsEntry
    <3> QED  BY <3>1 DEF General!Next
  <2>2. CASE ~Postable(target[c])
    BY <1>2, <2>2, LedgerStutters DEF PostEntry
  <2> QED  BY <2>1, <2>2
<1>3. ASSUME NEW c \in Calls, ReverseEntry(c)
      PROVE  General!Next \/ UNCHANGED General!vars
  <2>1. CASE Reversible(target[c])
    <3>1. \E e \in Calls : General!Reverse(e, c)
      BY <1>3, <2>1, ReversesEntry
    <3> QED  BY <3>1 DEF General!Next
  <2>2. CASE ~Reversible(target[c])
    BY <1>3, <2>2, LedgerStutters DEF ReverseEntry
  <2> QED  BY <2>1, <2>2
<1>4. ASSUME NEW c \in Calls, Begin(c) \/ RereadAuto(c) \/ ClosePeriod(c) \/ Die(c)
      PROVE  UNCHANGED General!vars
  <2>1. UNCHANGED books
    BY <1>4 DEF Begin, ReadForCreate, ReadForPost, ReadForReverse, ReadForAuto, ReadForClose,
                ReopenPeriod, RereadAuto, ClosePeriod, Die
  <2> QED  BY <2>1, LedgerStutters
<1>5. CASE UNCHANGED vars
  BY <1>5, LedgerStutters DEF vars, books
<1> QED  BY <1>1, <1>2, <1>3, <1>4, <1>5 DEF Next, Quiescent, Step, Continue

\* Racing requests keep the books as GeneralLedger does: entry and balance move
\* together, an entry is reversed once, by its opposite, and a document has one
\* automatic entry, for any number of requests and any amounts.
THEOREM JournalsKeepLedger == Spec => JournalsAreLedger
<1>1. Init => General!Init
  BY ConstantsAssumption DEF Init, General!Init, NoEntry, AutoEntries, ReversedBy, Entries
<1>2. BooksInv /\ [Next]_vars => [General!Next]_General!vars
  BY LedgerRefined
<1> QED  BY <1>1, <1>2, InductiveInvariant, PTL DEF Spec, JournalsAreLedger, General!Spec

=============================================================================
