----------------------------- MODULE ChangeLife -----------------------------
(***************************************************************************)
(* What the phone and the API promise together of a change the user makes: *)
(* one that the screen says is queued is pending until the server did it   *)
(* or refused it, the phone gave it up, or the user discarded it; and one  *)
(* whose requests came in order is done once at most.  A death of the app  *)
(* may take all that is pending at once, and of two writers each may undo  *)
(* what the other does; the changes this befalls are known as spoiled.     *)
(*                                                                         *)
(* OfflineSyncCoordinator and IdempotencyInterceptor keep this with a file *)
(* that passes read and rewrite, and with keys and stored answers (module  *)
(* OfflineSync).                                                           *)
(***************************************************************************)
EXTENDS Naturals

CONSTANT Changes

VARIABLES
  promised,    \* the changes the screen said are queued
  pending,     \* those the phone still means to send
  done,        \* how often each was done: never, once or more often
  answered,    \* those whose answer the server can repeat
  settled,     \* those it refused, or the phone gave up
  discarded,   \* those the user discarded
  spoiled,     \* those a death took, or a writer who did not see them
  orderly      \* those whose requests came in order

vars == <<promised, pending, done, answered, settled, discarded, spoiled, orderly>>

Init == /\ promised = {} /\ pending = {} /\ answered = {}
        /\ settled = {} /\ discarded = {} /\ spoiled = {}
        /\ done = [m \in Changes |-> 0]
        /\ orderly = Changes

Apart(S, T) == (S \ T) \cup (T \ S)

\* What a writer made of the changes as it saw them.
Write(seen, changes) ==
  /\ pending' = changes
  /\ spoiled' = spoiled \cup Apart(seen, pending)

Promise(m) ==
  /\ m \notin promised \cup pending \cup settled \cup discarded
  /\ promised' = promised \cup {m}
  /\ \E seen \in SUBSET promised : Write(seen, seen \cup {m})
  /\ UNCHANGED <<done, answered, settled, discarded, orderly>>

Perform(m) ==
  /\ m \in orderly => done[m] = 0
  /\ done' = [done EXCEPT ![m] = IF @ = 0 THEN 1 ELSE 2]
  /\ UNCHANGED <<promised, pending, answered, settled, discarded, spoiled, orderly>>

Keep(m) ==
  /\ done[m] > 0
  /\ answered' = answered \cup {m}
  /\ UNCHANGED <<promised, pending, done, settled, discarded, spoiled, orderly>>

\* Its answer expires, or a request of it overtakes another.
Disorder(m) ==
  /\ answered' \in {answered, answered \ {m}}
  /\ orderly' = orderly \ {m}
  /\ UNCHANGED <<promised, pending, done, settled, discarded, spoiled>>

Settle(m) ==
  /\ m \in pending \cup discarded \cup spoiled
  /\ settled' = settled \cup {m}
  /\ \/ UNCHANGED <<pending, spoiled>>
     \/ \E seen \in SUBSET promised : Write(seen, seen \ {m})
  /\ UNCHANGED <<promised, done, answered, discarded, orderly>>

Remove(ms) ==
  /\ \A m \in ms : m \in settled \/ done[m] > 0
  /\ \E seen \in SUBSET promised : Write(seen, seen \ ms)
  /\ UNCHANGED <<promised, done, answered, settled, discarded, orderly>>

Discard(m) ==
  /\ m \in pending
  /\ \E seen \in SUBSET promised : Write(seen, seen \ {m})
  /\ discarded' = discarded \cup {m}
  /\ UNCHANGED <<promised, done, answered, settled, orderly>>

\* A change that failed is pending again, if it is not still so: it was
\* discarded, or spoiled, while it was being sent.
Return(m) ==
  /\ m \in pending \cup discarded \cup spoiled
  /\ \E seen \in SUBSET promised : Write(seen, seen \cup {m})
  /\ UNCHANGED <<promised, done, answered, settled, discarded, orderly>>

Die ==
  /\ pending' = {}
  /\ spoiled' = spoiled \cup pending
  /\ UNCHANGED <<promised, done, answered, settled, discarded, orderly>>

Next == \/ \E m \in Changes : \/ Promise(m) \/ Perform(m) \/ Keep(m) \/ Disorder(m)
                              \/ Settle(m) \/ Discard(m) \/ Return(m)
        \/ \E ms \in SUBSET Changes : Remove(ms)
        \/ Die

Spec == Init /\ [][Next]_vars

=============================================================================
