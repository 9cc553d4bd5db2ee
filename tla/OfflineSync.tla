---------------------------- MODULE OfflineSync -----------------------------
(***************************************************************************)
(* The phone's queue of changes made without a connection and the API's    *)
(* idempotency keys: OfflineHttpInterceptor, OfflineMutationQueue,         *)
(* OfflineMediaStore and OfflineSyncCoordinator of the Android app, with   *)
(* the IdempotencyInterceptor every request of theirs goes through.        *)
(*                                                                         *)
(* A mutation is first sent live and without a key; if there is no         *)
(* connection, or no answer comes, it is put in the queue file with a new  *)
(* key.  A pass sends a snapshot of the queue one by one, in a coroutine   *)
(* of the screen that is cancelled with it.  The server looks the key up,  *)
(* runs the handler on a miss, answers, and stores the answer without      *)
(* waiting for it.  A mutation's body is whole or still holds references   *)
(* to media files the phone has deleted.                                   *)
(*                                                                         *)
(* A save truncates the queue file and writes it anew: a death in between  *)
(* leaves a file that is read as empty.  Each creation of the activity     *)
(* makes another queue object, and the clients and the pass that hold an   *)
(* older one keep it: two objects read and write the one file without      *)
(* excluding each other.                                                   *)
(*                                                                         *)
(* The user is signed in, every mutation may be queued and goes to this    *)
(* API, and the storage is never full.                                     *)
(***************************************************************************)
EXTENDS Integers, Sequences, FiniteSets, Subsequences

CONSTANTS
  MaxMutations, \* what the user does on the phone
  WithMedia,    \* those whose JSON body refers to media files
  Binary,       \* those whose whole body is a file
  MaxAttempts,  \* MAX_ATTEMPTS of OfflineSyncCoordinator
  MaxInFlight,  \* bound on the requests under way at the same time
  MaxBusy,      \* bound on the mutations they are of
  MaxIncidents, \* bound on the items discarded, the passes cancelled, the saves
                \* of two queue objects that overlap and the deaths of the app
  None

Mutations == 1 .. MaxMutations   \* numbered as they are made

QueueItem == [m : Mutations, attempts : 0 .. MaxAttempts - 1]
Bodies == {"whole", "broken"}
Request == [m : Mutations, keyed : BOOLEAN, body : Bodies, awaited : BOOLEAN,
            stage : {"sent", "run", "ok", "refused", "error"}, storing : BOOLEAN]
Kinds == {"whole", "single", "cut"}
Pass == [kind : Kinds, todo : Seq(QueueItem), done : SUBSET Mutations, waiting : BOOLEAN]

ASSUME ConstantsAssumption ==
  /\ MaxMutations \in Nat
  /\ WithMedia \subseteq Mutations
  /\ Binary \subseteq Mutations
  /\ MaxAttempts \in Nat \ {0}
  /\ MaxInFlight \in Nat
  /\ MaxBusy \in Nat
  /\ MaxIncidents \in Nat
  /\ None \notin Bodies \cup Request \cup Pass

VARIABLES
  \* the phone
  online,     \* NetworkMonitor.isOnline
  live,       \* what the screen that made each mutation knows of it
  queue,      \* the queue file: [m, attempts] in order
  media,      \* the mutations whose files are on disk
  asked,      \* a pass has been asked for and has not begun
  pass,       \* the pass under way: [kind, todo, done, waiting] or None; it is
              \* cut if it was cancelled and still awaits an answer
  \* the API
  requests,   \* those under way: [m, keyed, body, stage, awaited, storing],
              \* None where there is none
  stored,     \* idempotency_keys: the body of the request answered, or None
  \* history
  runs,       \* how often the handler succeeded: never, once or more often
  settled,    \* mutations the server refused or the phone gave up
  discarded,  \* mutations the user discarded
  spoiled,    \* mutations a torn save took from the file, or an overlapping one
              \* took from it or put back
  left,       \* mutations whose media were deleted and that stayed in the file, as
              \* the pass or the app ended first
  incidents,  \* how many other things happened that MaxIncidents bounds
  orderly     \* mutations no request of which was sent while another one was
              \* under way, or with no answer in store although the mutation is
              \* done, and whose answer has not expired

phone == <<online, live, media, asked, pass>>
file == <<queue, spoiled>>
history == <<runs, settled, discarded, left, incidents, orderly>>
vars == <<phone, file, requests, stored, history>>

Slots == 1 .. MaxInFlight
Requests == {n \in Slots : requests[n] # None}
MutationsOf(q) == {q[i].m : i \in DOMAIN q}
Queued == MutationsOf(queue)
Without(q, ms) == Subsequence(q, {i \in DOMAIN q : q[i].m \notin ms})

Init == /\ online \in BOOLEAN
        /\ live = [m \in Mutations |-> "new"]
        /\ queue = <<>>
        /\ media = {}
        /\ asked = FALSE
        /\ pass = None
        /\ requests = [n \in Slots |-> None]
        /\ stored = [m \in Mutations |-> None]
        /\ runs = [m \in Mutations |-> 0]
        /\ settled = {}
        /\ discarded = {}
        /\ spoiled = {}
        /\ left = {}
        /\ incidents = 0
        /\ orderly = Mutations

-----------------------------------------------------------------------------
(* OfflineMutationQueue: each operation reads the file and saves it.       *)

IsQueue(q) == /\ q \in Seq(QueueItem)
              /\ \A i, j \in DOMAIN q : q[i].m = q[j].m => i = j

Incident == incidents + Cardinality(discarded) < MaxIncidents

\* A method excludes the others of its own object only.  While it works on what
\* it has read, the other object may save the file: it misses items put there
\* since, or still has one that was taken from it; or it read the file truncated.
Views ==
  {queue} \cup IF ~Incident THEN {} ELSE
    {Without(queue, ms) : ms \in SUBSET Queued} \cup
    {Append(queue, item) : item \in {item \in QueueItem :
                                      item.m \notin Queued /\ live[item.m] = "queued"}}

Apart(p, q) == (MutationsOf(p) \ MutationsOf(q)) \cup (MutationsOf(q) \ MutationsOf(p))

\* What was made of the file as it was seen takes the place of the one there is.
Save(seen, items) ==
  /\ queue' = items
  /\ spoiled' = spoiled \cup Apart(seen, queue)
  /\ incidents' = incidents + IF seen = queue THEN 0 ELSE 1

-----------------------------------------------------------------------------
(* Sending.                                                                *)

\* expandMediaRefs leaves a reference whose file is missing as it is.
Body(m) == IF m \in WithMedia /\ m \notin media THEN "broken" ELSE "whole"

Send(m, keyed, body) ==
  /\ Slots \ Requests # {}
  /\ Cardinality({requests[n].m : n \in Requests} \cup {m}) <= MaxBusy
  /\ requests' = [requests EXCEPT ![CHOOSE n \in Slots \ Requests : TRUE] =
       [m |-> m, keyed |-> keyed, body |-> body, stage |-> IF keyed THEN "sent" ELSE "run",
        awaited |-> TRUE, storing |-> FALSE]]
  /\ orderly' = IF /\ \A n \in Requests : requests[n].m # m
                   /\ runs[m] > 0 => stored[m] # None
                  THEN orderly ELSE orderly \ {m}

\* A request nobody awaits and the API has ended is forgotten.
Kept(r) == IF r.stage \notin {"sent", "run"} /\ ~r.awaited /\ ~r.storing THEN None ELSE r
Unawaited(r) == Kept([r EXCEPT !.awaited = FALSE])
Put(n, r) == requests' = [requests EXCEPT ![n] = Kept(r)]

\* The client has its answer, or waits for it no more.
Awaited(m, keyed) ==
  {n \in Requests : requests[n].m = m /\ requests[n].keyed = keyed /\ requests[n].awaited}
Leave(n) == requests' = [requests EXCEPT ![n] = Unawaited(@)]

-----------------------------------------------------------------------------
(* OfflineHttpInterceptor: the live request and the queue.                 *)

Made(m) == live[m] = "new" /\ \A n \in 1 .. m - 1 : live[n] # "new"

SendLive(m) ==
  /\ Made(m)
  /\ online
  /\ Send(m, FALSE, "whole")
  /\ live' = [live EXCEPT ![m] = "sent"]
  /\ UNCHANGED <<online, media, asked, pass, file, stored>>
  /\ UNCHANGED <<runs, settled, discarded, left, incidents>>

AnsweredLive(m) ==
  /\ live[m] = "sent"
  /\ \E n \in Awaited(m, FALSE) : requests[n].stage \notin {"sent", "run"} /\ Leave(n)
  /\ live' = [live EXCEPT ![m] = "over"]
  /\ UNCHANGED <<online, media, asked, pass, file, stored, history>>

\* enqueue: no connection, or the live request ends in an IOException although
\* the server may have it.
Enqueue(m) ==
  /\ \/ /\ Made(m) /\ ~online
        /\ UNCHANGED requests
     \/ /\ live[m] = "sent"
        /\ \E n \in Awaited(m, FALSE) : Leave(n)
  /\ live' = [live EXCEPT ![m] = "queued"]
  /\ \E seen \in Views : Save(seen, Append(seen, [m |-> m, attempts |-> 0]))
  /\ media' = IF m \in WithMedia \cup Binary THEN media \cup {m} ELSE media
  /\ UNCHANGED <<online, asked, pass, stored, runs, settled, discarded, left, orderly>>

-----------------------------------------------------------------------------
(* OfflineSyncCoordinator: replay and replaySingle, one at a time.         *)

\* A pass works on what it has read, whatever becomes of the file.
NewPass(kind, items) == [kind |-> kind, todo |-> items, done |-> {}, waiting |-> FALSE]

\* The app asked for it, when the connection came back or at its start.
BeginPass ==
  /\ pass = None
  /\ asked
  /\ asked' = FALSE
  /\ pass' = IF online /\ queue # <<>> THEN NewPass("whole", queue) ELSE None
  /\ UNCHANGED <<online, live, media, file, requests, stored, history>>

\* The user asks for it: all of the queue, or one item.
SyncNow ==
  /\ pass = None
  /\ online /\ queue # <<>>
  /\ pass' = NewPass("whole", queue)
  /\ UNCHANGED <<online, live, media, asked, file, requests, stored, history>>

RetryOne(i) ==
  /\ pass = None
  /\ online
  /\ pass' = NewPass("single", <<queue[i]>>)
  /\ UNCHANGED <<online, live, media, asked, file, requests, stored, history>>

Sending == pass # None /\ pass.todo # <<>>
Item == Head(pass.todo)
Waiting == Sending /\ pass.waiting

\* Its last attempt is too recent.
SkipItem ==
  /\ Sending /\ ~Waiting
  /\ pass.kind # "single"
  /\ Item.attempts > 0
  /\ pass' = [pass EXCEPT !.todo = Tail(@)]
  /\ UNCHANGED <<online, live, media, asked, file, requests, stored, history>>

SendItem ==
  /\ Sending /\ ~Waiting
  /\ Item.m \in Binary => Item.m \in media
  /\ Send(Item.m, TRUE, Body(Item.m))
  /\ pass' = [pass EXCEPT !.waiting = TRUE]
  /\ UNCHANGED <<online, live, media, asked, file, stored>>
  /\ UNCHANGED <<runs, settled, discarded, left, incidents>>

\* The item leaves the queue: at once, or with the others when the pass ends.
Finish(m) ==
  /\ IF pass.kind = "single"
       THEN /\ pass' = [pass EXCEPT !.todo = Tail(@), !.waiting = FALSE]
            /\ \E seen \in Views : Save(seen, Without(seen, {m}))
       ELSE /\ pass' = [pass EXCEPT !.todo = Tail(@), !.done = @ \cup {m}, !.waiting = FALSE]
            /\ UNCHANGED <<file, incidents>>
  /\ media' = media \ {m}

\* A success, or a refusal that will not change (PERMANENT_CLIENT).
FinishItem ==
  /\ Waiting
  /\ \E n \in Awaited(Item.m, TRUE) :
       /\ requests[n].stage \in {"ok", "refused"}
       /\ settled' = IF requests[n].stage = "refused" THEN settled \cup {Item.m} ELSE settled
       /\ Leave(n)
  /\ Finish(Item.m)
  /\ UNCHANGED <<online, live, asked, stored, runs, discarded, left, orderly>>

\* Mutant: the item is added, not replaced.
AddAgain(q, item) == Append(q, item)

\* upsert adds the item again if it is no longer in the file.
Upsert(q, item) ==
  IF item.m \in MutationsOf(q)
    THEN [i \in DOMAIN q |-> IF q[i].m = item.m THEN item ELSE q[i]]
    ELSE Append(q, item)

\* Mutant: the files go although the item stays.
PurgeAlways(m) == media \ {m}
KeptMedia(m) == media

\* An answer that may change, or an exception: no connection, no answer in
\* time, the file of a binary body missing.
FailItem ==
  LET tried == Item.attempts + 1 IN
  /\ Sending
  /\ IF Waiting
       THEN \E n \in Awaited(Item.m, TRUE) : requests[n].stage \notin {"ok", "refused"} /\ Leave(n)
       ELSE UNCHANGED requests
  /\ IF tried >= MaxAttempts
       THEN Finish(Item.m) /\ settled' = settled \cup {Item.m}
       ELSE /\ \E seen \in Views : Save(seen, Upsert(seen, [m |-> Item.m, attempts |-> tried]))
            /\ pass' = [pass EXCEPT !.todo = Tail(@), !.waiting = FALSE]
            /\ media' = KeptMedia(Item.m)
            /\ UNCHANGED settled
  /\ UNCHANGED <<online, live, asked, stored, runs, discarded, left, orderly>>

\* Mutant: the pass takes for done whatever is in the file when it ends.
WholeFile == Queued
DoneItems == pass.done

EndPass ==
  /\ pass # None
  /\ pass.todo = <<>>
  /\ IF pass.kind = "cut" \/ pass.done = {}
       THEN left' = left \cup pass.done /\ UNCHANGED <<file, incidents>>
       ELSE /\ \E seen \in Views : Save(seen, Without(seen, DoneItems))
            /\ UNCHANGED left
  /\ pass' = None
  /\ UNCHANGED <<online, live, media, asked, requests, stored, runs, settled, discarded, orderly>>

\* The coroutine of the pass is cancelled.  It ends where it waits between two
\* items; a request under way is finished first, and its item.  Either way
\* nothing more is sent, and what is done stays in the file.
Cancel ==
  /\ Incident
  /\ incidents' = incidents + 1
  /\ \/ /\ Waiting
        /\ pass' = IF pass.kind = "single" THEN pass
                   ELSE [pass EXCEPT !.kind = "cut", !.todo = <<Item>>]
        /\ UNCHANGED left
     \/ /\ pass # None /\ ~Waiting
        /\ pass' = None
        /\ left' = left \cup pass.done

-----------------------------------------------------------------------------
(* The user, the connection, the activity and the death of the app.        *)

\* The queue's screen does not take the coordinator's mutex.
Discard(i) ==
  LET m == queue[i].m IN
  /\ Incident
  /\ media' = media \ {m}
  /\ \E seen \in Views : Save(seen, Without(seen, {m}))
  /\ discarded' = discarded \cup {m}
  /\ UNCHANGED <<online, live, asked, pass, requests, stored, runs, settled, left, orderly>>

\* A connection that comes back asks for a pass.  Either way the pass that was
\* asked for so is cancelled, but not one the user asked for.
Connection ==
  /\ online' = ~online
  /\ asked' = (asked \/ online')
  /\ Cancel \/ UNCHANGED <<pass, left, incidents>>
  /\ UNCHANGED <<live, media, file, requests, stored, runs, settled, discarded, orderly>>

\* The user leaves the screen a pass was asked for from, the app locks and unlocks
\* itself, or the activity is created again; the last two ask for a pass.
LeaveScreen ==
  /\ Cancel \/ UNCHANGED <<pass, left, incidents>>
  /\ asked' \in {asked, online}
  /\ UNCHANGED <<online, live, media, file, requests, stored, runs, settled, discarded, orderly>>

\* The files stay, but for a queue file that was being saved, or the media of an
\* item that was being discarded; what waits for a live answer is forgotten.  The
\* app asks for a pass when it starts again.
Die ==
  /\ Incident
  /\ incidents' = incidents + 1
  /\ \/ queue' \in {queue, <<>>} /\ UNCHANGED media
     \/ \E m \in Queued : media' = media \ {m} /\ UNCHANGED queue
  /\ spoiled' = spoiled \cup Apart(queue, queue')
  /\ left' = left \cup (media \ media') \cup IF pass = None THEN {} ELSE pass.done
  /\ pass' = None
  /\ asked' = online
  /\ live' = [m \in Mutations |-> IF live[m] = "sent" THEN "over" ELSE live[m]]
  /\ requests' = [n \in Slots |->
       IF n \in Requests THEN Unawaited(requests[n]) ELSE None]
  /\ UNCHANGED <<online, stored, runs, settled, discarded, orderly>>

-----------------------------------------------------------------------------
(* IdempotencyInterceptor.                                                 *)

\* Mutant: the answer stored is looked up and not used.
NeverFound(r) == FALSE
Found(r) == r.keyed /\ stored[r.m] # None

\* The stored answer, or a conflict if the body is another one.
LookUp(n) ==
  LET r == requests[n] IN
  /\ r.stage = "sent"
  /\ Put(n, [r EXCEPT !.stage = IF ~Found(r) THEN "run"
                                ELSE IF stored[r.m] = r.body THEN "ok" ELSE "refused"])
  /\ UNCHANGED <<phone, file, stored, history>>

\* The handler succeeds: the answer leaves while it is being stored.
RunHandler(n) ==
  LET r == requests[n] IN
  /\ r.stage = "run"
  /\ Put(n, [r EXCEPT !.stage = "ok", !.storing = r.keyed])
  /\ runs' = [runs EXCEPT ![r.m] = IF @ = 0 THEN 1 ELSE 2]
  /\ UNCHANGED <<phone, file, stored, settled, discarded, left, incidents, orderly>>

\* The handler refuses for good, or fails for now; nothing is stored.
RefuseRequest(n) ==
  /\ requests[n].stage = "run"
  /\ \E answer \in {"refused", "error"} : Put(n, [requests[n] EXCEPT !.stage = answer])
  /\ UNCHANGED <<phone, file, stored, history>>

\* The upsert of the answer; its failure is swallowed.
StoreAnswer(n) ==
  LET r == requests[n] IN
  /\ r.storing
  /\ Put(n, [r EXCEPT !.storing = FALSE])
  /\ stored' \in {stored, [stored EXCEPT ![r.m] = r.body]}
  /\ UNCHANGED <<phone, file, history>>

\* A request is lost on its way, or with the API's process.  The client finds
\* out when it gives up, so that only those it awaits no more need be lost.
Lose(n) ==
  /\ requests[n].stage \in {"sent", "run"}
  /\ ~requests[n].awaited
  /\ requests' = [requests EXCEPT ![n] = None]
  /\ UNCHANGED <<phone, file, stored, history>>

\* expiresAt passes: an answer is in force for TTL_HOURS.
Expire(m) ==
  /\ stored[m] # None
  /\ stored' = [stored EXCEPT ![m] = None]
  /\ orderly' = orderly \ {m}
  /\ UNCHANGED <<phone, file, requests, runs, settled, discarded, left, incidents>>

-----------------------------------------------------------------------------
Screen == \E m \in Mutations : SendLive(m) \/ AnsweredLive(m) \/ Enqueue(m)
User == SyncNow \/ LeaveScreen \/ \E i \in DOMAIN queue : RetryOne(i) \/ Discard(i)
Coordinator == BeginPass \/ SkipItem \/ SendItem \/ FinishItem \/ FailItem \/ EndPass
API == \E n \in Requests : LookUp(n) \/ RunHandler(n) \/ RefuseRequest(n) \/ StoreAnswer(n)
Losses == (\E n \in Requests : Lose(n)) \/ \E m \in Mutations : Expire(m)

Next == Screen \/ User \/ Coordinator \/ Connection \/ Die \/ API \/ Losses

Spec == Init /\ [][Next]_vars

\* The app and the API go on with what they have begun, a screen with its
\* request, and time passes between two attempts; nothing is assumed of the
\* user and of the connection.
Fairness == /\ WF_vars(Coordinator) /\ SF_vars(SendItem)
            /\ WF_vars(Screen)
            /\ WF_vars(API)

FairSpec == Spec /\ Fairness

-----------------------------------------------------------------------------
(* Properties.                                                             *)

\* The queue file never holds a mutation twice nor one out of attempts, and the
\* pass awaits one answer at a time.
TypeOK ==
  /\ online \in BOOLEAN
  /\ live \in [Mutations -> {"new", "sent", "queued", "over"}]
  /\ IsQueue(queue)
  /\ media \subseteq WithMedia \cup Binary
  /\ asked \in BOOLEAN
  /\ pass # None => /\ pass \in Pass
                    /\ IsQueue(pass.todo)
                    /\ pass.waiting => Cardinality(Awaited(Item.m, TRUE)) = 1
  /\ requests \in [Slots -> Request \cup {None}]
  /\ stored \in [Mutations -> Bodies \cup {None}]
  /\ runs \in [Mutations -> 0 .. 2]
  /\ settled \cup discarded \cup spoiled \cup left \cup orderly \subseteq Mutations
  /\ incidents \in 0 .. MaxIncidents

\* As long as each request of a mutation finds the one before it answered and
\* its answer in store, the mutation is done at most once, however often the
\* phone dies and sends it again (the key kept in the queue file and
\* IdempotencyInterceptor).
OrderlyRunsOnce == \A m \in orderly : runs[m] <= 1

\* A mutation the screen was told is queued stays in the file until the server
\* has done it or refused it, the phone has given it up after its attempts, or
\* the user has discarded it (replay against a queue that changes meanwhile);
\* the two ways the file itself fails, a death during a save and a save over
\* that of another queue object, are the only others.
QueuedIsNotLost ==
  \A m \in Mutations : live[m] = "queued" =>
    \/ m \in Queued \cup settled \cup discarded \cup spoiled
    \/ runs[m] > 0

\* A body is sent without its media only if the user discarded the mutation while
\* it was being sent, the pass or the app ended after the media were deleted and
\* before the item left the file, or an overlapping save put it back there
\* (purgeRefsInBody and expandMediaRefs).
BodiesAreWhole ==
  \A n \in Requests :
    requests[n].body = "broken" => requests[n].m \in discarded \cup left \cup spoiled

\* What the queue's screen says: with a connection "los cambios se sincronizan
\* automáticamente".  (It does not hold: a pass that leaves items behind is not
\* repeated until the connection is lost and found or the user asks.)
SyncedWhileOnline == (<>[]online) => []<>(queue = <<>>)

\* The queue and the keys as ChangeLife sees them.
Change == INSTANCE ChangeLife WITH
  Changes <- Mutations,
  promised <- {m \in Mutations : live[m] = "queued"},
  pending <- Queued,
  done <- runs,
  answered <- {m \in Mutations : stored[m] # None}

\* Passes over a queue that changes meanwhile, retries, cancelled passes, deaths,
\* late requests and stored answers together: a change that was queued leaves the
\* file only as ChangeLife says, and none is done twice as long as its requests
\* come in order (OfflineSyncCoordinator with IdempotencyInterceptor).
ChangesFollowLife == Change!Spec

=============================================================================
