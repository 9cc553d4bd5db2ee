------------------------------ MODULE JobQueue ------------------------------
(***************************************************************************)
(* The in-process queue of JobQueueService, which runs jobs when there is  *)
(* no Redis: enqueue, the timer's tickMemory and executeMemory.            *)
(*                                                                         *)
(* JavaScript runs one piece of code at a time; enqueue may come between   *)
(* any two awaits of a tick.  Time is abstract: a job that waits for its   *)
(* delay or backoff becomes due at some moment.                            *)
(***************************************************************************)
EXTENDS Integers, SequencesExt, Subsequences

CONSTANTS
  Jobs,           \* the calls of enqueue, each one object
  UniqueId,       \* the jobId that the jobs enqueued with unico share
  AttemptLimits,  \* values of maxAttempts
  BatchSize,      \* how many due jobs a tick takes (10 in the code)
  NoJob

MemoryJob == [id : Jobs \cup {UniqueId}, maxAttempts : AttemptLimits, known : BOOLEAN]

ASSUME JobsAssumption ==
  /\ AttemptLimits \subseteq Nat \ {0}
  /\ BatchSize \in Nat \ {0}
  /\ UniqueId \notin Jobs
  /\ NoJob \notin Jobs \cup MemoryJob

VARIABLES
  job,        \* what enqueue made of each call: [id, maxAttempts, known], or NoJob
  ignored,    \* calls answered with the id of the job that was waiting
  pending,    \* the waiting jobs, in order
  due,        \* the waiting jobs whose runAt has come
  attempts,   \* how often each job's handler was started
  running,    \* the flag that keeps ticks apart
  batch,      \* the jobs the tick has still to run
  current,    \* the job whose handler runs
  completed,  \* jobs whose handler succeeded
  dlq         \* the dead letters, in order

jobVars == <<job, ignored, pending, due, attempts, running, batch, current,
             completed, dlq>>

JobInit == /\ job = [j \in Jobs |-> NoJob]
           /\ ignored = {}
           /\ pending = <<>>
           /\ due = {}
           /\ attempts = [j \in Jobs |-> 0]
           /\ running = FALSE
           /\ batch = <<>>
           /\ current = NoJob
           /\ completed = {}
           /\ dlq = <<>>

-----------------------------------------------------------------------------
(* enqueue.                                                                *)

\* Mutant: the waiting jobs are not looked at.
NeverWaiting(id) == FALSE
IsWaiting(id) == \E j \in Range(pending) : job[j].id = id

\* known: whether a handler is registered for the job's name.
EnqueueJob(j) ==
  /\ job[j] = NoJob
  /\ j \notin ignored
  /\ \E unico, known, delayed \in BOOLEAN, max \in AttemptLimits :
       IF unico /\ IsWaiting(UniqueId)
         THEN /\ ignored' = ignored \cup {j}
              /\ UNCHANGED <<job, pending, due>>
         ELSE /\ job' = [job EXCEPT ![j] =
                   [id |-> IF unico THEN UniqueId ELSE j,
                    maxAttempts |-> max, known |-> known]]
              /\ pending' = Append(pending, j)
              /\ due' = IF delayed THEN due ELSE due \cup {j}
              /\ UNCHANGED ignored
  /\ UNCHANGED <<attempts, running, batch, current, completed, dlq>>

\* The moment runAt of a waiting job.
Elapse(j) ==
  /\ j \in Range(pending) \ due
  /\ due' = due \cup {j}
  /\ UNCHANGED <<job, ignored, pending, attempts, running, batch, current,
                 completed, dlq>>

-----------------------------------------------------------------------------
(* tickMemory and executeMemory.                                           *)

DueJobs == LET jobs == Subsequence(pending, {i \in DOMAIN pending : pending[i] \in due})
           IN  SubSeq(jobs, 1, IF Len(jobs) < BatchSize THEN Len(jobs) ELSE BatchSize)

\* A tick without due jobs changes nothing; one that finds a tick running neither.
Tick ==
  /\ ~running
  /\ DueJobs # <<>>
  /\ running' = TRUE
  /\ batch' = DueJobs
  /\ UNCHANGED <<job, ignored, pending, due, attempts, current, completed, dlq>>

\* Mutants: the job stays in the array while it runs; every job of its id leaves.
KeptWaiting(j) == pending
SameIdTaken(j) ==
  Subsequence(pending, {i \in DOMAIN pending : job[pending[i]].id # job[j].id})
Taken(j) == RemoveFirst(pending, j)

\* Mutant: a job that nobody handles is dropped.
Dropped(j) == dlq
Buried(j) == Append(dlq, j)

\* One turn of the loop, up to the await of the handler.
RunNext ==
  /\ running
  /\ current = NoJob
  /\ batch # <<>>
  /\ LET j == Head(batch)
     IN  /\ pending' = Taken(j)
         /\ due' = due \ {j}
         /\ batch' = Tail(batch)
         /\ IF job[j].known
              THEN /\ current' = j
                   /\ attempts' = [attempts EXCEPT ![j] = @ + 1]
                   /\ UNCHANGED dlq
              ELSE /\ dlq' = Buried(j)
                   /\ UNCHANGED <<current, attempts>>
  /\ UNCHANGED <<job, ignored, running, completed>>

HandlerResolves ==
  /\ current # NoJob
  /\ completed' = completed \cup {current}
  /\ current' = NoJob
  /\ UNCHANGED <<job, ignored, pending, due, attempts, running, batch, dlq>>

\* Mutant: one attempt more than allowed.
OneMore(j) == attempts[j] > job[j].maxAttempts
Exhausted(j) == attempts[j] >= job[j].maxAttempts

HandlerRejects ==
  /\ current # NoJob
  /\ IF Exhausted(current)
       THEN dlq' = Buried(current) /\ UNCHANGED pending
       ELSE pending' = Append(pending, current) /\ UNCHANGED dlq
  /\ current' = NoJob
  /\ UNCHANGED <<job, ignored, due, attempts, running, batch, completed>>

EndTick ==
  /\ running
  /\ current = NoJob
  /\ batch = <<>>
  /\ running' = FALSE
  /\ UNCHANGED <<job, ignored, pending, due, attempts, batch, current,
                 completed, dlq>>

JobNext ==
  \/ \E j \in Jobs : EnqueueJob(j) \/ Elapse(j)
  \/ Tick
  \/ RunNext
  \/ HandlerResolves
  \/ HandlerRejects
  \/ EndTick

JobSpec == JobInit /\ [][JobNext]_jobVars

\* Time passes, the interval timer fires again and again, and the handlers of
\* the repository settle (their calls of other services have timeouts).
JobFairness == /\ \A j \in Jobs : WF_jobVars(Elapse(j))
               /\ WF_jobVars(Tick)
               /\ WF_jobVars(RunNext)
               /\ WF_jobVars(HandlerResolves \/ HandlerRejects)
               /\ WF_jobVars(EndTick)

FairJobSpec == JobSpec /\ JobFairness

-----------------------------------------------------------------------------
(* Properties.                                                             *)

Accepted == {j \in Jobs : job[j] # NoJob}
Places(j) == Cardinality({i \in DOMAIN pending : pending[i] = j})
             + Cardinality({i \in DOMAIN dlq : dlq[i] = j})
             + (IF current = j THEN 1 ELSE 0)
             + (IF j \in completed THEN 1 ELSE 0)

\* The structures of the queue hold accepted jobs; the due jobs and what the tick
\* has still to run are among the waiting ones.
JobsTypeOK ==
  /\ job \in [Jobs -> MemoryJob \cup {NoJob}]
  /\ ignored \subseteq Jobs
  /\ pending \in Seq(Accepted)
  /\ due \subseteq Range(pending)
  /\ attempts \in [Jobs -> Nat]
  /\ running \in BOOLEAN
  /\ batch \in Seq(Accepted)
  /\ Range(batch) \subseteq Range(pending)
  /\ current \in Accepted \cup {NoJob}
  /\ completed \subseteq Accepted
  /\ dlq \in Seq(Accepted)

\* A job that was accepted is always in exactly one place: waiting, running,
\* completed or dead.  None is lost or doubled when jobs are enqueued during a
\* tick or go back to wait (the splice and the pushes of the queue).
EveryJobInOnePlace == \A j \in Accepted : Places(j) = 1

\* A job with a handler is given up only after all of its attempts, and no job
\* is tried more often than that (executeMemory).
GivenUpOnlyExhausted ==
  /\ \A j \in Accepted : attempts[j] <= job[j].maxAttempts
  /\ \A j \in Range(dlq) : job[j].known => attempts[j] = job[j].maxAttempts

\* Every accepted job ends, completed or dead, whatever else is enqueued and
\* however often others are retried (tickMemory's choice of the jobs it runs).
EveryJobEnds ==
  \A j \in Jobs : job[j] # NoJob ~> (j \in completed \/ j \in Range(dlq))

\* Of the jobs enqueued with unico and one id at most one waits for its first
\* run; enqueue looks only at the ones that wait, so that another may be running
\* or waiting for a retry.
OneUniqueWaitsFirst ==
  Cardinality({j \in Range(pending) : job[j].id = UniqueId /\ attempts[j] = 0}) <= 1

\* The queue as JobLife sees it: places without their order, and attempts.
Life == INSTANCE JobLife WITH
  waiting <- Range(pending),
  running <- {current} \ {NoJob},
  dead    <- Range(dlq),
  allowed <- [j \in Jobs |->
                IF job[j] # NoJob /\ job[j].known THEN job[j].maxAttempts ELSE 0],
  started <- attempts

\* Whatever arrives during a tick, fails and waits again, each job is started
\* only while no other runs and as often as it may be, ends once and never comes
\* back (enqueue, tickMemory and executeMemory together).
JobsFollowLife == Life!Spec

=============================================================================
