------------------------------- MODULE JobLife -------------------------------
(***************************************************************************)
(* What the job queue promises to those who enqueue jobs: each job is      *)
(* ignored or accepted once; an accepted one waits, its handler is started *)
(* while no other runs and as often as its attempts allow at most, and it  *)
(* ends once, completed or dead.  An ended job never comes back.           *)
(*                                                                         *)
(* JobQueueService keeps this with an array that ticks splice and callers  *)
(* push to (module JobQueue).                                              *)
(***************************************************************************)
EXTENDS Naturals

CONSTANTS Jobs, AttemptLimits

VARIABLES
  ignored, waiting, running, completed, dead,   \* sets of jobs
  allowed,   \* how often a job's handler may be started: 0 without a handler
  started    \* how often it was

vars == <<ignored, waiting, running, completed, dead, allowed, started>>

Init == /\ ignored = {} /\ waiting = {} /\ running = {}
        /\ completed = {} /\ dead = {}
        /\ allowed = [j \in Jobs |-> 0]
        /\ started = [j \in Jobs |-> 0]

New(j) == j \notin ignored \cup waiting \cup running \cup completed \cup dead

Accept(j) ==
  /\ New(j)
  /\ waiting' = waiting \cup {j}
  /\ \E max \in AttemptLimits \cup {0} : allowed' = [allowed EXCEPT ![j] = max]
  /\ UNCHANGED <<ignored, running, completed, dead, started>>

Ignore(j) ==
  /\ New(j)
  /\ ignored' = ignored \cup {j}
  /\ UNCHANGED <<waiting, running, completed, dead, allowed, started>>

Start(j) ==
  /\ j \in waiting
  /\ running = {}
  /\ started[j] < allowed[j]
  /\ waiting' = waiting \ {j}
  /\ running' = {j}
  /\ started' = [started EXCEPT ![j] = @ + 1]
  /\ UNCHANGED <<ignored, completed, dead, allowed>>

Succeed(j) ==
  /\ j \in running
  /\ running' = {}
  /\ completed' = completed \cup {j}
  /\ UNCHANGED <<ignored, waiting, dead, allowed, started>>

Return(j) ==
  /\ j \in running
  /\ started[j] < allowed[j]
  /\ running' = {}
  /\ waiting' = waiting \cup {j}
  /\ UNCHANGED <<ignored, completed, dead, allowed, started>>

\* After its last attempt, or at its turn when nobody handles it.
GiveUp(j) ==
  /\ j \in waiting \cup running
  /\ started[j] = allowed[j]
  /\ waiting' = waiting \ {j}
  /\ running' = running \ {j}
  /\ dead' = dead \cup {j}
  /\ UNCHANGED <<ignored, completed, allowed, started>>

Next == \E j \in Jobs : Accept(j) \/ Ignore(j) \/ Start(j) \/ Succeed(j) \/ Return(j) \/ GiveUp(j)

Spec == Init /\ [][Next]_vars

=============================================================================
