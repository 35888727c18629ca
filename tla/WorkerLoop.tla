------------------------------ MODULE WorkerLoop ------------------------------
(***************************************************************************)
(* The processes, and the bounds on what happens to them.                  *)
(*                                                                         *)
(* The worker (worker.py) does one job after the other, in an endless loop *)
(* in which an exception ends the job, or the group of jobs, that raised   *)
(* it.  Here an idle worker may turn to any job that has something to do;  *)
(* a job that has nothing to do is no step.                                *)
(***************************************************************************)
EXTENDS Integers, FiniteSets

CONSTANTS
    Subs,        \* subscriptions
    Users,       \* members
    Requests,    \* requests of the API and the bot, with their background tasks
    Worker,      \* the worker process (there is one: README, production notes)
    MaxEvents,   \* bound on what customers and administrators do
    MaxFailures, \* bound on the calls that fail
    MaxCrashes   \* bound on the exceptions and lost processes

ASSUME WorkerLoopAssumption ==
    /\ IsFiniteSet(Users) /\ IsFiniteSet(Requests) /\ Worker \notin Requests
    /\ Subs \cap Nat = {} /\ Subs \cap Users = {}
    /\ MaxEvents \in Nat /\ MaxFailures \in Nat /\ MaxCrashes \in Nat

VARIABLES
    events,   \* events so far
    failures, \* failed calls so far
    crashes   \* exceptions and losses so far

Processes == Requests \cup {Worker}

bounds == <<events, failures, crashes>>

Event == events < MaxEvents /\ events' = events + 1 /\ UNCHANGED <<failures, crashes>>
Fails == failures < MaxFailures /\ failures' = failures + 1 /\ UNCHANGED <<events, crashes>>
Crashes == crashes < MaxCrashes /\ crashes' = crashes + 1 /\ UNCHANGED <<events, failures>>
Smooth == UNCHANGED bounds

WorkerLoopInit == events = 0 /\ failures = 0 /\ crashes = 0

WorkerLoopTypes ==
    events \in 0..MaxEvents /\ failures \in 0..MaxFailures /\ crashes \in 0..MaxCrashes

=============================================================================
