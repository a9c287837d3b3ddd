----------------------------- MODULE RequestGate -----------------------------
(***************************************************************************)
(* How requests reach the database (app/database.py get_db).  With SQLite  *)
(* there is one connection for all threads, and a semaphore is held from   *)
(* the set-up of a request's session to its tear-down.                     *)
(*                                                                         *)
(* get_db is a generator, so its set-up, the blocking acquire included,    *)
(* runs in a worker thread of the framework; so do the require_admin       *)
(* dependency and every handler that is not async.  The number of worker   *)
(* threads is limited; the tear-down runs outside that limit.  The worker  *)
(* threads are not code of the repository: they are modelled from how      *)
(* get_db and the routes use them.                                         *)
(***************************************************************************)
EXTENDS Integers, FiniteSets

CONSTANTS
  Requests,   \* requests that arrive, each of them once
  Async,      \* those whose handler is async: it runs on the event loop
  Threads     \* worker threads of the framework

ASSUME GateAssumption == Async \subseteq Requests /\ IsFiniteSet(Requests) /\ Threads \in Nat

VARIABLES
  phase,   \* where each request is
  sem      \* value of the semaphore _sem

gateVars == <<phase, sem>>

\* A request in one of these phases occupies a worker thread.
FaultyInThread(r) ==
  phase[r] \in {"acquiring", "session", "authorising", "authorised", "handling", "leaving"}

InThread(r) ==
  \/ phase[r] \in {"acquiring", "authorising"}
  \/ phase[r] = "handling" /\ r \notin Async

Busy       == {r \in Requests : InThread(r)}
FreeThread == Cardinality(Busy) < Threads

\* The request owns the session, and with it the semaphore.
HasSession(r) == phase[r] \in {"session", "authorising", "authorised", "handling", "leaving"}

GateInit == phase = [r \in Requests |-> "away"] /\ sem = 1

Move(r, from, to) == phase[r] = from /\ phase' = [phase EXCEPT ![r] = to]
------------------------------------------------------------------------------
\* The request is routed and its dependencies are wanted.
Arrive(r) == Move(r, "away", "arrived") /\ UNCHANGED sem

\* get_db starts in a worker thread, and blocks it in _sem.acquire().
EnterDependency(r) == FreeThread /\ Move(r, "arrived", "acquiring") /\ UNCHANGED sem

FaultyAcquire(r) == Move(r, "acquiring", "session") /\ sem' = IF sem > 0 THEN sem - 1 ELSE sem

\* The semaphore is acquired, the session yielded and the thread given back.
Acquire(r) == sem > 0 /\ Move(r, "acquiring", "session") /\ sem' = sem - 1

\* require_admin, which needs a thread of its own.
Authorise(r) == FreeThread /\ Move(r, "session", "authorising") /\ UNCHANGED sem

Authorised(r) == Move(r, "authorising", "authorised") /\ UNCHANGED sem

\* 401 or 403: the handler is not called.
Rejected(r) == Move(r, "authorising", "leaving") /\ UNCHANGED sem

Handle(r) ==
  /\ r \in Async \/ FreeThread
  /\ Move(r, "authorised", "handling")
  /\ UNCHANGED sem

\* The handler returns or raises, with its background tasks.
Handled(r) == Move(r, "handling", "leaving") /\ UNCHANGED sem

FaultyRelease(r) == Move(r, "leaving", "answered") /\ UNCHANGED sem

\* The finally of get_db: close the session, release the semaphore.
Release(r) == Move(r, "leaving", "answered") /\ sem' = sem + 1

Step(r) ==
  \/ EnterDependency(r) \/ Acquire(r) \/ Authorise(r) \/ Authorised(r) \/ Rejected(r)
  \/ Handle(r) \/ Handled(r) \/ Release(r)

GateNext == \E r \in Requests : Arrive(r) \/ Step(r)

\* The event loop and the operating system run whatever can run.
GateSpec == GateInit /\ [][GateNext]_gateVars /\ \A r \in Requests : WF_gateVars(Step(r))
------------------------------------------------------------------------------
Phases == {"away", "arrived", "acquiring", "session", "authorising", "authorised", "handling",
           "leaving", "answered"}

\* Every request is in a phase and the semaphore is binary.
GateTypeOK == phase \in [Requests -> Phases] /\ sem \in {0, 1}

\* One request at a time has the session, from its set-up to its tear-down, and
\* the semaphore is taken exactly when one has it: requests do not interleave.
OneSession ==
  /\ \A r, s \in Requests : HasSession(r) /\ HasSession(s) => r = s
  /\ sem = 0 <=> \E r \in Requests : HasSession(r)

\* The request that has the session never waits for a worker thread which only
\* requests that wait for the session could give back.
NoGridlock ==
  \A r \in Requests : phase[r] \in {"session", "authorised"} => FreeThread

\* Every request that arrives is answered.
RequestsAnswered == \A r \in Requests : phase[r] = "arrived" ~> phase[r] = "answered"
=============================================================================
