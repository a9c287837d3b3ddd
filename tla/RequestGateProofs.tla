-------------------------- MODULE RequestGateProofs --------------------------
(***************************************************************************)
(* Theorems about RequestGate for any number of requests and threads.      *)
(***************************************************************************)
EXTENDS RequestGate, FiniteSetTheorems, TLAPS

\* The three things a step does to the session: it takes it, it gives it back,
\* or it moves a request on without touching the semaphore.
Takes(r) == sem > 0 /\ Move(r, "acquiring", "session") /\ sem' = sem - 1
Gives(r) == Move(r, "leaving", "answered") /\ sem' = sem + 1
Waits(r) ==
  /\ \/ Move(r, "away", "arrived")
     \/ Move(r, "arrived", "acquiring")
  /\ sem' = sem
Works(r) ==
  /\ \/ Move(r, "session", "authorising")
     \/ Move(r, "authorising", "authorised")
     \/ Move(r, "authorising", "leaving")
     \/ Move(r, "authorised", "handling")
     \/ Move(r, "handling", "leaving")
  /\ sem' = sem

\* A step takes the session, gives it back, waits for it, or works without.
LEMMA GateSteps ==
  ASSUME GateNext
  PROVE  \E r \in Requests : Takes(r) \/ Gives(r) \/ Waits(r) \/ Works(r)
<1>1. PICK r \in Requests : Arrive(r) \/ Step(r)
  BY DEF GateNext
<1>2. Takes(r) \/ Gives(r) \/ Waits(r) \/ Works(r)
  BY <1>1 DEF Arrive, Step, EnterDependency, Acquire, Authorise, Authorised, Rejected, Handle,
              Handled, Release, Takes, Gives, Waits, Works
<1>. QED
  BY <1>2

\* Only the request that moves enters or leaves the phases that have a session.
LEMMA OneMoves ==
  ASSUME NEW r \in Requests, NEW from, NEW to \in Phases, GateTypeOK, Move(r, from, to)
  PROVE  /\ phase' \in [Requests -> Phases]
         /\ phase[r] = from /\ phase'[r] = to
         /\ \A s \in Requests \ {r} : HasSession(s)' <=> HasSession(s)
<1>1. phase' = [phase EXCEPT ![r] = to] /\ phase \in [Requests -> Phases] /\ phase[r] = from
  BY DEF Move, GateTypeOK
<1>2. phase' \in [Requests -> Phases] /\ phase'[r] = to
  BY <1>1
<1>3. \A s \in Requests \ {r} : phase'[s] = phase[s]
  BY <1>1
<1>. QED
  BY <1>1, <1>2, <1>3 DEF HasSession

\* Every step keeps the session with one request.
LEMMA GateStep == GateTypeOK /\ OneSession /\ [GateNext]_gateVars => (GateTypeOK /\ OneSession)'
<1>. SUFFICES ASSUME GateTypeOK, OneSession, [GateNext]_gateVars
              PROVE  GateTypeOK' /\ OneSession'
  OBVIOUS
<1>1. CASE GateNext
  <2>1. PICK r \in Requests : Takes(r) \/ Gives(r) \/ Waits(r) \/ Works(r)
    BY <1>1, GateSteps
  <2>2. CASE Takes(r)
    <3>1. /\ phase' \in [Requests -> Phases] /\ phase[r] = "acquiring" /\ phase'[r] = "session"
          /\ \A s \in Requests \ {r} : HasSession(s)' <=> HasSession(s)
      BY <2>2, OneMoves DEF Takes, Phases
    <3>2. sem = 1 /\ sem' = 0
      BY <2>2 DEF Takes, GateTypeOK
    <3>3. \A s \in Requests : ~HasSession(s)
      BY <3>2 DEF OneSession
    <3>4. HasSession(r)' /\ \A s \in Requests \ {r} : ~HasSession(s)'
      BY <3>1, <3>3 DEF HasSession
    <3>. QED
      BY <3>1, <3>2, <3>4 DEF GateTypeOK, OneSession
  <2>3. CASE Gives(r)
    <3>1. /\ phase' \in [Requests -> Phases] /\ phase[r] = "leaving" /\ phase'[r] = "answered"
          /\ \A s \in Requests \ {r} : HasSession(s)' <=> HasSession(s)
      BY <2>3, OneMoves DEF Gives, Phases
    <3>2. HasSession(r) /\ ~HasSession(r)'
      BY <3>1 DEF HasSession
    <3>3. sem = 0 /\ sem' = 1
      BY <2>3, <3>2 DEF Gives, OneSession
    <3>4. \A s \in Requests : ~HasSession(s)'
      BY <3>1, <3>2 DEF OneSession
    <3>. QED
      BY <3>1, <3>3, <3>4 DEF GateTypeOK, OneSession
  <2>4. CASE Waits(r)
    <3>1. /\ phase' \in [Requests -> Phases] /\ sem' = sem
          /\ \A s \in Requests \ {r} : HasSession(s)' <=> HasSession(s)
          /\ ~HasSession(r) /\ ~HasSession(r)'
      <4>1. CASE Move(r, "away", "arrived")
        BY <2>4, <4>1, OneMoves DEF Waits, Phases, HasSession
      <4>2. CASE Move(r, "arrived", "acquiring")
        BY <2>4, <4>2, OneMoves DEF Waits, Phases, HasSession
      <4>. QED
        BY <2>4, <4>1, <4>2 DEF Waits
    <3>2. \A s \in Requests : HasSession(s)' <=> HasSession(s)
      BY <3>1
    <3>. QED
      BY <3>1, <3>2 DEF GateTypeOK, OneSession
  <2>5. CASE Works(r)
    <3>1. /\ phase' \in [Requests -> Phases] /\ sem' = sem
          /\ \A s \in Requests \ {r} : HasSession(s)' <=> HasSession(s)
          /\ HasSession(r) /\ HasSession(r)'
      <4>1. ASSUME NEW from, NEW to \in Phases, Move(r, from, to),
                   from \in {"session", "authorising", "authorised", "handling"},
                   to \in {"authorising", "authorised", "handling", "leaving"}
            PROVE  /\ phase' \in [Requests -> Phases]
                   /\ \A s \in Requests \ {r} : HasSession(s)' <=> HasSession(s)
                   /\ HasSession(r) /\ HasSession(r)'
        BY <4>1, OneMoves DEF HasSession
      <4>. QED
        BY <2>5, <4>1 DEF Works, Phases
    <3>2. \A s \in Requests : HasSession(s)' <=> HasSession(s)
      BY <3>1
    <3>. QED
      BY <3>1, <3>2 DEF GateTypeOK, OneSession
  <2>. QED
    BY <2>1, <2>2, <2>3, <2>4, <2>5
<1>2. CASE UNCHANGED gateVars
  BY <1>2 DEF gateVars, GateTypeOK, OneSession, HasSession
<1>. QED
  BY <1>1, <1>2

\* Both hold from the start.
LEMMA GateInvariant == GateSpec => [](GateTypeOK /\ OneSession)
<1>1. GateInit => GateTypeOK /\ OneSession
  BY DEF GateInit, GateTypeOK, OneSession, HasSession, Phases
<1>. QED
  BY <1>1, GateStep, PTL DEF GateSpec

\* A request is in one of its phases, and the semaphore of app/database.py is
\* never released more often than it was taken.
THEOREM GateTypeCorrect == GateSpec => []GateTypeOK
BY GateInvariant, PTL

\* However many requests there are, one at a time has the database session,
\* and the semaphore of app/database.py is taken exactly when one has it.
THEOREM SessionsExclusive == GateSpec => []OneSession
BY GateInvariant, PTL

\* A request in a phase that needs no thread leaves one free when the threads
\* are at least as many as the requests.
LEMMA ThreadLeft ==
  ASSUME Cardinality(Requests) <= Threads
  PROVE  NoGridlock
<1>. SUFFICES ASSUME NEW r \in Requests, phase[r] \in {"session", "authorised"}
              PROVE  FreeThread
  BY DEF NoGridlock
<1>1. Busy \subseteq Requests /\ r \notin Busy
  BY DEF Busy, InThread
<1>2. IsFiniteSet(Requests) /\ Threads \in Nat
  BY GateAssumption
<1>3. Cardinality(Busy) \in Nat /\ Cardinality(Requests) \in Nat
  BY <1>1, <1>2, FS_Subset, FS_CardinalityType
<1>4. Cardinality(Busy) < Cardinality(Requests)
  <2>1. Cardinality(Busy) <= Cardinality(Requests)
    BY <1>1, <1>2, FS_Subset
  <2>2. Cardinality(Busy) # Cardinality(Requests)
    BY <1>1, <1>2, FS_Subset
  <2>. QED
    BY <1>3, <2>1, <2>2
<1>. QED
  BY <1>2, <1>3, <1>4 DEF FreeThread

\* With as many worker threads as concurrent requests, the request that has the
\* session can always go on.  (The run gate_full shows what happens otherwise.)
THEOREM EnoughThreads == Cardinality(Requests) <= Threads => (GateSpec => []NoGridlock)
<1>. SUFFICES ASSUME Cardinality(Requests) <= Threads
              PROVE  GateSpec => []NoGridlock
  OBVIOUS
<1>1. NoGridlock
  BY ThreadLeft
<1>. QED
  BY <1>1, PTL
------------------------------------------------------------------------------
(* What a gridlock is: the only standstill, and one without end. *)

\* The guards of Step: what a request that has arrived needs to go on.
CanGoOn(r) ==
  \/ phase[r] \in {"arrived", "session"} /\ FreeThread
  \/ phase[r] = "acquiring" /\ sem > 0
  \/ phase[r] = "authorised" /\ (r \in Async \/ FreeThread)
  \/ phase[r] \in {"authorising", "handling", "leaving"}

\* The requests that have arrived and have no answer yet.
Open == {r \in Requests : phase[r] \notin {"away", "answered"}}

\* The request with the session waits for a worker thread, and none is free.
Gridlock ==
  /\ ~FreeThread
  /\ \E r \in Requests : phase[r] = "session" \/ (phase[r] = "authorised" /\ r \notin Async)

\* A step takes its request on only where the guard says so.
LEMMA StepNeedsGuard == \A r \in Requests : Step(r) => CanGoOn(r)
BY DEF Step, EnterDependency, Acquire, Authorise, Authorised, Rejected, Handle, Handled, Release,
       Move, CanGoOn

\* What the run gate checks rules a gridlock out.
LEMMA FreeThreadNoGridlock == NoGridlock => ~Gridlock
BY DEF NoGridlock, Gridlock

\* In a gridlock nobody can go on: the session is taken, so those that hold the
\* threads wait for it.
LEMMA GridlockStops ==
  ASSUME GateTypeOK, OneSession, Gridlock, NEW r \in Requests
  PROVE  ~CanGoOn(r)
<1>1. PICK holder \in Requests :
        phase[holder] = "session" \/ (phase[holder] = "authorised" /\ holder \notin Async)
  BY DEF Gridlock
<1>2. HasSession(holder) /\ sem = 0
  BY <1>1 DEF HasSession, OneSession
<1>3. HasSession(r) => r = holder
  BY <1>2 DEF OneSession
<1>4. ~FreeThread
  BY DEF Gridlock
<1>. QED  BY <1>1, <1>2, <1>3, <1>4 DEF CanGoOn, HasSession

\* Outside a gridlock some open request can go on: the one with the session if
\* there is one, else one that waits for it, else one that wants a thread.
LEMMA SomeoneGoesOn ==
  ASSUME GateTypeOK, OneSession, ~Gridlock, Threads > 0, Open # {}
  PROVE  \E r \in Requests : CanGoOn(r)
<1>1. CASE \E r \in Requests : HasSession(r)
  BY <1>1 DEF HasSession, Gridlock, CanGoOn
<1>2. CASE \E r \in Requests : phase[r] = "acquiring" /\ ~\E s \in Requests : HasSession(s)
  BY <1>2 DEF OneSession, GateTypeOK, CanGoOn
<1>3. ASSUME \A r \in Requests : ~HasSession(r) /\ phase[r] # "acquiring"
      PROVE  \E r \in Requests : CanGoOn(r)
  <2>1. Busy = {}
    BY <1>3 DEF Busy, InThread, HasSession
  <2>2. FreeThread
    BY <2>1, FS_EmptySet, GateAssumption DEF FreeThread
  <2>3. PICK r \in Requests : phase[r] \notin {"away", "answered"}
    BY DEF Open
  <2>4. phase[r] = "arrived"
    BY <1>3, <2>3 DEF GateTypeOK, Phases, HasSession
  <2>. QED  BY <2>2, <2>4 DEF CanGoOn
<1>. QED  BY <1>1, <1>2, <1>3

\* While requests are open, the gridlock is the one way for all of them to
\* stand still: the semaphore and the threads of app/database.py leave no other.
THEOREM StandstillIsGridlock ==
  ASSUME Threads > 0
  PROVE  GateSpec => [](Open # {} => (Gridlock <=> \A r \in Requests : ~CanGoOn(r)))
<1>1. GateTypeOK /\ OneSession
        => (Open # {} => (Gridlock <=> \A r \in Requests : ~CanGoOn(r)))
  BY GridlockStops, SomeoneGoesOn
<1>. QED  BY <1>1, GateInvariant, PTL

\* With as many worker threads as concurrent requests there is always one that
\* can go on while any is open: RequestsAnswered is then a matter of fairness.
THEOREM EnoughThreadsGoOn ==
  ASSUME Cardinality(Requests) <= Threads
  PROVE  GateSpec => [](Open # {} => \E r \in Requests : CanGoOn(r))
<1>1. ASSUME Open # {}  PROVE Threads > 0
  <2>1. Requests # {} /\ IsFiniteSet(Requests) /\ Threads \in Nat
    BY <1>1, GateAssumption DEF Open
  <2>2. Cardinality(Requests) \in Nat /\ Cardinality(Requests) # 0
    BY <2>1, FS_CardinalityType, FS_EmptySet
  <2>. QED  BY <2>1, <2>2
<1>2. GateTypeOK /\ OneSession => (Open # {} => \E r \in Requests : CanGoOn(r))
  BY <1>1, ThreadLeft, FreeThreadNoGridlock, SomeoneGoesOn
<1>. QED  BY <1>2, GateInvariant, PTL

\* A gridlock never ends: whoever arrives, no request does a step any more, and
\* the session is never given back.
THEOREM GridlockIsForever ==
  GateSpec => [][Gridlock => Gridlock' /\ \A r \in Requests : ~Step(r)]_gateVars
<1>1. ASSUME GateTypeOK, OneSession, Gridlock, [GateNext]_gateVars
      PROVE  Gridlock' /\ \A r \in Requests : ~Step(r)
  <2>1. \A r \in Requests : ~Step(r)
    BY <1>1, GridlockStops, StepNeedsGuard
  <2>2. CASE UNCHANGED gateVars
    <3>1. phase' = phase
      BY <2>2 DEF gateVars
    <3>2. Busy' = Busy
      BY <3>1 DEF Busy, InThread
    <3>. QED  BY <1>1, <2>1, <3>1, <3>2 DEF Gridlock, FreeThread
  <2>3. ASSUME NEW r \in Requests, Arrive(r)  PROVE Gridlock'
    <3>1. /\ phase[r] = "away" /\ phase'[r] = "arrived"
          /\ \A s \in Requests \ {r} : phase'[s] = phase[s]
      BY <1>1, <2>3 DEF Arrive, Move, GateTypeOK
    <3>2. Busy' = Busy
      BY <3>1 DEF Busy, InThread
    <3>. QED  BY <1>1, <3>1, <3>2 DEF Gridlock, FreeThread
  <2>. QED  BY <1>1, <2>1, <2>2, <2>3 DEF GateNext
<1>2. GateTypeOK /\ OneSession /\ [GateNext]_gateVars
        => [Gridlock => Gridlock' /\ \A r \in Requests : ~Step(r)]_gateVars
  BY <1>1
<1>. QED  BY <1>2, GateInvariant, PTL DEF GateSpec
==============================================================================
