-------------------------- MODULE Reconnect_proofs --------------------------
(***************************************************************************)
(* The safety properties of Reconnect, proved for every set of workers and *)
(* every MaxRetries.  None of them but TypeOK is inductive by itself: that *)
(* a worker is alone rests on who may clear `connected` (the monitor) and  *)
(* who may set it again (the worker the monitor started), which IInv says. *)
(***************************************************************************)
EXTENDS Reconnect, FiniteSetTheorems, TLAPS

\* On its way to a connection, from `go rm.Reconnect` to Store(true).
Trying(w) == worker[w].pc \in LoopPc \cup {"spawned"}

OneTrier == \A v, w \in Worker : Trying(v) /\ Trying(w) => v = w

\* While a worker tries the agent is disconnected, and the monitor, which beats
\* only while connected, does not start another.
TrierMeansDown == \A w \in Worker : Trying(w) => ~connected

MonitorInv ==
  /\ monitor \in {"beating", "failed"} => connected
  /\ monitor = "spawning" => ~connected /\ \A w \in Worker : ~Trying(w)

\* Where the connection stands at each place of the loop.
ConnInv ==
  \A w \in Worker :
    /\ worker[w].pc = "connecting" => conn = "closed"
    /\ worker[w].pc \in {"authenticating", "confirmed"} => conn = "open"

IInv ==
  /\ TypeOK
  /\ OneWorkerInSection
  /\ OneTrier
  /\ TrierMeansDown
  /\ MonitorInv
  /\ ConnInv
  /\ ConnectedMeansOpen
  /\ NoLeakedConnection

-----------------------------------------------------------------------------
LEMMA NoWorkerTyped ==
  NoWorker \in [pc : {"none", "spawned", "leaving"} \cup LoopPc, attempt : 0..AttemptCap]
BY AttemptCapAssumption DEF NoWorker

LEMMA InitTyped == Init => TypeOK
<1> SUFFICES ASSUME Init PROVE TypeOK
  OBVIOUS
<1>1. worker \in [Worker -> [pc : {"none", "spawned", "leaving"} \cup LoopPc,
                            attempt : 0..AttemptCap]]
  BY NoWorkerTyped DEF Init
<1>2. leaked \in Nat
  BY DEF Init
<1>3. connected \in BOOLEAN /\ reconnecting \in BOOLEAN /\ stopped \in BOOLEAN
  BY DEF Init
<1> QED
  BY <1>1, <1>2, <1>3 DEF Init, TypeOK, NoWorker, LoopPc

LEMMA NextTyped == TypeOK /\ [Next]_vars => TypeOK'
<1> SUFFICES ASSUME TypeOK, [Next]_vars PROVE TypeOK'
  OBVIOUS
<1> USE AttemptCapAssumption, MaxRetriesAssumption DEF TypeOK, LoopPc
<1>1. ASSUME MonitorStep PROVE TypeOK'
  <2>1. CASE Tick \/ HeartbeatAnswered \/ HeartbeatFails
    BY <2>1 DEF Tick, HeartbeatAnswered, HeartbeatFails, flags, environment
  <2>2. CASE MarkDisconnected
    BY <2>2 DEF MarkDisconnected, environment
  <2>3. CASE Spawn
    BY <2>3 DEF Spawn, flags, environment
  <2>4. CASE MonitorStops
    BY <2>4 DEF MonitorStops, flags, environment
  <2> QED
    BY <1>1, <2>1, <2>2, <2>3, <2>4 DEF MonitorStep
<1>2. ASSUME NEW w \in Worker, WorkerStep(w) PROVE TypeOK'
  <2>1. CASE FindsOther(w) \/ Enter(w) \/ Leave(w)
    <3>1. 1 \in 0..AttemptCap
      OBVIOUS
    <3>2. CASE Enter(w)
      BY <3>1, <3>2 DEF Enter, environment
    <3>3. CASE FindsOther(w)
      BY <3>3, NoWorkerTyped DEF FindsOther, NoWorker, flags, environment
    <3>4. CASE Leave(w)
      BY <3>4, NoWorkerTyped DEF Leave, NoWorker, environment
    <3> QED
      BY <2>1, <3>2, <3>3, <3>4
  <2>2. CASE DelayOver(w) \/ Cancelled(w)
    BY <2>2 DEF DelayOver, Cancelled, flags, environment
  <2>3. CASE CloseOld(w) \/ Authenticated(w) \/ MarkConnected(w)
    BY <2>3, ZenonT(60) DEF CloseOld, Authenticated, MarkConnected, flags, environment
  <2>4. CASE Connect(w)
    BY <2>4 DEF Connect, flags, environment
  <2>5. CASE ConnectFails(w) \/ AuthenticationFails(w)
    <3>1. worker[w].attempt \in 0..AttemptCap
      OBVIOUS
    <3>2. NextAttempt(w) /\ UNCHANGED <<flags, monitor, conn, leaked, environment>>
      BY <2>5 DEF ConnectFails, AuthenticationFails
    <3> QED
      BY <3>1, <3>2 DEF NextAttempt, flags, environment
  <2> QED
    BY <1>2, <2>1, <2>2, <2>3, <2>4, <2>5 DEF WorkerStep
<1>3. CASE Stop \/ ServerChanges \/ TLSFilesChange
  BY <1>3 DEF Stop, ServerChanges, TLSFilesChange, flags
<1>4. CASE UNCHANGED vars
  BY <1>4 DEF vars
<1> QED
  BY <1>1, <1>2, <1>3, <1>4 DEF Next

\* Every reachable state is well typed: a goroutine is always at one of its
\* program points, and a worker counts its attempts from 1 and goes on only within
\* maxRetries.
THEOREM TypeCorrect == Spec => []TypeOK
BY InitTyped, NextTyped, PTL DEF Spec

-----------------------------------------------------------------------------
LEMMA InitInv == Init => IInv
BY InitTyped DEF Init, IInv, OneWorkerInSection, InSection, OneTrier, Trying, TrierMeansDown,
  MonitorInv, ConnInv, ConnectedMeansOpen, NoLeakedConnection, NoWorker, LoopPc

LEMMA NextInv == IInv /\ [Next]_vars => IInv'
<1> SUFFICES ASSUME IInv, [Next]_vars PROVE IInv'
  OBVIOUS
<1>0. TypeOK /\ TypeOK'
  BY NextTyped DEF IInv
<1> USE <1>0 DEF TypeOK, LoopPc
<1>1. ASSUME MonitorStep PROVE IInv'
  <2>1. CASE Tick \/ HeartbeatAnswered \/ HeartbeatFails \/ MonitorStops
    BY <2>1 DEF IInv, OneWorkerInSection, InSection, OneTrier, Trying, TrierMeansDown, MonitorInv,
      ConnInv, ConnectedMeansOpen, NoLeakedConnection,
      Tick, HeartbeatAnswered, HeartbeatFails, MonitorStops, flags, environment
  <2>2. CASE MarkDisconnected
    BY <2>2 DEF IInv, OneWorkerInSection, InSection, OneTrier, Trying, TrierMeansDown, MonitorInv,
      ConnInv, ConnectedMeansOpen, NoLeakedConnection, MarkDisconnected, environment
  <2>3. CASE Spawn
    BY <2>3 DEF IInv, OneWorkerInSection, InSection, OneTrier, Trying, TrierMeansDown, MonitorInv,
      ConnInv, ConnectedMeansOpen, NoLeakedConnection, Spawn, flags, environment
  <2> QED
    BY <1>1, <2>1, <2>2, <2>3 DEF MonitorStep
<1>2. ASSUME NEW w \in Worker, WorkerStep(w) PROVE IInv'
  <2> USE DEF IInv, OneWorkerInSection, InSection, OneTrier, Trying, TrierMeansDown, MonitorInv,
      ConnInv, ConnectedMeansOpen, NoLeakedConnection
  <2>1. CASE FindsOther(w)
    BY <2>1 DEF FindsOther, NoWorker, flags, environment
  <2>2. CASE Enter(w)
    BY <2>2 DEF Enter, environment
  <2>3. CASE DelayOver(w) \/ Cancelled(w)
    BY <2>3 DEF DelayOver, Cancelled, flags, environment
  <2>4. CASE CloseOld(w)
    BY <2>4 DEF CloseOld, flags, environment
  <2>5. CASE Connect(w)
    BY <2>5 DEF Connect, flags, environment
  <2>6. CASE ConnectFails(w) \/ AuthenticationFails(w)
    <3>1. NextAttempt(w) /\ UNCHANGED <<flags, monitor, conn, leaked, environment>>
      BY <2>6 DEF ConnectFails, AuthenticationFails
    <3>2. worker[w].pc \in {"connecting", "authenticating"}
      BY <2>6 DEF ConnectFails, AuthenticationFails
    <3>3. /\ \A v \in Worker \ {w} : worker'[v] = worker[v]
          /\ worker'[w].pc \in {"leaving", "delaying"}
      BY <3>1 DEF NextAttempt
    <3> QED
      BY <3>1, <3>2, <3>3 DEF flags, environment
  <2>7. CASE Authenticated(w)
    BY <2>7 DEF Authenticated, flags, environment
  <2>8. CASE MarkConnected(w)
    BY <2>8 DEF MarkConnected, environment
  <2>9. CASE Leave(w)
    BY <2>9 DEF Leave, NoWorker, environment
  <2> QED
    BY <1>2, <2>1, <2>2, <2>3, <2>4, <2>5, <2>6, <2>7, <2>8, <2>9 DEF WorkerStep
<1>3. CASE Stop \/ ServerChanges \/ TLSFilesChange
  BY <1>3 DEF IInv, OneWorkerInSection, InSection, OneTrier, Trying, TrierMeansDown, MonitorInv,
    ConnInv, ConnectedMeansOpen, NoLeakedConnection, Stop, ServerChanges, TLSFilesChange, flags
<1>4. CASE UNCHANGED vars
  BY <1>4 DEF IInv, OneWorkerInSection, InSection, OneTrier, Trying, TrierMeansDown, MonitorInv,
    ConnInv, ConnectedMeansOpen, NoLeakedConnection, vars
<1> QED
  BY <1>1, <1>2, <1>3, <1>4 DEF Next

LEMMA Invariance == Spec => []IInv
BY InitInv, NextInv, PTL DEF Spec

\* A worker between its Swap and its deferred Store(false) is alone and the flag
\* says that it is there, whatever the number of workers (reconnect.go:77-81).
THEOREM MutualExclusion == Spec => []OneWorkerInSection
<1>1. IInv => OneWorkerInSection
  BY DEF IInv
<1> QED
  BY <1>1, Invariance, PTL

\* `connected` is never true over a closed connection (main.go:207,218).
THEOREM ConnectedIsOpen == Spec => []ConnectedMeansOpen
<1>1. IInv => ConnectedMeansOpen
  BY DEF IInv
<1> QED
  BY <1>1, Invariance, PTL

\* No sequence of failures and reconnections leaves a connection open behind the
\* current one (reconnect.go:113-116).
THEOREM NoLeak == Spec => []NoLeakedConnection
<1>1. IInv => NoLeakedConnection
  BY DEF IInv
<1> QED
  BY <1>1, Invariance, PTL

-----------------------------------------------------------------------------
\* A set without two different elements has at most one.
LEMMA AtMostOne ==
  ASSUME NEW S, \A x, y \in S : x = y
  PROVE  IsFiniteSet(S) /\ Cardinality(S) \in {0, 1}
<1>1. CASE S = {}
  BY <1>1, FS_EmptySet
<1>2. CASE S # {}
  <2>1. PICK x \in S : S = {x}
    BY <1>2
  <2> QED
    BY <2>1, FS_Singleton
<1> QED
  BY <1>1, <1>2

\* At any time one worker at most is trying and one more is leaving, so failing
\* heartbeats do not pile up goroutines, and two identities of Worker suffice.
THEOREM FewWorkers == Spec => []AtMostTwoWorkers
<1>1. ASSUME IInv PROVE AtMostTwoWorkers
  <2> DEFINE Tries == {w \in Worker : worker[w].pc \in LoopPc \cup {"spawned"}}
             Inside == {w \in Worker : InSection(w)}
             Alive == {w \in Worker : worker[w].pc # "none"}
  <2>1. IsFiniteSet(Tries) /\ Cardinality(Tries) \in {0, 1}
    <3>1. \A v, w \in Tries : v = w
      BY <1>1 DEF IInv, OneTrier, Trying
    <3> QED
      BY <3>1, AtMostOne
  <2>2. IsFiniteSet(Inside) /\ Cardinality(Inside) \in {0, 1}
    <3>1. \A v, w \in Inside : v = w
      BY <1>1 DEF IInv, OneWorkerInSection
    <3> QED
      BY <3>1, AtMostOne
  <2>3. Alive = Tries \cup Inside
    BY <1>1 DEF IInv, TypeOK, InSection, LoopPc
  <2>4. IsFiniteSet(Tries \cap Inside) /\ Cardinality(Tries \cap Inside) \in Nat
    BY <2>1, FS_Intersection, FS_CardinalityType
  <2> HIDE DEF Tries, Inside, Alive
  <2>5. Cardinality(Tries \cup Inside) =
          Cardinality(Tries) + Cardinality(Inside) - Cardinality(Tries \cap Inside)
    BY <2>1, <2>2, FS_Union
  <2>6. Cardinality(Alive) <= 2
    BY <2>1, <2>2, <2>3, <2>4, <2>5
  <2> QED
    <3>1. Cardinality(Tries) <= 1
      BY <2>1
    <3> QED
      BY <2>6, <3>1 DEF AtMostTwoWorkers, Tries, Alive
<1> QED
  BY <1>1, Invariance, PTL
=============================================================================
