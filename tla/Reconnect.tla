----------------------------- MODULE Reconnect -----------------------------
(***************************************************************************)
(* ReconnectManager (internal/agent/client/reconnect.go) and the gRPC      *)
(* connection it replaces (Connect and Close of grpc_client.go).  One      *)
(* monitor goroutine (Start) sends a heartbeat per tick while connected;   *)
(* when one fails it clears `connected` and starts a worker goroutine      *)
(* (Reconnect), which retries until it can mark the agent connected again. *)
(* The two atomics are read and written in steps of their own, as in the   *)
(* code; time is abstracted: a timer may fire whenever it is awaited.      *)
(*                                                                         *)
(* Bounds: Worker (Reconnect goroutines alive at once; see                 *)
(* AtMostTwoWorkers) and AttemptCap (attempts are counted up to it; only   *)
(* the comparison with MaxRetries needs the count).                        *)
(***************************************************************************)
EXTENDS Integers, FiniteSets

CONSTANTS
  Worker,         \* identities of Reconnect goroutines
  MaxRetries,     \* maxRetries; 0, as main passes it, means unlimited
  HasCredentials, \* Registration.AgentID and Token are set
  AttemptCap      \* bound on the attempt counter

ASSUME MaxRetriesAssumption == MaxRetries \in Nat
ASSUME HasCredentialsAssumption == HasCredentials \in BOOLEAN
ASSUME AttemptCapAssumption == AttemptCap \in Nat /\ AttemptCap > MaxRetries

VARIABLES
  connected,     \* rm.connected
  reconnecting,  \* rm.reconnecting
  monitor,       \* where Start is
  worker,        \* per Reconnect goroutine: where it is, its attempt
  conn,          \* client.conn: "open" or "closed"
  leaked,        \* connections replaced without having been closed
  stopped,       \* the context is cancelled or stopChan is closed
  up,            \* the server answers heartbeats
  tls            \* the TLS files can be loaded

vars == <<connected, reconnecting, monitor, worker, conn, leaked, stopped, up, tls>>
flags == <<connected, reconnecting>>
environment == <<stopped, up, tls>>

NoWorker == [pc |-> "none", attempt |-> 0]

(***************************************************************************)
(* The monitor: Start.                                                     *)
(***************************************************************************)
\* MUTANT of Tick: the heartbeat is sent whether or not connected.
TickAlways ==
  /\ monitor = "waiting"
  /\ monitor' = "beating"
  /\ UNCHANGED <<flags, worker, conn, leaked, environment>>

\* The ticker fires and connected.Load() is true; a tick while disconnected
\* does nothing.
Tick ==
  /\ monitor = "waiting"
  /\ connected
  /\ monitor' = "beating"
  /\ UNCHANGED <<flags, worker, conn, leaked, environment>>

HeartbeatAnswered ==
  /\ monitor = "beating"
  /\ up
  /\ monitor' = "waiting"
  /\ UNCHANGED <<flags, worker, conn, leaked, environment>>

HeartbeatFails ==
  /\ monitor = "beating"
  /\ ~up
  /\ monitor' = "failed"
  /\ UNCHANGED <<flags, worker, conn, leaked, environment>>

\* MUTANT of MarkDisconnected: connected stays set until the worker is done.
MarkDisconnectedLate ==
  /\ monitor = "failed"
  /\ monitor' = "spawning"
  /\ UNCHANGED <<flags, worker, conn, leaked, environment>>

\* rm.connected.Store(false)
MarkDisconnected ==
  /\ monitor = "failed"
  /\ connected' = FALSE
  /\ monitor' = "spawning"
  /\ UNCHANGED <<reconnecting, worker, conn, leaked, environment>>

\* go rm.Reconnect(ctx)
Spawn ==
  /\ monitor = "spawning"
  /\ \E w \in Worker :
       /\ worker[w].pc = "none"
       /\ worker' = [worker EXCEPT ![w].pc = "spawned"]
  /\ monitor' = "waiting"
  /\ UNCHANGED <<flags, conn, leaked, environment>>

MonitorStops ==
  /\ monitor = "waiting"
  /\ stopped
  /\ monitor' = "ended"
  /\ UNCHANGED <<flags, worker, conn, leaked, environment>>

(***************************************************************************)
(* A worker: Reconnect.                                                    *)
(***************************************************************************)
\* The Swap finds another worker at it: return.
FindsOther(w) ==
  /\ worker[w].pc = "spawned"
  /\ reconnecting
  /\ worker' = [worker EXCEPT ![w] = NoWorker]
  /\ UNCHANGED <<flags, monitor, conn, leaked, environment>>

\* MUTANT of Enter: the flag is set without looking at its old value.
EnterUnchecked(w) ==
  /\ worker[w].pc = "spawned"
  /\ reconnecting' = TRUE
  /\ worker' = [worker EXCEPT ![w] = [pc |-> "delaying", attempt |-> 1]]
  /\ UNCHANGED <<connected, monitor, conn, leaked, environment>>

\* MUTANT of Enter: attempt++ stands at the end of the loop, so that the first
\* attempt is not counted.
EnterUncounted(w) ==
  /\ worker[w].pc = "spawned"
  /\ ~reconnecting
  /\ reconnecting' = TRUE
  /\ worker' = [worker EXCEPT ![w] = [pc |-> "delaying", attempt |-> 0]]
  /\ UNCHANGED <<connected, monitor, conn, leaked, environment>>

\* The Swap sets the flag; the first attempt waits for its delay.
Enter(w) ==
  /\ worker[w].pc = "spawned"
  /\ ~reconnecting
  /\ reconnecting' = TRUE
  /\ worker' = [worker EXCEPT ![w] = [pc |-> "delaying", attempt |-> 1]]
  /\ UNCHANGED <<connected, monitor, conn, leaked, environment>>

\* The select: the delay is over...
DelayOver(w) ==
  /\ worker[w].pc = "delaying"
  /\ worker' = [worker EXCEPT ![w].pc = "closing"]
  /\ UNCHANGED <<flags, monitor, conn, leaked, environment>>

\* MUTANT of Cancelled: the select has no case for stopping.
CancelledIgnored(w) ==
  /\ worker[w].pc = "delaying"
  /\ stopped
  /\ worker' = [worker EXCEPT ![w].pc = "closing"]
  /\ UNCHANGED <<flags, monitor, conn, leaked, environment>>

\* ... or the agent is stopping.
Cancelled(w) ==
  /\ worker[w].pc = "delaying"
  /\ stopped
  /\ worker' = [worker EXCEPT ![w].pc = "leaving"]
  /\ UNCHANGED <<flags, monitor, conn, leaked, environment>>

\* MUTANT of CloseOld: the old connection is not closed.
CloseOldForgotten(w) ==
  /\ worker[w].pc = "closing"
  /\ worker' = [worker EXCEPT ![w].pc = "connecting"]
  /\ UNCHANGED <<flags, monitor, conn, leaked, environment>>

\* rm.client.Close()
CloseOld(w) ==
  /\ worker[w].pc = "closing"
  /\ conn' = "closed"
  /\ worker' = [worker EXCEPT ![w].pc = "connecting"]
  /\ UNCHANGED <<flags, monitor, leaked, environment>>

\* rm.client.Connect(): the dial does not block, so only loading the TLS files
\* can fail.  A connection still open when client.conn is assigned is lost.
Connect(w) ==
  /\ worker[w].pc = "connecting"
  /\ tls
  /\ conn' = "open"
  /\ leaked' = IF conn = "open" THEN leaked + 1 ELSE leaked
  /\ worker' = [worker EXCEPT ![w].pc =
                  IF HasCredentials THEN "authenticating" ELSE "confirmed"]
  /\ UNCHANGED <<flags, monitor, environment>>

\* MUTANT of NextAttempt: a failed attempt returns.
NoNextAttempt(w) ==
  worker' = [worker EXCEPT ![w].pc = "leaving"]

\* `continue`: the next attempt waits, unless it exceeds MaxRetries.
NextAttempt(w) ==
  LET next == IF worker[w].attempt < AttemptCap THEN worker[w].attempt + 1 ELSE AttemptCap
  IN worker' = [worker EXCEPT ![w] =
       [pc |-> IF MaxRetries > 0 /\ next > MaxRetries THEN "leaving" ELSE "delaying",
        attempt |-> next]]

ConnectFails(w) ==
  /\ worker[w].pc = "connecting"
  /\ ~tls
  /\ NextAttempt(w)
  /\ UNCHANGED <<flags, monitor, conn, leaked, environment>>

\* The heartbeat that tests the credentials.
Authenticated(w) ==
  /\ worker[w].pc = "authenticating"
  /\ up
  /\ worker' = [worker EXCEPT ![w].pc = "confirmed"]
  /\ UNCHANGED <<flags, monitor, conn, leaked, environment>>

AuthenticationFails(w) ==
  /\ worker[w].pc = "authenticating"
  /\ ~up
  /\ NextAttempt(w)
  /\ UNCHANGED <<flags, monitor, conn, leaked, environment>>

\* rm.connected.Store(true); go rm.onConnected(), whose reports are Collect
\* steps of MetricsDelivery; return.
MarkConnected(w) ==
  /\ worker[w].pc = "confirmed"
  /\ connected' = TRUE
  /\ worker' = [worker EXCEPT ![w].pc = "leaving"]
  /\ UNCHANGED <<reconnecting, monitor, conn, leaked, environment>>

\* The deferred rm.reconnecting.Store(false).
Leave(w) ==
  /\ worker[w].pc = "leaving"
  /\ reconnecting' = FALSE
  /\ worker' = [worker EXCEPT ![w] = NoWorker]
  /\ UNCHANGED <<connected, monitor, conn, leaked, environment>>

(***************************************************************************)
(* The environment, and Stop together with the cancelled context.          *)
(***************************************************************************)
Stop ==
  /\ ~stopped
  /\ stopped' = TRUE
  /\ UNCHANGED <<flags, monitor, worker, conn, leaked, up, tls>>

ServerChanges ==
  /\ up' = ~up
  /\ UNCHANGED <<flags, monitor, worker, conn, leaked, stopped, tls>>

TLSFilesChange ==
  /\ tls' = ~tls
  /\ UNCHANGED <<flags, monitor, worker, conn, leaked, stopped, up>>

Init ==
  /\ connected = TRUE
  /\ reconnecting = FALSE
  /\ monitor = "waiting"
  /\ worker = [w \in Worker |-> NoWorker]
  /\ conn = "open"
  /\ leaked = 0
  /\ stopped = FALSE
  /\ up \in BOOLEAN
  /\ tls = TRUE

MonitorStep ==
  \/ Tick
  \/ HeartbeatAnswered
  \/ HeartbeatFails
  \/ MarkDisconnected
  \/ Spawn
  \/ MonitorStops

WorkerStep(w) ==
  \/ FindsOther(w)
  \/ Enter(w)
  \/ DelayOver(w)
  \/ Cancelled(w)
  \/ CloseOld(w)
  \/ Connect(w)
  \/ ConnectFails(w)
  \/ Authenticated(w)
  \/ AuthenticationFails(w)
  \/ MarkConnected(w)
  \/ Leave(w)

Next ==
  \/ MonitorStep
  \/ \E w \in Worker : WorkerStep(w)
  \/ Stop
  \/ ServerChanges
  \/ TLSFilesChange

Spec == Init /\ [][Next]_vars

(***************************************************************************)
(* A goroutine that can run runs; a select in which the stop case is ready *)
(* again and again takes it at last, for Go picks a ready case at random.  *)
(***************************************************************************)
Fairness ==
  /\ WF_vars(MonitorStep)
  /\ SF_vars(MonitorStops)
  /\ \A w \in Worker : WF_vars(WorkerStep(w)) /\ SF_vars(Cancelled(w))

FairSpec == Spec /\ Fairness

(***************************************************************************)
(* Properties.                                                             *)
(***************************************************************************)
LoopPc == {"delaying", "closing", "connecting", "authenticating", "confirmed"}

\* Every variable has its type; a worker inside Reconnect is at its first attempt or
\* a later one, which is what maxRetries and the delay are reckoned from, and within
\* maxRetries while it goes on (reconnect.go:84-95).
TypeOK ==
  /\ connected \in BOOLEAN
  /\ reconnecting \in BOOLEAN
  /\ monitor \in {"waiting", "beating", "failed", "spawning", "ended"}
  /\ worker \in [Worker -> [pc : {"none", "spawned", "leaving"} \cup LoopPc,
                            attempt : 0..AttemptCap]]
  /\ \A w \in Worker :
       /\ worker[w].attempt = 0 <=> worker[w].pc \in {"none", "spawned"}
       /\ MaxRetries > 0 /\ worker[w].pc \in LoopPc => worker[w].attempt <= MaxRetries
  /\ conn \in {"open", "closed"}
  /\ leaked \in Nat
  /\ stopped \in BOOLEAN
  /\ up \in BOOLEAN
  /\ tls \in BOOLEAN

\* Between its Swap and its deferred Store(false) a worker is alone, and the flag
\* says exactly that one is there: no worker's exit clears the flag of another
\* (reconnect.go:77-81).
InSection(w) == worker[w].pc \in LoopPc \cup {"leaving"}
OneWorkerInSection ==
  /\ \A v, w \in Worker : InSection(v) /\ InSection(w) => v = w
  /\ reconnecting <=> \E w \in Worker : InSection(w)

\* The flag main gates its heartbeats and reports on (main.go:207,218) is never
\* true over a connection a worker has closed.
ConnectedMeansOpen == connected => conn = "open"

\* Reconnecting any number of times leaves no connection open behind the current one.
NoLeakedConnection == leaked = 0

\* However often heartbeats fail, at most one worker is trying and one more is
\* on its way out: goroutines do not pile up.
AtMostTwoWorkers ==
  /\ Cardinality({w \in Worker : worker[w].pc # "none"}) <= 2
  /\ Cardinality({w \in Worker : worker[w].pc \in LoopPc \cup {"spawned"}}) <= 1

\* With unlimited retries, a worker that is in the loop gets the agent connected
\* once the server stays reachable (or the agent stops).
WorkerSucceeds ==
  <>[](up /\ tls) =>
    ((\E w \in Worker : worker[w].pc \in LoopPc) ~> (connected \/ stopped))

\* After Stop the monitor and every worker end, wherever they were.
StopsCleanly ==
  stopped ~> (monitor = "ended" /\ \A w \in Worker : worker[w].pc = "none")

\* README "automatic reconnection" (main passes maxRetries 0, reconnect.go:17
\* "0 = unlimited"): a lost connection comes back once the server stays reachable.
ConnectionComesBack ==
  <>[](up /\ tls) => (~connected ~> (connected \/ stopped))
=============================================================================
