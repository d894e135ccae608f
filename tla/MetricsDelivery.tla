-------------------------- MODULE MetricsDelivery --------------------------
(***************************************************************************)
(* Reporting of dynamic metrics: GRPCClient.ReportDynamicMetrics and       *)
(* flushCachedMetrics (internal/agent/client/grpc_client.go) over the      *)
(* MetricsCache (metrics_cache.go).  Reporters are the goroutines that     *)
(* collect a sample and report it: the metrics ticker of the main loop,    *)
(* reportAfterConnect, and the goroutine the command listener starts for   *)
(* each new stream.  A report that fails leaves its sample in the cache; a *)
(* report that succeeds while the cache is not empty starts a flusher.     *)
(*                                                                         *)
(* A sample is a name, free again once nobody holds it, so behaviours are  *)
(* infinite while the states stay finite.  Each cache method is one step   *)
(* (it runs under the mutex); between two methods every other goroutine    *)
(* may run.  Bounds: Sample (how many samples exist at once), Reporter and *)
(* Flusher (how many goroutines of each kind run at once).                 *)
(***************************************************************************)
EXTENDS Integers, Sequences, Functions

CONSTANTS
  Sample,     \* samples in the agent at once
  NoSample,   \* what an idle reporter holds
  Reporter,   \* goroutines that collect and report
  Ticker,     \* the one of them that is the main loop, at its metrics ticker
  Flusher,    \* goroutines running flushCachedMetrics
  CacheSize   \* maxSize of the cache (100 in NewGRPCClient)

ASSUME CacheSizeAssumption == CacheSize \in Nat \ {0}
ASSUME NoSampleAssumption == NoSample \notin Sample
ASSUME TickerAssumption == Ticker \in Reporter

VARIABLES
  cache,      \* metrics: the cached samples, in the order they were added
  reporter,   \* per reporter: where it is in ReportDynamicMetrics, its sample
  flusher,    \* per flusher: where it is, samples still to send, samples failed
  up,         \* the server answers before the RPC's timeout
  connected   \* what ReconnectManager.IsConnected returns

vars == <<cache, reporter, flusher, up, connected>>

IdleReporter == [pc |-> "idle", sample |-> NoSample]
IdleFlusher == [pc |-> "idle", todo |-> <<>>, failed |-> <<>>]

(***************************************************************************)
(* Who holds a sample.                                                     *)
(***************************************************************************)
InReport(r) == {reporter[r].sample} \ {NoSample}
InFlush(f) == Range(flusher[f].todo) \cup Range(flusher[f].failed)

Held ==
  Range(cache) \cup (UNION {InReport(r) : r \in Reporter})
               \cup (UNION {InFlush(f) : f \in Flusher})

(***************************************************************************)
(* MetricsCache.Add: append, then keep only the last CacheSize entries.    *)
(***************************************************************************)
\* MUTANT of Trim: one entry too many is kept.
TrimOffByOne(s) ==
  IF Len(s) > CacheSize + 1 THEN SubSeq(s, Len(s) - CacheSize, Len(s)) ELSE s

Trim(s) ==
  IF Len(s) > CacheSize THEN SubSeq(s, Len(s) - CacheSize + 1, Len(s)) ELSE s

Add(s) == cache' = Trim(Append(cache, s))

(***************************************************************************)
(* Reporters.                                                              *)
(***************************************************************************)
\* A reporter collects a sample and starts the RPC of ReportDynamicMetrics.  The
\* main loop skips its tick while IsConnected is false; reportAfterConnect and the
\* goroutine of a new stream do not ask.
Collect(r) ==
  /\ reporter[r].pc = "idle"
  /\ r = Ticker => connected
  /\ \E s \in Sample \ Held :
       reporter' = [reporter EXCEPT ![r] = [pc |-> "sending", sample |-> s]]
  /\ UNCHANGED <<cache, flusher, up, connected>>

\* The RPC succeeds: the sample is the server's.
ReportSucceeds(r) ==
  /\ reporter[r].pc = "sending"
  /\ up
  /\ reporter' = [reporter EXCEPT ![r] = [pc |-> "reported", sample |-> NoSample]]
  /\ UNCHANGED <<cache, flusher, up, connected>>

\* The RPC fails (the server may have stored the sample all the same).
ReportFails(r) ==
  /\ reporter[r].pc = "sending"
  /\ ~up
  /\ reporter' = [reporter EXCEPT ![r].pc = "failed"]
  /\ UNCHANGED <<cache, flusher, up, connected>>

\* metricsCache.Add on the error path; the report returns its error.
CacheSample(r) ==
  /\ reporter[r].pc = "failed"
  /\ Add(reporter[r].sample)
  /\ reporter' = [reporter EXCEPT ![r] = IdleReporter]
  /\ UNCHANGED <<flusher, up, connected>>

\* MUTANT of StartFlush: a success does not start a flusher.
StartFlushForgotten(r) ==
  /\ reporter[r].pc = "reported"
  /\ cache # <<>>
  /\ reporter' = [reporter EXCEPT ![r] = IdleReporter]
  /\ UNCHANGED <<cache, flusher, up, connected>>

\* Size() > 0: `go flushCachedMetrics()`.
StartFlush(r) ==
  /\ reporter[r].pc = "reported"
  /\ cache # <<>>
  /\ reporter' = [reporter EXCEPT ![r] = IdleReporter]
  /\ \E f \in Flusher :
       /\ flusher[f].pc = "idle"
       /\ flusher' = [flusher EXCEPT ![f].pc = "started"]
  /\ UNCHANGED <<cache, up, connected>>

\* Size() = 0: nothing to flush.
NothingToFlush(r) ==
  /\ reporter[r].pc = "reported"
  /\ cache = <<>>
  /\ reporter' = [reporter EXCEPT ![r] = IdleReporter]
  /\ UNCHANGED <<cache, flusher, up, connected>>

(***************************************************************************)
(* flushCachedMetrics.                                                     *)
(***************************************************************************)
\* MUTANT of GetAll: the cache is copied and not cleared.
GetAllUncleared(f) ==
  /\ flusher[f].pc = "started"
  /\ flusher' = [flusher EXCEPT ![f] =
       IF cache = <<>> THEN IdleFlusher
                       ELSE [pc |-> "sending", todo |-> cache, failed |-> <<>>]]
  /\ UNCHANGED <<cache, reporter, up, connected>>

\* GetAll copies and clears the cache; it may have become empty since Size().
GetAll(f) ==
  /\ flusher[f].pc = "started"
  /\ cache' = <<>>
  /\ flusher' = [flusher EXCEPT ![f] =
       IF cache = <<>> THEN IdleFlusher
                       ELSE [pc |-> "sending", todo |-> cache, failed |-> <<>>]]
  /\ UNCHANGED <<reporter, up, connected>>

\* One RPC per sample, in cache order; a failure does not end the loop.
FlushSucceeds(f) ==
  /\ flusher[f].pc = "sending"
  /\ flusher[f].todo # <<>>
  /\ up
  /\ flusher' = [flusher EXCEPT ![f].todo = Tail(@)]
  /\ UNCHANGED <<cache, reporter, up, connected>>

\* MUTANT of FlushFails: a sample that failed is not collected for re-caching.
FlushFailsDropped(f) ==
  /\ flusher[f].pc = "sending"
  /\ flusher[f].todo # <<>>
  /\ ~up
  /\ flusher' = [flusher EXCEPT ![f].todo = Tail(@)]
  /\ UNCHANGED <<cache, reporter, up, connected>>

FlushFails(f) ==
  /\ flusher[f].pc = "sending"
  /\ flusher[f].todo # <<>>
  /\ ~up
  /\ flusher' = [flusher EXCEPT ![f] = [pc |-> "sending", todo |-> Tail(@.todo),
                                         failed |-> Append(@.failed, Head(@.todo))]]
  /\ UNCHANGED <<cache, reporter, up, connected>>

\* After the last RPC the failed samples go back, one Add at a time.
Recache(f) ==
  /\ flusher[f].pc = "sending"
  /\ flusher[f].todo = <<>>
  /\ flusher[f].failed # <<>>
  /\ Add(Head(flusher[f].failed))
  /\ flusher' = [flusher EXCEPT ![f].failed = Tail(@)]
  /\ UNCHANGED <<reporter, up, connected>>

\* MUTANT of FlushDone: the flusher ends after its RPCs without re-caching.
FlushDoneEarly(f) ==
  /\ flusher[f].pc = "sending"
  /\ flusher[f].todo = <<>>
  /\ flusher' = [flusher EXCEPT ![f].pc = "idle"]
  /\ UNCHANGED <<cache, reporter, up, connected>>

FlushDone(f) ==
  /\ flusher[f].pc = "sending"
  /\ flusher[f].todo = <<>>
  /\ flusher[f].failed = <<>>
  /\ flusher' = [flusher EXCEPT ![f] = IdleFlusher]
  /\ UNCHANGED <<cache, reporter, up, connected>>

\* The server or the network goes away, or comes back.
ServerChanges ==
  /\ up' = ~up
  /\ UNCHANGED <<cache, reporter, flusher, connected>>

\* The reconnect manager finds the connection lost, or has made a new one; whether it
\* does is Reconnect's subject, here it may at any time.
ConnectionChanges ==
  /\ connected' = ~connected
  /\ UNCHANGED <<cache, reporter, flusher, up>>

Init ==
  /\ cache = <<>>
  /\ reporter = [r \in Reporter |-> IdleReporter]
  /\ flusher = [f \in Flusher |-> IdleFlusher]
  /\ up = TRUE
  /\ connected = TRUE

ReporterStep(r) ==
  \/ ReportSucceeds(r)
  \/ ReportFails(r)
  \/ CacheSample(r)
  \/ StartFlush(r)
  \/ NothingToFlush(r)

FlusherStep(f) ==
  \/ GetAll(f)
  \/ FlushSucceeds(f)
  \/ FlushFails(f)
  \/ Recache(f)
  \/ FlushDone(f)

Next ==
  \/ \E r \in Reporter : Collect(r) \/ ReporterStep(r)
  \/ \E f \in Flusher : FlusherStep(f)
  \/ ServerChanges
  \/ ConnectionChanges

Spec == Init /\ [][Next]_vars

(***************************************************************************)
(* Every started goroutine runs on (an RPC has a timeout), and the metrics *)
(* ticker keeps firing.  Nothing makes a reconnection or a new stream      *)
(* happen, so the other reporters may never collect, nor the main loop     *)
(* while it is not connected.                                              *)
(***************************************************************************)
Fairness ==
  /\ WF_vars(Collect(Ticker))
  /\ \A r \in Reporter : WF_vars(ReporterStep(r))
  /\ \A f \in Flusher : WF_vars(FlusherStep(f))

FairSpec == Spec /\ Fairness

(***************************************************************************)
(* Properties.                                                             *)
(***************************************************************************)
\* Every variable has its type; a goroutine holds samples only where the code does.
TypeOK ==
  /\ cache \in Seq(Sample)
  /\ reporter \in [Reporter -> [pc : {"idle", "sending", "failed", "reported"},
                                sample : Sample \cup {NoSample}]]
  /\ \A r \in Reporter :
       reporter[r].pc \in {"sending", "failed"} <=> reporter[r].sample # NoSample
  /\ flusher \in [Flusher -> [pc : {"idle", "started", "sending"},
                              todo : Seq(Sample), failed : Seq(Sample)]]
  /\ \A f \in Flusher :
       flusher[f].pc # "sending" => flusher[f].todo = <<>> /\ flusher[f].failed = <<>>
  /\ up \in BOOLEAN
  /\ connected \in BOOLEAN

\* However many reporters and flushers add to it, the cache never holds more
\* than maxSize samples (metrics_cache.go:45).
CacheBounded == Len(cache) <= CacheSize

\* A sample is in one place at a time: never in the cache and in a flusher, in
\* two goroutines, or twice in one sequence, although Size, GetAll and Add of several
\* goroutines interleave.  Otherwise it would be reported again after it was
\* acknowledged (grpc_client.go:196-241).
Disjoint(S, T) == \A x \in S : x \notin T
SingleCustody ==
  /\ IsInjective(cache)
  /\ \A f \in Flusher : /\ IsInjective(flusher[f].todo)
                        /\ IsInjective(flusher[f].failed)
                        /\ Disjoint(Range(flusher[f].todo), Range(flusher[f].failed))
                        /\ Disjoint(Range(cache), InFlush(f))
  /\ \A f, g \in Flusher : f # g => Disjoint(InFlush(f), InFlush(g))
  /\ \A r \in Reporter : /\ Disjoint(InReport(r), Range(cache))
                         /\ \A f \in Flusher : Disjoint(InReport(r), InFlush(f))
  /\ \A q, r \in Reporter : q # r => Disjoint(InReport(q), InReport(r))

\* A sample stays outstanding until it is acknowledged by a reachable server, or
\* given up with more than CacheSize samples outstanding: no interleaving of
\* failing reports, flushers and re-caching loses one on the way.
Store == INSTANCE SampleStore WITH outstanding <- Held
StoreSpec == Store!Spec

\* Once the server stays reachable and the reconnect manager connected, everything
\* cached is sent by what the main loop's ticker starts: the cache becomes and stays
\* empty and no flusher is left with a sample to put back (grpc_client.go:195-200,
\* main.go:217-221).
CacheDrains ==
  <>[](up /\ connected) => <>[](cache = <<>> /\ \A f \in Flusher : flusher[f].failed = <<>>)
=============================================================================
