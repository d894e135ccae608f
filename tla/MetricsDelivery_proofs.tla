----------------------- MODULE MetricsDelivery_proofs -----------------------
(***************************************************************************)
(* The safety properties of MetricsDelivery, and that it implements        *)
(* SampleStore, proved for every number of samples, reporters and flushers *)
(* and every size of the cache.                                            *)
(***************************************************************************)
EXTENDS MetricsDelivery, SequenceTheorems, FiniteSetTheorems, TLAPS

-----------------------------------------------------------------------------
(***************************************************************************)
(* What the sequence operations do to length, contents and repetitions.    *)
(***************************************************************************)
\* Append adds one element, and no repetition unless it was there already.
LEMMA AppendFacts ==
  ASSUME NEW s \in Seq(Sample), NEW x \in Sample
  PROVE  /\ Append(s, x) \in Seq(Sample)
         /\ Len(Append(s, x)) = Len(s) + 1
         /\ Range(Append(s, x)) = Range(s) \cup {x}
         /\ IsInjective(s) /\ x \notin Range(s) => IsInjective(Append(s, x))
<1> DEFINE t == Append(s, x)
<1>1. /\ t \in Seq(Sample)
      /\ Len(t) = Len(s) + 1
      /\ \A i \in 1..Len(s) : t[i] = s[i]
      /\ t[Len(s) + 1] = x
  BY AppendProperties
<1>2. DOMAIN s = 1..Len(s) /\ DOMAIN t = 1..Len(s) + 1 /\ Len(s) \in Nat
  BY <1>1, LenProperties
<1> HIDE DEF t
<1>3. Range(t) = Range(s) \cup {x}
  <2>1. \A i \in DOMAIN t : t[i] \in Range(s) \cup {x}
    BY <1>1, <1>2 DEF Range
  <2>2. \A y \in Range(s) \cup {x} : \E i \in DOMAIN t : y = t[i]
    BY <1>1, <1>2 DEF Range
  <2> QED
    BY <2>1, <2>2 DEF Range
<1>4. ASSUME IsInjective(s), x \notin Range(s) PROVE IsInjective(t)
  BY <1>1, <1>2, <1>4 DEF IsInjective, Range
<1> QED
  BY <1>1, <1>3, <1>4 DEF t

\* Tail takes the head away.
LEMMA TailFacts ==
  ASSUME NEW s \in Seq(Sample), s # <<>>
  PROVE  /\ Head(s) \in Range(s)
         /\ Tail(s) \in Seq(Sample)
         /\ Range(Tail(s)) \subseteq Range(s)
         /\ IsInjective(s) => IsInjective(Tail(s)) /\ Head(s) \notin Range(Tail(s))
<1> DEFINE t == Tail(s)
<1>1. /\ t \in Seq(Sample)
      /\ Len(t) = Len(s) - 1
      /\ \A i \in 1..Len(t) : t[i] = s[i + 1]
  BY HeadTailProperties
<1>2. DOMAIN s = 1..Len(s) /\ DOMAIN t = 1..Len(s) - 1 /\ Len(s) \in Nat \ {0} /\ Head(s) = s[1]
  BY <1>1, LenProperties, EmptySeq
<1> HIDE DEF t
<1>3. Head(s) \in Range(s)
  BY <1>2 DEF Range
<1>4. Range(t) \subseteq Range(s)
  BY <1>1, <1>2 DEF Range
<1>5. ASSUME IsInjective(s) PROVE IsInjective(t) /\ Head(s) \notin Range(t)
  <2>1. \A i \in DOMAIN t : i + 1 \in DOMAIN s /\ t[i] = s[i + 1] /\ i \in Int /\ i + 1 # 1
    BY <1>1, <1>2
  <2>2. \A i, j \in DOMAIN s : s[i] = s[j] => i = j
    BY <1>5 DEF IsInjective
  <2>3. ASSUME NEW i \in DOMAIN t, NEW j \in DOMAIN t, t[i] = t[j] PROVE i = j
    <3>1. s[i + 1] = s[j + 1] /\ i + 1 \in DOMAIN s /\ j + 1 \in DOMAIN s
      BY <2>1, <2>3
    <3>2. i + 1 = j + 1
      BY <2>2, <3>1
    <3> QED
      BY <2>1, <3>2
  <2>4. ASSUME NEW i \in DOMAIN t PROVE t[i] # Head(s)
    <3>1. i + 1 \in DOMAIN s /\ 1 \in DOMAIN s /\ i + 1 # 1 /\ t[i] = s[i + 1]
      BY <1>2, <2>1
    <3> QED
      BY <1>2, <2>2, <3>1
  <2> QED
    BY <2>3, <2>4 DEF IsInjective, Range
<1> QED
  BY <1>1, <1>3, <1>4, <1>5 DEF t

\* Add keeps the bound, adds at most the new sample and repeats none.
LEMMA AddFacts ==
  ASSUME NEW c \in Seq(Sample), NEW x \in Sample, Len(c) <= CacheSize
  PROVE  /\ Trim(Append(c, x)) \in Seq(Sample)
         /\ Len(Trim(Append(c, x))) <= CacheSize
         /\ Range(Trim(Append(c, x))) \subseteq Range(c) \cup {x}
         /\ IsInjective(c) /\ x \notin Range(c) => IsInjective(Trim(Append(c, x)))
<1> DEFINE a == Append(c, x)
           lo == Len(a) - CacheSize + 1
           t == SubSeq(a, lo, Len(a))
<1>1. /\ a \in Seq(Sample)
      /\ Len(a) = Len(c) + 1
      /\ Range(a) = Range(c) \cup {x}
      /\ IsInjective(c) /\ x \notin Range(c) => IsInjective(a)
  BY AppendFacts
<1>2. DOMAIN a = 1..Len(a) /\ Len(a) \in Nat /\ Len(c) \in Nat /\ CacheSize \in Nat \ {0}
  BY <1>1, LenProperties, CacheSizeAssumption
<1> HIDE DEF a
<1>3. CASE Len(a) <= CacheSize
  BY <1>1, <1>2, <1>3 DEF Trim, a
<1>4. CASE Len(a) > CacheSize
  <2>1. lo \in Int /\ lo = 2 /\ Len(a) \in Int /\ lo <= Len(a)
    BY <1>1, <1>2, <1>4
  <2>2. \A i \in lo..Len(a) : a[i] \in Sample
    BY <1>1, <1>2, <2>1, ElementOfSeq
  <2>3. /\ t \in Seq(Sample)
        /\ Len(t) = CacheSize
        /\ \A i \in 1..CacheSize : t[i] = a[i + 1]
    <3>1. /\ t \in Seq(Sample)
          /\ Len(t) = IF lo <= Len(a) THEN Len(a) - lo + 1 ELSE 0
          /\ \A i \in 1..Len(a) - lo + 1 : t[i] = a[lo + i - 1]
      <4> HIDE DEF lo
      <4> QED
        BY <2>1, <2>2, SubSeqProperties
    <3> QED
      BY <3>1, <2>1, <1>2
  <2>4. DOMAIN t = 1..CacheSize
    BY <2>3, LenProperties
  <2>5. Trim(a) = t
    BY <1>4 DEF Trim
  <2> HIDE DEF t, lo
  <2>6. Len(a) = CacheSize + 1
    BY <1>1, <1>2, <1>4
  <2>0. \A i \in DOMAIN t : i + 1 \in DOMAIN a /\ t[i] = a[i + 1] /\ i \in Int
    BY <1>2, <2>3, <2>4, <2>6
  <2>7. Range(t) \subseteq Range(a)
    BY <2>0 DEF Range
  <2>8. ASSUME IsInjective(a) PROVE IsInjective(t)
    <3>1. ASSUME NEW i \in DOMAIN t, NEW j \in DOMAIN t, t[i] = t[j] PROVE i = j
      <4>1. a[i + 1] = a[j + 1] /\ i + 1 \in DOMAIN a /\ j + 1 \in DOMAIN a
        BY <2>0, <3>1
      <4>2. i + 1 = j + 1
        BY <2>8, <4>1 DEF IsInjective
      <4> QED
        BY <2>0, <4>2
    <3> QED
      BY <3>1 DEF IsInjective
  <2> QED
    BY <1>1, <1>2, <2>3, <2>5, <2>7, <2>8 DEF a
<1> QED
  BY <1>2, <1>3, <1>4

-----------------------------------------------------------------------------
Bounded == TypeOK /\ CacheBounded

LEMMA InitBounded == Init => Bounded
<1> SUFFICES ASSUME Init PROVE Bounded
  OBVIOUS
<1>1. <<>> \in Seq(Sample) /\ Len(<<>>) = 0
  BY EmptySeq
<1>2. IdleFlusher \in [pc : {"idle", "started", "sending"},
                       todo : Seq(Sample), failed : Seq(Sample)]
  BY <1>1 DEF IdleFlusher
<1>3. CacheBounded
  BY <1>1, CacheSizeAssumption DEF Init, CacheBounded
<1> QED
  BY <1>1, <1>2, <1>3, NoSampleAssumption DEF Init, Bounded, TypeOK, IdleReporter, IdleFlusher

LEMMA NextBounded == Bounded /\ [Next]_vars => Bounded'
<1> SUFFICES ASSUME Bounded, [Next]_vars PROVE Bounded'
  OBVIOUS
<1> USE NoSampleAssumption DEF Bounded, TypeOK, CacheBounded
<1>1. ASSUME NEW r \in Reporter, Collect(r) PROVE Bounded'
  BY <1>1 DEF Collect, Held
<1>2. ASSUME NEW r \in Reporter, ReporterStep(r) PROVE Bounded'
  <2>1. CASE ReportSucceeds(r)
    BY <2>1 DEF ReportSucceeds
  <2>2. CASE ReportFails(r)
    BY <2>2, ZenonT(60) DEF ReportFails
  <2>3. CASE CacheSample(r)
    <3>1. reporter[r].sample \in Sample
      BY <2>3 DEF CacheSample
    <3>2. cache' \in Seq(Sample) /\ Len(cache') <= CacheSize
      BY <2>3, <3>1, AddFacts DEF CacheSample, Add
    <3> QED
      BY <2>3, <3>2 DEF CacheSample, IdleReporter
  <2>4. CASE StartFlush(r)
    <3>1. PICK f \in Flusher : /\ flusher[f].pc = "idle"
                              /\ flusher' = [flusher EXCEPT ![f].pc = "started"]
      BY <2>4 DEF StartFlush
    <3> QED
      BY <2>4, <3>1, ZenonT(60) DEF StartFlush, IdleReporter
  <2>5. CASE NothingToFlush(r)
    BY <2>5 DEF NothingToFlush, IdleReporter
  <2> QED
    BY <1>2, <2>1, <2>2, <2>3, <2>4, <2>5 DEF ReporterStep
<1>3. ASSUME NEW f \in Flusher, FlusherStep(f) PROVE Bounded'
  <2>0. <<>> \in Seq(Sample) /\ Len(<<>>) = 0
    BY EmptySeq
  <2>1. CASE GetAll(f)
    BY <2>0, <2>1, CacheSizeAssumption DEF GetAll, IdleFlusher
  <2>2. CASE FlushSucceeds(f)
    <3>1. Tail(flusher[f].todo) \in Seq(Sample)
      BY <2>2, HeadTailProperties DEF FlushSucceeds
    <3> QED
      BY <2>2, <3>1, ZenonT(60) DEF FlushSucceeds
  <2>3. CASE FlushFails(f)
    <3>1. Head(flusher[f].todo) \in Sample /\ Tail(flusher[f].todo) \in Seq(Sample)
      BY <2>3, HeadTailProperties DEF FlushFails
    <3>2. Append(flusher[f].failed, Head(flusher[f].todo)) \in Seq(Sample)
      BY <3>1, AppendProperties
    <3> QED
      <4> DEFINE g == [pc |-> "sending", todo |-> Tail(flusher[f].todo),
                       failed |-> Append(flusher[f].failed, Head(flusher[f].todo))]
      <4>1. flusher' = [flusher EXCEPT ![f] = g]
        BY <2>3 DEF FlushFails
      <4>2. g \in [pc : {"idle", "started", "sending"}, todo : Seq(Sample), failed : Seq(Sample)]
        BY <3>1, <3>2
      <4>3. g.pc = "sending"
        OBVIOUS
      <4> HIDE DEF g
      <4> QED
        BY <2>3, <4>1, <4>2, <4>3 DEF FlushFails
  <2>4. CASE Recache(f)
    <3>1. Head(flusher[f].failed) \in Sample /\ Tail(flusher[f].failed) \in Seq(Sample)
      BY <2>4, HeadTailProperties DEF Recache
    <3>2. cache' \in Seq(Sample) /\ Len(cache') <= CacheSize
      BY <2>4, <3>1, AddFacts DEF Recache, Add
    <3> QED
      BY <2>4, <3>1, <3>2 DEF Recache
  <2>5. CASE FlushDone(f)
    BY <2>0, <2>5 DEF FlushDone, IdleFlusher
  <2> QED
    BY <1>3, <2>1, <2>2, <2>3, <2>4, <2>5 DEF FlusherStep
<1>4. CASE ServerChanges
  BY <1>4 DEF ServerChanges
<1>5. CASE ConnectionChanges
  BY <1>5 DEF ConnectionChanges
<1>6. CASE UNCHANGED vars
  BY <1>6 DEF vars
<1> QED
  BY <1>1, <1>2, <1>3, <1>4, <1>5, <1>6 DEF Next

LEMMA BoundedInvariant == Spec => []Bounded
BY InitBounded, NextBounded, PTL DEF Spec

\* Every reachable state is well typed; a goroutine holds a sample only between
\* its RPC and the return of its report.
THEOREM TypeCorrect == Spec => []TypeOK
<1>1. Bounded => TypeOK
  BY DEF Bounded
<1> QED
  BY <1>1, BoundedInvariant, PTL

\* The cache never exceeds maxSize, whatever the number of reporters and flushers
\* that add to it (metrics_cache.go:45).
THEOREM CacheStaysBounded == Spec => []CacheBounded
<1>1. Bounded => CacheBounded
  BY DEF Bounded
<1> QED
  BY <1>1, BoundedInvariant, PTL

-----------------------------------------------------------------------------
(***************************************************************************)
(* SingleCustody is inductive once the types are known.                    *)
(***************************************************************************)
CInv == Bounded /\ SingleCustody

\* A step after which no place holds a sample that it did not hold before keeps
\* the places apart.
LEMMA ShrinkCustody ==
  ASSUME SingleCustody,
         IsInjective(cache'),
         Range(cache') \subseteq Range(cache),
         \A f \in Flusher : /\ IsInjective(flusher'[f].todo)
                            /\ IsInjective(flusher'[f].failed)
                            /\ Disjoint(Range(flusher'[f].todo), Range(flusher'[f].failed)),
         \A f \in Flusher : InFlush(f)' \subseteq InFlush(f),
         \A r \in Reporter : InReport(r)' \subseteq InReport(r)
  PROVE  SingleCustody'
<1>1. \A f \in Flusher : Disjoint(Range(cache'), InFlush(f)')
  BY DEF SingleCustody, Disjoint
<1>2. \A f, g \in Flusher : f # g => Disjoint(InFlush(f)', InFlush(g)')
  BY DEF SingleCustody, Disjoint
<1>3. \A r \in Reporter : /\ Disjoint(InReport(r)', Range(cache'))
                          /\ \A f \in Flusher : Disjoint(InReport(r)', InFlush(f)')
  BY DEF SingleCustody, Disjoint
<1>4. \A q, r \in Reporter : q # r => Disjoint(InReport(q)', InReport(r)')
  BY DEF SingleCustody, Disjoint
<1> QED
  BY <1>1, <1>2, <1>3, <1>4 DEF SingleCustody

\* A step that moves the sample s from the goroutines to the cache.
LEMMA MoveToCache ==
  ASSUME SingleCustody, NEW s, s \notin Range(cache),
         IsInjective(cache'),
         Range(cache') \subseteq Range(cache) \cup {s},
         \A f \in Flusher : /\ IsInjective(flusher'[f].todo)
                            /\ IsInjective(flusher'[f].failed)
                            /\ Disjoint(Range(flusher'[f].todo), Range(flusher'[f].failed)),
         \A f \in Flusher : InFlush(f)' \subseteq InFlush(f) \ {s},
         \A r \in Reporter : InReport(r)' \subseteq InReport(r) \ {s}
  PROVE  SingleCustody'
<1>1. \A f \in Flusher : Disjoint(Range(cache'), InFlush(f)')
  BY DEF SingleCustody, Disjoint
<1>2. \A f, g \in Flusher : f # g => Disjoint(InFlush(f)', InFlush(g)')
  BY DEF SingleCustody, Disjoint
<1>3. \A r \in Reporter : /\ Disjoint(InReport(r)', Range(cache'))
                          /\ \A f \in Flusher : Disjoint(InReport(r)', InFlush(f)')
  BY DEF SingleCustody, Disjoint
<1>4. \A q, r \in Reporter : q # r => Disjoint(InReport(q)', InReport(r)')
  BY DEF SingleCustody, Disjoint
<1> QED
  BY <1>1, <1>2, <1>3, <1>4 DEF SingleCustody

LEMMA InitCustody == Init => SingleCustody
<1> SUFFICES ASSUME Init PROVE SingleCustody
  OBVIOUS
<1>1. Range(<<>>) = {} /\ IsInjective(<<>>)
  BY EmptySeq DEF Range, IsInjective
<1> QED
  BY <1>1 DEF Init, SingleCustody, InReport, InFlush, Disjoint, IdleReporter, IdleFlusher

\* A sample that is not held is in none of the places.
LEMMA HeldBy ==
  ASSUME NEW s, s \notin Held
  PROVE  /\ s \notin Range(cache)
         /\ \A f \in Flusher : s \notin InFlush(f)
         /\ \A r \in Reporter : s \notin InReport(r)
<1>1. s \notin Range(cache)
  BY DEF Held
<1>2. ASSUME NEW f \in Flusher PROVE s \notin InFlush(f)
  <2>1. s \notin UNION {InFlush(g) : g \in Flusher}
    BY DEF Held
  <2> QED
    BY <2>1
<1>3. ASSUME NEW r \in Reporter PROVE s \notin InReport(r)
  <2>1. s \notin UNION {InReport(q) : q \in Reporter}
    BY DEF Held
  <2> QED
    BY <2>1
<1> QED
  BY <1>1, <1>2, <1>3

\* Steps of a reporter: it gains a sample only by collecting one that nobody
\* holds, and passes it on only to the cache.
LEMMA ReporterCustody ==
  ASSUME CInv, NEW r \in Reporter, Collect(r) \/ ReporterStep(r)
  PROVE  SingleCustody'
<1>0. TypeOK /\ CacheBounded /\ SingleCustody
  BY DEF CInv, Bounded
<1>1. CASE Collect(r)
  <2>1. PICK s \in Sample \ Held :
          reporter' = [reporter EXCEPT ![r] = [pc |-> "sending", sample |-> s]]
    BY <1>1 DEF Collect
  <2>2. UNCHANGED <<cache, flusher>>
    BY <1>1 DEF Collect
  <2>3. /\ \A q \in Reporter : InReport(q)' = IF q = r THEN {s} ELSE InReport(q)
        /\ \A f \in Flusher : InFlush(f)' = InFlush(f)
    BY <1>0, <2>1, <2>2, NoSampleAssumption DEF InReport, InFlush, TypeOK
  <2>4. /\ s \notin Range(cache)
        /\ \A f \in Flusher : s \notin InFlush(f)
        /\ \A q \in Reporter : s \notin InReport(q)
    BY <2>1, HeldBy
  <2>5. \A q, p \in Reporter : q # p => Disjoint(InReport(q)', InReport(p)')
    BY <1>0, <2>3, <2>4 DEF SingleCustody, Disjoint
  <2>6. \A q \in Reporter : /\ Disjoint(InReport(q)', Range(cache'))
                            /\ \A f \in Flusher : Disjoint(InReport(q)', InFlush(f)')
    BY <1>0, <2>2, <2>3, <2>4 DEF SingleCustody, Disjoint
  <2> QED
    BY <1>0, <2>2, <2>3, <2>5, <2>6 DEF SingleCustody
<1>2. CASE ReportSucceeds(r) \/ ReportFails(r) \/ NothingToFlush(r) \/ StartFlush(r)
  <2>1. cache' = cache
    BY <1>2 DEF ReportSucceeds, ReportFails, NothingToFlush, StartFlush
  <2>2. \A f \in Flusher : /\ flusher'[f].todo = flusher[f].todo
                          /\ flusher'[f].failed = flusher[f].failed
    <3>1. CASE StartFlush(r)
      <4>1. PICK f \in Flusher : flusher' = [flusher EXCEPT ![f].pc = "started"]
        BY <3>1 DEF StartFlush
      <4> QED
        BY <1>0, <4>1 DEF TypeOK
    <3> QED
      BY <1>2, <3>1 DEF ReportSucceeds, ReportFails, NothingToFlush
  <2>3. \A q \in Reporter : reporter'[q].sample \in {reporter[q].sample, NoSample}
    <3>1. CASE ReportSucceeds(r)
      BY <1>0, <3>1 DEF ReportSucceeds, TypeOK
    <3>2. CASE ReportFails(r)
      BY <1>0, <3>2 DEF ReportFails, TypeOK
    <3>3. CASE NothingToFlush(r) \/ StartFlush(r)
      BY <1>0, <3>3, SMTT(30) DEF NothingToFlush, StartFlush, IdleReporter, TypeOK
    <3> QED
      BY <1>2, <3>1, <3>2, <3>3
  <2>4. \A q \in Reporter : InReport(q)' \subseteq InReport(q)
    BY <2>3 DEF InReport
  <2>5. \A f \in Flusher : InFlush(f)' = InFlush(f)
    BY <2>2 DEF InFlush
  <2>6. \A f \in Flusher : /\ IsInjective(flusher'[f].todo)
                           /\ IsInjective(flusher'[f].failed)
                           /\ Disjoint(Range(flusher'[f].todo), Range(flusher'[f].failed))
    BY <1>0, <2>2 DEF SingleCustody
  <2>7. IsInjective(cache')
    BY <1>0, <2>1 DEF SingleCustody
  <2> QED
    BY <1>0, <2>1, <2>4, <2>5, <2>6, <2>7, ShrinkCustody
<1>3. CASE CacheSample(r)
  <2> DEFINE s == reporter[r].sample
  <2>1. s \in Sample /\ s \in InReport(r)
    BY <1>0, <1>3, NoSampleAssumption DEF CacheSample, InReport, TypeOK
  <2>2. /\ s \notin Range(cache)
        /\ \A f \in Flusher : s \notin InFlush(f)
        /\ \A q \in Reporter \ {r} : s \notin InReport(q)
    BY <1>0, <2>1 DEF SingleCustody, Disjoint
  <2>3. IsInjective(cache') /\ Range(cache') \subseteq Range(cache) \cup {s}
    BY <1>0, <1>3, <2>1, <2>2, AddFacts
      DEF CacheSample, Add, CacheBounded, TypeOK, SingleCustody
  <2>4. flusher' = flusher
    BY <1>3 DEF CacheSample
  <2>5. /\ InReport(r)' = {}
        /\ \A q \in Reporter \ {r} : InReport(q)' = InReport(q)
    BY <1>0, <1>3 DEF CacheSample, IdleReporter, InReport, TypeOK
  <2>6. \A f \in Flusher : InFlush(f)' = InFlush(f)
    BY <2>4 DEF InFlush
  <2>7. \A f \in Flusher : /\ IsInjective(flusher'[f].todo)
                           /\ IsInjective(flusher'[f].failed)
                           /\ Disjoint(Range(flusher'[f].todo), Range(flusher'[f].failed))
    BY <1>0, <2>4 DEF SingleCustody
  <2> HIDE DEF s
  <2>8. /\ \A f \in Flusher : InFlush(f)' \subseteq InFlush(f) \ {s}
        /\ \A q \in Reporter : InReport(q)' \subseteq InReport(q) \ {s}
    BY <2>2, <2>5, <2>6
  <2> QED
    BY <1>0, <2>2, <2>3, <2>7, <2>8, MoveToCache
<1> QED
  BY <1>1, <1>2, <1>3 DEF ReporterStep

\* Steps of a flusher: it takes the whole cache and leaves none of it behind, and
\* each of its samples goes to the server, to `failed`, or back to the cache.
LEMMA FlusherCustody ==
  ASSUME CInv, NEW f \in Flusher, FlusherStep(f)
  PROVE  SingleCustody'
<1>0. TypeOK /\ CacheBounded /\ SingleCustody
  BY DEF CInv, Bounded
<1>1. \A r \in Reporter : InReport(r)' = InReport(r)
  BY DEF FlusherStep, GetAll, FlushSucceeds, FlushFails, Recache, FlushDone, InReport
<1>2. \A g \in Flusher \ {f} : flusher'[g] = flusher[g] /\ InFlush(g)' = InFlush(g)
  BY <1>0 DEF FlusherStep, GetAll, FlushSucceeds, FlushFails, Recache, FlushDone, InFlush, TypeOK
<1>3. \A g \in Flusher \ {f} :
        /\ IsInjective(flusher'[g].todo)
        /\ IsInjective(flusher'[g].failed)
        /\ Disjoint(Range(flusher'[g].todo), Range(flusher'[g].failed))
  BY <1>0, <1>2 DEF SingleCustody
<1>4. CASE GetAll(f)
  <2>0. Range(<<>>) = {} /\ IsInjective(<<>>)
    BY EmptySeq DEF Range, IsInjective
  <2>1. /\ cache' = <<>>
        /\ flusher'[f].todo = cache
        /\ flusher'[f].failed = <<>>
    BY <1>0, <1>4 DEF GetAll, IdleFlusher, TypeOK
  <2>2. InFlush(f)' = Range(cache) /\ Range(cache') = {} /\ IsInjective(cache')
    BY <2>0, <2>1 DEF InFlush
  <2>3. /\ IsInjective(flusher'[f].todo)
        /\ IsInjective(flusher'[f].failed)
        /\ Disjoint(Range(flusher'[f].todo), Range(flusher'[f].failed))
    BY <1>0, <2>0, <2>1 DEF SingleCustody, Disjoint
  <2>4. \A d, g \in Flusher : d # g => Disjoint(InFlush(d)', InFlush(g)')
    BY <1>0, <1>2, <2>2 DEF SingleCustody, Disjoint
  <2>5. \A r \in Reporter, g \in Flusher : Disjoint(InReport(r)', InFlush(g)')
    BY <1>0, <1>1, <1>2, <2>2 DEF SingleCustody, Disjoint
  <2>6. /\ \A g \in Flusher : Disjoint(Range(cache'), InFlush(g)')
        /\ \A r \in Reporter : Disjoint(InReport(r)', Range(cache'))
    BY <2>2 DEF Disjoint
  <2>7. \A q, r \in Reporter : q # r => Disjoint(InReport(q)', InReport(r)')
    BY <1>0, <1>1 DEF SingleCustody
  <2> QED
    BY <1>3, <2>2, <2>3, <2>4, <2>5, <2>6, <2>7 DEF SingleCustody
<1>5. CASE FlushSucceeds(f)
  <2>1. /\ cache' = cache
        /\ flusher[f].todo # <<>> /\ flusher[f].todo \in Seq(Sample)
        /\ flusher'[f].todo = Tail(flusher[f].todo)
        /\ flusher'[f].failed = flusher[f].failed
    BY <1>0, <1>5 DEF FlushSucceeds, TypeOK
  <2>2. /\ Range(flusher'[f].todo) \subseteq Range(flusher[f].todo)
        /\ IsInjective(flusher'[f].todo)
    BY <1>0, <2>1, TailFacts DEF SingleCustody
  <2>3. InFlush(f)' \subseteq InFlush(f)
    BY <2>1, <2>2 DEF InFlush
  <2>4. /\ IsInjective(flusher'[f].failed)
        /\ Disjoint(Range(flusher'[f].todo), Range(flusher'[f].failed))
    BY <1>0, <2>1, <2>2 DEF SingleCustody, Disjoint
  <2>5. IsInjective(cache')
    BY <1>0, <2>1 DEF SingleCustody
  <2> QED
    BY <1>0, <1>1, <1>2, <1>3, <2>1, <2>2, <2>3, <2>4, <2>5, ShrinkCustody
<1>6. CASE FlushFails(f)
  <2> DEFINE h == Head(flusher[f].todo)
  <2>1. /\ cache' = cache
        /\ flusher[f].todo # <<>> /\ flusher[f].todo \in Seq(Sample)
        /\ flusher[f].failed \in Seq(Sample)
        /\ flusher'[f].todo = Tail(flusher[f].todo)
        /\ flusher'[f].failed = Append(flusher[f].failed, h)
    BY <1>0, <1>6 DEF FlushFails, TypeOK
  <2>2. /\ h \in Range(flusher[f].todo)
        /\ h \notin Range(flusher'[f].todo)
        /\ Range(flusher'[f].todo) \subseteq Range(flusher[f].todo)
        /\ IsInjective(flusher'[f].todo)
    BY <1>0, <2>1, TailFacts DEF SingleCustody
  <2>3. h \in Sample /\ h \notin Range(flusher[f].failed)
    BY <1>0, <2>1, <2>2, HeadTailProperties DEF SingleCustody, Disjoint
  <2>4. /\ Range(flusher'[f].failed) = Range(flusher[f].failed) \cup {h}
        /\ IsInjective(flusher'[f].failed)
    BY <1>0, <2>1, <2>3, AppendFacts DEF SingleCustody
  <2> HIDE DEF h
  <2>5. InFlush(f)' \subseteq InFlush(f)
    BY <2>2, <2>4 DEF InFlush
  <2>6. Disjoint(Range(flusher'[f].todo), Range(flusher'[f].failed))
    BY <1>0, <2>2, <2>4 DEF SingleCustody, Disjoint
  <2>7. IsInjective(cache')
    BY <1>0, <2>1 DEF SingleCustody
  <2> QED
    BY <1>0, <1>1, <1>2, <1>3, <2>1, <2>2, <2>4, <2>5, <2>6, <2>7, ShrinkCustody
<1>7. CASE Recache(f)
  <2> DEFINE h == Head(flusher[f].failed)
  <2>1. /\ flusher[f].failed # <<>> /\ flusher[f].failed \in Seq(Sample)
        /\ flusher'[f].todo = flusher[f].todo
        /\ flusher'[f].failed = Tail(flusher[f].failed)
        /\ cache' = Trim(Append(cache, h))
    BY <1>0, <1>7 DEF Recache, Add, TypeOK
  <2>2. /\ h \in Range(flusher[f].failed)
        /\ h \notin Range(flusher'[f].failed)
        /\ Range(flusher'[f].failed) \subseteq Range(flusher[f].failed)
        /\ IsInjective(flusher'[f].failed)
    BY <1>0, <2>1, TailFacts DEF SingleCustody
  <2>3. h \in InFlush(f) /\ h \notin InFlush(f)' /\ InFlush(f)' \subseteq InFlush(f)
    BY <1>0, <2>1, <2>2 DEF SingleCustody, Disjoint, InFlush
  <2>4. h \in Sample /\ h \notin Range(cache) /\ IsInjective(cache)
    BY <1>0, <2>1, <2>3, HeadTailProperties DEF SingleCustody, Disjoint
  <2>5. IsInjective(cache') /\ Range(cache') \subseteq Range(cache) \cup {h}
    BY <1>0, <2>1, <2>4, AddFacts DEF CacheBounded, TypeOK
  <2> HIDE DEF h
  <2>6. /\ \A g \in Flusher \ {f} : h \notin InFlush(g)
        /\ \A r \in Reporter : h \notin InReport(r)
    BY <1>0, <2>3 DEF SingleCustody, Disjoint
  <2>7. /\ IsInjective(flusher'[f].todo)
        /\ Disjoint(Range(flusher'[f].todo), Range(flusher'[f].failed))
    BY <1>0, <2>1, <2>2 DEF SingleCustody, Disjoint
  <2>8. /\ \A g \in Flusher : InFlush(g)' \subseteq InFlush(g) \ {h}
        /\ \A r \in Reporter : InReport(r)' \subseteq InReport(r) \ {h}
    BY <1>1, <1>2, <2>3, <2>6
  <2>9. \A g \in Flusher : /\ IsInjective(flusher'[g].todo)
                           /\ IsInjective(flusher'[g].failed)
                           /\ Disjoint(Range(flusher'[g].todo), Range(flusher'[g].failed))
    BY <1>3, <2>2, <2>7
  <2> QED
    BY <1>0, <2>4, <2>5, <2>8, <2>9, MoveToCache
<1>8. CASE FlushDone(f)
  <2>1. /\ cache' = cache
        /\ flusher'[f].todo = flusher[f].todo
        /\ flusher'[f].failed = flusher[f].failed
    BY <1>0, <1>8 DEF FlushDone, IdleFlusher, TypeOK
  <2>2. InFlush(f)' = InFlush(f)
    BY <2>1 DEF InFlush
  <2>3. /\ IsInjective(flusher'[f].todo)
        /\ IsInjective(flusher'[f].failed)
        /\ Disjoint(Range(flusher'[f].todo), Range(flusher'[f].failed))
        /\ IsInjective(cache')
    BY <1>0, <2>1 DEF SingleCustody
  <2> QED
    BY <1>0, <1>1, <1>2, <1>3, <2>1, <2>2, <2>3, ShrinkCustody
<1> QED
  BY <1>4, <1>5, <1>6, <1>7, <1>8 DEF FlusherStep

LEMMA CustodyInvariant == Spec => []CInv
<1>1. Init => CInv
  BY InitBounded, InitCustody DEF CInv
<1>2. ASSUME CInv, [Next]_vars PROVE CInv'
  <2>1. Bounded'
    BY <1>2, NextBounded DEF CInv
  <2>2. ASSUME NEW r \in Reporter, Collect(r) \/ ReporterStep(r) PROVE SingleCustody'
    BY <1>2, <2>2, ReporterCustody
  <2>3. ASSUME NEW f \in Flusher, FlusherStep(f) PROVE SingleCustody'
    BY <1>2, <2>3, FlusherCustody
  <2>4. CASE UNCHANGED <<cache, reporter, flusher>>
    <3>1. SingleCustody /\ cache' = cache /\ flusher' = flusher
      BY <1>2, <2>4 DEF CInv
    <3>2. /\ \A f \in Flusher : InFlush(f)' = InFlush(f)
          /\ \A r \in Reporter : InReport(r)' = InReport(r)
      BY <2>4 DEF InFlush, InReport
    <3>3. /\ IsInjective(cache')
          /\ \A f \in Flusher : /\ IsInjective(flusher'[f].todo)
                               /\ IsInjective(flusher'[f].failed)
                               /\ Disjoint(Range(flusher'[f].todo), Range(flusher'[f].failed))
      BY <3>1 DEF SingleCustody
    <3>4. SingleCustody'
      BY <3>1, <3>2, <3>3, ShrinkCustody
    <3> QED
      BY <2>1, <3>4 DEF CInv
  <2> QED
    BY <1>2, <2>1, <2>2, <2>3, <2>4 DEF CInv, Next, ServerChanges, ConnectionChanges, vars
<1> QED
  BY <1>1, <1>2, PTL DEF Spec

\* No sample is ever in two places: a sample in a flusher is not in the cache or
\* in another flusher, so nothing is reported again once it was acknowledged
\* (grpc_client.go:196-241).
THEOREM CustodyIsSingle == Spec => []SingleCustody
<1>1. CInv => SingleCustody
  BY DEF CInv
<1> QED
  BY <1>1, CustodyInvariant, PTL

-----------------------------------------------------------------------------
(***************************************************************************)
(* MetricsDelivery implements SampleStore: every step collects, removes or *)
(* keeps exactly what it should of Held.                                   *)
(***************************************************************************)
\* A sequence holds its head and what its tail holds.
LEMMA HeadAndTail ==
  ASSUME NEW s \in Seq(Sample), s # <<>>
  PROVE  Range(s) = Range(Tail(s)) \cup {Head(s)}
<1> DEFINE t == Tail(s)
<1>1. /\ t \in Seq(Sample)
      /\ Len(t) = Len(s) - 1
      /\ \A i \in 1..Len(t) : t[i] = s[i + 1]
  BY HeadTailProperties
<1>2. DOMAIN s = 1..Len(s) /\ DOMAIN t = 1..Len(s) - 1 /\ Len(s) \in Nat \ {0} /\ Head(s) = s[1]
  BY <1>1, LenProperties, EmptySeq
<1> HIDE DEF t
<1>3. \A i \in DOMAIN s : i = 1 \/ (i - 1 \in DOMAIN t /\ t[i - 1] = s[i])
  BY <1>1, <1>2
<1>4. Range(s) \subseteq Range(t) \cup {Head(s)}
  BY <1>2, <1>3 DEF Range
<1>5. Range(t) \subseteq Range(s) /\ Head(s) \in Range(s)
  BY TailFacts DEF t
<1> QED
  BY <1>4, <1>5 DEF t

\* Add keeps every cached sample, or it found the cache full and drops the oldest.
LEMMA AddKeeps ==
  ASSUME NEW c \in Seq(Sample), NEW x \in Sample, Len(c) <= CacheSize,
         IsInjective(c), x \notin Range(c)
  PROVE  \/ Range(Trim(Append(c, x))) = Range(c) \cup {x}
         \/ /\ Len(c) = CacheSize
            /\ c # <<>>
            /\ Range(Trim(Append(c, x))) = (Range(c) \cup {x}) \ {Head(c)}
<1> DEFINE a == Append(c, x)
<1>1. /\ a \in Seq(Sample)
      /\ Len(a) = Len(c) + 1
      /\ Range(a) = Range(c) \cup {x}
      /\ IsInjective(a)
  BY AppendFacts
<1>2. Len(c) \in Nat /\ Len(a) \in Nat /\ CacheSize \in Nat \ {0}
  BY <1>1, LenProperties, CacheSizeAssumption
<1>3. CASE Len(a) <= CacheSize
  BY <1>1, <1>2, <1>3 DEF Trim
<1>4. CASE Len(a) > CacheSize
  <2>1. Len(c) = CacheSize /\ c # <<>> /\ a # <<>> /\ Len(a) = CacheSize + 1
    BY <1>1, <1>2, <1>4, EmptySeq
  <2>2. Head(a) = Head(c)
    <3>1. Head(a) = a[1] /\ Head(c) = c[1]
      BY <1>1, <2>1, HeadTailProperties
    <3>2. a[1] = c[1]
      BY <1>2, <2>1, AppendProperties
    <3> QED
      BY <3>1, <3>2
  <2>3. Trim(a) = Tail(a)
    <3>1. Trim(a) = SubSeq(a, 2, Len(a))
      BY <1>2, <1>4, <2>1 DEF Trim
    <3>2. Tail(a) = SubSeq(a, 2, Len(a))
      BY <1>1, <2>1, TailIsSubSeq
    <3> QED
      BY <3>1, <3>2
  <2>4. Range(a) = Range(Tail(a)) \cup {Head(a)} /\ Head(a) \notin Range(Tail(a))
    BY <1>1, <2>1, HeadAndTail, TailFacts
  <2> QED
    BY <1>1, <2>1, <2>2, <2>3, <2>4
<1> QED
  BY <1>2, <1>3, <1>4

\* A held sample is in the cache, with a reporter or with a flusher.
LEMMA WhoHolds ==
  /\ \A x : x \in Held <=> \/ x \in Range(cache)
                           \/ \E r \in Reporter : x \in InReport(r)
                           \/ \E f \in Flusher : x \in InFlush(f)
  /\ \A x : x \in Held' <=> \/ x \in Range(cache')
                            \/ \E r \in Reporter : x \in InReport(r)'
                            \/ \E f \in Flusher : x \in InFlush(f)'
<1>1. \A x : /\ x \in UNION {InReport(r) : r \in Reporter}
                  <=> \E r \in Reporter : x \in InReport(r)
             /\ x \in UNION {InFlush(f) : f \in Flusher}
                  <=> \E f \in Flusher : x \in InFlush(f)
  OBVIOUS
<1>2. \A x : /\ x \in UNION {InReport(r)' : r \in Reporter}
                  <=> \E r \in Reporter : x \in InReport(r)'
             /\ x \in UNION {InFlush(f)' : f \in Flusher}
                  <=> \E f \in Flusher : x \in InFlush(f)'
  OBVIOUS
<1>3. Held' = Range(cache') \cup (UNION {InReport(r)' : r \in Reporter})
                            \cup (UNION {InFlush(f)' : f \in Flusher})
  BY DEF Held
<1> QED
  BY <1>1, <1>2, <1>3 DEF Held

\* What is added to a full cache makes more samples outstanding than it may hold.
LEMMA FullCache ==
  ASSUME TypeOK, IsFiniteSet(Held), IsInjective(cache), Len(cache) = CacheSize,
         NEW x \in Sample, x \in Held, x \notin Range(cache)
  PROVE  Cardinality(Held) > CacheSize
<1> DEFINE a == Append(cache, x)
<1>1. /\ a \in Seq(Sample)
      /\ Len(a) = CacheSize + 1
      /\ Range(a) = Range(cache) \cup {x}
      /\ IsInjective(a)
  BY AppendFacts DEF TypeOK
<1> HIDE DEF a
<1>2. DOMAIN a = 1..CacheSize + 1
  BY <1>1, LenProperties
<1>3. Range(a) \subseteq Held
  BY <1>1, WhoHolds
<1>4. a \in [1..CacheSize + 1 -> Held]
  BY <1>1, <1>2, <1>3, LenProperties DEF Range
<1>5. a \in Injection(1..CacheSize + 1, Held)
  BY <1>1, <1>4 DEF Injection
<1>6. Cardinality(1..CacheSize + 1) <= Cardinality(Held)
  BY <1>5, FS_Injection
<1>7. Cardinality(1..CacheSize + 1) = CacheSize + 1 /\ Cardinality(Held) \in Nat
  BY FS_Interval, FS_CardinalityType, CacheSizeAssumption
<1> QED
  BY <1>6, <1>7, CacheSizeAssumption

StoreStep == [Store!Next]_(Store!storeVars)

\* Adding a sample that a goroutine hands over leaves Held as it is, or gives the
\* oldest cached sample up when the cache was full.
LEMMA HandOver ==
  ASSUME CInv, IsFiniteSet(Held), NEW x \in Sample, x \in Held, x \notin Range(cache),
         Add(x), up' = up,
         \A y : (\/ \E r \in Reporter : y \in InReport(r)
                 \/ \E f \in Flusher : y \in InFlush(f))
           <=> (\/ y = x
                \/ \E r \in Reporter : y \in InReport(r)'
                \/ \E f \in Flusher : y \in InFlush(f)'),
         \A y \in Range(cache) : /\ \A r \in Reporter : y \notin InReport(r)'
                                 /\ \A f \in Flusher : y \notin InFlush(f)'
  PROVE  StoreStep
<1>0. TypeOK /\ CacheBounded /\ IsInjective(cache)
  BY DEF CInv, Bounded, SingleCustody
<1>1. cache \in Seq(Sample) /\ Len(cache) <= CacheSize
  BY <1>0 DEF TypeOK, CacheBounded
<1>2. cache' = Trim(Append(cache, x))
  BY DEF Add
<1>3. CASE Range(cache') = Range(cache) \cup {x}
  <2>1. \A y : y \in Held' <=> y \in Held
    BY <1>3, WhoHolds
  <2> QED
    BY <2>1 DEF StoreStep, Store!storeVars
<1>4. CASE /\ Len(cache) = CacheSize
           /\ cache # <<>>
           /\ Range(cache') = (Range(cache) \cup {x}) \ {Head(cache)}
  <2> DEFINE h == Head(cache)
  <2>1. h \in Range(cache) /\ h # x
    BY <1>1, <1>4, TailFacts
  <2> HIDE DEF h
  <2>2. h \in Held
    BY <2>1, WhoHolds
  <2>3. \A y : y \in Held' <=> y \in Held /\ y # h
    <3>1. Range(cache') = (Range(cache) \cup {x}) \ {h}
      BY <1>4 DEF h
    <3> QED
      BY <2>1, <3>1, WhoHolds
  <2>4. Held' = Held \ {h}
    BY <2>3
  <2>5. Cardinality(Held) > CacheSize
    BY <1>0, <1>4, FullCache
  <2>6. Store!Cardinality(Held) = Cardinality(Held)
    BY DEF Store!Cardinality, Cardinality
  <2>7. Store!GiveUp
    BY <2>2, <2>4, <2>5, <2>6 DEF Store!GiveUp
  <2> QED
    BY <2>7 DEF StoreStep, Store!Next
<1> QED
  BY <1>0, <1>1, <1>2, <1>3, <1>4, AddKeeps

\* Every step of a reporter is one of the store's steps, or changes nothing there.
LEMMA ReporterStores ==
  ASSUME CInv, IsFiniteSet(Held), NEW r \in Reporter, Collect(r) \/ ReporterStep(r)
  PROVE  StoreStep
<1>0. TypeOK /\ CacheBounded /\ SingleCustody
  BY DEF CInv, Bounded
<1> DEFINE s == reporter[r].sample
<1>1. CASE Collect(r)
  <2>1. PICK x \in Sample \ Held :
          reporter' = [reporter EXCEPT ![r] = [pc |-> "sending", sample |-> x]]
    BY <1>1 DEF Collect
  <2>2. UNCHANGED <<cache, flusher, up>>
    BY <1>1 DEF Collect
  <2>3. /\ \A q \in Reporter : InReport(q)' = IF q = r THEN {x} ELSE InReport(q)
        /\ \A f \in Flusher : InFlush(f)' = InFlush(f)
        /\ InReport(r) = {}
    BY <1>0, <1>1, <2>1, <2>2, NoSampleAssumption, SMTT(30)
       DEF Collect, InReport, InFlush, TypeOK
  <2>4. Held' = Held \cup {x}
    <3>1. \A y : y \in Held' <=> y \in Held \/ y = x
      BY <2>2, <2>3, WhoHolds
    <3> QED
      BY <3>1
  <2>5. Store!Collect
    BY <2>1, <2>2, <2>4 DEF Store!Collect
  <2> QED
    BY <2>5 DEF StoreStep, Store!Next
<1>2. CASE ReportSucceeds(r)
  <2>1. s \in Sample /\ InReport(r) = {s}
    BY <1>0, <1>2, NoSampleAssumption DEF ReportSucceeds, InReport, TypeOK
  <2>2. /\ InReport(r)' = {}
        /\ \A q \in Reporter \ {r} : InReport(q)' = InReport(q)
        /\ \A f \in Flusher : InFlush(f)' = InFlush(f)
        /\ UNCHANGED <<cache, up>>
    BY <1>0, <1>2 DEF ReportSucceeds, InReport, InFlush, TypeOK
  <2>3. /\ s \notin Range(cache)
        /\ \A f \in Flusher : s \notin InFlush(f)
        /\ \A q \in Reporter \ {r} : s \notin InReport(q)
    BY <1>0, <2>1 DEF SingleCustody, Disjoint
  <2> HIDE DEF s
  <2>4. \A y : y \in Held' <=> y \in Held /\ y # s
    BY <2>1, <2>2, <2>3, WhoHolds
  <2>5. s \in Held /\ Held' = Held \ {s}
    BY <2>1, <2>4, WhoHolds
  <2>6. Store!Acknowledge
    BY <1>2, <2>2, <2>5 DEF ReportSucceeds, Store!Acknowledge
  <2> QED
    BY <2>6 DEF StoreStep, Store!Next
<1>3. CASE ReportFails(r) \/ NothingToFlush(r) \/ StartFlush(r)
  <2>1. UNCHANGED <<cache, up>>
    BY <1>3 DEF ReportFails, NothingToFlush, StartFlush
  <2>2. \A q \in Reporter : reporter'[q].sample = reporter[q].sample
    <3>1. CASE ReportFails(r)
      BY <1>0, <3>1 DEF ReportFails, TypeOK
    <3>2. CASE NothingToFlush(r) \/ StartFlush(r)
      <4>1. reporter[r].pc = "reported" /\ reporter' = [reporter EXCEPT ![r] = IdleReporter]
        BY <3>2 DEF NothingToFlush, StartFlush
      <4>2. reporter[r].sample = NoSample
        BY <1>0, <4>1 DEF TypeOK
      <4> QED
        BY <1>0, <4>1, <4>2 DEF IdleReporter, TypeOK
    <3> QED
      BY <1>3, <3>1, <3>2
  <2>3. \A f \in Flusher : /\ flusher'[f].todo = flusher[f].todo
                          /\ flusher'[f].failed = flusher[f].failed
    <3>1. CASE StartFlush(r)
      <4>1. PICK f \in Flusher : flusher' = [flusher EXCEPT ![f].pc = "started"]
        BY <3>1 DEF StartFlush
      <4> QED
        BY <1>0, <4>1 DEF TypeOK
    <3> QED
      BY <1>3, <3>1 DEF ReportFails, NothingToFlush
  <2>4. /\ \A q \in Reporter : InReport(q)' = InReport(q)
        /\ \A f \in Flusher : InFlush(f)' = InFlush(f)
    BY <2>2, <2>3 DEF InReport, InFlush
  <2>5. \A y : y \in Held' <=> y \in Held
    BY <2>1, <2>4, WhoHolds
  <2> QED
    BY <2>1, <2>5 DEF StoreStep, Store!storeVars
<1>4. CASE CacheSample(r)
  <2>1. s \in Sample /\ InReport(r) = {s}
    BY <1>0, <1>4, NoSampleAssumption DEF CacheSample, InReport, TypeOK
  <2>2. /\ InReport(r)' = {}
        /\ \A q \in Reporter \ {r} : InReport(q)' = InReport(q)
        /\ \A f \in Flusher : InFlush(f)' = InFlush(f)
        /\ up' = up
        /\ Add(s)
    BY <1>0, <1>4 DEF CacheSample, IdleReporter, InReport, InFlush, TypeOK
  <2> HIDE DEF s
  <2>3. s \in Held /\ s \notin Range(cache)
    BY <1>0, <2>1, WhoHolds DEF SingleCustody, Disjoint
  <2>4. \A y : (\/ \E q \in Reporter : y \in InReport(q)
                \/ \E f \in Flusher : y \in InFlush(f))
          <=> (\/ y = s
               \/ \E q \in Reporter : y \in InReport(q)'
               \/ \E f \in Flusher : y \in InFlush(f)')
    BY <2>1, <2>2
  <2>5. \A y \in Range(cache) : /\ \A q \in Reporter : y \notin InReport(q)'
                                /\ \A f \in Flusher : y \notin InFlush(f)'
    BY <1>0, <2>2 DEF SingleCustody, Disjoint
  <2> QED
    BY <2>1, <2>2, <2>3, <2>4, <2>5, HandOver
<1> QED
  BY <1>1, <1>2, <1>3, <1>4 DEF ReporterStep

\* Every step of a flusher is one of the store's steps, or changes nothing there.
LEMMA FlusherStores ==
  ASSUME CInv, IsFiniteSet(Held), NEW f \in Flusher, FlusherStep(f)
  PROVE  StoreStep
<1>0. TypeOK /\ CacheBounded /\ SingleCustody
  BY DEF CInv, Bounded
<1>1. up' = up /\ \A r \in Reporter : InReport(r)' = InReport(r)
  BY DEF FlusherStep, GetAll, FlushSucceeds, FlushFails, Recache, FlushDone, InReport
<1>2. \A g \in Flusher \ {f} : InFlush(g)' = InFlush(g)
  BY <1>0 DEF FlusherStep, GetAll, FlushSucceeds, FlushFails, Recache, FlushDone, InFlush, TypeOK
<1>3. CASE GetAll(f)
  <2>1. /\ cache' = <<>>
        /\ flusher[f].todo = <<>> /\ flusher[f].failed = <<>>
        /\ flusher'[f].todo = cache /\ flusher'[f].failed = <<>>
    BY <1>0, <1>3 DEF GetAll, IdleFlusher, TypeOK
  <2>2. Range(<<>>) = {}
    BY EmptySeq DEF Range
  <2>3. InFlush(f) = {} /\ InFlush(f)' = Range(cache) /\ Range(cache') = {}
    BY <2>1, <2>2 DEF InFlush
  <2>4. \A y : y \in Held' <=> y \in Held
    BY <1>1, <1>2, <2>3, WhoHolds
  <2> QED
    BY <1>1, <2>4 DEF StoreStep, Store!storeVars
<1>4. CASE FlushSucceeds(f)
  <2> DEFINE h == Head(flusher[f].todo)
  <2>1. /\ cache' = cache
        /\ flusher[f].todo # <<>> /\ flusher[f].todo \in Seq(Sample)
        /\ flusher'[f].todo = Tail(flusher[f].todo)
        /\ flusher'[f].failed = flusher[f].failed
    BY <1>0, <1>4 DEF FlushSucceeds, TypeOK
  <2>2. /\ Range(flusher[f].todo) = Range(flusher'[f].todo) \cup {h}
        /\ h \notin Range(flusher'[f].todo)
    BY <1>0, <2>1, HeadAndTail, TailFacts DEF SingleCustody
  <2> HIDE DEF h
  <2>3. h \in InFlush(f) /\ InFlush(f)' = InFlush(f) \ {h}
    BY <1>0, <2>1, <2>2 DEF InFlush, SingleCustody, Disjoint
  <2>4. /\ h \notin Range(cache)
        /\ \A g \in Flusher \ {f} : h \notin InFlush(g)
        /\ \A r \in Reporter : h \notin InReport(r)
    BY <1>0, <2>3 DEF SingleCustody, Disjoint
  <2>5. \A y : y \in Held' <=> y \in Held /\ y # h
    BY <1>1, <1>2, <2>1, <2>3, <2>4, WhoHolds
  <2>6. h \in Held /\ Held' = Held \ {h}
    BY <2>3, <2>5, WhoHolds
  <2>7. Store!Acknowledge
    BY <1>1, <1>4, <2>6 DEF FlushSucceeds, Store!Acknowledge
  <2> QED
    BY <2>7 DEF StoreStep, Store!Next
<1>5. CASE FlushFails(f)
  <2> DEFINE h == Head(flusher[f].todo)
  <2>1. /\ cache' = cache
        /\ flusher[f].todo # <<>> /\ flusher[f].todo \in Seq(Sample)
        /\ flusher[f].failed \in Seq(Sample)
        /\ flusher'[f].todo = Tail(flusher[f].todo)
        /\ flusher'[f].failed = Append(flusher[f].failed, h)
    BY <1>0, <1>5 DEF FlushFails, TypeOK
  <2>2. Range(flusher[f].todo) = Range(flusher'[f].todo) \cup {h} /\ h \in Sample
    BY <2>1, HeadAndTail, HeadTailProperties
  <2>3. Range(flusher'[f].failed) = Range(flusher[f].failed) \cup {h}
    BY <2>1, <2>2, AppendFacts
  <2> HIDE DEF h
  <2>4. InFlush(f)' = InFlush(f)
    BY <2>2, <2>3 DEF InFlush
  <2>5. \A y : y \in Held' <=> y \in Held
    BY <1>1, <1>2, <2>1, <2>4, WhoHolds
  <2> QED
    BY <1>1, <2>5 DEF StoreStep, Store!storeVars
<1>6. CASE Recache(f)
  <2> DEFINE h == Head(flusher[f].failed)
  <2>1. /\ flusher[f].failed # <<>> /\ flusher[f].failed \in Seq(Sample)
        /\ flusher'[f].todo = flusher[f].todo
        /\ flusher'[f].failed = Tail(flusher[f].failed)
        /\ Add(h)
    BY <1>0, <1>6 DEF Recache, TypeOK
  <2>2. /\ Range(flusher[f].failed) = Range(flusher'[f].failed) \cup {h}
        /\ h \in Sample
    BY <2>1, HeadAndTail, HeadTailProperties
  <2> HIDE DEF h
  <2>3. h \in InFlush(f) /\ InFlush(f) = InFlush(f)' \cup {h}
    BY <2>1, <2>2 DEF InFlush
  <2>4. h \in Held /\ h \notin Range(cache)
    BY <1>0, <2>3, WhoHolds DEF SingleCustody, Disjoint
  <2>5. \A y : (\/ \E r \in Reporter : y \in InReport(r)
                \/ \E g \in Flusher : y \in InFlush(g))
          <=> (\/ y = h
               \/ \E r \in Reporter : y \in InReport(r)'
               \/ \E g \in Flusher : y \in InFlush(g)')
    BY <1>1, <1>2, <2>3
  <2>6. \A y \in Range(cache) : /\ \A r \in Reporter : y \notin InReport(r)'
                                /\ \A g \in Flusher : y \notin InFlush(g)'
    BY <1>0, <1>1, <1>2, <2>3 DEF SingleCustody, Disjoint
  <2> QED
    BY <1>1, <2>1, <2>2, <2>4, <2>5, <2>6, HandOver
<1>7. CASE FlushDone(f)
  <2>1. cache' = cache /\ InFlush(f)' = InFlush(f)
    BY <1>0, <1>7 DEF FlushDone, IdleFlusher, InFlush, TypeOK
  <2>2. \A y : y \in Held' <=> y \in Held
    BY <1>1, <1>2, <2>1, WhoHolds
  <2> QED
    BY <1>1, <2>2 DEF StoreStep, Store!storeVars
<1> QED
  BY <1>3, <1>4, <1>5, <1>6, <1>7 DEF FlusherStep

SInv == CInv /\ IsFiniteSet(Held)

LEMMA NextStores == SInv /\ [Next]_vars => StoreStep
<1> SUFFICES ASSUME SInv, [Next]_vars PROVE StoreStep
  OBVIOUS
<1>1. ASSUME NEW r \in Reporter, Collect(r) \/ ReporterStep(r) PROVE StoreStep
  BY <1>1, ReporterStores DEF SInv
<1>2. ASSUME NEW f \in Flusher, FlusherStep(f) PROVE StoreStep
  BY <1>2, FlusherStores DEF SInv
<1>3. CASE UNCHANGED <<cache, reporter, flusher>> /\ up' \in {up, ~up}
  <2>1. Held' = Held
    BY <1>3 DEF Held, InReport, InFlush
  <2> QED
    BY <1>3, <2>1 DEF StoreStep, Store!storeVars, Store!Next, Store!ServerChanges
<1> QED
  BY <1>1, <1>2, <1>3 DEF Next, ServerChanges, ConnectionChanges, vars

\* Only finitely many samples are ever outstanding: a step adds at most one.
LEMMA StoreInvariant == Spec => []SInv
<1>1. Init => IsFiniteSet(Held)
  <2> SUFFICES ASSUME Init PROVE Held = {}
    BY FS_EmptySet
  <2>1. Range(<<>>) = {}
    BY EmptySeq DEF Range
  <2> QED
    BY <2>1 DEF Init, Held, InReport, InFlush, IdleReporter, IdleFlusher
<1>2. SInv /\ [Next]_vars => IsFiniteSet(Held)'
  <2> SUFFICES ASSUME SInv, [Next]_vars PROVE IsFiniteSet(Held')
    OBVIOUS
  <2>1. \/ Held' = Held
        \/ \E s : Held' = Held \cup {s}
        \/ \E s : Held' = Held \ {s}
    BY NextStores DEF StoreStep, Store!storeVars, Store!Next, Store!Collect,
                      Store!Acknowledge, Store!GiveUp, Store!ServerChanges
  <2> QED
    BY <2>1, FS_AddElement, FS_RemoveElement DEF SInv
<1> QED
  BY <1>1, <1>2, CustodyInvariant, PTL DEF Spec, SInv

\* Metric reporting keeps the promise of SampleStore: a sample that was collected is
\* acknowledged, or given up with more than maxSize outstanding, and never lost on
\* the way between report, cache and flush (grpc_client.go:185-241).
THEOREM ImplementsStore == Spec => StoreSpec
<1>1. Init => Store!Init
  <2> SUFFICES ASSUME Init PROVE Held = {}
    BY DEF Init, Store!Init
  <2>1. Range(<<>>) = {}
    BY EmptySeq DEF Range
  <2> QED
    BY <2>1 DEF Init, Held, InReport, InFlush, IdleReporter, IdleFlusher
<1>2. SInv /\ [Next]_vars => [Store!Next]_(Store!storeVars)
  BY NextStores DEF StoreStep
<1> QED
  BY <1>1, <1>2, StoreInvariant, PTL DEF Spec, StoreSpec, Store!Spec
=============================================================================
