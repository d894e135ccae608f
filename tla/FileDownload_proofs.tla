------------------------- MODULE FileDownload_proofs -------------------------
(***************************************************************************)
(* Proofs about FileDownload for any calls, files, paths and number of     *)
(* attempts: types, a destination that is whole, and a success that has    *)
(* delivered the call's own file, at every path that calls do not share.   *)
(***************************************************************************)
EXTENDS FileDownload, TLAPS

(***************************************************************************)
(* The invariant.                                                          *)
(***************************************************************************)
\* A call waits for another attempt only if there is one left.
AttemptsLeft == \A c \in Call : call[c].pc = "delaying" => call[c].attempt < MaxRetries

\* Two calls that are active at one path share it.
Alone ==
  \A c, d \in Call :
    Active(c) /\ Active(d) /\ call[c].path = call[d].path /\ c # d => call[c].path \in shared

\* Before it has received anything an attempt has received nothing wrong, and it never
\* receives more than the file has.
StartsClean(c) ==
  /\ call[c].pc \in {"opening", "delaying"} => call[c].received = 0 /\ call[c].intact
  /\ call[c].pc = "receiving" => call[c].received <= Chunks[call[c].file]
  /\ call[c].pc = "receiving" /\ call[c].received = 0 => call[c].intact

\* What the temporary file holds while a call has its path for itself.
Holds(c) ==
  LET held == tmp[call[c].path]
      f == call[c].file
  IN /\ call[c].pc = "receiving" =>
          /\ call[c].fd = "tmp"
          /\ call[c].intact => held = Beginning(f, call[c].received)
     /\ call[c].pc = "verifying" /\ call[c].intact => held = Whole(f)
     /\ call[c].pc = "renaming" => held = Whole(f)

CallInv(c) == StartsClean(c) /\ (call[c].path \notin shared => Holds(c))

IInv ==
  /\ TypeOK
  /\ AttemptsLeft
  /\ Alone
  /\ DestinationWhole
  /\ \A c \in Call : CallInv(c)

(***************************************************************************)
(* Types, and what becomes of the call that takes a step.                  *)
(***************************************************************************)
Pcs == {"idle", "opening", "receiving", "verifying", "renaming", "delaying", "failed"}
Fds == {"none", "tmp", "dest", "gone"}
CallType == [pc : Pcs, file : File, path : Path, fd : Fds, attempt : 0..MaxRetries,
             received : Nat, intact : BOOLEAN]
OpenWhileReceiving == \A c \in Call : call[c].fd # "none" <=> call[c].pc = "receiving"

LEMMA CallsTyped == TypeOK <=> /\ call \in [Call -> CallType] /\ OpenWhileReceiving
                               /\ dest \in [Path -> Content \cup {NoFile}]
                               /\ tmp \in [Path -> Content \cup {NoFile}]
                               /\ cancelled \in BOOLEAN /\ silent \in BOOLEAN
                               /\ shared \subseteq Path
BY DEF TypeOK, CallType, Pcs, Fds, OpenWhileReceiving

LEMMA IdleTyped ==
  ASSUME NEW p \in Path
  PROVE  /\ Idle(p) \in CallType
         /\ Idle(p).pc = "idle" /\ Idle(p).fd = "none" /\ Idle(p).path = p
         /\ Idle(p).received = 0 /\ Idle(p).intact
<1>1. (CHOOSE f \in File : TRUE) \in File BY FileAssumption
<1>2. 0 \in 0..MaxRetries BY MaxRetriesAssumption
<1> QED BY <1>1, <1>2 DEF Idle, CallType, Pcs, Fds

\* The beginnings of a file are contents.
LEMMA BeginningTyped ==
  ASSUME NEW f \in File, NEW n \in Nat, n <= Chunks[f]
  PROVE  Beginning(f, n) \in Content
<1>1. n \in 0..Chunks[f] BY ChunksAssumption
<1> QED BY <1>1 DEF Content

\* Only c has changed: it is at pc now, at the same path.
Becomes(c, pc) ==
  /\ call' \in [Call -> CallType]
  /\ \A d \in Call \ {c} : call'[d] = call[d]
  /\ call'[c].pc = pc
  /\ call'[c].path = call[c].path

\* Goto changes the place of a call and nothing else.
LEMMA GotoBecomes ==
  ASSUME TypeOK, NEW c \in Call, NEW pc \in Pcs, Goto(c, pc)
  PROVE  /\ Becomes(c, pc)
         /\ call'[c].file = call[c].file
         /\ call'[c].fd = call[c].fd
<1>1. call \in [Call -> CallType] BY CallsTyped
<1>2. call' = [call EXCEPT ![c] = [call[c] EXCEPT !.pc = pc]] BY <1>1 DEF Goto
<1>3. [call[c] EXCEPT !.pc = pc] \in CallType BY <1>1 DEF CallType
<1> QED BY <1>1, <1>2, <1>3 DEF Becomes, CallType

\* A failed attempt leaves a call that waits or has failed, with nothing received.
LEMMA FailsBecomes ==
  ASSUME TypeOK, NEW c \in Call, NEW retryable \in BOOLEAN, AttemptFails(c, retryable)
  PROVE  /\ Becomes(c, "delaying") \/ Becomes(c, "failed")
         /\ call'[c].fd = "none" /\ call'[c].received = 0 /\ call'[c].intact
         /\ call'[c].pc = "delaying" => call'[c].attempt < MaxRetries
<1>1. call \in [Call -> CallType] BY CallsTyped
<1>2. Closed(c) \in CallType /\ [Closed(c) EXCEPT !.pc = "delaying"] \in CallType
  <2>1. [call[c] EXCEPT !.fd = "none"] \in CallType BY <1>1 DEF CallType, Fds
  <2>2. [[call[c] EXCEPT !.fd = "none"] EXCEPT !.received = 0] \in CallType
    BY <2>1 DEF CallType
  <2>3. [[[call[c] EXCEPT !.fd = "none"] EXCEPT !.received = 0] EXCEPT !.intact = TRUE] \in CallType
    BY <2>2 DEF CallType
  <2>4. Closed(c) \in CallType BY <2>3 DEF Closed
  <2> QED BY <2>4 DEF CallType, Pcs
<1>3. /\ [Closed(c) EXCEPT !.pc = "delaying"].fd = "none"
      /\ [Closed(c) EXCEPT !.pc = "delaying"].received = 0
      /\ [Closed(c) EXCEPT !.pc = "delaying"].intact
      /\ [Closed(c) EXCEPT !.pc = "delaying"].path = call[c].path
      /\ [Closed(c) EXCEPT !.pc = "delaying"].pc = "delaying"
      /\ [Closed(c) EXCEPT !.pc = "delaying"].attempt = call[c].attempt
  BY <1>1 DEF Closed, CallType
<1>4. call[c].path \in Path BY <1>1 DEF CallType
<1> DEFINE failed == [Idle(call[c].path) EXCEPT !.pc = "failed"]
<1>5. failed \in CallType /\ failed.pc = "failed" /\ failed.fd = "none" /\ failed.received = 0
      /\ failed.intact /\ failed.path = call[c].path
  BY <1>4, IdleTyped DEF CallType, Pcs
<1>6. \/ /\ call' = [call EXCEPT ![c] = [Closed(c) EXCEPT !.pc = "delaying"]]
         /\ call[c].attempt < MaxRetries
      \/ call' = [call EXCEPT ![c] = failed]
  BY <1>1 DEF AttemptFails
<1> QED BY <1>1, <1>2, <1>3, <1>5, <1>6 DEF Becomes

\* Two records of a call that differ in the place of the open file at most.
Alike(x, y) ==
  /\ x.pc = y.pc
  /\ x.file = y.file
  /\ x.path = y.path
  /\ x.attempt = y.attempt
  /\ x.received = y.received
  /\ x.intact = y.intact
  /\ x.fd # "none" <=> y.fd # "none"

\* Follow moves descriptors, and leaves alone all else and the calls of other paths.
LEMMA FollowFacts ==
  ASSUME NEW calls \in [Call -> CallType], NEW p \in Path,
         NEW where \in {[tmp |-> "gone"], [tmp |-> "dest", dest |-> "gone"]}
  PROVE  \A d \in Call : /\ Follow(calls, p, where)[d] \in CallType
                         /\ Alike(Follow(calls, p, where)[d], calls[d])
                         /\ calls[d].path # p => Follow(calls, p, where)[d] = calls[d]
<1>1. \A d \in Call : calls[d].fd \in DOMAIN where =>
        calls[d].fd # "none" /\ where[calls[d].fd] \in Fds \ {"none"}
  BY DEF Fds
<1>2. ASSUME NEW d \in Call, calls[d].path = p, calls[d].fd \in DOMAIN where
      PROVE  [calls[d] EXCEPT !.fd = where[calls[d].fd]] \in CallType
  BY <1>1, <1>2 DEF CallType
<1>3. \A d \in Call : Follow(calls, p, where)[d] =
        IF calls[d].path = p /\ calls[d].fd \in DOMAIN where
          THEN [calls[d] EXCEPT !.fd = where[calls[d].fd]] ELSE calls[d]
  BY DEF Follow
<1>4. \A d \in Call : calls[d] \in CallType OBVIOUS
<1>5. \A d \in Call : Follow(calls, p, where)[d] \in CallType BY <1>2, <1>3, <1>4
<1>6. \A d \in Call : Alike(Follow(calls, p, where)[d], calls[d])
  BY <1>1, <1>3, <1>4, ZenonT(60) DEF CallType, Alike
<1> QED BY <1>3, <1>5, <1>6

LEMMA RetryBecomes ==
  ASSUME TypeOK, AttemptsLeft, NEW c \in Call, Retry(c)
  PROVE  /\ Becomes(c, "opening")
         /\ call'[c].fd = call[c].fd /\ call'[c].received = call[c].received
         /\ call'[c].intact = call[c].intact
<1>1. call \in [Call -> CallType] BY CallsTyped
<1> DEFINE x == [[call[c] EXCEPT !.pc = "opening"] EXCEPT !.attempt = call[c].attempt + 1]
<1>2. call' = [call EXCEPT ![c] = x] BY <1>1 DEF Retry
<1>3. call[c].attempt + 1 \in 0..MaxRetries
  BY <1>1, MaxRetriesAssumption DEF Retry, AttemptsLeft, CallType
<1>4. [call[c] EXCEPT !.pc = "opening"] \in CallType BY <1>1 DEF CallType, Pcs
<1>5. x \in CallType /\ x.pc = "opening" /\ x.path = call[c].path /\ x.fd = call[c].fd
      /\ x.received = call[c].received /\ x.intact = call[c].intact
  BY <1>1, <1>3, <1>4 DEF CallType
<1> QED BY <1>1, <1>2, <1>5 DEF Becomes

LEMMA CreateBecomes ==
  ASSUME TypeOK, NEW c \in Call, Create(c)
  PROVE  /\ Becomes(c, "receiving")
         /\ call'[c].fd = "tmp" /\ call'[c].file = call[c].file
         /\ call'[c].received = call[c].received /\ call'[c].intact = call[c].intact
<1>1. call \in [Call -> CallType] BY CallsTyped
<1> DEFINE x == [[call[c] EXCEPT !.pc = "receiving"] EXCEPT !.fd = "tmp"]
<1>2. call' = [call EXCEPT ![c] = x] BY <1>1 DEF Create
<1>3. [call[c] EXCEPT !.pc = "receiving"] \in CallType BY <1>1 DEF CallType, Pcs
<1>4. x \in CallType /\ x.pc = "receiving" /\ x.path = call[c].path /\ x.fd = "tmp"
      /\ x.file = call[c].file /\ x.received = call[c].received /\ x.intact = call[c].intact
  BY <1>1, <1>3 DEF CallType, Fds
<1> QED BY <1>1, <1>2, <1>4 DEF Becomes

LEMMA ReceiveEOFBecomes ==
  ASSUME TypeOK, NEW c \in Call, ReceiveEOF(c)
  PROVE  Becomes(c, "renaming") /\ call'[c].fd = "none" /\ call'[c].file = call[c].file
<1>1. call \in [Call -> CallType] BY CallsTyped
<1> DEFINE x == [[call[c] EXCEPT !.pc = "renaming"] EXCEPT !.fd = "none"]
<1>2. call' = [call EXCEPT ![c] = x] BY <1>1 DEF ReceiveEOF
<1>3. [call[c] EXCEPT !.pc = "renaming"] \in CallType BY <1>1 DEF CallType, Pcs
<1>4. x \in CallType /\ x.pc = "renaming" /\ x.path = call[c].path /\ x.fd = "none"
      /\ x.file = call[c].file
  BY <1>1, <1>3 DEF CallType, Fds
<1> QED BY <1>1, <1>2, <1>4 DEF Becomes

\* What ReceiveChunk makes of the call and of the file its descriptor leads to.
LEMMA ReceiveChunkBecomes ==
  ASSUME TypeOK, NEW c \in Call, ReceiveChunk(c)
  PROVE  LET f == call[c].file
             p == call[c].path
             i == call[c].received + 1
         IN \E right \in BOOLEAN :
              /\ Becomes(c, IF i = Chunks[f] THEN "verifying" ELSE "receiving")
              /\ call'[c].fd = IF i = Chunks[f] THEN "none" ELSE call[c].fd
              /\ call'[c].file = f /\ call'[c].received = i
              /\ call'[c].intact = (call[c].intact /\ right)
              /\ tmp' = IF call[c].fd = "tmp"
                          THEN [tmp EXCEPT ![p] = WriteAt(tmp[p], f, i, right)] ELSE tmp
              /\ dest' = IF call[c].fd = "dest"
                           THEN [dest EXCEPT ![p] = WriteAt(dest[p], f, i, right)] ELSE dest
<1> DEFINE f == call[c].file
           p == call[c].path
           i == call[c].received + 1
           pc == IF i = Chunks[f] THEN "verifying" ELSE call[c].pc
           fd == IF i = Chunks[f] THEN "none" ELSE call[c].fd
<1>1. call \in [Call -> CallType] BY CallsTyped
<1>2. call[c].pc = "receiving" BY DEF ReceiveChunk
<1>p. p \in Path /\ i \in Nat /\ pc \in Pcs /\ fd \in Fds BY <1>1 DEF CallType, Pcs, Fds
<1>3. PICK right \in BOOLEAN :
        /\ call' = [call EXCEPT ![c].received = i, ![c].intact = @ /\ right,
                                ![c].pc = IF i = Chunks[f] THEN "verifying" ELSE @,
                                ![c].fd = IF i = Chunks[f] THEN "none" ELSE @]
        /\ tmp' = IF call[c].fd = "tmp"
                    THEN [tmp EXCEPT ![p] = WriteAt(@, f, i, right)] ELSE tmp
        /\ dest' = IF call[c].fd = "dest"
                     THEN [dest EXCEPT ![p] = WriteAt(@, f, i, right)] ELSE dest
  BY DEF ReceiveChunk
<1>4. /\ tmp' = IF call[c].fd = "tmp"
                  THEN [tmp EXCEPT ![p] = WriteAt(tmp[p], f, i, right)] ELSE tmp
      /\ dest' = IF call[c].fd = "dest"
                   THEN [dest EXCEPT ![p] = WriteAt(dest[p], f, i, right)] ELSE dest
  BY <1>3, <1>p, CallsTyped
<1> DEFINE x == [[[[call[c] EXCEPT !.received = i] EXCEPT !.intact = call[c].intact /\ right]
                   EXCEPT !.pc = pc] EXCEPT !.fd = fd]
<1>5. call' = [call EXCEPT ![c] = x] BY <1>1, <1>3
<1>6. /\ x \in CallType /\ x.pc = pc /\ x.path = p /\ x.fd = fd /\ x.file = f
      /\ x.received = i /\ x.intact = (call[c].intact /\ right)
  <2>1. [call[c] EXCEPT !.received = i] \in CallType BY <1>1, <1>p DEF CallType
  <2>2. (call[c].intact /\ right) \in BOOLEAN OBVIOUS
  <2>3. [[call[c] EXCEPT !.received = i] EXCEPT !.intact = call[c].intact /\ right] \in CallType
    BY <2>1, <2>2 DEF CallType
  <2> QED BY <1>1, <1>p, <2>3 DEF CallType
<1> QED BY <1>1, <1>2, <1>4, <1>5, <1>6 DEF Becomes

\* A call that ends by removing or renaming the temporary file: the descriptors of others
\* at its path follow, and nothing else of their calls changes.
Leaves(c, pc) ==
  /\ call' \in [Call -> CallType]
  /\ \A d \in Call \ {c} :
       Alike(call'[d], call[d]) /\ (call[d].path # call[c].path => call'[d] = call[d])
  /\ call'[c].pc = pc /\ call'[c].path = call[c].path /\ call'[c].fd = "none"

LEMMA LeavesFacts ==
  ASSUME TypeOK, NEW c \in Call, NEW x \in CallType,
         x.path = call[c].path, x.fd = "none",
         NEW where \in {[tmp |-> "gone"], [tmp |-> "dest", dest |-> "gone"]},
         call' = Follow([call EXCEPT ![c] = x], call[c].path, where)
  PROVE  Leaves(c, x.pc)
<1> DEFINE calls == [call EXCEPT ![c] = x]
<1>1. call \in [Call -> CallType] BY CallsTyped
<1>2. calls \in [Call -> CallType] /\ call[c].path \in Path BY <1>1 DEF CallType
<1>3. calls[c] = x /\ \A d \in Call \ {c} : calls[d] = call[d] BY <1>1
<1>4. call' = Follow(calls, call[c].path, where) OBVIOUS
<1> HIDE DEF calls
<1>5. \A d \in Call : /\ call'[d] \in CallType
                      /\ Alike(call'[d], calls[d])
                      /\ calls[d].path # call[c].path => call'[d] = calls[d]
  BY <1>2, <1>4, FollowFacts
<1>6. \A d \in Call \ {c} :
        Alike(call'[d], call[d]) /\ (call[d].path # call[c].path => call'[d] = call[d])
  BY <1>3, <1>5
<1>7. call'[c].pc = x.pc /\ call'[c].path = x.path /\ call'[c].fd = "none"
  BY <1>3, <1>5 DEF Alike
<1>8. call' \in [Call -> CallType]
  <2>1. call' = [d \in Call |-> call'[d]] BY <1>4 DEF Follow
  <2> QED BY <2>1, <1>5
<1> QED BY <1>6, <1>7, <1>8 DEF Leaves

LEMMA MismatchLeaves ==
  ASSUME TypeOK, NEW c \in Call, Mismatch(c)
  PROVE  Leaves(c, "failed")
<1>1. call[c].path \in Path BY CallsTyped DEF CallType
<1> DEFINE x == [Idle(call[c].path) EXCEPT !.pc = "failed"]
<1>2. x \in CallType /\ x.path = call[c].path /\ x.fd = "none" /\ x.pc = "failed"
  BY <1>1, IdleTyped DEF CallType, Pcs
<1>3. call' = Follow([call EXCEPT ![c] = x], call[c].path, [tmp |-> "gone"]) BY DEF Mismatch
<1> HIDE DEF x
<1> QED BY <1>2, <1>3, LeavesFacts

LEMMA RenameLeaves ==
  ASSUME TypeOK, NEW c \in Call, Rename(c)
  PROVE  Leaves(c, "idle")
<1>1. call[c].path \in Path BY CallsTyped DEF CallType
<1> DEFINE x == Idle(call[c].path)
<1>2. x \in CallType /\ x.path = call[c].path /\ x.fd = "none" /\ x.pc = "idle"
  BY <1>1, IdleTyped
<1>3. call' = Follow([call EXCEPT ![c] = x], call[c].path, [tmp |-> "dest", dest |-> "gone"])
  BY DEF Rename
<1> HIDE DEF x
<1> QED BY <1>2, <1>3, LeavesFacts

\* Start gives a call a path, which is shared from then on if another is active there.
LEMMA StartBecomes ==
  ASSUME TypeOK, NEW c \in Call, Start(c)
  PROVE  \E p \in Path :
           /\ call' \in [Call -> CallType]
           /\ \A d \in Call \ {c} : call'[d] = call[d]
           /\ call'[c].pc = "opening" /\ call'[c].path = p /\ call'[c].fd = "none"
           /\ call'[c].received = 0 /\ call'[c].intact
           /\ shared' = IF \E d \in Call \ {c} : Active(d) /\ call[d].path = p
                          THEN shared \cup {p} ELSE shared
<1>1. PICK f \in File, p \in Path :
        /\ call' = [call EXCEPT ![c] = [Idle(p) EXCEPT !.pc = "opening", !.file = f,
                                                      !.attempt = 1]]
        /\ shared' = IF \E d \in Call \ {c} : Active(d) /\ call[d].path = p
                       THEN shared \cup {p} ELSE shared
  BY DEF Start
<1> DEFINE x == [[[Idle(p) EXCEPT !.pc = "opening"] EXCEPT !.file = f] EXCEPT !.attempt = 1]
<1>2. [Idle(p) EXCEPT !.pc = "opening", !.file = f, !.attempt = 1] = x OBVIOUS
<1>3. 1 \in 0..MaxRetries BY MaxRetriesAssumption
<1>4. [Idle(p) EXCEPT !.pc = "opening"] \in CallType BY IdleTyped DEF CallType, Pcs
<1>5. [[Idle(p) EXCEPT !.pc = "opening"] EXCEPT !.file = f] \in CallType BY <1>4 DEF CallType
<1>6. /\ x \in CallType /\ x.pc = "opening" /\ x.path = p /\ x.fd = "none"
      /\ x.received = 0 /\ x.intact
  BY <1>3, <1>5, IdleTyped DEF CallType
<1>7. call' = [call EXCEPT ![c] = x] BY <1>1, <1>2
<1>8. call \in [Call -> CallType] BY CallsTyped
<1> HIDE DEF x
<1>9. /\ call' \in [Call -> CallType]
      /\ \A d \in Call \ {c} : call'[d] = call[d]
      /\ call'[c] = x
  BY <1>6, <1>7, <1>8
<1>10. /\ call'[c].pc = "opening" /\ call'[c].path = p /\ call'[c].fd = "none"
       /\ call'[c].received = 0 /\ call'[c].intact
  BY <1>6, <1>9
<1> WITNESS p \in Path
<1> QED BY <1>1, <1>9, <1>10

(***************************************************************************)
(* Types.                                                                  *)
(***************************************************************************)
LEMMA InitType == Init => TypeOK
<1> SUFFICES ASSUME Init PROVE TypeOK
  OBVIOUS
<1>1. PICK p \in Path : call = [c \in Call |-> Idle(p)] BY DEF Init
<1>2. call \in [Call -> CallType] /\ OpenWhileReceiving
  BY <1>1, IdleTyped DEF OpenWhileReceiving
<1> QED BY <1>2, CallsTyped DEF Init

\* What may be written keeps a file a content.
LEMMA WriteTyped ==
  ASSUME NEW f \in File, NEW n \in Nat, n <= Chunks[f], NEW s, NEW right
  PROVE  WriteAt(s, f, n, right) \in Content
BY BeginningTyped DEF WriteAt, Content

LEMMA NextType == TypeOK /\ AttemptsLeft /\ [Next]_vars => TypeOK' /\ AttemptsLeft'
<1> SUFFICES ASSUME TypeOK, AttemptsLeft, [Next]_vars PROVE TypeOK' /\ AttemptsLeft'
  OBVIOUS
<1>a. call \in [Call -> CallType] /\ OpenWhileReceiving BY CallsTyped
<1>b. TypeOK' <=> /\ call' \in [Call -> CallType] /\ OpenWhileReceiving'
                  /\ dest' \in [Path -> Content \cup {NoFile}]
                  /\ tmp' \in [Path -> Content \cup {NoFile}]
                  /\ cancelled' \in BOOLEAN /\ silent' \in BOOLEAN
                  /\ shared' \subseteq Path
  BY DEF TypeOK, CallType, Pcs, Fds, OpenWhileReceiving
<1>1. ASSUME NEW c \in Call, Start(c) PROVE TypeOK' /\ AttemptsLeft'
  <2>1. /\ call' \in [Call -> CallType] /\ shared' \subseteq Path
        /\ \A d \in Call \ {c} : call'[d] = call[d]
        /\ call'[c].pc = "opening" /\ call'[c].fd = "none"
    BY <1>1, StartBecomes, CallsTyped
  <2>2. OpenWhileReceiving' /\ AttemptsLeft'
    BY <2>1, <1>a DEF OpenWhileReceiving, AttemptsLeft
  <2>3. UNCHANGED <<dest, tmp, cancelled, silent>> BY <1>1 DEF Start, disk, environment
  <2> QED BY <2>1, <2>2, <2>3, <1>b, CallsTyped
<1>2. ASSUME NEW c \in Call, CallStep(c) PROVE TypeOK' /\ AttemptsLeft'
  <2>1. UNCHANGED <<cancelled, silent, shared>>
    BY <1>2 DEF CallStep, Retry, RetryCancelled, OpenFails, Create, ReceiveChunk, ReceiveEOF,
              ReceiveFails, Verified, Mismatch, Rename, RenameFails, environment
  <2>2. /\ call' \in [Call -> CallType] /\ OpenWhileReceiving' /\ AttemptsLeft'
    <3>1. CASE \E retryable \in BOOLEAN : AttemptFails(c, retryable)
      BY <3>1, <1>a, FailsBecomes DEF Becomes, OpenWhileReceiving, AttemptsLeft
    <3>2. CASE Retry(c)
      BY <3>2, <1>a, RetryBecomes DEF Retry, Becomes, OpenWhileReceiving, AttemptsLeft
    <3>3. CASE Create(c)
      BY <3>3, <1>a, CreateBecomes DEF Becomes, OpenWhileReceiving, AttemptsLeft
    <3>4. CASE ReceiveChunk(c)
      <4>1. call[c].pc = "receiving" BY <3>4 DEF ReceiveChunk
      <4> DEFINE last == call[c].received + 1 = Chunks[call[c].file]
      <4>2. /\ Becomes(c, IF last THEN "verifying" ELSE "receiving")
            /\ call'[c].fd = IF last THEN "none" ELSE call[c].fd
        BY <3>4, ReceiveChunkBecomes
      <4> QED BY <4>1, <4>2, <1>a DEF Becomes, OpenWhileReceiving, AttemptsLeft
    <3>5. CASE ReceiveEOF(c)
      BY <3>5, <1>a, ReceiveEOFBecomes DEF Becomes, OpenWhileReceiving, AttemptsLeft
    <3>6. CASE Verified(c)
      <4>1. Becomes(c, "renaming") /\ call'[c].fd = call[c].fd /\ call[c].pc = "verifying"
        BY <3>6, GotoBecomes DEF Verified, Pcs
      <4> QED BY <4>1, <1>a DEF Becomes, OpenWhileReceiving, AttemptsLeft
    <3>7. CASE Mismatch(c) \/ Rename(c)
      <4>1. Leaves(c, "failed") \/ Leaves(c, "idle") BY <3>7, MismatchLeaves, RenameLeaves
      <4> QED BY <4>1, <1>a DEF Leaves, Alike, OpenWhileReceiving, AttemptsLeft
    <3>8. /\ RetryCancelled(c) => AttemptFails(c, FALSE)
          /\ OpenFails(c) \/ ReceiveFails(c) \/ RenameFails(c)
               => \E retryable \in BOOLEAN : AttemptFails(c, retryable)
      BY DEF RetryCancelled, OpenFails, ReceiveFails, RenameFails
    <3> QED BY <1>2, <3>1, <3>2, <3>3, <3>4, <3>5, <3>6, <3>7, <3>8 DEF CallStep
  <2>3. /\ dest' \in [Path -> Content \cup {NoFile}]
        /\ tmp' \in [Path -> Content \cup {NoFile}]
    <3>0. call[c].file \in File /\ call[c].path \in Path BY <1>a DEF CallType
    <3>1. CASE Create(c)
      <4>1. Beginning(call[c].file, 0) \in Content
        BY <3>0, BeginningTyped, ChunksAssumption
      <4> QED BY <3>1, <4>1, CallsTyped DEF Create
    <3>2. CASE ReceiveChunk(c)
      <4>1. call[c].received + 1 \in Nat /\ call[c].received + 1 <= Chunks[call[c].file]
        BY <3>2, <1>a DEF ReceiveChunk, CallType
      <4>2. \A s, right :
              WriteAt(s, call[c].file, call[c].received + 1, right) \in Content
        BY <3>0, <4>1, WriteTyped
      <4> QED BY <3>0, <3>2, <4>2, ReceiveChunkBecomes, CallsTyped
    <3>3. CASE Mismatch(c) BY <3>3, CallsTyped DEF Mismatch
    <3>4. CASE Rename(c) BY <3>0, <3>4, CallsTyped DEF Rename
    <3>5. CASE UNCHANGED disk BY <3>5, CallsTyped DEF disk
    <3> QED BY <1>2, <3>1, <3>2, <3>3, <3>4, <3>5
            DEF CallStep, Retry, RetryCancelled, OpenFails, ReceiveEOF, ReceiveFails, Verified,
                RenameFails
  <2> QED BY <2>1, <2>2, <2>3, <1>b, CallsTyped
<1>3. CASE Crash
  <2>1. \A c \in Call : call[c].path \in Path BY <1>a DEF CallType
  <2>2. call' \in [Call -> CallType] /\ OpenWhileReceiving' /\ AttemptsLeft'
    BY <1>3, <2>1, IdleTyped DEF Crash, OpenWhileReceiving, AttemptsLeft
  <2> QED BY <1>3, <2>2, <1>b, CallsTyped DEF Crash, disk
<1>4. CASE Cancel \/ SilenceChanges \/ UNCHANGED vars
  <2>1. UNCHANGED <<call, dest, tmp, shared>> /\ cancelled' \in BOOLEAN /\ silent' \in BOOLEAN
    BY <1>4 DEF Cancel, SilenceChanges, vars, disk, environment, TypeOK
  <2> QED BY <2>1, <1>b, CallsTyped DEF OpenWhileReceiving, AttemptsLeft
<1> QED BY <1>1, <1>2, <1>3, <1>4 DEF Next

(***************************************************************************)
(* What a step leaves true of the other calls and of other paths.          *)
(***************************************************************************)
\* What is known of a call whose record stays, if its path gets shared or its temporary
\* file stays as it is.
LEMMA Untouched ==
  ASSUME NEW d \in Call, CallInv(d), call'[d] = call[d],
         shared \subseteq shared',
         call[d].path \notin shared' => tmp'[call[d].path] = tmp[call[d].path]
  PROVE  CallInv(d)'
<1>1. StartsClean(d)' BY DEF CallInv, StartsClean
<1>2. call'[d].path \notin shared' => Holds(d)' BY DEF CallInv, Holds
<1> QED BY <1>1, <1>2 DEF CallInv

\* A step of an active call at its own path.
StepsAt(c) ==
  /\ Active(c)
  /\ shared' = shared
  /\ call'[c].path = call[c].path
  /\ \A d \in Call \ {c} :
       Alike(call'[d], call[d]) /\ (call[d].path # call[c].path => call'[d] = call[d])
  /\ \A p \in Path \ {call[c].path} : tmp'[p] = tmp[p] /\ dest'[p] = dest[p]

LEMMA OthersKeep ==
  ASSUME IInv, NEW c \in Call, StepsAt(c)
  PROVE  Alone' /\ \A d \in Call \ {c} : CallInv(d)'
<1>a. \A d \in Call : call[d].path \in Path BY CallsTyped DEF IInv, CallType
<1>1. \A d \in Call : /\ call'[d].path = call[d].path
                      /\ Active(d)' => Active(d)
  BY DEF StepsAt, Alike, Active
<1>2. Alone'
  <2>1. \A d \in Call : call'[d].path = call[d].path /\ (Active(d)' => Active(d)) BY <1>1
  <2> QED BY <2>1 DEF IInv, Alone, StepsAt
<1>3. ASSUME NEW d \in Call \ {c}, call[d].path # call[c].path PROVE CallInv(d)'
  <2>1. call'[d] = call[d] /\ tmp'[call[d].path] = tmp[call[d].path] BY <1>3, <1>a DEF StepsAt
  <2> QED BY <2>1, Untouched DEF IInv, StepsAt
<1>4. ASSUME NEW d \in Call \ {c}, call[d].path = call[c].path PROVE CallInv(d)'
  <2>1. StartsClean(d)' BY DEF StepsAt, Alike, IInv, CallInv, StartsClean
  <2>2. CASE Active(d)
    <3>1. call'[d].path \in shared' BY <1>1, <1>4, <2>2 DEF IInv, Alone, StepsAt
    <3> QED BY <2>1, <3>1 DEF CallInv
  <2>3. CASE ~Active(d)
    <3>1. ~Active(d)' BY <1>1, <2>3
    <3> QED BY <2>1, <3>1 DEF CallInv, Holds, Active
  <2> QED BY <2>2, <2>3
<1> QED BY <1>2, <1>3, <1>4

\* The destination stays whole where the step leaves it alone.
LEMMA DestinationKept ==
  ASSUME IInv, NEW c \in Call, StepsAt(c),
         call[c].path \notin shared => dest'[call[c].path] = dest[call[c].path]
  PROVE  DestinationWhole'
BY DEF IInv, DestinationWhole, StepsAt

(***************************************************************************)
(* The steps of a call.                                                    *)
(***************************************************************************)
\* A step that changes one call and at most the temporary file at its path.
LEMMA BecomesSteps ==
  ASSUME TypeOK, NEW c \in Call, Active(c), NEW pc, Becomes(c, pc), UNCHANGED shared,
         \A p \in Path \ {call[c].path} : tmp'[p] = tmp[p] /\ dest'[p] = dest[p]
  PROVE  StepsAt(c)
BY DEF Becomes, StepsAt, Alike

LEMMA CallStepKeeps ==
  ASSUME IInv, NEW c \in Call, CallStep(c)
  PROVE  Alone' /\ DestinationWhole' /\ \A d \in Call : CallInv(d)'
<1> DEFINE p == call[c].path
           f == call[c].file
<1>a. TypeOK /\ AttemptsLeft /\ CallInv(c) BY DEF IInv
<1>b. call[c] \in CallType /\ p \in Path /\ f \in File BY <1>a, CallsTyped DEF CallType
<1>c. Active(c) /\ UNCHANGED shared
  BY DEF CallStep, Retry, RetryCancelled, OpenFails, Create, ReceiveChunk, ReceiveEOF,
         ReceiveFails, Verified, Mismatch, Rename, RenameFails, AttemptFails, Active, Goto
<1>d. SUFFICES StepsAt(c) /\ DestinationWhole' /\ CallInv(c)'
  BY OthersKeep
<1>1. CASE UNCHANGED disk /\ \E retryable \in BOOLEAN : AttemptFails(c, retryable)
  <2>1. /\ Becomes(c, "delaying") \/ Becomes(c, "failed")
        /\ call'[c].received = 0 /\ call'[c].intact
    BY <1>1, <1>a, FailsBecomes
  <2>2. StepsAt(c) BY <1>1, <1>a, <1>c, <2>1, BecomesSteps DEF disk
  <2>3. DestinationWhole' BY <1>1, <2>2, DestinationKept DEF disk
  <2>4. CallInv(c)' BY <2>1 DEF Becomes, CallInv, StartsClean, Holds
  <2> QED BY <2>2, <2>3, <2>4
<1>2. CASE Retry(c)
  <2>1. /\ Becomes(c, "opening") /\ call[c].pc = "delaying"
        /\ call'[c].received = call[c].received /\ call'[c].intact = call[c].intact
    BY <1>2, <1>a, RetryBecomes DEF Retry
  <2>2. StepsAt(c) BY <1>2, <1>a, <1>c, <2>1, BecomesSteps DEF Retry, disk
  <2>3. DestinationWhole' BY <1>2, <2>2, DestinationKept DEF Retry, disk
  <2>4. CallInv(c)' BY <1>a, <2>1 DEF Becomes, CallInv, StartsClean, Holds
  <2> QED BY <2>2, <2>3, <2>4
<1>3. CASE Create(c)
  <2>1. /\ Becomes(c, "receiving") /\ call[c].pc = "opening"
        /\ call'[c].fd = "tmp" /\ call'[c].file = f
        /\ call'[c].received = call[c].received /\ call'[c].intact = call[c].intact
        /\ tmp' = [tmp EXCEPT ![p] = Beginning(f, 0)] /\ UNCHANGED dest
    BY <1>3, <1>a, CreateBecomes DEF Create
  <2>2. tmp'[p] = Beginning(f, 0) /\ \A q \in Path \ {p} : tmp'[q] = tmp[q]
    BY <1>a, <1>b, <2>1, CallsTyped
  <2>3. StepsAt(c) BY <1>a, <1>c, <2>1, <2>2, BecomesSteps
  <2>4. DestinationWhole' BY <2>1, <2>3, DestinationKept
  <2>5. Chunks[f] \in Nat BY <1>b, ChunksAssumption
  <2>6. CallInv(c)' BY <1>a, <2>1, <2>2, <2>5 DEF Becomes, CallInv, StartsClean, Holds
  <2> QED BY <2>3, <2>4, <2>6
<1>4. CASE ReceiveChunk(c)
  <2> DEFINE i == call[c].received + 1
             pc == IF i = Chunks[f] THEN "verifying" ELSE "receiving"
  <2>1. PICK right \in BOOLEAN :
          /\ Becomes(c, pc)
          /\ call'[c].fd = IF i = Chunks[f] THEN "none" ELSE call[c].fd
          /\ call'[c].file = f /\ call'[c].received = i
          /\ call'[c].intact = (call[c].intact /\ right)
          /\ tmp' = IF call[c].fd = "tmp"
                      THEN [tmp EXCEPT ![p] = WriteAt(tmp[p], f, i, right)] ELSE tmp
          /\ dest' = IF call[c].fd = "dest"
                       THEN [dest EXCEPT ![p] = WriteAt(dest[p], f, i, right)] ELSE dest
    BY <1>4, <1>a, ReceiveChunkBecomes
  <2>2. /\ call[c].pc = "receiving" /\ i <= Chunks[f]
        /\ i \in Nat /\ i # 0 /\ i - 1 = call[c].received
    BY <1>4, <1>b DEF ReceiveChunk, CallType
  <2>3. \A q \in Path \ {p} : tmp'[q] = tmp[q] /\ dest'[q] = dest[q]
    BY <1>a, <1>b, <2>1, CallsTyped
  <2>4. StepsAt(c) BY <1>a, <1>c, <2>1, <2>3, BecomesSteps
  <2>5. p \notin shared => call[c].fd = "tmp"
    BY <1>a, <2>2 DEF CallInv, Holds
  <2>6. DestinationWhole' BY <2>1, <2>4, <2>5, DestinationKept
  <2>7. StartsClean(c)' BY <2>1, <2>2 DEF Becomes, StartsClean
  <2>8. ASSUME p \notin shared PROVE Holds(c)'
    <3>1. tmp'[p] = WriteAt(tmp[p], f, i, right)
      BY <1>a, <1>b, <2>1, <2>5, <2>8, CallsTyped
    <3>2. call'[c].intact => tmp'[p] = Beginning(f, i)
      BY <1>a, <2>1, <2>2, <2>8, <3>1 DEF CallInv, Holds, WriteAt
    <3> QED BY <2>1, <2>5, <2>8, <3>2 DEF Becomes, Holds, Whole
  <2>9. CallInv(c)' BY <1>c, <2>1, <2>7, <2>8 DEF Becomes, CallInv
  <2> QED BY <2>4, <2>6, <2>9
<1>5. CASE ReceiveEOF(c)
  <2>1. /\ Becomes(c, "renaming") /\ call'[c].file = f
        /\ call[c].pc = "receiving" /\ Chunks[f] = 0 /\ UNCHANGED <<dest, tmp>>
    BY <1>5, <1>a, ReceiveEOFBecomes DEF ReceiveEOF, disk
  <2>2. StepsAt(c) BY <1>a, <1>c, <2>1, BecomesSteps
  <2>3. DestinationWhole' BY <2>1, <2>2, DestinationKept
  <2>4. CallInv(c)'
    <3>1. StartsClean(c)' BY <2>1 DEF Becomes, StartsClean
    <3>2. p \notin shared => tmp[p] = Whole(f)
      <4>1. call[c].received = 0
        <5>1. call[c].received \in Nat BY <1>b DEF CallType
        <5>2. call[c].received <= Chunks[f] BY <1>a, <2>1 DEF CallInv, StartsClean
        <5> QED BY <2>1, <5>1, <5>2
      <4> QED BY <1>a, <2>1, <4>1 DEF CallInv, StartsClean, Holds, Whole
    <3> QED BY <1>c, <2>1, <3>1, <3>2 DEF Becomes, CallInv, Holds
  <2> QED BY <2>2, <2>3, <2>4
<1>6. CASE Verified(c)
  <2>1. /\ Becomes(c, "renaming") /\ call'[c].file = f
        /\ call[c].pc = "verifying" /\ call[c].intact /\ UNCHANGED <<dest, tmp>>
    BY <1>6, <1>a, GotoBecomes DEF Verified, disk, Pcs
  <2>2. StepsAt(c) BY <1>a, <1>c, <2>1, BecomesSteps
  <2>3. DestinationWhole' BY <2>1, <2>2, DestinationKept
  <2>4. CallInv(c)' BY <1>a, <1>c, <2>1 DEF Becomes, CallInv, StartsClean, Holds
  <2> QED BY <2>2, <2>3, <2>4
<1>7. CASE Mismatch(c)
  <2>1. Leaves(c, "failed") /\ tmp' = [tmp EXCEPT ![p] = NoFile] /\ UNCHANGED dest
    BY <1>7, <1>a, MismatchLeaves DEF Mismatch
  <2>2. StepsAt(c) BY <1>a, <1>c, <2>1, CallsTyped DEF Leaves, StepsAt
  <2>3. DestinationWhole' BY <2>1, <2>2, DestinationKept
  <2>4. CallInv(c)' BY <2>1 DEF Leaves, CallInv, StartsClean, Holds
  <2> QED BY <2>2, <2>3, <2>4
<1>8. CASE Rename(c)
  <2>1. /\ Leaves(c, "idle") /\ call[c].pc = "renaming"
        /\ tmp' = [tmp EXCEPT ![p] = NoFile] /\ dest' = [dest EXCEPT ![p] = tmp[p]]
    BY <1>8, <1>a, RenameLeaves DEF Rename
  <2>2. /\ dest'[p] = tmp[p]
        /\ \A q \in Path \ {p} : tmp'[q] = tmp[q] /\ dest'[q] = dest[q]
    BY <1>a, <1>b, <2>1, CallsTyped
  <2>3. StepsAt(c) BY <1>c, <2>1, <2>2 DEF Leaves, StepsAt
  <2>4. p \notin shared => dest'[p] = Whole(f) BY <1>a, <2>1, <2>2 DEF CallInv, Holds
  <2>5. DestinationWhole' BY <1>b, <1>c, <2>2, <2>4 DEF IInv, DestinationWhole
  <2>6. CallInv(c)' BY <2>1 DEF Leaves, CallInv, StartsClean, Holds
  <2> QED BY <2>3, <2>5, <2>6
<1>9. /\ RetryCancelled(c) => UNCHANGED disk /\ AttemptFails(c, FALSE)
      /\ OpenFails(c) \/ ReceiveFails(c) \/ RenameFails(c)
           => UNCHANGED disk /\ \E retryable \in BOOLEAN : AttemptFails(c, retryable)
  BY DEF RetryCancelled, OpenFails, ReceiveFails, RenameFails
<1> QED BY <1>1, <1>2, <1>3, <1>4, <1>5, <1>6, <1>7, <1>8, <1>9 DEF CallStep

(***************************************************************************)
(* All steps together.                                                     *)
(***************************************************************************)
LEMMA InitIInv == Init => IInv
<1> SUFFICES ASSUME Init PROVE IInv
  OBVIOUS
<1>1. TypeOK BY InitType
<1>2. \A c \in Call : call[c].pc = "idle" BY IdleTyped DEF Init
<1>3. AttemptsLeft /\ Alone BY <1>2 DEF AttemptsLeft, Alone, Active
<1>4. DestinationWhole BY DEF Init, DestinationWhole
<1>5. \A c \in Call : CallInv(c) BY <1>2 DEF CallInv, StartsClean, Holds
<1> QED BY <1>1, <1>3, <1>4, <1>5 DEF IInv

LEMMA StartKeeps ==
  ASSUME IInv, NEW c \in Call, Start(c)
  PROVE  Alone' /\ DestinationWhole' /\ \A d \in Call : CallInv(d)'
<1>1. PICK p \in Path :
        /\ call' \in [Call -> CallType]
        /\ \A d \in Call \ {c} : call'[d] = call[d]
        /\ call'[c].pc = "opening" /\ call'[c].path = p /\ call'[c].fd = "none"
        /\ call'[c].received = 0 /\ call'[c].intact
        /\ shared' = IF \E d \in Call \ {c} : Active(d) /\ call[d].path = p
                       THEN shared \cup {p} ELSE shared
  BY StartBecomes DEF IInv
<1>2. UNCHANGED <<dest, tmp>> /\ shared \subseteq shared' BY <1>1 DEF Start, disk
<1>3. Alone'
  <2>1. ASSUME NEW d \in Call \ {c}, Active(d)', call'[d].path = p PROVE p \in shared'
    BY <1>1, <2>1 DEF Active
  <2>2. ASSUME NEW d \in Call \ {c}, NEW e \in Call \ {c}, d # e,
               Active(d)', Active(e)', call'[d].path = call'[e].path
        PROVE  call'[d].path \in shared'
    BY <1>1, <1>2, <2>2 DEF IInv, Alone, Active
  <2> QED BY <1>1, <2>1, <2>2 DEF Alone
<1>4. DestinationWhole' BY <1>2 DEF IInv, DestinationWhole
<1>5. \A d \in Call \ {c} : CallInv(d)' BY <1>1, <1>2, Untouched DEF IInv
<1>6. CallInv(c)' BY <1>1 DEF CallInv, StartsClean, Holds
<1> QED BY <1>3, <1>4, <1>5, <1>6

LEMMA NextIInv == IInv /\ [Next]_vars => IInv'
<1> SUFFICES ASSUME IInv, [Next]_vars PROVE IInv'
  OBVIOUS
<1>a. TypeOK' /\ AttemptsLeft' BY NextType DEF IInv
<1> SUFFICES Alone' /\ DestinationWhole' /\ \A c \in Call : CallInv(c)'
  BY <1>a DEF IInv
<1>1. ASSUME NEW c \in Call, Start(c) \/ CallStep(c)
      PROVE  Alone' /\ DestinationWhole' /\ \A d \in Call : CallInv(d)'
  BY <1>1, StartKeeps, CallStepKeeps
<1>2. CASE Crash
  <2>1. \A c \in Call : call[c].path \in Path BY CallsTyped DEF IInv, CallType
  <2>2. \A c \in Call : call'[c].pc = "idle" BY <1>2, <2>1, IdleTyped DEF Crash
  <2>3. DestinationWhole' BY <1>2 DEF Crash, disk, IInv, DestinationWhole
  <2> QED BY <2>2, <2>3 DEF Alone, Active, CallInv, StartsClean, Holds
<1>3. CASE Cancel \/ SilenceChanges \/ UNCHANGED vars
  <2>1. UNCHANGED <<call, dest, tmp, shared>> BY <1>3 DEF Cancel, SilenceChanges, vars, disk
  <2>2. \A c \in Call : CallInv(c)' BY <2>1, Untouched DEF IInv
  <2>3. Alone' /\ DestinationWhole' BY <2>1 DEF IInv, Alone, Active, DestinationWhole
  <2> QED BY <2>2, <2>3
<1> QED BY <1>1, <1>2, <1>3 DEF Next

LEMMA Invariant == Spec => []IInv
BY InitIInv, NextIInv, PTL DEF Spec

(***************************************************************************)
(* What follows.                                                           *)
(***************************************************************************)
\* Every variable keeps its type, and the files stay contents: a beginning of a server's
\* file or Garbage, never a mix that the model has no word for.
THEOREM TypeCorrect == Spec => []TypeOK
<1>1. IInv => TypeOK BY DEF IInv
<1> QED BY <1>1, Invariant, PTL

\* Whatever failed attempts, retries and crashes leave at <dest>.tmp, what DownloadFile has
\* renamed to a destination that calls do not share is a whole file of the server.
THEOREM DestinationsAreWhole == Spec => []DestinationWhole
<1>1. IInv => DestinationWhole BY DEF IInv
<1> QED BY <1>1, Invariant, PTL

\* A call of DownloadFile that is about to rename and report success has its own file, and
\* all of it, at the temporary path.
THEOREM SuccessIsOwnFile == Spec => []SuccessDelivers
<1>1. IInv => SuccessDelivers BY DEF IInv, CallInv, Holds, SuccessDelivers
<1> QED BY <1>1, Invariant, PTL
=============================================================================
