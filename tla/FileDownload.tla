---------------------------- MODULE FileDownload ----------------------------
(***************************************************************************)
(* GRPCClient.DownloadFile and downloadFileAttempt                         *)
(* (internal/agent/client/file_transfer.go), called by the goroutines of   *)
(* __download_file__ commands.  A call streams a file into <dest>.tmp,     *)
(* checks the MD5 of what it received, and renames it to <dest>; attempts  *)
(* that fail in a retryable way are repeated.  Nothing keeps two calls     *)
(* from having one destination, so a descriptor is told apart from the     *)
(* path it was opened at: it follows its file when that is renamed or      *)
(* removed by another call.  Bound: Call (calls at once).                  *)
(***************************************************************************)
EXTENDS Integers

CONSTANTS
  Call,        \* goroutines that download
  File,        \* the server's files
  Chunks,      \* per file: how many chunks the server sends
  Path,        \* destination paths
  NoFile,      \* what a path without a file holds
  Garbage,     \* a content that is not the beginning of a server's file
  MaxRetries   \* maxRetries, 5 in the code

ASSUME FileAssumption == File # {}
ASSUME ChunksAssumption == Chunks \in [File -> Nat]
ASSUME MaxRetriesAssumption == MaxRetries \in Nat \ {0}

VARIABLES
  call,       \* per call: where it is and what it works on
  dest,       \* per path: the content of the file at destPath, or NoFile
  tmp,        \* per path: the same for destPath + ".tmp"
  cancelled,  \* the context of the command stream is done
  silent,     \* the server (or the network) neither sends nor fails
  shared      \* history: paths two calls have downloaded to at once

vars == <<call, dest, tmp, cancelled, silent, shared>>
disk == <<dest, tmp>>
environment == <<cancelled, silent>>

\* fd is where the open file is now: "tmp", "dest", "gone" (no path leads to it).
Idle(p) == [pc |-> "idle", file |-> CHOOSE f \in File : TRUE, path |-> p, fd |-> "none",
            attempt |-> 0, received |-> 0, intact |-> TRUE]
Active(c) == call[c].pc \in {"opening", "receiving", "verifying", "renaming", "delaying"}
Goto(c, pc) == call' = [call EXCEPT ![c].pc = pc]

\* A file holds the beginning of a server's file, or else Garbage: wrong bytes, a hole
\* after another call's truncation, a mix of two files.
Beginning(f, n) == [i \in 1..n |-> <<f, i>>]
Whole(f) == Beginning(f, Chunks[f])
Content == {Garbage} \cup UNION {{Beginning(f, n) : n \in 0..Chunks[f]} : f \in File}

(***************************************************************************)
(* The start of a call, and the end of an attempt.                         *)
(***************************************************************************)
Start(c) ==
  /\ ~Active(c)
  /\ ~cancelled
  /\ \E f \in File, p \in Path :
       /\ call' = [call EXCEPT ![c] = [Idle(p) EXCEPT !.pc = "opening", !.file = f,
                                                     !.attempt = 1]]
       /\ shared' = IF \E d \in Call \ {c} : Active(d) /\ call[d].path = p
                      THEN shared \cup {p} ELSE shared
  /\ UNCHANGED <<disk, environment>>

\* What an attempt leaves of its call: it closes its file.
Closed(c) == [call[c] EXCEPT !.fd = "none", !.received = 0, !.intact = TRUE]

\* MUTANT of AttemptFails: retries are not counted.
AttemptFailsUncounted(c, retryable) ==
  call' = [call EXCEPT ![c] = IF retryable THEN [Closed(c) EXCEPT !.pc = "delaying"]
                              ELSE [Idle(@.path) EXCEPT !.pc = "failed"]]

\* The attempt returns an error; the call gives up, or waits for the next attempt.
\* The deferred clean-up looks at the outer err, which is nil: the temporary file
\* stays.
AttemptFails(c, retryable) ==
  call' = [call EXCEPT ![c] = IF retryable /\ @.attempt < MaxRetries
                              THEN [Closed(c) EXCEPT !.pc = "delaying"]
                              ELSE [Idle(@.path) EXCEPT !.pc = "failed"]]

\* MUTANT of Retry: the attempt is repeated with the same number.
RetryUncounted(c) ==
  /\ call[c].pc = "delaying"
  /\ Goto(c, "opening")
  /\ UNCHANGED <<disk, environment, shared>>

\* The select before a retry: the delay is over...
Retry(c) ==
  /\ call[c].pc = "delaying"
  /\ call' = [call EXCEPT ![c].pc = "opening", ![c].attempt = @ + 1]
  /\ UNCHANGED <<disk, environment, shared>>

\* ... or the context is done: ctx.Err().
RetryCancelled(c) ==
  /\ call[c].pc = "delaying"
  /\ cancelled
  /\ AttemptFails(c, FALSE)
  /\ UNCHANGED <<disk, environment, shared>>

(***************************************************************************)
(* One attempt: downloadFileAttempt.                                       *)
(***************************************************************************)
\* The stream, the directory or the temporary file cannot be created.
OpenFails(c) ==
  /\ call[c].pc = "opening"
  /\ \E retryable \in BOOLEAN : AttemptFails(c, retryable /\ ~cancelled)
  /\ UNCHANGED <<disk, environment, shared>>

\* MUTANT of Create: an existing temporary file is opened and not truncated.
CreateKeeps(c) ==
  /\ call[c].pc = "opening"
  /\ tmp' = [tmp EXCEPT ![call[c].path] = IF @ = NoFile THEN Beginning(call[c].file, 0) ELSE @]
  /\ call' = [call EXCEPT ![c].pc = "receiving", ![c].fd = "tmp"]
  /\ UNCHANGED <<dest, environment, shared>>

\* os.Create makes the file at <dest>.tmp or truncates it, whoever has it open.
Create(c) ==
  /\ call[c].pc = "opening"
  /\ tmp' = [tmp EXCEPT ![call[c].path] = Beginning(call[c].file, 0)]
  /\ call' = [call EXCEPT ![c].pc = "receiving", ![c].fd = "tmp"]
  /\ UNCHANGED <<dest, environment, shared>>

\* Descriptors of path p follow their file: where maps the places they move from.
Follow(calls, p, where) ==
  [d \in Call |-> IF calls[d].path = p /\ calls[d].fd \in DOMAIN where
                    THEN [calls[d] EXCEPT !.fd = where[@]] ELSE calls[d]]

\* A chunk written at place i of what a file holds: the i-th of f, or wrong bytes.
WriteAt(content, f, i, right) ==
  IF right /\ content = Beginning(f, i - 1) THEN Beginning(f, i) ELSE Garbage

\* stream.Recv returns a chunk, not necessarily the right bytes (the file may be
\* changing on the server); it is written and hashed.  After the last chunk the
\* loop ends and the file is closed.
ReceiveChunk(c) ==
  LET f == call[c].file
      p == call[c].path
      i == call[c].received + 1
  IN /\ call[c].pc = "receiving"
     /\ ~silent
     /\ ~cancelled
     /\ i <= Chunks[f]
     /\ \E right \in BOOLEAN :
          /\ tmp' = IF call[c].fd = "tmp"
                      THEN [tmp EXCEPT ![p] = WriteAt(@, f, i, right)] ELSE tmp
          /\ dest' = IF call[c].fd = "dest"
                       THEN [dest EXCEPT ![p] = WriteAt(@, f, i, right)] ELSE dest
          /\ call' = [call EXCEPT ![c].received = i, ![c].intact = @ /\ right,
                        ![c].pc = IF i = Chunks[f] THEN "verifying" ELSE @,
                        ![c].fd = IF i = Chunks[f] THEN "none" ELSE @]
     /\ UNCHANGED <<environment, shared>>

\* io.EOF: the server has nothing to send for an empty file.
ReceiveEOF(c) ==
  /\ call[c].pc = "receiving"
  /\ ~silent
  /\ ~cancelled
  /\ Chunks[call[c].file] = 0
  /\ call' = [call EXCEPT ![c].pc = "renaming", ![c].fd = "none"]
  /\ UNCHANGED <<disk, environment, shared>>

\* Recv or the write fails; a cancelled context ends Recv, and is not retryable.
ReceiveFails(c) ==
  /\ call[c].pc = "receiving"
  /\ ~silent \/ cancelled
  /\ \E retryable \in BOOLEAN : AttemptFails(c, retryable /\ ~cancelled)
  /\ UNCHANGED <<disk, environment, shared>>

\* MUTANT of Verified: the checksum is not compared.
VerifiedUnchecked(c) ==
  /\ call[c].pc = "verifying"
  /\ Goto(c, "renaming")
  /\ UNCHANGED <<disk, environment, shared>>

\* The MD5 of the received data is the one in the last chunk.
Verified(c) ==
  /\ call[c].pc = "verifying"
  /\ call[c].intact
  /\ Goto(c, "renaming")
  /\ UNCHANGED <<disk, environment, shared>>

\* It is not: the temporary file is removed; the error is not retryable.
Mismatch(c) ==
  LET p == call[c].path
  IN /\ call[c].pc = "verifying"
     /\ ~call[c].intact
     /\ tmp' = [tmp EXCEPT ![p] = NoFile]
     /\ call' = Follow([call EXCEPT ![c] = [Idle(p) EXCEPT !.pc = "failed"]], p,
                       [tmp |-> "gone"])
     /\ UNCHANGED <<dest, environment, shared>>

\* os.Rename(tempFile, destPath): whatever is at <dest>.tmp now.
Rename(c) ==
  LET p == call[c].path
  IN /\ call[c].pc = "renaming"
     /\ tmp[p] # NoFile
     /\ dest' = [dest EXCEPT ![p] = tmp[p]]
     /\ tmp' = [tmp EXCEPT ![p] = NoFile]
     /\ call' = Follow([call EXCEPT ![c] = Idle(p)], p, [tmp |-> "dest", dest |-> "gone"])
     /\ UNCHANGED <<environment, shared>>

\* The rename fails, always so when another call has renamed or removed the file.
\* The error names both paths, and so may contain a text that counts as retryable.
RenameFails(c) ==
  /\ call[c].pc = "renaming"
  /\ \E retryable \in BOOLEAN : AttemptFails(c, retryable)
  /\ UNCHANGED <<disk, environment, shared>>

(***************************************************************************)
(* The environment.                                                        *)
(***************************************************************************)
\* The agent crashes or is restarted: the files stay, no call goes on.
Crash ==
  /\ call' = [c \in Call |-> Idle(call[c].path)]
  /\ cancelled' = FALSE
  /\ UNCHANGED <<disk, silent, shared>>

Cancel ==
  /\ ~cancelled
  /\ cancelled' = TRUE
  /\ UNCHANGED <<call, disk, silent, shared>>

SilenceChanges ==
  /\ silent' = ~silent
  /\ UNCHANGED <<call, disk, cancelled, shared>>

Init ==
  /\ \E p \in Path : call = [c \in Call |-> Idle(p)]
  /\ dest = [p \in Path |-> NoFile]
  /\ tmp = [p \in Path |-> NoFile]
  /\ cancelled = FALSE
  /\ silent = FALSE
  /\ shared = {}

CallStep(c) ==
  \/ Retry(c)
  \/ RetryCancelled(c)
  \/ OpenFails(c)
  \/ Create(c)
  \/ ReceiveChunk(c)
  \/ ReceiveEOF(c)
  \/ ReceiveFails(c)
  \/ Verified(c)
  \/ Mismatch(c)
  \/ Rename(c)
  \/ RenameFails(c)

Next ==
  \/ \E c \in Call : Start(c) \/ CallStep(c)
  \/ Crash
  \/ Cancel
  \/ SilenceChanges

Spec == Init /\ [][Next]_vars

(***************************************************************************)
(* A call that can go on does; no RPC has a deadline, so a silent server   *)
(* holds it until the context is done.                                     *)
(***************************************************************************)
FairSpec == Spec /\ \A c \in Call : WF_vars(CallStep(c))

(***************************************************************************)
(* Properties.                                                             *)
(***************************************************************************)
\* Every variable has its type; a call has a file open while it receives.
TypeOK ==
  /\ call \in [Call -> [pc : {"idle", "opening", "receiving", "verifying", "renaming",
                              "delaying", "failed"},
                        file : File, path : Path, fd : {"none", "tmp", "dest", "gone"},
                        attempt : 0..MaxRetries, received : Nat, intact : BOOLEAN]]
  /\ \A c \in Call :
       call[c].fd # "none" <=> call[c].pc = "receiving"
  /\ dest \in [Path -> Content \cup {NoFile}]
  /\ tmp \in [Path -> Content \cup {NoFile}]
  /\ cancelled \in BOOLEAN
  /\ silent \in BOOLEAN
  /\ shared \subseteq Path

\* At a path that two calls have never used at once, the destination never holds
\* a part of a file or wrong bytes: not during a call, after failed attempts that
\* left their temporary file, or after a crash (file_transfer.go:283-360).
DestinationWhole ==
  \A p \in Path \ shared :
    dest[p] # NoFile => \E f \in File : dest[p] = Whole(f)

\* A call that reports success has delivered its own file, whatever earlier
\* attempts, calls or crashes left at the temporary path.
SuccessDelivers ==
  \A c \in Call :
    call[c].pc = "renaming" /\ call[c].path \notin shared =>
      tmp[call[c].path] = Whole(call[c].file)

\* Every call ends: after at most MaxRetries attempts when the server goes on
\* answering, and when the context is done even if it does not.
CallEnds ==
  \A c \in Call :
    <>[](~silent \/ cancelled) => (Active(c) ~> ~Active(c))
=============================================================================
