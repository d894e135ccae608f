------------------------ MODULE AgentLifecycle_proofs ------------------------
(***************************************************************************)
(* Proofs about AgentLifecycle for any set of host names and any number of *)
(* disturbances: its types, that the loop runs on the credentials issued   *)
(* last, and that credentials on disk are not asked for again.             *)
(***************************************************************************)
EXTENDS AgentLifecycle, TLAPS

(***************************************************************************)
(* Types.                                                                  *)
(***************************************************************************)
LEMMA DecryptType ==
  ASSUME NEW t \in Token, NEW h \in Hosts
  PROVE  /\ DecryptToken(t, h) \in Token
         /\ DecryptToken(t, h).n = t.n
         /\ t.seal \in {Plain, h} => DecryptToken(t, h).seal = Plain
BY PlainAssumption DEF DecryptToken, Token

LEMMA EncryptType ==
  ASSUME NEW t \in Token, NEW h \in Hosts
  PROVE  /\ EncryptToken(t, h) \in Token
         /\ EncryptToken(t, h).n = t.n
         /\ EncryptToken(t, h).seal = h
BY DEF EncryptToken, Token

LEMMA BlankType == Blank \in Config /\ Blank.token.n = 0 /\ Blank.token.seal = Plain
                   /\ ~Valid(Blank)
BY DEF Blank, Config, NoToken, Token, Valid

LEMMA AbsentIsNoConfig == Absent \notin Config
BY AbsentAssumption DEF Config, Token

\* What LoadFile puts in memory.
Loaded == IF file = Absent THEN Blank ELSE [file EXCEPT !.token = DecryptToken(@, host)]

LEMMA LoadedType ==
  ASSUME TypeOK
  PROVE  /\ Loaded \in Config
         /\ file # Absent => /\ Loaded.token.n = file.token.n
                             /\ file.token.seal \in {Plain, host} => Loaded.token.seal = Plain
BY DecryptType, BlankType DEF Loaded, TypeOK, Config

\* What SaveWrites puts in the file.
Saved == [cfg EXCEPT !.token = EncryptToken(@, host)]

LEMMA SavedType ==
  ASSUME TypeOK
  PROVE  Saved \in Config /\ Saved.token.n = cfg.token.n /\ Saved.token.seal = host
BY EncryptType DEF Saved, TypeOK, Config

LEMMA InitTypeOK == Init => TypeOK
<1> SUFFICES ASSUME Init PROVE TypeOK
  OBVIOUS
<1>1. disturbed \in 0..Disturbances BY DisturbancesAssumption DEF Init
<1>2. up \in BOOLEAN /\ tls \in BOOLEAN BY DEF Init
<1> QED BY <1>1, <1>2, BlankType DEF Init, TypeOK

LEMMA DisturbType ==
  ASSUME disturbed \in 0..Disturbances, Disturb
  PROVE  disturbed' \in 0..Disturbances
BY DisturbancesAssumption DEF Disturb

LEMMA ExitType ==
  ASSUME Exit
  PROVE  /\ run' \in Working \cup {"down", "ended"}
         /\ published' \in BOOLEAN /\ cancelled' \in BOOLEAN /\ stopping' \in BOOLEAN
         /\ cfg' \in Config
BY BlankType DEF Exit

LEMMA NextTypeOK == TypeOK /\ [Next]_vars => TypeOK'
<1> SUFFICES ASSUME TypeOK, [Next]_vars PROVE TypeOK'
  OBVIOUS
<1> USE DisturbType, ExitType, BlankType DEF TypeOK, machine, signals, network, Working
<1>1. CASE EnsureFile BY <1>1 DEF EnsureFile, EnsureConfigFile
<1>2. CASE LoadFile
  <2>1. /\ file' = file /\ (cfg' = Loaded \/ cfg' = cfg) /\ run' \in {"loaded", "ended"}
        /\ UNCHANGED <<machine, signals, issued, network, disturbed>>
    BY <1>2 DEF LoadFile, Loaded
  <2> QED BY <2>1, LoadedType
<1>3. CASE PublishCancel BY <1>3 DEF PublishCancel
<1>4. CASE Connect BY <1>4 DEF Connect
<1>5. CASE ConnectFatal BY <1>5 DEF ConnectFatal
<1>6. CASE Register
  <2>1. cfg' \in Config BY <1>6 DEF Register, Config, Token
  <2> QED BY <1>6, <2>1 DEF Register
<1>7. CASE RegisterFatal BY <1>7 DEF RegisterFatal
<1>8. CASE SaveTruncates BY <1>8 DEF SaveTruncates
<1>9. CASE SaveWrites
  <2>1. file' = Saved BY <1>9 DEF SaveWrites, Saved
  <2> QED BY <1>9, <2>1, SavedType DEF SaveWrites
<1>10. CASE EnterLoop BY <1>10 DEF EnterLoop
<1>11. CASE Shutdown BY <1>11 DEF Shutdown
<1>12. CASE EnsureFails BY <1>12 DEF EnsureFails
<1>13. CASE LoadFails BY <1>13 DEF LoadFails
<1>14. CASE RegisterLost BY <1>14 DEF RegisterLost
<1>15. CASE SaveFails BY <1>15 DEF SaveFails
<1>16. CASE Install BY <1>16 DEF Install, EnsureConfigFile
<1>17. CASE Uninstall BY <1>17 DEF Uninstall
<1>18. CASE Start BY <1>18 DEF Start
<1>19. CASE StopCalled BY <1>19 DEF StopCalled
<1>20. CASE StopReturns BY <1>20 DEF StopReturns
<1>21. CASE KilledStopping BY <1>21 DEF KilledStopping
<1>22. CASE Killed BY <1>22 DEF Killed
<1>23. CASE OperatorEdits
  <2>1. file' \in Config BY <1>23 DEF OperatorEdits, Config, NoToken, Token
  <2> QED BY <1>23, <2>1 DEF OperatorEdits
<1>24. CASE Rename BY <1>24 DEF Rename
<1>25. CASE NetworkChanges
  <2>1. up' \in BOOLEAN /\ tls' \in BOOLEAN BY <1>25 DEF NetworkChanges
  <2> QED BY <1>25, <2>1 DEF NetworkChanges
<1>26. CASE OperatorRemoves BY <1>26 DEF OperatorRemoves
<1>27. CASE UNCHANGED vars BY <1>27 DEF vars
<1> QED
  BY <1>1, <1>2, <1>3, <1>4, <1>5, <1>6, <1>7, <1>8, <1>9, <1>10, <1>11, <1>12, <1>13,
     <1>14, <1>15, <1>16, <1>17, <1>18, <1>19, <1>20, <1>21, <1>22, <1>23, <1>24, <1>25,
     <1>26, <1>27 DEF Next, RunStep, RunFails, ServiceStep, Environment

\* Every variable keeps its type.
THEOREM TypeCorrect == Spec => []TypeOK
BY InitTypeOK, NextTypeOK, PTL DEF Spec

(***************************************************************************)
(* Credentials.                                                            *)
(***************************************************************************)
\* The file, if there is one, holds no token.
FileUnregistered == file = Absent \/ file.token.n = 0

\* The file holds the last credentials or none: they are only ever written by the
\* process that got them, and no other registers while they are there.
FileCurrent == file # Absent => file.token.n \in {0, issued}

\* So a process that found no token may register and nothing on disk is outdated
\* by it; from then on it holds what the server issued last.
MemoryCurrent ==
  /\ run \in {"loaded", "connecting"} =>
       cfg.token.n \in {0, issued} /\ (cfg.token.n = 0 => FileUnregistered)
  /\ run = "registering" => FileUnregistered
  /\ run \in {"saving", "writing", "reporting", "running"} =>
       issued > 0 /\ cfg.token.n = issued

\* Under one host name whatever was sealed opens.
SealsOpen ==
  ~renamed =>
    /\ file # Absent => file.token.seal \in {Plain, host}
    /\ run \in Working \ {"ensuring", "loading"} => cfg.token.seal = Plain

CredentialInv == TypeOK /\ FileCurrent /\ MemoryCurrent /\ SealsOpen

LEMMA InitCredentialInv == Init => CredentialInv
BY InitTypeOK, BlankType
   DEF Init, CredentialInv, FileCurrent, MemoryCurrent, SealsOpen, Working

LEMMA NextCredentialInv == CredentialInv /\ [Next]_vars => CredentialInv'
<1> SUFFICES ASSUME CredentialInv, [Next]_vars PROVE CredentialInv'
  OBVIOUS
<1>0. TypeOK /\ TypeOK' BY NextTypeOK DEF CredentialInv
<1> SUFFICES FileCurrent' /\ MemoryCurrent' /\ SealsOpen'
  BY <1>0 DEF CredentialInv
<1> USE <1>0, BlankType, AbsentIsNoConfig
    DEF CredentialInv, FileCurrent, MemoryCurrent, SealsOpen, FileUnregistered,
        Working, machine, signals, network
<1>1. CASE EnsureFile BY <1>1 DEF EnsureFile, EnsureConfigFile
<1>2. CASE LoadFile
  <2>1. /\ file' = file
        /\ \/ cfg' = Loaded /\ Valid(Loaded) /\ run' = "loaded"
           \/ cfg' = cfg /\ run' = "ended"
        /\ UNCHANGED <<machine, issued>>
    BY <1>2 DEF LoadFile, Loaded
  <2>2. CASE cfg' = cfg /\ run' = "ended" BY <2>1, <2>2
  <2>3. CASE cfg' = Loaded /\ Valid(Loaded) /\ run' = "loaded"
    <3>1. file # Absent BY <2>3 DEF Loaded
    <3> QED BY <2>1, <2>3, <3>1, LoadedType
  <2> QED BY <2>1, <2>2, <2>3
<1>3. CASE PublishCancel BY <1>3 DEF PublishCancel
<1>4. CASE Connect BY <1>4 DEF Connect, TypeOK, Config, Token
<1>5. CASE ConnectFatal BY <1>5 DEF ConnectFatal, Exit
<1>6. CASE Register
  <2>1. cfg'.token.n = issued' /\ issued' > 0 /\ cfg'.token.seal = Plain
    BY <1>6 DEF Register, TypeOK, Config, Token
  <2> QED BY <1>6, <2>1 DEF Register
<1>7. CASE RegisterFatal BY <1>7 DEF RegisterFatal, Exit
<1>8. CASE SaveTruncates BY <1>8 DEF SaveTruncates
<1>9. CASE SaveWrites
  <2>1. file' = Saved BY <1>9 DEF SaveWrites, Saved
  <2> QED BY <1>9, <2>1, SavedType DEF SaveWrites
<1>10. CASE EnterLoop BY <1>10 DEF EnterLoop
<1>11. CASE Shutdown BY <1>11 DEF Shutdown
<1>12. CASE EnsureFails BY <1>12 DEF EnsureFails
<1>13. CASE LoadFails BY <1>13 DEF LoadFails
<1>14. CASE RegisterLost BY <1>14 DEF RegisterLost, Exit
<1>15. CASE SaveFails BY <1>15 DEF SaveFails
<1>16. CASE Install BY <1>16 DEF Install, EnsureConfigFile
<1>17. CASE Uninstall BY <1>17 DEF Uninstall
<1>18. CASE Start BY <1>18 DEF Start
<1>19. CASE StopCalled BY <1>19 DEF StopCalled
<1>20. CASE StopReturns BY <1>20 DEF StopReturns, Exit
<1>21. CASE KilledStopping BY <1>21 DEF KilledStopping, Exit
<1>22. CASE Killed BY <1>22 DEF Killed, Exit
<1>23. CASE OperatorEdits
  <2>1. file' # Absent /\ file'.token.n = 0 /\ file'.token.seal = Plain
    <3>1. file' = [key |-> TRUE, token |-> NoToken] BY <1>23 DEF OperatorEdits
    <3>2. file' \in Config BY <3>1 DEF Config, NoToken, Token
    <3> QED BY <3>1, <3>2 DEF NoToken
  <2> QED BY <1>23, <2>1 DEF OperatorEdits
<1>24. CASE Rename BY <1>24 DEF Rename
<1>25. CASE NetworkChanges BY <1>25 DEF NetworkChanges
<1>26. CASE OperatorRemoves BY <1>26 DEF OperatorRemoves
<1>27. CASE UNCHANGED vars BY <1>27 DEF vars
<1> QED
  BY <1>1, <1>2, <1>3, <1>4, <1>5, <1>6, <1>7, <1>8, <1>9, <1>10, <1>11, <1>12, <1>13,
     <1>14, <1>15, <1>16, <1>17, <1>18, <1>19, <1>20, <1>21, <1>22, <1>23, <1>24, <1>25,
     <1>26, <1>27 DEF Next, RunStep, RunFails, ServiceStep, Environment

LEMMA CredentialInvariant == Spec => []CredentialInv
BY InitCredentialInv, NextCredentialInv, PTL DEF Spec

\* However often registrations are lost, saves torn and processes killed, the loop
\* runs on the credentials the server issued last (main.go:113-132).
THEOREM CredentialsAreLatest == Spec => []LatestCredentials
<1>1. CredentialInv => LatestCredentials
  BY DEF CredentialInv, MemoryCurrent, SealsOpen, LatestCredentials, Working
<1> QED BY <1>1, CredentialInvariant, PTL

LEMMA OnlyRegisteringIssues ==
  ASSUME TypeOK, [Next]_vars, issued' # issued
  PROVE  run = "registering"
BY DEF Next, RunStep, RunFails, ServiceStep, Environment, vars, machine, signals, network,
       EnsureFile, LoadFile, PublishCancel, Connect, ConnectFatal, Register, RegisterFatal,
       SaveTruncates, SaveWrites, EnterLoop, Shutdown, EnsureFails, LoadFails, RegisterLost,
       SaveFails, Install, Uninstall, Start, StopCalled, StopReturns, KilledStopping, Killed,
       OperatorEdits, OperatorRemoves, Rename, NetworkChanges

\* An agent with credentials on disk never registers again (main.go:113).
THEOREM CredentialsAreReused == Spec => CredentialsReused
<1>1. CredentialInv /\ [Next]_vars => [issued' # issued => file = Absent \/ file.token.n = 0]_vars
  BY OnlyRegisteringIssues DEF CredentialInv, MemoryCurrent, FileUnregistered
<1> QED BY <1>1, CredentialInvariant, PTL DEF Spec, CredentialsReused
=============================================================================
