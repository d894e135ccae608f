------------------------ MODULE CommandPolicy_proofs ------------------------
(***************************************************************************)
(* What module CommandPolicy promises, for every configuration, request,   *)
(* set of programs and way to compare names.                               *)
(*                                                                         *)
(* The argument.  What a request was tested against is kept in `seen`, and *)
(* the test of PrepareCommand is the one it passed then: if it fails now,  *)
(* the files are not those.  The environment is only set by PrepareCommand.*)
(***************************************************************************)
EXTENDS CommandPolicy, SequenceTheorems, WellFoundedInduction, TLAPS

\* A request that waits for PrepareCommand would have been prepared when it passed
\* ValidateCommand.
PassedThen == step = "validated" /\ config.enabled => Admissible(seen)

\* ValidateCommand implies what PrepareCommand tests (sandbox_executor.go:82, :155).
LEMMA SameTest ==
  ASSUME NEW present, config.enabled, ValidateCommand(present)
  PROVE  Admissible(present)
BY DEF ValidateCommand, Admissible

LEMMA PassedThenInductive ==
  ASSUME PassedThen, [PolicyNext]_policy
  PROVE  PassedThen'
<1>1. CASE Refuse
  BY <1>1 DEF Refuse, PassedThen
<1>2. CASE HandleSpecial
  BY <1>2 DEF HandleSpecial, PassedThen
<1>3. CASE Pass
  <2>1. config' = config /\ request' = request /\ seen' = files
    BY <1>3 DEF Pass
  <2>2. config.enabled => Admissible(files)
    BY <1>3, SameTest DEF Pass
  <2> QED
    BY <2>1, <2>2 DEF PassedThen, Admissible
<1>4. CASE PrepareCommand
  BY <1>4 DEF PrepareCommand, PassedThen
<1>5. CASE PrepareFails
  BY <1>5 DEF PrepareFails, PassedThen
<1>6. CASE FilesChange
  BY <1>6 DEF FilesChange, PassedThen, Admissible
<1>7. CASE UNCHANGED policy
  BY <1>7 DEF policy, PassedThen, Admissible
<1> QED
  BY <1>1, <1>2, <1>3, <1>4, <1>5, <1>6, <1>7 DEF PolicyNext

\* The two tests of a request agree on the same files: a late refusal means that
\* they changed (command_listener.go:203, :219).
THEOREM TestsAgree == PolicySpec => LateRefusalMeansChange
<1>1. PolicyInit => PassedThen
  BY DEF PolicyInit, PassedThen
<1>2. PassedThen /\ [PolicyNext]_policy => PassedThen'
  BY PassedThenInductive
<1>3. PassedThen /\ [PolicyNext]_policy
        => [step # "late" /\ step' = "late" => files # seen]_policy
  <2> SUFFICES ASSUME PassedThen, [PolicyNext]_policy, step # "late", step' = "late"
               PROVE  files # seen
    OBVIOUS
  <2>1. PrepareFails
    BY DEF PolicyNext, Refuse, HandleSpecial, Pass, PrepareCommand, FilesChange, policy
  <2> QED
    BY <2>1 DEF PrepareFails, PassedThen
<1> QED
  BY <1>1, <1>2, <1>3, PTL DEF PolicySpec, LateRefusalMeansChange

\* FilterEnvironment only takes away, and never gives nil.
LEMMA FilterNarrows ==
  ASSUME NEW c, NEW names, NEW kept, kept = FilterEnvironment(c, names)
  PROVE  /\ ~kept.inherited
         /\ kept.names \subseteq names
         /\ c.enabled /\ c.variables \cup c.wildcards # {}
              => \A n \in kept.names : Matches(c, n)
BY DEF FilterEnvironment

LEMMA NeverInheritsInductive ==
  ASSUME NeverInherits, [PolicyNext]_policy
  PROVE  NeverInherits'
<1>1. CASE PrepareCommand
  <2> SUFFICES ASSUME request.env # {}
               PROVE  /\ ~env'.inherited
                      /\ env'.names \subseteq request.env
                      /\ config.enabled /\ config.variables \cup config.wildcards # {}
                           => \A n \in env'.names : Matches(config, n)
    BY <1>1 DEF PrepareCommand, NeverInherits, Matches
  <2>1. env' = FilterEnvironment(config, request.env)
    BY <1>1 DEF PrepareCommand
  <2> QED
    BY <2>1, FilterNarrows
<1>2. CASE Refuse \/ HandleSpecial \/ Pass \/ PrepareFails
  <2>1. step' # "prepared"
    BY <1>2 DEF Refuse, HandleSpecial, Pass, PrepareFails
  <2> QED
    BY <2>1 DEF NeverInherits
<1>3. CASE FilesChange \/ UNCHANGED policy
  BY <1>3 DEF FilesChange, policy, NeverInherits, Matches
<1> QED
  BY <1>1, <1>2, <1>3 DEF PolicyNext

\* A request that names variables never gets the agent's own environment
\* (sandbox_executor.go:136-144).
THEOREM EnvironmentNarrowed == PolicySpec => []NeverInherits
<1>1. PolicyInit => NeverInherits
  BY DEF PolicyInit, NeverInherits
<1>2. NeverInherits /\ [PolicyNext]_policy => NeverInherits'
  BY NeverInheritsInductive
<1> QED
  BY <1>1, <1>2, PTL DEF PolicySpec

-----------------------------------------------------------------------------
(***************************************************************************)
(* Paths.  Clean is a recursion over the names, and the longest common     *)
(* prefix a choice: that it exists, and that what is cleaned is a path,    *)
(* follow from the least counterexample.                                   *)
(***************************************************************************)
Less == {p \in Nat \X Nat : p[1] < p[2]}

LEMMA LessWellFounded == IsWellFoundedOn(Less, Nat)
<1>1. Less = OpToRel(<, Nat)
  BY Zenon DEF OpToRel, Less
<1> QED
  BY <1>1, NatLessThanWellFounded

LEMMA HasLeast ==
  ASSUME NEW S, NEW x, x \in S, S \subseteq Nat
  PROVE  \E m \in S : \A n \in S : m <= n
<1>1. PICK m \in S : \A n \in S : ~(<<n, m>> \in Less)
  BY LessWellFounded, WFMin, Zenon
<1>2. \A n \in S : ~(n < m)
  BY <1>1 DEF Less
<1> QED
  BY <1>2

LEMMA Induction ==
  ASSUME NEW S, 0 \in S, \A n \in Nat : n \in S => n + 1 \in S
  PROVE  \A n \in Nat : n \in S
<1> SUFFICES ASSUME NEW x \in Nat \ S PROVE FALSE
  OBVIOUS
<1>1. PICK m \in Nat \ S : \A n \in Nat \ S : m <= n
  BY HasLeast
<1>2. m - 1 \in Nat
  BY <1>1
<1>3. m - 1 \notin S
  BY <1>1, <1>2
<1> QED
  BY <1>1, <1>2, <1>3

\* The function that the recursion of Clean defines, up to name n.
IsCleaning(f, path, n) ==
  f = [i \in 0..n |-> IF i = 0 THEN <<>> ELSE Enter(f[i - 1], path[i])]

LEMMA CleaningStep ==
  ASSUME NEW f, NEW path, NEW n \in Nat, IsCleaning(f, path, n), NEW i \in 0..n
  PROVE  f[i] = IF i = 0 THEN <<>> ELSE Enter(f[i - 1], path[i])
<1> DEFINE G == [j \in 0..n |-> IF j = 0 THEN <<>> ELSE Enter(f[j - 1], path[j])]
<1>1. f = G
  BY DEF IsCleaning
<1>2. G[i] = IF i = 0 THEN <<>> ELSE Enter(f[i - 1], path[i])
  OBVIOUS
<1> HIDE DEF G
<1> QED
  BY <1>1, <1>2

LEMMA CleaningExists ==
  ASSUME NEW path, NEW n \in Nat
  PROVE  \E f : IsCleaning(f, path, n)
<1> DEFINE S == {m \in Nat : \E f : IsCleaning(f, path, m)}
<1>1. 0 \in S
  <2> DEFINE f == [i \in 0..0 |-> <<>>]
  <2>1. \A i \in 0..0 : <<>> = IF i = 0 THEN <<>> ELSE Enter(f[i - 1], path[i])
    OBVIOUS
  <2>2. f = [i \in 0..0 |-> IF i = 0 THEN <<>> ELSE Enter(f[i - 1], path[i])]
    BY <2>1
  <2>3. IsCleaning(f, path, 0)
    BY <2>2 DEF IsCleaning
  <2> QED
    BY <2>3
<1>2. ASSUME NEW m \in Nat, m \in S PROVE m + 1 \in S
  <2>1. PICK f : IsCleaning(f, path, m)
    BY <1>2
  <2> DEFINE g == [i \in 0..m + 1 |-> IF i = 0 THEN <<>> ELSE Enter(f[i - 1], path[i])]
  <2>2. \A i \in 0..m : g[i] = f[i]
    BY <2>1, CleaningStep
  <2>3. \A i \in 0..m + 1 : i # 0 => i - 1 \in 0..m
    OBVIOUS
  <2>4. \A i \in 0..m + 1 : (IF i = 0 THEN <<>> ELSE Enter(f[i - 1], path[i]))
                            = IF i = 0 THEN <<>> ELSE Enter(g[i - 1], path[i])
    BY <2>2, <2>3
  <2>5. g = [i \in 0..m + 1 |-> IF i = 0 THEN <<>> ELSE Enter(g[i - 1], path[i])]
    BY <2>4
  <2>6. IsCleaning(g, path, m + 1)
    BY <2>5 DEF IsCleaning
  <2> QED
    BY <2>6
<1> HIDE DEF S
<1>3. \A m \in Nat : m \in S
  BY <1>1, <1>2, Induction
<1> QED
  BY <1>3 DEF S

LEMMA CleanIs ==
  ASSUME NEW path, Len(path) \in Nat
  PROVE  \E f : /\ Clean(path) = f[Len(path)]
                /\ f[0] = <<>>
                /\ \A i \in 1..Len(path) : f[i] = Enter(f[i - 1], path[i])
<1> DEFINE f == CHOOSE g : IsCleaning(g, path, Len(path))
<1>1. Clean(path) = f[Len(path)]
  BY DEF Clean, IsCleaning
<1>2. IsCleaning(f, path, Len(path))
  BY CleaningExists
<1> HIDE DEF f
<1>3. \A i \in 0..Len(path) : f[i] = IF i = 0 THEN <<>> ELSE Enter(f[i - 1], path[i])
  BY <1>2, CleaningStep
<1>4. f[0] = <<>>
  BY <1>3
<1>5. \A i \in 1..Len(path) : f[i] = Enter(f[i - 1], path[i])
  BY <1>3
<1> QED
  BY <1>1, <1>4, <1>5

LEMMA EnterType ==
  ASSUME NEW Names, NEW dir \in Seq(Names), NEW name \in Names
  PROVE  Enter(dir, name) \in Seq(Names)
<1>1. dir # <<>> => Front(dir) \in Seq(Names)
  <2> SUFFICES ASSUME dir # <<>> PROVE Front(dir) \in Seq(Names)
    OBVIOUS
  <2>1. Len(dir) \in Nat \ {0} /\ \A i \in 1..Len(dir) : dir[i] \in Names
    BY EmptySeq, ElementOfSeq
  <2>2. 1 \in Int /\ Len(dir) - 1 \in Int /\ \A i \in 1..Len(dir) - 1 : dir[i] \in Names
    BY <2>1
  <2> QED
    BY <2>2, SubSeqProperties DEF Front
<1> QED
  BY <1>1, AppendProperties DEF Enter

\* What is cleaned is a path.
LEMMA CleanType ==
  ASSUME NEW Names, NEW path \in Seq(Names)
  PROVE  Clean(path) \in Seq(Names)
<1>0. Len(path) \in Nat /\ \A i \in 1..Len(path) : path[i] \in Names
  BY LenProperties, ElementOfSeq
<1>1. PICK f : /\ Clean(path) = f[Len(path)]
               /\ f[0] = <<>>
               /\ \A i \in 1..Len(path) : f[i] = Enter(f[i - 1], path[i])
  BY <1>0, CleanIs
<1> DEFINE S == {n \in Nat : n <= Len(path) => f[n] \in Seq(Names)}
<1>2. 0 \in S
  BY <1>1, EmptySeq
<1>3. ASSUME NEW n \in Nat, n \in S PROVE n + 1 \in S
  <2> SUFFICES ASSUME n + 1 <= Len(path) PROVE f[n + 1] \in Seq(Names)
    OBVIOUS
  <2>1. n + 1 \in 1..Len(path) /\ (n + 1) - 1 = n /\ n <= Len(path)
    BY <1>0
  <2>2. f[n + 1] = Enter(f[(n + 1) - 1], path[n + 1])
    BY <1>1, <2>1
  <2>3. f[n] \in Seq(Names) /\ path[n + 1] \in Names
    BY <1>0, <1>3, <2>1
  <2> QED
    BY <2>1, <2>2, <2>3, EnterType
<1> HIDE DEF S
<1>4. Len(path) \in S
  BY <1>0, <1>2, <1>3, Induction
<1> QED
  BY <1>0, <1>1, <1>4 DEF S

\* A path without dots stays as it is.
LEMMA CleanUndotted ==
  ASSUME NEW Names, NEW path \in Seq(Names), Undotted(path)
  PROVE  Clean(path) = path
<1>0. /\ Len(path) \in Nat /\ DOMAIN path = 1..Len(path)
      /\ \A i \in 1..Len(path) : path[i] \in Names
  BY LenProperties, ElementOfSeq
<1>1. PICK f : /\ Clean(path) = f[Len(path)]
               /\ f[0] = <<>>
               /\ \A i \in 1..Len(path) : f[i] = Enter(f[i - 1], path[i])
  BY <1>0, CleanIs
<1> DEFINE S == {n \in Nat : n <= Len(path) => f[n] = SubSeq(path, 1, n)}
<1>2. 0 \in S
  <2>1. SubSeq(path, 1, 0) = <<>>
    BY SubSeqEmpty
  <2> QED
    BY <1>1, <2>1
<1>3. ASSUME NEW n \in Nat, n \in S PROVE n + 1 \in S
  <2> SUFFICES ASSUME n + 1 <= Len(path) PROVE f[n + 1] = SubSeq(path, 1, n + 1)
    OBVIOUS
  <2>1. n + 1 \in 1..Len(path) /\ (n + 1) - 1 = n /\ n <= Len(path) /\ 1 \in 1..Len(path)
    BY <1>0
  <2>2. f[n + 1] = Enter(f[(n + 1) - 1], path[n + 1])
    BY <1>1, <2>1
  <2>3. f[n] = SubSeq(path, 1, n) /\ path[n + 1] \notin {".", ".."}
    BY <1>0, <1>3, <2>1 DEF Undotted
  <2>4. f[n + 1] = Append(SubSeq(path, 1, n), path[n + 1])
    BY <2>1, <2>2, <2>3 DEF Enter
  <2>5. SubSeq(path, 1, n + 1) = SubSeq(path, 1, (n + 1) - 1) \o <<path[n + 1]>>
    BY <2>1, SubSeqRecursiveSecond
  <2>6. SubSeq(path, 1, n) \in Seq(Names)
    <3>1. \A i \in 1..n : path[i] \in Names
      BY <1>0, <2>1
    <3> QED
      BY <3>1, SubSeqProperties
  <2>7. Append(SubSeq(path, 1, n), path[n + 1]) = SubSeq(path, 1, n) \o <<path[n + 1]>>
    BY <1>0, <2>1, <2>6, AppendIsConcat
  <2> QED
    BY <2>1, <2>4, <2>5, <2>7
<1> HIDE DEF S
<1>4. Len(path) \in S
  BY <1>0, <1>2, <1>3, Induction
<1>5. Clean(path) = SubSeq(path, 1, Len(path))
  BY <1>0, <1>1, <1>4 DEF S
<1> QED
  BY <1>5, SubSeqFull

-----------------------------------------------------------------------------
(***************************************************************************)
(* Containment: what the code asks of the text that filepath.Rel returns.  *)
(***************************************************************************)
LEMMA PrefixItself ==
  ASSUME NEW Names, NEW s \in Seq(Names)
  PROVE  /\ SubSeq(s, 1, Len(s)) = s
         /\ IsPrefix(s, s)
         /\ SubSeq(s, 1, 0) = <<>>
<1>1. SubSeq(s, 1, Len(s)) = s /\ Len(s) \in Nat
  BY SubSeqFull, LenProperties
<1>2. SubSeq(s, 1, 0) = <<>>
  BY SubSeqEmpty
<1> QED
  BY <1>1, <1>2 DEF IsPrefix

\* The elements of a set of common prefixes.
LEMMA CommonPrefixFacts ==
  ASSUME NEW Names, NEW base \in Seq(Names), NEW path \in Seq(Names)
  PROVE  /\ <<>> \in CommonPrefixes({base, path})
         /\ IsPrefix(base, path) => base \in CommonPrefixes({base, path})
         /\ \A p \in CommonPrefixes({base, path}) :
              /\ p \in Seq(Names) /\ Len(p) \in 0..Len(base)
              /\ IsPrefix(p, base) /\ IsPrefix(p, path)
<1> DEFINE P == UNION {Prefixes(seq) : seq \in {base, path}}
<1>1. CommonPrefixes({base, path}) = {p \in P : IsPrefix(p, base) /\ IsPrefix(p, path)}
  BY DEF CommonPrefixes
<1>2. P = Prefixes(base) \cup Prefixes(path)
  OBVIOUS
<1> HIDE DEF P
<1>3. Len(base) \in Nat /\ Len(path) \in Nat
  BY LenProperties
<1>4. <<>> \in P /\ base \in P
  <2>1. SubSeq(base, 1, 0) \in Prefixes(base) /\ SubSeq(base, 1, Len(base)) \in Prefixes(base)
    BY <1>3 DEF Prefixes
  <2> QED
    BY <1>2, <2>1, PrefixItself
<1>5. IsPrefix(<<>>, base) /\ IsPrefix(<<>>, path)
  <2>1. Len(<<>>) = 0 /\ SubSeq(<<>>, 1, 0) = <<>>
    BY EmptySeq, SubSeqEmpty
  <2>2. SubSeq(base, 1, 0) = <<>> /\ SubSeq(path, 1, 0) = <<>>
    BY PrefixItself
  <2> QED
    BY <1>3, <2>1, <2>2 DEF IsPrefix
<1>6. IsPrefix(base, base)
  BY PrefixItself
<1>7. ASSUME NEW p \in P, IsPrefix(p, base)
      PROVE  p \in Seq(Names) /\ Len(p) \in 0..Len(base)
  <2>1. PICK s \in {base, path} : \E l \in 0..Len(s) : p = SubSeq(s, 1, l)
    BY <1>2, <1>7 DEF Prefixes
  <2>2. PICK l \in 0..Len(s) : p = SubSeq(s, 1, l)
    BY <2>1
  <2>3. s \in Seq(Names)
    BY <2>1
  <2>4. Len(s) \in Nat /\ \A i \in 1..Len(s) : s[i] \in Names
    BY <2>3, LenProperties, ElementOfSeq
  <2>5. \A i \in 1..l : s[i] \in Names
    BY <2>4
  <2>6. p \in Seq(Names)
    BY <2>2, <2>5, SubSeqProperties
  <2>7. Len(p) \in Nat
    BY <2>6, LenProperties
  <2>8. Len(p) <= Len(base)
    BY <1>7 DEF IsPrefix
  <2> QED
    BY <1>3, <2>6, <2>7, <2>8
<1> QED
  BY <1>1, <1>4, <1>5, <1>6, <1>7

LEMMA LongestIsLongest ==
  ASSUME NEW Names, NEW base \in Seq(Names), NEW path \in Seq(Names), NEW longest,
         longest = LongestCommonPrefix({base, path})
  PROVE  /\ longest \in CommonPrefixes({base, path})
         /\ \A p \in CommonPrefixes({base, path}) : Len(p) <= Len(longest)
<1> DEFINE C == CommonPrefixes({base, path})
           D == {Len(base) - Len(p) : p \in C}
<1>1. /\ <<>> \in C /\ Len(base) \in Nat
      /\ \A p \in C : Len(p) \in 0..Len(base)
  BY CommonPrefixFacts, LenProperties
<1> HIDE DEF C
<1>2. D \subseteq Nat /\ Len(base) - Len(<<>>) \in D
  BY <1>1
<1>3. PICK m \in D : \A n \in D : m <= n
  BY <1>2, HasLeast
<1>4. PICK p \in C : m = Len(base) - Len(p)
  BY <1>3
<1>5. \A q \in C : Len(q) <= Len(p)
  <2> TAKE q \in C
  <2>1. Len(base) - Len(p) <= Len(base) - Len(q)
    BY <1>3, <1>4
  <2> QED
    BY <1>1, <2>1
<1> QED
  BY <1>4, <1>5 DEF C, LongestCommonPrefix

\* A directory contains a path if nothing of the directory is left over.
LEMMA CommonLength ==
  ASSUME NEW Names, NEW base \in Seq(Names), NEW path \in Seq(Names), NEW common,
         common = Len(LongestCommonPrefix({base, path}))
  PROVE  /\ common \in 0..Len(base)
         /\ common = Len(base) <=> IsPrefix(base, path)
<1> DEFINE longest == LongestCommonPrefix({base, path})
<1>1. /\ longest \in CommonPrefixes({base, path})
      /\ \A p \in CommonPrefixes({base, path}) : Len(p) <= Len(longest)
  BY LongestIsLongest
<1>0. common = Len(longest)
  OBVIOUS
<1> HIDE DEF longest
<1>2. /\ longest \in Seq(Names) /\ Len(longest) \in 0..Len(base)
      /\ IsPrefix(longest, base) /\ IsPrefix(longest, path)
      /\ Len(base) \in Nat
  BY <1>1, CommonPrefixFacts, LenProperties
<1>3. ASSUME IsPrefix(base, path) PROVE common = Len(base)
  <2>1. Len(base) <= Len(longest)
    BY <1>1, <1>3, CommonPrefixFacts
  <2> QED
    BY <1>0, <1>2, <2>1
<1>4. ASSUME common = Len(base) PROVE IsPrefix(base, path)
  <2>1. SubSeq(longest, 1, Len(longest)) = SubSeq(base, 1, Len(longest))
    BY <1>2 DEF IsPrefix
  <2>2. longest = base
    BY <1>0, <1>2, <1>4, <2>1, SubSeqFull
  <2> QED
    BY <1>2, <2>2
<1> QED
  BY <1>0, <1>2, <1>3, <1>4

LEMMA RelIs ==
  ASSUME NEW Names, NEW base \in Seq(Names), NEW path \in Seq(Names), ".." \in Names
  PROVE  /\ IsPrefix(base, path) => Rel(base, path) = SubSeq(path, Len(base) + 1, Len(path))
         /\ ~IsPrefix(base, path) => Rel(base, path) # <<>> /\ Head(Rel(base, path)) = ".."
<1> DEFINE common == Len(LongestCommonPrefix({base, path}))
           up == [i \in 1..Len(base) - common |-> ".."]
           down == SubSeq(path, common + 1, Len(path))
<1>1. /\ common \in 0..Len(base)
      /\ common = Len(base) <=> IsPrefix(base, path)
  BY CommonLength
<1>2. Rel(base, path) = up \o down
  BY DEF Rel
<1> HIDE DEF common
<1>3. /\ Len(base) \in Nat /\ Len(path) \in Nat
      /\ \A i \in 1..Len(path) : path[i] \in Names
  BY LenProperties, ElementOfSeq
<1>4. down \in Seq(Names)
  <2>1. common + 1 \in Int /\ Len(path) \in Int /\ \A i \in common + 1 .. Len(path) : path[i] \in Names
    BY <1>1, <1>3
  <2> QED
    BY <2>1, SubSeqProperties
<1> DEFINE n == Len(base) - common
<1>5. n \in Nat
  BY <1>1, <1>3
<1> HIDE DEF n
<1>6. up \in Seq(Names) /\ Len(up) = n /\ \A i \in 1..n : up[i] = ".."
  <2>1. up = [i \in 1..n |-> ".."]
    BY DEF n
  <2>2. up \in [1..n -> Names]
    BY <2>1
  <2> HIDE DEF up
  <2>3. up \in Seq(Names)
    BY <1>5, <2>2, SeqDef
  <2>4. Len(up) = n
    BY <1>5, <2>1
  <2> QED
    BY <2>1, <2>3, <2>4
<1> HIDE DEF up, down
<1>7. ASSUME IsPrefix(base, path) PROVE up \o down = SubSeq(path, Len(base) + 1, Len(path))
  <2>1. common = Len(base) /\ n = 0
    BY <1>1, <1>3, <1>7 DEF n
  <2>2. up = <<>>
    BY <1>6, <2>1, EmptySeq
  <2> QED
    BY <1>4, <2>1, <2>2, ConcatEmptySeq DEF down
<1>8. ASSUME ~IsPrefix(base, path) PROVE up \o down # <<>> /\ Head(up \o down) = ".."
  <2>1. n # 0
    BY <1>1, <1>3, <1>8 DEF n
  <2>2. /\ up \o down \in Seq(Names) /\ Len(up \o down) = Len(up) + Len(down)
        /\ \A i \in 1..Len(up) + Len(down) :
             (up \o down)[i] = IF i <= Len(up) THEN up[i] ELSE down[i - Len(up)]
        /\ Len(down) \in Nat
    BY <1>4, <1>6, ConcatProperties, LenProperties
  <2>3. 1 \in 1..Len(up) + Len(down) /\ 1 <= Len(up) /\ 1 \in 1..n
    BY <1>5, <1>6, <2>1, <2>2
  <2>4. (up \o down)[1] = ".."
    BY <1>6, <2>2, <2>3
  <2>5. up \o down # <<>>
    BY <2>2, <2>3, EmptySeq
  <2> QED
    BY <2>4, <2>5
<1> QED
  BY <1>2, <1>7, <1>8

\* What passes the test lies in the directory (sandbox_config.go:149, :183).
LEMMA UnderIsWithin ==
  ASSUME NEW Names, NEW base \in Seq(Names), NEW path \in Seq(Names), ".." \in Names,
         Under(base, path)
  PROVE  IsPrefix(base, path)
BY RelIs DEF Under, StartsWith

\* What lies in the directory passes the test, unless a name begins with two dots.
LEMMA WithinIsUnder ==
  ASSUME NEW Names, NEW base \in Seq(Names), NEW path \in Seq(Names), ".." \in Names,
         IsPrefix(base, path), ~Dotted(path)
  PROVE  Under(base, path)
<1> DEFINE rel == Rel(base, path)
<1> SUFFICES ASSUME rel # <<>> PROVE ~StartsWith(Head(rel), "..")
  BY DEF Under
<1>1. /\ Len(base) \in Nat /\ Len(path) \in Nat /\ DOMAIN path = 1..Len(path)
      /\ \A i \in 1..Len(path) : path[i] \in Names
  BY LenProperties, ElementOfSeq
<1>2. rel = SubSeq(path, Len(base) + 1, Len(path))
  BY RelIs
<1> DEFINE m == Len(base) + 1
<1> HIDE DEF rel
<1>3. m \in 1..Len(path)
  <2> SUFFICES ASSUME Len(path) < m PROVE FALSE
    BY <1>1
  <2>1. rel = <<>>
    BY <1>1, <1>2, SubSeqEmpty
  <2> QED
    BY <2>1
<1>4. Len(path) \in m..Len(path)
  BY <1>1, <1>3
<1>5. Head(rel) = path[m]
  BY <1>2, <1>3, <1>4, HeadTailOfSubSeq
<1>6. ~StartsWith(path[m], "..")
  BY <1>1, <1>3 DEF Dotted
<1> QED
  BY <1>5, <1>6

\* The test of an executable's text is containment if the name at the place of the
\* directory's last is that name, and does not only begin with it.
LEMMA TextPrefixIsWithin ==
  ASSUME NEW Names, NEW dir \in Seq(Names), NEW path \in Seq(Names), dir # <<>>
  PROVE  IsPrefix(dir, path) <=> TextPrefix(dir, path) /\ path[Len(dir)] = Last(dir)
<1> DEFINE n == Len(dir)
<1>1. /\ n \in Nat \ {0} /\ Len(path) \in Nat
      /\ \A i \in 1..n : dir[i] \in Names
      /\ \A i \in 1..Len(path) : path[i] \in Names
  BY EmptySeq, LenProperties, ElementOfSeq
<1> SUFFICES ASSUME n <= Len(path)
             PROVE  (SubSeq(dir, 1, n - 1) = SubSeq(path, 1, n - 1) /\ path[n] = dir[n])
                      <=> SubSeq(dir, 1, n) = SubSeq(path, 1, n)
  BY DEF TextPrefix, IsPrefix, Front, Last, StartsWith
<1> HIDE DEF n
<1>2. n - 1 \in Nat /\ 1 \in 1..n /\ n \in 1..n /\ n \in 1..Len(path) /\ 1 \in 1..Len(path)
  BY <1>1
<1>3. /\ SubSeq(dir, 1, n) = SubSeq(dir, 1, n - 1) \o <<dir[n]>>
      /\ SubSeq(path, 1, n) = SubSeq(path, 1, n - 1) \o <<path[n]>>
  <2>1. n \in 1..Len(dir) /\ 1 \in 1..Len(dir)
    BY <1>2 DEF n
  <2>2. n \in 1..n /\ 1 \in 1..n
    BY <1>2
  <2> QED
    BY <1>2, <2>1, <2>2, SubSeqRecursiveSecond
<1>4. /\ SubSeq(dir, 1, n - 1) \in Seq(Names) /\ SubSeq(path, 1, n - 1) \in Seq(Names)
      /\ dir[n] \in Names /\ path[n] \in Names
  <2>1. \A i \in 1..n - 1 : dir[i] \in Names /\ path[i] \in Names
    BY <1>1, <1>2
  <2> QED
    BY <1>1, <1>2, <2>1, SubSeqProperties
<1>5. /\ SubSeq(dir, 1, n) = Append(SubSeq(dir, 1, n - 1), dir[n])
      /\ SubSeq(path, 1, n) = Append(SubSeq(path, 1, n - 1), path[n])
  BY <1>3, <1>4, AppendIsConcat
<1> DEFINE a == SubSeq(dir, 1, n - 1)
           b == SubSeq(path, 1, n - 1)
<1>6. a \in Seq(Names) /\ b \in Seq(Names) /\ dir[n] \in Names /\ path[n] \in Names
  BY <1>4
<1> HIDE DEF a, b
<1>7. (Append(a, dir[n]) = Append(b, path[n])) <=> (a = b /\ dir[n] = path[n])
  BY <1>6, AppendInjective
<1> QED
  BY <1>5, <1>7 DEF a, b

-----------------------------------------------------------------------------
(***************************************************************************)
(* What is admitted.  The lists mean what they say as long as they are     *)
(* written as DefaultSandboxConfig writes them: some directory is allowed  *)
(* (the code takes an empty list for no restriction) and no denied         *)
(* directory lies in an allowed one or holds it (below a denied one, a     *)
(* name that begins with two dots is not recognised); a directory of       *)
(* executables is clean and not the root, and has no name that begins as   *)
(* another one ends.                                                       *)
(***************************************************************************)
WellWritten(c, Names) ==
  /\ c.allowedPaths \in (SUBSET Seq(Names)) \ {{}}
  /\ c.deniedPaths \subseteq Seq(Names)
  /\ \A allowed \in c.allowedPaths, denied \in c.deniedPaths :
       ~IsPrefix(allowed, denied) /\ ~IsPrefix(denied, allowed)
  /\ c.allowedExecutables \in Seq(Seq(Names))
  /\ \A dir \in Range(c.allowedExecutables) : dir # <<>> /\ Undotted(dir) /\ ~Lookalike(c, dir)

\* Paths are sequences of names.
Named(r, Names) == r.exe.path \in Seq(Names) /\ r.dir.path \in Seq(Names)

\* DefaultSandboxConfig is written like that (sandbox_config.go:96).
LEMMA DefaultIsWellWritten ==
  ASSUME NEW Names,
         {"tmp", "var", "home", "etc", "shadow", "passwd", "root", ".ssh", "bin", "usr",
          "local", "sbin"} \subseteq Names,
         \A name \in {"usr", "local", "bin", "sbin"}, last \in {"bin", "sbin"} :
           <<name, last>> \notin Starts
  PROVE  WellWritten(DefaultSandboxConfig, Names)
<1> DEFINE c == DefaultSandboxConfig
<1>1. /\ c.allowedPaths = {<<"tmp">>, <<"var", "tmp">>, <<"home">>}
      /\ c.deniedPaths = {<<"etc", "shadow">>, <<"etc", "passwd">>, <<"root", ".ssh">>, <<".ssh">>}
      /\ c.allowedExecutables = <<<<"bin">>, <<"usr", "bin">>, <<"usr", "local", "bin">>,
                                  <<"sbin">>, <<"usr", "sbin">>>>
  BY DEF DefaultSandboxConfig
<1> HIDE DEF c
<1>2. c.allowedPaths \in (SUBSET Seq(Names)) \ {{}} /\ c.deniedPaths \subseteq Seq(Names)
  <2>1. /\ <<"tmp">> \in Seq(Names) /\ <<"var", "tmp">> \in Seq(Names)
        /\ <<"home">> \in Seq(Names)
    OBVIOUS
  <2>2. /\ <<"etc", "shadow">> \in Seq(Names) /\ <<"etc", "passwd">> \in Seq(Names)
        /\ <<"root", ".ssh">> \in Seq(Names) /\ <<".ssh">> \in Seq(Names)
    OBVIOUS
  <2> QED
    BY <1>1, <2>1, <2>2, Zenon
<1>3. ASSUME NEW s \in Seq(Names), NEW t \in Seq(Names), s # <<>>, t # <<>>, IsPrefix(s, t)
      PROVE  s[1] = t[1]
  <2>1. 1 \in 1..Len(s) /\ Len(s) \in 1..Len(s) /\ 1 \in 1..Len(t) /\ Len(s) \in 1..Len(t)
    BY <1>3, EmptySeq DEF IsPrefix
  <2>2. /\ Head(SubSeq(s, 1, Len(s))) = s[1]
        /\ Head(SubSeq(t, 1, Len(s))) = t[1]
    BY <2>1, HeadTailOfSubSeq
  <2> QED
    BY <1>3, <2>2 DEF IsPrefix
<1>4. /\ \A allowed \in c.allowedPaths : allowed # <<>> /\ allowed[1] \in {"tmp", "var", "home"}
      /\ \A denied \in c.deniedPaths : denied # <<>> /\ denied[1] \in {"etc", "root", ".ssh"}
  BY <1>1
<1>5. \A allowed \in c.allowedPaths, denied \in c.deniedPaths :
        ~IsPrefix(allowed, denied) /\ ~IsPrefix(denied, allowed)
  <2> SUFFICES ASSUME NEW allowed \in c.allowedPaths, NEW denied \in c.deniedPaths
               PROVE  ~IsPrefix(allowed, denied) /\ ~IsPrefix(denied, allowed)
    OBVIOUS
  <2>1. /\ allowed \in Seq(Names) /\ denied \in Seq(Names)
        /\ allowed # <<>> /\ denied # <<>> /\ allowed[1] # denied[1]
    BY <1>2, <1>4
  <2> QED
    BY <1>3, <2>1
<1>6. c.allowedExecutables \in Seq(Seq(Names))
  <2>1. /\ <<"bin">> \in Seq(Names) /\ <<"usr", "bin">> \in Seq(Names)
        /\ <<"usr", "local", "bin">> \in Seq(Names)
        /\ <<"sbin">> \in Seq(Names) /\ <<"usr", "sbin">> \in Seq(Names)
    OBVIOUS
  <2> DEFINE Paths == Seq(Names)
  <2> HIDE DEF Paths
  <2>2. ASSUME NEW p \in Paths, NEW q \in Paths, NEW r \in Paths, NEW s \in Paths, NEW t \in Paths
        PROVE  <<p, q, r, s, t>> \in Seq(Paths)
    OBVIOUS
  <2>3. /\ <<"bin">> \in Paths /\ <<"usr", "bin">> \in Paths
        /\ <<"usr", "local", "bin">> \in Paths
        /\ <<"sbin">> \in Paths /\ <<"usr", "sbin">> \in Paths
    BY <2>1 DEF Paths
  <2>4. c.allowedExecutables \in Seq(Paths)
    BY <1>1, <2>2, <2>3
  <2> QED
    BY <2>4 DEF Paths
<1>7. \A dir \in Range(c.allowedExecutables) :
        /\ dir # <<>> /\ Undotted(dir) /\ Last(dir) \in {"bin", "sbin"}
        /\ \A i \in DOMAIN dir : dir[i] \in {"usr", "local", "bin", "sbin"}
  <2> DEFINE Fine(dir) == /\ dir # <<>> /\ Undotted(dir) /\ Last(dir) \in {"bin", "sbin"}
                          /\ \A i \in DOMAIN dir : dir[i] \in {"usr", "local", "bin", "sbin"}
  <2>1. Fine(<<"bin">>) /\ Fine(<<"sbin">>)
    BY DEF Undotted, Last
  <2>2. Fine(<<"usr", "bin">>) /\ Fine(<<"usr", "sbin">>)
    BY DEF Undotted, Last
  <2>3. Fine(<<"usr", "local", "bin">>)
    BY DEF Undotted, Last
  <2>4. Range(c.allowedExecutables)
          = {<<"bin">>, <<"usr", "bin">>, <<"usr", "local", "bin">>, <<"sbin">>, <<"usr", "sbin">>}
    <3>1. ASSUME NEW p, NEW q, NEW r, NEW s, NEW t
          PROVE  Range(<<p, q, r, s, t>>) = {p, q, r, s, t}
      BY DEF Range
    <3> QED
      BY <1>1, <3>1
  <2> HIDE DEF Fine
  <2>5. \A dir \in Range(c.allowedExecutables) : Fine(dir)
    BY <2>1, <2>2, <2>3, <2>4, Zenon
  <2> QED
    BY <2>5 DEF Fine
<1>8. \A dir \in Range(c.allowedExecutables) : ~Lookalike(c, dir)
  BY <1>7 DEF Lookalike, StartsWith
<1> QED
  BY <1>2, <1>5, <1>6, <1>7, <1>8 DEF WellWritten, c

LEMMA AbsType ==
  ASSUME NEW Names, Cwd \in Seq(Names), NEW p, p.path \in Seq(Names)
  PROVE  Abs(p) \in Seq(Names)
<1>1. Cwd \o p.path \in Seq(Names)
  BY ConcatProperties
<1> QED
  BY <1>1, CleanType DEF Abs

\* Two prefixes of one path are prefixes of each other.
LEMMA PrefixesCompare ==
  ASSUME NEW Names, NEW s \in Seq(Names), NEW t \in Seq(Names), NEW path \in Seq(Names),
         IsPrefix(s, path), IsPrefix(t, path), Len(s) <= Len(t)
  PROVE  IsPrefix(s, t)
<1>1. Len(s) \in Nat /\ Len(t) \in Nat /\ Len(path) \in Nat /\ Len(t) <= Len(path)
  BY LenProperties DEF IsPrefix
<1>2. SubSeq(s, 1, Len(s)) = s /\ SubSeq(t, 1, Len(t)) = t
  BY PrefixItself
<1>3. s = SubSeq(path, 1, Len(s)) /\ t = SubSeq(path, 1, Len(t))
  BY <1>2 DEF IsPrefix
<1>4. \A i \in 1..Len(t) : path[i] = t[i]
  <2>1. t = SubSeq(path, 1, Len(t)) /\ \A i \in 1..Len(path) : path[i] \in Names
    BY <1>3, ElementOfSeq
  <2>2. \A i \in 1..Len(t) : path[i] \in Names
    BY <1>1, <2>1
  <2>3. \A i \in 1 .. Len(t) - 1 + 1 : SubSeq(path, 1, Len(t))[i] = path[1 + i - 1]
    BY <1>1, <2>2, SubSeqProperties
  <2>4. \A i \in 1..Len(t) : i \in 1 .. Len(t) - 1 + 1 /\ 1 + i - 1 = i
    BY <1>1
  <2> QED
    BY <2>1, <2>3, <2>4
<1>5. SubSeq(t, 1, Len(s)) = SubSeq(path, 1, Len(s))
  BY <1>1, <1>4
<1> QED
  BY <1>2, <1>3, <1>5 DEF IsPrefix

\* The lists of directories (sandbox_config.go:119).
LEMMA PathsExact ==
  ASSUME NEW Names, ".." \in Names, Cwd \in Seq(Names), NEW c, WellWritten(c, Names),
         c.enabled, NEW p, p.path \in Seq(Names)
  PROVE  /\ ValidatePath(c, p) => DirectoryWithin(c, Abs(p))
         /\ DirectoryWithin(c, Abs(p)) /\ ~Dotted(Abs(p)) => ValidatePath(c, p)
<1> DEFINE path == Abs(p)
<1>1. path \in Seq(Names)
  BY AbsType
<1> HIDE DEF path
<1>2. /\ \A allowed \in c.allowedPaths : allowed \in Seq(Names)
      /\ \A denied \in c.deniedPaths : denied \in Seq(Names)
      /\ c.allowedPaths # {}
  BY DEF WellWritten
<1>3. ASSUME ValidatePath(c, p) PROVE DirectoryWithin(c, path)
  <2>1. PICK allowed \in c.allowedPaths : Under(allowed, path)
    BY <1>2, <1>3 DEF ValidatePath, path
  <2>2. IsPrefix(allowed, path)
    BY <1>1, <1>2, <2>1, UnderIsWithin
  <2>3. ASSUME NEW denied \in c.deniedPaths, IsPrefix(denied, path) PROVE FALSE
    <3>1. Len(allowed) \in Nat /\ Len(denied) \in Nat
      BY <1>2, LenProperties
    <3>2. IsPrefix(allowed, denied) \/ IsPrefix(denied, allowed)
      <4>1. CASE Len(allowed) <= Len(denied)
        BY <1>1, <1>2, <2>2, <2>3, <4>1, PrefixesCompare
      <4>2. CASE Len(denied) <= Len(allowed)
        BY <1>1, <1>2, <2>2, <2>3, <4>2, PrefixesCompare
      <4> QED
        BY <3>1, <4>1, <4>2
    <3> QED
      BY <3>2 DEF WellWritten
  <2> QED
    BY <2>2, <2>3 DEF DirectoryWithin
<1>4. ASSUME DirectoryWithin(c, path), ~Dotted(path) PROVE ValidatePath(c, p)
  <2>1. PICK allowed \in c.allowedPaths : IsPrefix(allowed, path)
    BY <1>4 DEF DirectoryWithin
  <2>2. Under(allowed, path)
    BY <1>1, <1>2, <1>4, <2>1, WithinIsUnder
  <2>3. \A denied \in c.deniedPaths : ~Under(denied, path)
    BY <1>1, <1>2, <1>4, UnderIsWithin DEF DirectoryWithin
  <2> QED
    BY <2>2, <2>3 DEF ValidatePath, path
<1> QED
  BY <1>3, <1>4 DEF path

\* A program found in a directory of the list lies in it.
LEMMA FoundIsWithin ==
  ASSUME NEW Names, NEW dir \in Seq(Names), NEW name \in Seq(Names),
         dir # <<>>, Undotted(dir), Undotted(name)
  PROVE  Clean(dir \o name) = dir \o name /\ TextPrefix(dir, dir \o name)
<1> DEFINE path == dir \o name
<1>1. /\ path \in Seq(Names) /\ Len(path) = Len(dir) + Len(name)
      /\ \A i \in 1..Len(dir) + Len(name) :
           path[i] = IF i <= Len(dir) THEN dir[i] ELSE name[i - Len(dir)]
      /\ Len(dir) \in Nat \ {0} /\ Len(name) \in Nat
      /\ DOMAIN dir = 1..Len(dir) /\ DOMAIN name = 1..Len(name) /\ DOMAIN path = 1..Len(path)
  BY ConcatProperties, LenProperties, EmptySeq
<1>2. IsPrefix(dir, path)
  <2>1. 1 \in 1..Len(dir) /\ Len(dir) \in 1..Len(dir)
    BY <1>1
  <2>2. SubSeq(path, 1, Len(dir)) = SubSeq(dir, 1, Len(dir))
    BY <2>1, SubSeqOfConcat1
  <2> QED
    BY <1>1, <2>2 DEF IsPrefix
<1> HIDE DEF path
<1>3. Undotted(path)
  <2> SUFFICES ASSUME NEW i \in 1..Len(dir) + Len(name) PROVE path[i] \notin {".", ".."}
    BY <1>1 DEF Undotted
  <2>1. CASE i <= Len(dir)
    <3>1. i \in DOMAIN dir /\ path[i] = dir[i]
      BY <1>1, <2>1
    <3> QED
      BY <3>1 DEF Undotted
  <2>2. CASE i > Len(dir)
    <3>1. i - Len(dir) \in 1..Len(name) /\ ~(i <= Len(dir))
      BY <1>1, <2>2
    <3> QED
      BY <1>1, <3>1 DEF Undotted
  <2> QED
    BY <1>1, <2>1, <2>2
<1>4. Clean(path) = path
  BY <1>1, <1>3, CleanUndotted
<1>5. TextPrefix(dir, path)
  BY <1>1, <1>2, TextPrefixIsWithin
<1> QED
  BY <1>4, <1>5 DEF path

LEMMA SeqOfElements ==
  ASSUME NEW Names, NEW s \in Seq(Names), NEW S, \A i \in DOMAIN s : s[i] \in S
  PROVE  s \in Seq(S)
<1>1. Len(s) \in Nat /\ DOMAIN s = 1..Len(s) /\ s = [i \in 1..Len(s) |-> s[i]]
  BY LenProperties
<1>2. s \in [1..Len(s) -> S]
  BY <1>1
<1> QED
  BY <1>1, <1>2, SeqDef

\* The list of executables (sandbox_config.go:164).
LEMMA ExecutablesExact ==
  ASSUME NEW Names, NEW c, WellWritten(c, Names), c.enabled, NEW exe, exe.path \in Seq(Names)
  PROVE  /\ ValidateExecutable(c, exe, files) =>
              \/ ExecutableWithin(c, exe)
              \/ Lookalike(c, exe.path)
              \/ exe.abs /\ ~Undotted(exe.path)
         /\ ExecutableWithin(c, exe) /\ Undotted(exe.path) => ValidateExecutable(c, exe, files)
<1> DEFINE list == c.allowedExecutables
           dirs == Range(list)
           Place(dir) == Clean(dir \o exe.path)
<1>1. /\ \A dir \in dirs : dir \in Seq(Names) /\ dir # <<>> /\ Undotted(dir) /\ ~Lookalike(c, dir)
      /\ DOMAIN list \subseteq Nat
      /\ \A i \in DOMAIN list : list[i] \in dirs
  <2> DEFINE Paths == Seq(Names)
  <2>1. list \in Seq(Paths) /\ \A dir \in dirs : dir # <<>> /\ Undotted(dir) /\ ~Lookalike(c, dir)
    BY DEF WellWritten
  <2> HIDE DEF list, Paths
  <2>2. DOMAIN list = 1..Len(list) /\ Len(list) \in Nat /\ \A i \in 1..Len(list) : list[i] \in Paths
    BY <2>1, LenProperties, ElementOfSeq
  <2>3. \A dir \in dirs : dir \in Paths
    BY <2>2 DEF Range
  <2>4. \A i \in DOMAIN list : list[i] \in dirs
    BY DEF Range
  <2> QED
    BY <2>1, <2>2, <2>3, <2>4 DEF Paths
<1> HIDE DEF list
<1>2. CASE list = <<>>
  BY <1>2 DEF ValidateExecutable, ExecutableWithin, list
<1>3. ASSUME exe.abs, list # <<>> PROVE
        /\ ValidateExecutable(c, exe, files) /\ Undotted(exe.path) /\ ~Lookalike(c, exe.path)
             => ExecutableWithin(c, exe)
        /\ ExecutableWithin(c, exe) /\ Undotted(exe.path) => ValidateExecutable(c, exe, files)
  <2> SUFFICES ASSUME Undotted(exe.path)
               PROVE  /\ ~Lookalike(c, exe.path) /\ (\E dir \in dirs : TextPrefix(dir, exe.path))
                           => \E dir \in dirs : IsPrefix(dir, exe.path)
                      /\ (\E dir \in dirs : IsPrefix(dir, exe.path))
                           => \E dir \in dirs : TextPrefix(dir, exe.path)
    <3>1. Undotted(exe.path) => Clean(exe.path) = exe.path
      BY CleanUndotted
    <3>2. Undotted(exe.path) =>
            (ExecutableWithin(c, exe) <=> \E dir \in dirs : IsPrefix(dir, exe.path))
      BY <1>3, <3>1 DEF ExecutableWithin, list
    <3>3. ValidateExecutable(c, exe, files) <=> \E dir \in dirs : TextPrefix(dir, exe.path)
      BY <1>3 DEF ValidateExecutable, list
    <3> QED
      BY <3>2, <3>3
  <2>1. ASSUME NEW dir \in dirs, TextPrefix(dir, exe.path), ~Lookalike(c, exe.path)
        PROVE  IsPrefix(dir, exe.path)
    <3>1. Len(dir) \in DOMAIN exe.path
      BY <1>1, <2>1, LenProperties, EmptySeq DEF TextPrefix
    <3>2. exe.path[Len(dir)] = Last(dir)
      BY <2>1, <3>1 DEF TextPrefix, Lookalike, list
    <3> QED
      BY <1>1, <2>1, <3>2, TextPrefixIsWithin
  <2>2. ASSUME NEW dir \in dirs, IsPrefix(dir, exe.path) PROVE TextPrefix(dir, exe.path)
    BY <1>1, <2>2, TextPrefixIsWithin
  <2> QED
    BY <2>1, <2>2
<1>4. ASSUME ~exe.abs, list # <<>>, ValidateExecutable(c, exe, files), ~Lookalike(c, exe.path)
      PROVE  ExecutableWithin(c, exe)
  <2>1. PICK place \in FindExecutable(c, exe, files) : \E dir \in dirs : TextPrefix(dir, place)
    BY <1>4 DEF ValidateExecutable, list
  <2>2. PICK dir \in dirs : TextPrefix(dir, place)
    BY <2>1
  <2>3. PICK i \in DOMAIN list : place = Place(list[i]) /\ place \in files
    BY <2>1 DEF FindExecutable, list
  <2> DEFINE Good == {n \in Names : \A d \in dirs : n = Last(d) \/ ~StartsWith(n, Last(d))}
  <2>4. \A s \in Seq(Names) : ~Lookalike(c, s) => s \in Seq(Good)
    <3> SUFFICES ASSUME NEW s \in Seq(Names), ~Lookalike(c, s) PROVE s \in Seq(Good)
      OBVIOUS
    <3>1. \A j \in DOMAIN s : s[j] \in Names
      BY LenProperties, ElementOfSeq
    <3>2. \A j \in DOMAIN s : s[j] \in Good
      BY <3>1 DEF Lookalike, list
    <3> QED
      BY <3>2, SeqOfElements
  <2> HIDE DEF Good
  <2>5. list[i] \in Seq(Good) /\ exe.path \in Seq(Good)
    BY <1>1, <1>4, <2>4
  <2>6. place \in Seq(Good)
    <3>1. list[i] \o exe.path \in Seq(Good)
      BY <2>5, ConcatProperties
    <3> QED
      BY <2>3, <3>1, CleanType
  <2>7. Len(dir) \in 1..Len(place)
    BY <1>1, <2>2, <2>6, LenProperties, EmptySeq DEF TextPrefix
  <2>8. place[Len(dir)] \in Good
    BY <2>6, <2>7, ElementOfSeq
  <2>9. place[Len(dir)] = Last(dir)
    BY <2>2, <2>8 DEF TextPrefix, Good
  <2>10. place \in Seq(Names)
    <3>1. list[i] \o exe.path \in Seq(Names)
      BY <1>1, ConcatProperties
    <3> QED
      BY <2>3, <3>1, CleanType
  <2>11. IsPrefix(dir, place)
    BY <1>1, <2>2, <2>9, <2>10, TextPrefixIsWithin
  <2>12. place \in {Place(d) : d \in dirs} \cap files
    BY <1>1, <2>3
  <2> QED
    BY <1>4, <2>11, <2>12 DEF ExecutableWithin, list
<1>5. ASSUME ~exe.abs, list # <<>>, ExecutableWithin(c, exe), Undotted(exe.path)
      PROVE  ValidateExecutable(c, exe, files)
  <2>1. \E i \in DOMAIN list : Place(list[i]) \in files
    <3>1. PICK d \in dirs : Place(d) \in files
      BY <1>5 DEF ExecutableWithin, list
    <3> QED
      BY <3>1 DEF Range
  <2> DEFINE hits == {i \in DOMAIN list : Place(list[i]) \in files}
  <2>2. PICK m \in hits : \A k \in hits : m <= k
    BY <1>1, <2>1, HasLeast
  <2>3. Place(list[m]) \in FindExecutable(c, exe, files)
    BY <2>2 DEF FindExecutable, list
  <2>4. list[m] \in dirs
    BY <1>1, <2>2
  <2>5. TextPrefix(list[m], Place(list[m]))
    BY <1>1, <1>5, <2>4, FoundIsWithin
  <2> QED
    BY <1>5, <2>3, <2>4, <2>5 DEF ValidateExecutable, list
<1> QED
  BY <1>2, <1>3, <1>4, <1>5

\* Each of the two tests lets a request pass only if its directory and its executable
\* lie where the lists say at that moment, and turns it down only if they do not
\* (sandbox_config.go:119, :164), except for what the code reads as text: an executable
\* written with dots, or under a name that begins as a listed directory ends; a directory
\* with a name that begins with two dots.
THEOREM ListsAreExact ==
  ASSUME NEW Names, ".." \in Names, Cwd \in Seq(Names),
         \A r \in Request : Named(r, Names),
         \A c \in Configs : c.enabled => WellWritten(c, Names)
  PROVE  PolicySpec => AdmittedExactly
<1> DEFINE IInv == Named(request, Names) /\ (config.enabled => WellWritten(config, Names))
           Exact == LET exe == request.exe
                        executable == ExecutableWithin(config, exe)
                        directory == request.dir.given => DirectoryWithin(config, Abs(request.dir))
                    IN IF step' \in {"validated", "prepared"}
                       THEN /\ executable \/ Lookalike(config, exe.path) \/ (exe.abs /\ ~Undotted(exe.path))
                            /\ directory
                       ELSE executable /\ directory => Dotted(Abs(request.dir)) \/ ~Undotted(exe.path)
<1>1. PolicyInit => IInv
  BY DEF PolicyInit, NewSandboxExecutor
<1>2. IInv /\ [PolicyNext]_policy => IInv'
  BY DEF PolicyNext, Refuse, HandleSpecial, Pass, PrepareCommand, PrepareFails, FilesChange,
         policy
<1>3. IInv /\ [PolicyNext]_policy
        => [step' # step /\ request.text = "plain" /\ config.enabled => Exact]_policy
  <2> SUFFICES ASSUME IInv, [PolicyNext]_policy, step' # step, request.text = "plain",
                      config.enabled
               PROVE  Exact
    OBVIOUS
  <2>1. Named(request, Names) /\ WellWritten(config, Names)
    OBVIOUS
  <2>2. /\ ValidateExecutable(config, request.exe, files) =>
             \/ ExecutableWithin(config, request.exe)
             \/ Lookalike(config, request.exe.path)
             \/ request.exe.abs /\ ~Undotted(request.exe.path)
        /\ ExecutableWithin(config, request.exe) /\ Undotted(request.exe.path)
             => ValidateExecutable(config, request.exe, files)
    BY <2>1, ExecutablesExact DEF Named
  <2>3. /\ ValidatePath(config, request.dir) => DirectoryWithin(config, Abs(request.dir))
        /\ DirectoryWithin(config, Abs(request.dir)) /\ ~Dotted(Abs(request.dir))
             => ValidatePath(config, request.dir)
    BY <2>1, PathsExact DEF Named
  <2> DEFINE passes == /\ ValidateExecutable(config, request.exe, files)
                       /\ request.dir.given => ValidatePath(config, request.dir)
  <2>4. \/ passes /\ step' \in {"validated", "prepared"}
        \/ ~passes /\ step' \in {"refused", "late"}
    <3> HIDE DEF IInv, Exact
    <3>1. CASE Refuse
      <4>1. ~ValidateCommand(files) /\ step' = "refused"
        BY <3>1 DEF Refuse, Dangerous
      <4> QED
        BY <4>1 DEF ValidateCommand
    <3>2. CASE Pass
      <4>1. ValidateCommand(files) /\ step' = "validated"
        BY <3>2 DEF Pass
      <4> QED
        BY <4>1 DEF ValidateCommand
    <3>3. CASE PrepareCommand
      <4>1. Admissible(files) /\ step' = "prepared"
        BY <3>3 DEF PrepareCommand
      <4> QED
        BY <4>1 DEF Admissible
    <3>4. CASE PrepareFails
      <4>1. ~Admissible(files) /\ step' = "late"
        BY <3>4 DEF PrepareFails
      <4> QED
        BY <4>1 DEF Admissible
    <3>5. CASE HandleSpecial \/ FilesChange \/ UNCHANGED policy
      BY <3>5 DEF HandleSpecial, FilesChange, policy
    <3> QED
      BY <3>1, <3>2, <3>3, <3>4, <3>5 DEF PolicyNext
  <2> QED
    BY <2>2, <2>3, <2>4
<1> QED
  BY <1>1, <1>2, <1>3, PTL DEF PolicySpec, AdmittedExactly
=============================================================================
