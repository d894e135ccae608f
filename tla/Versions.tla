------------------------------ MODULE Versions ------------------------------
(***************************************************************************)
(* Versions as the updater compares them (internal/agent/updater/          *)
(* updater.go): normalizeVersion, parseVersionParts and isNewerVersion,    *)
(* for an agent that takes one offered release after the other.  It is     *)
(* what module SelfUpdate's numbers stand for.                             *)
(*                                                                         *)
(* A version is written as a number of leading "v"s and fields between     *)
(* dots; a field is a number (Text if it does not begin with one) and      *)
(* possibly more after it, as in 3-rc1.  Bound: Written.                   *)
(***************************************************************************)
EXTENDS Integers, Sequences

CONSTANT Written  \* the versions that may be written

Text == -1
Field == [n : Nat \cup {Text}, more : BOOLEAN]

ASSUME WrittenAssumption == \A w \in Written : w.v \in Nat /\ w.fields \in Seq(Field)

VARIABLES
  current,  \* currentVersion
  offered   \* latestVersion: the release the API names, without the "v" of its tag

comparison == <<current, offered>>

\* normalizeVersion removes one "v".
NormalizeVersion(w) == [w EXCEPT !.v = IF @ = 0 THEN 0 ELSE @ - 1]

\* fmt.Sscanf("%d.%d.%d") stops at what is not the number or the dot it expects.
Scanned(w, i) ==
  /\ w.v = 0
  /\ i <= Len(w.fields)
  /\ \A j \in 1..i : w.fields[j].n # Text
  /\ \A j \in 1..i - 1 : ~w.fields[j].more

\* parseVersionParts: what was not scanned is 0.
ParseVersionParts(w) ==
  LET normal == NormalizeVersion(w)
  IN [i \in 1..3 |-> IF Scanned(normal, i) THEN normal.fields[i].n ELSE 0]

\* MUTANT of NewerParts: a smaller part does not end the comparison.
NewerPartsAny(new, old) == \E i \in 1..3 : new[i] > old[i]

\* The loop of isNewerVersion: the first part that differs decides.
NewerParts(new, old) ==
  \E i \in 1..3 : new[i] > old[i] /\ \A j \in 1..i - 1 : new[j] = old[j]

IsNewerVersion(old, new) == NewerParts(ParseVersionParts(new), ParseVersionParts(old))

\* checkLatestVersion returns the tag normalised; parseVersionParts does so again.
Offer ==
  /\ offered' \in {NormalizeVersion(w) : w \in Written}
  /\ UNCHANGED current

\* CheckAndUpgrade, and the restart into the new version: its own tag, which NewUpdater
\* normalises as checkLatestVersion did.
Upgrade ==
  /\ IsNewerVersion(current, offered)
  /\ current' = offered
  /\ UNCHANGED offered

\* NewUpdater.
ComparisonInit ==
  /\ current \in {NormalizeVersion(w) : w \in Written}
  /\ offered \in {NormalizeVersion(w) : w \in Written}

ComparisonNext == Offer \/ Upgrade

ComparisonSpec == ComparisonInit /\ [][ComparisonNext]_comparison

(***************************************************************************)
(* Properties.                                                             *)
(***************************************************************************)
\* A version of numbers only, with at most one "v": what a release tag should be.
Plain(w) == w.v <= 1 /\ \A i \in DOMAIN w.fields : w.fields[i].n # Text /\ ~w.fields[i].more

\* What the i-th part of a version is worth: the field itself, and 0 where there is none.
\* Of a version that is not plain nothing promises more than what the code makes of it.
Worth(w, i) ==
  IF ~Plain(w) THEN ParseVersionParts(w)[i]
  ELSE IF i <= Len(w.fields) THEN w.fields[i].n ELSE 0

\* A number for each version that agrees with major, minor and patch as long as no
\* part reaches Base.
Base == 1000
Rank(w) == (Worth(w, 1) * Base + Worth(w, 2)) * Base + Worth(w, 3)

\* Versions are ordered like numbers, so that module SelfUpdate may count them: one
\* of two is newer exactly if its rank is greater (updater.go:369), and the rank of a
\* plain version is made of its written fields, however it was parsed.
NewerIsGreater == IsNewerVersion(current, offered) <=> Rank(current) < Rank(offered)
=============================================================================
