------------------------- MODULE MCCommandExecution -------------------------
(***************************************************************************)
(* Small commands that take every path of executeCommand: with Limit = 0   *)
(* and PipeCapacity = 1 a reader stops after one chunk, and a process that *)
(* writes three to one output stays blocked on a full pipe.                *)
(***************************************************************************)
EXTENDS CommandExecution, TLC

Writes(out, err) == [o \in Output |-> IF o = "stdout" THEN out ELSE err]

Quiet == [special |-> FALSE, out |-> Writes(0, 0), closes |-> FALSE, ends |-> TRUE,
          background |-> FALSE, timeout |-> FALSE]

Special == [Quiet EXCEPT !.special = TRUE]
\* Writes more than its reader keeps, and ends.
Echo == [Quiet EXCEPT !.out = Writes(2, 0), !.timeout = TRUE]
\* Exceeds the limit on both outputs and hangs: its timeout can fire.
Chatty == [Quiet EXCEPT !.out = Writes(1, 1), !.ends = FALSE, !.timeout = TRUE]
\* Closes its outputs and hangs, with no timeout set.
Detached == [Quiet EXCEPT !.closes = TRUE, !.ends = FALSE]
\* Writes nothing and hangs.
Silent == [Quiet EXCEPT !.ends = FALSE, !.timeout = TRUE]
\* Writes more than reader and pipe take.
Flood == [Quiet EXCEPT !.out = Writes(3, 0), !.timeout = TRUE]
\* Leaves a process behind that holds the pipes.
Spawner == [Quiet EXCEPT !.background = TRUE, !.timeout = TRUE]

AllPrograms == {Special, Echo, Chatty, Detached, Silent, Flood, Spawner}

\* For two commands at once: one that ends, one that hangs but can be killed and
\* leaves something behind, and a special one.
FewPrograms ==
  {Special, [Quiet EXCEPT !.out = Writes(1, 0)], [Detached EXCEPT !.background = TRUE]}

Symmetry == Permutations(Execution)
=============================================================================
