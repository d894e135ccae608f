--------------------------- MODULE MCFileDownload ---------------------------
EXTENDS FileDownload

\* A file of two chunks and an empty one.
ChunksOf == [f \in File |-> IF f = "two" THEN 2 ELSE 0]
=============================================================================
