--------------------------- MODULE OutputEncoding ---------------------------
(***************************************************************************)
(* A command's output on Windows: multiEncodingReader.Read, which turns    *)
(* what each read of the pipe returns into UTF-8, under the bufio.Scanner  *)
(* of EncodingScanner (internal/agent/client/encoding.go).                 *)
(*                                                                         *)
(* A byte is known by its place in a character.  A command writes UTF-8:   *)
(* ASCII <<"a">> and Chinese characters <<"u1", "u2", "u3">>; or GBK:      *)
(* ASCII and characters <<"g1", "g2">>, some of which happen to be a       *)
(* UTF-8 character of two bytes, <<"h1", "h2">>.  Converted, a GBK         *)
(* character is <<"k1", "k2", "k3">> (<<"l1", "l2", "l3">> for the last    *)
(* kind) and what comes out wrong <<"x1", "x2", "x3">>.  ASCII stands for  *)
(* bytes below 0x40, which are never the second byte of a GBK character.   *)
(*                                                                         *)
(* Bounds: MaxText (characters written), MaxRoom (free space the Scanner   *)
(* offers at a read).                                                      *)
(***************************************************************************)
EXTENDS SequencesExt

CONSTANTS MaxText, MaxRoom

ASSUME OutputAssumption == MaxText \in Nat /\ MaxRoom \in Nat \ {0}

VARIABLES
  text,     \* the characters the command writes
  read,     \* bytes of them that were read
  kept,     \* what the Scanner got
  intact,   \* every read so far returned whole characters, and none of GBK that
            \* happen to be UTF-8 (history)
  reading   \* "on", "ended" at end of file, "failed" with bufio.ErrBadReadCount

output == <<text, read, kept, intact, reading>>

Ascii == <<"a">>
Unicode == <<"u1", "u2", "u3">>
Gbk == <<"g1", "g2">>
Chance == <<"h1", "h2">>
Converted == <<"k1", "k2", "k3">>
ConvertedChance == <<"l1", "l2", "l3">>
Wrong == <<"x1", "x2", "x3">>

Utf8Texts == UNION {[1..n -> {Ascii, Unicode}] : n \in 0..MaxText}
GbkTexts == UNION {[1..n -> {Ascii, Gbk, Chance}] : n \in 0..MaxText}

Bytes == FlattenSeq(text)

(***************************************************************************)
(* utf8.Valid and the GBK decoder.                                         *)
(***************************************************************************)
Utf8Characters ==
  {Ascii, Unicode, Chance, Converted, ConvertedChance, Wrong}

\* Every byte lies in a whole character; bytes know their place in one, so no two
\* characters overlap.
Valid(bytes) ==
  \A i \in DOMAIN bytes :
    \E c \in Utf8Characters : \E j \in DOMAIN c :
      /\ j <= i
      /\ i - j + Len(c) <= Len(bytes)
      /\ SubSeq(bytes, i - j + 1, i - j + Len(c)) = c

DecodedGbk(pair) ==
  IF pair = Gbk THEN Converted ELSE IF pair = Chance THEN ConvertedChance ELSE Wrong

\* The GBK decoder never fails: it pairs bytes from the left, and a byte that has no
\* partner becomes U+FFFD.  decoded[i] is what the bytes from i on become.
DecodeGbk(bytes) ==
  LET decoded[i \in 1..Len(bytes) + 1] ==
        IF i > Len(bytes) THEN <<>>
        ELSE IF bytes[i] = "a" THEN Ascii \o decoded[i + 1]
        ELSE IF i = Len(bytes) \/ bytes[i + 1] = "a" THEN Wrong \o decoded[i + 1]
        ELSE DecodedGbk(<<bytes[i], bytes[i + 1]>>) \o decoded[i + 2]
  IN decoded[1]

\* MUTANT of TryConvertToUTF8: the test for UTF-8 is left to the decoders.
ConvertAlways(data) == DecodeGbk(data)

\* tryConvertToUTF8: as GBK is tried first, no other decoder is reached.
TryConvertToUTF8(data) == IF Valid(data) THEN data ELSE DecodeGbk(data)

(***************************************************************************)
(* Reading.                                                                *)
(***************************************************************************)
Boundaries == {Len(FlattenSeq(SubSeq(text, 1, n))) : n \in 0..Len(text)}

\* Read: the pipe gives 1..room bytes, and Read returns the length of what they were
\* converted to, which bufio.Scanner refuses if it is more than the room it gave.
Read ==
  /\ reading = "on"
  /\ \E room \in 1..MaxRoom :
       \E n \in 1..room :
         /\ read + n <= Len(Bytes)
         /\ LET data == SubSeq(Bytes, read + 1, read + n)
                converted == TryConvertToUTF8(data)
            IN /\ intact' = (intact /\ read + n \in Boundaries
                               /\ ~(Valid(data) /\ \E i \in 1..n : data[i] = "h1"))
               /\ IF Len(converted) <= room
                  THEN kept' = kept \o converted /\ reading' = "on"
                  ELSE kept' = kept /\ reading' = "failed"
         /\ read' = read + n
  /\ UNCHANGED text

EndOfFile ==
  /\ reading = "on"
  /\ read = Len(Bytes)
  /\ reading' = "ended"
  /\ UNCHANGED <<text, read, kept, intact>>

OutputInit ==
  /\ text \in Utf8Texts \cup GbkTexts
  /\ read = 0
  /\ kept = <<>>
  /\ intact = TRUE
  /\ reading = "on"

OutputNext == Read \/ EndOfFile

OutputSpec == OutputInit /\ [][OutputNext]_output

(***************************************************************************)
(* Properties.                                                             *)
(***************************************************************************)
\* The text as it should arrive.
InUtf8(character) ==
  IF Len(character) = 2 THEN DecodedGbk(character) ELSE character
Expected == FlattenSeq([i \in DOMAIN text |-> InUtf8(text[i])])

\* What is kept is valid UTF-8, whatever was split or converted, so neither Text
\* (encoding.go:118) nor sanitizeUTF8String finds anything to repair; and it is the
\* text that was written, in either encoding, unless a read split a character or
\* its bytes were UTF-8 by chance (encoding.go:40-62).
TextRight ==
  /\ Valid(kept)
  /\ reading = "ended" /\ intact => kept = Expected

\* The reader only gives up (and the rest of the output is lost) on output that is
\* not UTF-8 or was split: UTF-8 read whole never outgrows its buffer (encoding.go:61).
OnlyConversionFails ==
  reading = "failed" /\ intact => \E i \in DOMAIN text : text[i] \in {Gbk, Chance}
=============================================================================
