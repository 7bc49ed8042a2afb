-------------------------------- MODULE Chunking -------------------------------
(***************************************************************************)
(* chunkDocument: the loop that cuts a content into chunks at its line     *)
(* breaks, one line a step.  DocumentsService and ConnectorsService have   *)
(* the same loop.  A character is the number of the line it stands in, or  *)
(* Blank, which a line break is, too.                                      *)
(***************************************************************************)
EXTENDS Integers, Sequences, FiniteSets, FiniteSetsExt

CONSTANTS
  ChunkSize, Overlap,   \* 512 and 64 in the code
  MaxLines, MaxWidth    \* bounds: lines of a content, characters of a line

ASSUME ChunkAssumption ==
  /\ Overlap \in Nat \ {0} /\ ChunkSize \in Nat /\ Overlap < ChunkSize
  /\ MaxLines \in Nat /\ MaxWidth \in Nat

VARIABLES
  lines,                \* the lines left to read: those that are not empty
  wholeText,            \* history: all of them
  current, chunks,      \* currentChunk, and the chunks' contents
  chunkPc

chunkVars == <<lines, wholeText, current, chunks, chunkPc>>

Blank == 0

\* Contents of lines that are not empty, with white space anywhere: before, in and behind
\* their text, or nothing else.
ChunkTexts ==
  LET widths == UNION {[1 .. k -> BOOLEAN] : k \in 1 .. MaxWidth}
  IN  {[i \in DOMAIN w |-> [j \in DOMAIN w[i] |-> IF w[i][j] THEN i ELSE Blank]] :
         w \in UNION {[1 .. n -> widths] : n \in 0 .. MaxLines}}

ChunkingInit ==
  /\ lines \in ChunkTexts /\ wholeText = lines
  /\ current = <<>> /\ chunks = <<>> /\ chunkPc = "lines"

\* String.trim.
Trim(s) ==
  LET inked == {i \in DOMAIN s : s[i] # Blank}
  IN  IF inked = {} THEN <<>> ELSE SubSeq(s, Min(inked), Max(inked))

\* slice(0, n), slice(-n).
FirstOnes(s, n) == SubSeq(s, 1, Min({n, Len(s)}))
LastOnes(s, n)  == SubSeq(s, Max({1, Len(s) - n + 1}), Len(s))

Overflows(line) == Len(current) + Len(line) > ChunkSize /\ Len(current) > 0

\* Mutant: the line that does not fit is left out of the chunk it begins.
CarryOnly(carried, line) ==
  IF Overflows(line) THEN carried
  ELSE IF carried = <<>> THEN line ELSE carried \o <<Blank>> \o line

Carry(carried, line) == IF carried = <<>> THEN line ELSE carried \o <<Blank>> \o line

TakeLine ==
  /\ chunkPc = "lines" /\ lines # <<>> /\ lines' = Tail(lines)
  /\ IF Overflows(Head(lines))
       THEN chunks' = Append(chunks, Trim(current)) /\ current' = Carry(LastOnes(current, Overlap), Head(lines))
       ELSE current' = Carry(current, Head(lines)) /\ UNCHANGED chunks
  /\ UNCHANGED <<wholeText, chunkPc>>

\* The last chunk, unless it is white space; white space alone makes one chunk, of the
\* content with its line breaks, all of it Blank.
LastChunk ==
  /\ chunkPc = "lines" /\ lines = <<>> /\ chunkPc' = "stored"
  /\ chunks' = IF Trim(current) # <<>> THEN Append(chunks, Trim(current))
               ELSE IF chunks = <<>> THEN <<FirstOnes(current, ChunkSize)>> ELSE chunks
  /\ UNCHANGED <<lines, wholeText, current>>

ChunkingNext == TakeLine \/ LastChunk

ChunkingSpec == ChunkingInit /\ [][ChunkingNext]_chunkVars

----------------------------------------------------------------------------
(* Properties *)

\* Whatever the lines, there is a chunk; each line of text is whole in one but for the white
\* space around it, which trim cuts off where the line begins or ends a chunk; the lines are
\* in the order of the content, and the next chunk repeats Overlap characters at most; a
\* chunk is longer than ChunkSize by its line break, or by what the overlap and a long line
\* make; and a chunk is empty only where a line of white space filled it
\* (documents.service.ts:390, 394, 395, 402).
ChunksHoldTheText ==
  LET text(i)    == Trim(wholeText[i])
      Has(c, i)  == \E k \in 1 .. Len(c) - Len(text(i)) + 1 :
                          SubSeq(c, k, k + Len(text(i)) - 1) = text(i)
      inked      == {i \in DOMAIN wholeText : text(i) # <<>>}
      homes(i)   == {k \in DOMAIN chunks : Has(chunks[k], i)}
      Count(c, i) == Cardinality({k \in DOMAIN c : c[k] = i})
  IN  chunkPc = "stored" =>
        /\ chunks # <<>>
        /\ \A i \in inked : homes(i) # {}
        /\ \A i, j \in inked : i < j =>
             \E k \in homes(i), l \in homes(j) : k <= l
        /\ \A i \in inked, k \in DOMAIN chunks :
             k + 1 \in DOMAIN chunks /\ Has(chunks[k], i) => Count(chunks[k + 1], i) <= Overlap
        /\ \A k \in DOMAIN chunks :
             /\ Len(chunks[k]) <= ChunkSize + 1 \/ Len(chunks[k]) <= Overlap + 1 + MaxWidth
             /\ chunks[k] = <<>> => inked # DOMAIN wholeText \/ wholeText = <<>>

==============================================================================
