------------------------------ MODULE ColonFile ------------------------------
(***************************************************************************)
(* findUserId and findGroupId with readColonFile and the matchers          *)
(* (sensor/internal/utils/osuserswrapper.go): the search for an id in a    *)
(* passwd or group file whose lines may be longer than the reader's        *)
(* buffer, so that one line comes in several chunks.                       *)
(*                                                                         *)
(* A file is a sequence of chunks, as ReadLine hands them out: `more' is   *)
(* isPrefix, `colons' how many colons are in the chunk, and `row' what the *)
(* text from here on says if it is taken for the beginning of a line.  The *)
(* last chunk may have `more', too: its line ends with the file, without a *)
(* newline, just where the buffer is full.                                 *)
(*                                                                         *)
(* ReadLine returns a read error only if it has nothing else to return.  A *)
(* chunk in which the error falls comes back short, as the end of a line,  *)
(* and what is left of it is the next thing read.                          *)
(***************************************************************************)
EXTENDS Integers, Sequences

CONSTANTS
    Chunk,       \* chunks, apart from `more'
    Cut,         \* <<c, a, b>>: chunk c may be cut in two, a and b
    MaxChunks,   \* bound: chunks of a file
    ReadCols,    \* readCols: 6 for users, 3 for groups
    MaxColons,   \* the most colons a chunk has
    Wanted,      \* the id that is looked for
    MaxFaults    \* bound: read errors

BlankLine == <<"blank">>        \* nothing but white space
Comment == <<"comment">>      \* begins with "#"
Text == <<"text">>            \* no row whatever follows
Unknown == "unknown"        \* UnknownUserIdError, UnknownGroupIdError
Error == "error"            \* the error of the reader

\* A row is <<"row", name, id, numeric>>: numeric is FALSE if a field that has to
\* be a number (the group id of a user) is none.  "" and "+" stand for a name
\* that is empty, or that begins with "+" or "-".
Row == {"row"} \X STRING \X Nat \X BOOLEAN
NoName == ""

ASSUME ColonFileAssumption ==
    /\ \A c \in Chunk : c.colons \in 0..MaxColons
    /\ \A c \in Chunk : c.row \in {BlankLine, Comment, Text} \/ c.row \in Row
    /\ \A c \in Chunk : c.row = BlankLine => c.colons = 0
    /\ \A c \in Chunk : c.row \in Row => c.row[2] \notin {Unknown, Error}
    /\ Cut \subseteq {x \in Chunk \X Chunk \X Chunk :
                          x[1].colons = x[2].colons + x[3].colons}
    /\ MaxChunks \in Nat /\ MaxColons \in Nat
    /\ ReadCols \in Nat \ {0} /\ MaxFaults \in Nat

VARIABLES
    chunks,   \* of the file
    pos,      \* chunks read
    phase,    \* "chunk": reading a line, "row": it is looked at, "skip": its
              \* rest is skipped, "done"
    row,      \* wholeLine: what it says
    colons,   \*   and how many colons it has
    answer,
    faults,
    rest,     \* <<what is left of chunk pos + 1>> after a cut in it, or <<>>
    slip      \* history, the worst read error that went unnoticed: in the
              \* "reading" of a line, in the "skipping" of one, or "none"

lookupVars == <<chunks, pos, phase, row, colons, answer, faults, rest, slip>>

Files == UNION {[1..n -> [c : Chunk, more : BOOLEAN]] : n \in 0..MaxChunks}

LookupTypeOK ==
    /\ chunks \in Files
    /\ pos \in 0..Len(chunks)
    /\ phase \in {"chunk", "row", "skip", "done"}
    /\ row \in {c.row : c \in Chunk} \cup {BlankLine}
    /\ colons \in 0..(ReadCols - 1 + MaxColons)
    /\ answer \in {NoName, Unknown, Error}
                   \cup {c.row[2] : c \in {d \in Chunk : d.row[1] = "row"}}
    /\ faults \in 0..MaxFaults
    /\ rest \in {<<>>} \cup {<<c>> : c \in Chunk}
    /\ slip \in {"none", "skipping", "reading"}

LookupInit ==
    /\ chunks \in Files
    /\ pos = 0 /\ phase = "chunk" /\ row = BlankLine /\ colons = 0
    /\ answer = NoName /\ faults = 0
    /\ rest = <<>> /\ slip = "none"

\* What the last ReadLine said: a chunk that was cut ends a line.
isPrefix == rest = <<>> /\ chunks[pos].more

\* What is still to be read of chunk pos + 1.
NextText == IF rest = <<>> THEN chunks[pos + 1].c ELSE rest[1]

\* wholeLine = append(wholeLine, line...): TrimSpace makes it begin at its first
\* chunk that is not blank.
AppendLine(c) ==
    /\ row' = IF row = BlankLine THEN c.row ELSE row
    /\ colons' = colons + c.colons

\* The next chunk is appended to wholeLine, until the line ends or has enough
\* columns.
ReadLine ==
    /\ phase = "chunk" /\ pos < Len(chunks)
    /\ pos' = pos + 1 /\ rest' = <<>>
    /\ AppendLine(NextText)
    /\ phase' = IF ~chunks[pos'].more \/ colons' >= ReadCols THEN "row" ELSE "chunk"
    /\ UNCHANGED <<chunks, answer, faults, slip>>

\* A read error within the chunk: ReadLine returns what it has, as a whole line.
ReadCut ==
    /\ phase = "chunk" /\ pos < Len(chunks) /\ faults < MaxFaults
    /\ \E x \in Cut : x[1] = NextText /\ AppendLine(x[2]) /\ rest' = <<x[3]>>
    /\ phase' = "row"
    /\ faults' = faults + 1 /\ slip' = "reading"
    /\ UNCHANGED <<chunks, pos, answer>>

\* io.EOF without a match, also within a line that ends with a full buffer.
EndOfFile ==
    /\ phase = "chunk" /\ pos = Len(chunks)
    /\ phase' = "done" /\ answer' = Unknown
    /\ UNCHANGED <<chunks, pos, row, colons, faults, rest, slip>>

\* A read error before anything of the chunk has been read.
ReadFails ==
    /\ phase = "chunk" /\ faults < MaxFaults
    /\ faults' = faults + 1
    /\ phase' = "done" /\ answer' = Error
    /\ UNCHANGED <<chunks, pos, row, colons, rest, slip>>

\* matchUserIndexValue, matchGroupIndexValue: enough columns, this id, a name
\* that is none of the special ones, and numbers where numbers belong.
Matches(r, n) ==
    /\ r[1] = "row" /\ n >= ReadCols
    /\ r[3] = Wanted /\ r[2] \notin {NoName, "+"} /\ r[4]

\* wholeLine is declared anew for each line.
FreshLine == row' = BlankLine /\ colons' = 0

\* Mutant: the rest of a long line is not skipped.
LookAt_NoSkip ==
    /\ phase = "row"
    /\ \/ /\ Matches(row, colons)
          /\ phase' = "done" /\ answer' = row[2]
          /\ UNCHANGED <<row, colons>>
       \/ /\ ~Matches(row, colons)
          /\ phase' = "chunk" /\ FreshLine
          /\ UNCHANGED answer
    /\ UNCHANGED <<chunks, pos, faults, rest, slip>>

\* A comment or a blank line is passed over (`continue', without skipping what is
\* left of it), a match returned, any other line skipped to its end.
LookAt ==
    /\ phase = "row"
    /\ \/ /\ row \in {BlankLine, Comment}
          /\ phase' = "chunk" /\ FreshLine
          /\ UNCHANGED answer
       \/ /\ Matches(row, colons)
          /\ phase' = "done" /\ answer' = row[2]
          /\ UNCHANGED <<row, colons>>
       \/ /\ row \notin {BlankLine, Comment} /\ ~Matches(row, colons)
          /\ phase' = (IF isPrefix THEN "skip" ELSE "chunk") /\ FreshLine
          /\ UNCHANGED answer
    /\ UNCHANGED <<chunks, pos, faults, rest, slip>>

\* Mutant: the line after the one to be skipped is skipped, too.
Skip_TooFar ==
    /\ phase = "skip" /\ pos < Len(chunks)
    /\ pos' = pos + 1
    /\ phase' = IF ~isPrefix \/ pos' = Len(chunks) THEN "chunk" ELSE "skip"
    /\ UNCHANGED <<chunks, row, colons, answer, faults, rest, slip>>

\* for ; isPrefix; _, isPrefix, err = rd.ReadLine()
Skip ==
    /\ phase = "skip" /\ pos < Len(chunks)
    /\ pos' = pos + 1
    /\ phase' = IF chunks[pos'].more THEN "skip" ELSE "chunk"
    /\ UNCHANGED <<chunks, row, colons, answer, faults, rest, slip>>

\* io.EOF makes isPrefix FALSE; the next ReadLine meets it again.
SkipEnds ==
    /\ phase = "skip" /\ pos = Len(chunks)
    /\ phase' = "chunk"
    /\ UNCHANGED <<chunks, pos, row, colons, answer, faults, rest, slip>>

\* So does a read error, before or within a chunk: the loop is over before err is
\* looked at, and what is left of the line is read as the next one.
SkipFails ==
    /\ phase = "skip" /\ faults < MaxFaults
    /\ \/ UNCHANGED rest
       \/ pos < Len(chunks) /\ \E x \in Cut : x[1] = NextText /\ rest' = <<x[3]>>
    /\ faults' = faults + 1
    /\ slip' = IF slip = "reading" THEN slip ELSE "skipping"
    /\ phase' = "chunk"
    /\ UNCHANGED <<chunks, pos, row, colons, answer>>

LookupNext ==
    ReadLine \/ ReadCut \/ EndOfFile \/ ReadFails \/ LookAt \/ Skip \/ SkipEnds \/ SkipFails

LookupSpec == LookupInit /\ [][LookupNext]_lookupVars

-----------------------------------------------------------------------------
(* Properties.                                                             *)

\* The lines of file f, and what the line of chunks i to j says: the first of them
\* that is not blank, and how many colons it has.
LineStart(f, i) == i = 1 \/ ~f[i - 1].more
LineEnd(f, j) == ~f[j].more \/ j = Len(f)
Line(f, i, j) == i <= j /\ LineStart(f, i) /\ \A k \in i..(j - 1) : f[k].more
ColonsFrom(f, i) ==
    LET n[k \in 0..Len(f)] == IF k < i THEN 0 ELSE n[k - 1] + f[k].c.colons
    IN  n
ColonsOf(f, i, j) == ColonsFrom(f, i)[j]
RowOf(f, i, j) ==
    LET said == {k \in i..j : f[k].c.row # BlankLine}
    IN  IF said = {} THEN BlankLine ELSE f[CHOOSE k \in said : \A l \in said : k <= l].c.row

\* The lines that give the wanted id a name, by their first chunk.
IsEntry(f, i, j) ==
    Line(f, i, j) /\ LineEnd(f, j) /\ Matches(RowOf(f, i, j), ColonsOf(f, i, j))
Entries(f) == {i \in 1..Len(f) : \E j \in i..Len(f) : IsEntry(f, i, j)}
NameAt(f, i) == RowOf(f, i, CHOOSE j \in i..Len(f) : Line(f, i, j) /\ LineEnd(f, j))[2]
Reference(f) ==
    IF Entries(f) = {} THEN Unknown
    ELSE NameAt(f, CHOOSE i \in Entries(f) : \A k \in Entries(f) : i <= k)

\* A comment so long that the loop leaves it early: it has as many colons as a
\* row needs before its end.
LongComment(f) ==
    \E i, j \in 1..Len(f) :
        Line(f, i, j) /\ f[j].more /\ RowOf(f, i, j) = Comment /\ ColonsOf(f, i, j) >= ReadCols

\* The name found is that of the first line for the id, however the lines fall
\* into chunks; only the rest of an over-long comment, which is not skipped, or
\* what a read error has made of a line, is ever taken for a line.
NameIsFirstRow ==
    phase = "done" /\ answer \notin {Unknown, Error} =>
        answer = Reference(chunks) \/ LongComment(chunks) \/ slip # "none"

\* "Unknown id" means that no line of the file has it, whatever long lines,
\* comments and unusual rows there are, and though read errors go unnoticed where
\* lines are skipped; a line that is cut while it is read may be the one.
UnknownMeansAbsent ==
    answer = Unknown => Reference(chunks) = Unknown \/ slip = "reading"
=============================================================================
