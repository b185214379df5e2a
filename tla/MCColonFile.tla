---------------------------- MODULE MCColonFile ----------------------------
(* Chunks for ColonFile: two names for one id, rows that do not count,     *)
(* comments with and without colons, with two columns to a row; and how    *)
(* they may be cut: within the columns after the id, within a name (what   *)
(* is left begins with another one), at the newline, within a comment.     *)
EXTENDS ColonFile

C(r, n) == [row |-> r, colons |-> n]
R(name, id, numeric) == <<"row", name, id, numeric>>
N1(n) == C(R("n1", 1, TRUE), n)
N2(n) == C(R("n2", 1, TRUE), n)
Blank == C(BlankLine, 0)
Words(n) == C(Text, n)
MCChunk ==
    {N1(1), N1(2), N2(2), C(R("+", 1, TRUE), 2), C(R("n3", 1, FALSE), 2),
     C(R("n4", 2, TRUE), 2), C(Comment, 0), C(Comment, 2), Blank, Words(0), Words(1)}
MCCut ==
    {<<N1(2), N1(1), Words(1)>>, <<N1(2), Words(0), N2(2)>>, <<N2(2), N2(2), Blank>>,
     <<N1(1), Words(0), N1(1)>>, <<C(Comment, 2), C(Comment, 0), N2(2)>>,
     <<C(Comment, 2), Words(0), C(Comment, 2)>>, <<Words(1), Blank, Words(1)>>}
=============================================================================
