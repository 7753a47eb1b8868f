------------------------------ MODULE ParseError ------------------------------
(***************************************************************************)
(* internal/diag: FromParseError, which puts a parser's complaint about    *)
(* one statement at a place in the whole text.  Texts are sequences of     *)
(* characters: a letter, "blank", "newline", "semi".  Offsets count from 0.*)
(***************************************************************************)
EXTENDS Integers, SequencesExt

CONSTANTS Letters, MaxText

VARIABLES sql,      \* fullSQL
          start,    \* where the statement that does not parse begins
          badAt,    \* the offset the parser stops at: a token of it, or its end
          located,  \* has the error been reported?
          position, \* its offset, line and column
          token     \* the word there, for SuggestKeyword

parseVars == <<sql, start, badAt, located, position, token>>

Chars == Letters \cup {"blank", "newline", "semi"}
Space == {"blank", "newline"}

At(i) == sql[i + 1]
Slice(from, to) == SubSeq(sql, from + 1, to)    \* from inclusive, to exclusive
Offsets == 0..(Len(sql) - 1)

\* The first semicolon or the end; the first newline or the end.
EndOf(mark, i) == CHOOSE j \in i..Len(sql) : /\ j = Len(sql) \/ At(j) = mark
                                             /\ \A k \in i..(j - 1) : At(k) # mark

-----------------------------------------------------------------------------
(* The parser: it takes the statements in turn and stops at the first it   *)
(* cannot parse.                                                           *)

\* A statement begins at its first token.
Begins(i) == /\ At(i) \notin Space \cup {"semi"}
             /\ \A k \in 0..(i - 1) : /\ At(k) \notin Space \cup {"semi"}
                                      => \E j \in k..(i - 1) : At(j) = "semi"

Statement(i) == Slice(i, EndOf("semi", i))

ParserFails ==
  /\ start \in {i \in Offsets : Begins(i)}
  /\ \A i \in 0..(start - 1) : Begins(i) => Statement(i) # Statement(start)    \* that one was parsed
  /\ badAt \in {i \in start..EndOf("semi", start) :
                  \/ i = EndOf("semi", start)
                  \/ At(i) \in Letters /\ (i > start => At(i - 1) \notin Letters)}

\* PopulateErrorDetails: the statement to the end of the line it stops in,
\* and a caret below that place.
Fragment == LET lineEnd == EndOf("newline", badAt)
            IN Slice(start, IF lineEnd < EndOf("semi", start) THEN lineEnd ELSE EndOf("semi", start))
LineStart == CHOOSE i \in start..badAt : /\ i = start \/ At(i - 1) = "newline"
                                         /\ \A k \in i..(badAt - 1) : At(k) # "newline"
CaretColumn == badAt - LineStart

ParseInit == /\ sql \in UNION {[1..n -> Chars] : n \in 1..MaxText}
             /\ start \in Offsets /\ badAt \in 0..Len(sql)
             /\ ParserFails
             /\ located = FALSE
             /\ position = [offset |-> 0, line |-> 0, column |-> 0]
             /\ token = <<>>

-----------------------------------------------------------------------------

\* strings.LastIndex
LastIndex(s) == CHOOSE i \in 0..(Len(sql) - Len(s)) :
                  /\ Slice(i, i + Len(s)) = s
                  /\ \A j \in (i + 1)..(Len(sql) - Len(s)) : Slice(j, j + Len(s)) # s

\* lineColumn
Newlines(off) == {i \in 0..(off - 1) : At(i) = "newline"}
LineColumn(off) ==
  [offset |-> off, line |-> Cardinality(Newlines(off)) + 1,
   column |-> IF Newlines(off) = {} THEN off + 1 ELSE off - Max(Newlines(off))]

\* ExtractPosition: the caret counts from the last line of the fragment.
ExtractPosition ==
  LET newlines == {i \in 1..Len(Fragment) : Fragment[i] = "newline"}
  IN LineColumn(LastIndex(Fragment) + (IF newlines = {} THEN 0 ELSE Max(newlines)) + CaretColumn)

IdentifierAt(off) ==
  IF off >= Len(sql) \/ At(off) \notin Letters THEN <<>>
  ELSE Slice(off, CHOOSE j \in off..Len(sql) : /\ j = Len(sql) \/ At(j) \notin Letters
                                               /\ \A k \in off..(j - 1) : At(k) \in Letters)

FromParseError ==
  /\ ~located
  /\ located' = TRUE
  /\ position' = ExtractPosition
  /\ token' = IdentifierAt(position'.offset)
  /\ UNCHANGED <<sql, start, badAt>>

ParseSpec == ParseInit /\ [][FromParseError]_parseVars

(***************************************************************************)
(* "The last occurrence is the correct match" (position.go:28): an error   *)
(* points at what the parser stopped at, and so does the range in which a  *)
(* suggestion would replace it.                                            *)
(***************************************************************************)
PointsAtFailure == located => position = LineColumn(badAt)
=============================================================================
