---------------------------- MODULE MCMcpRouting ----------------------------
(* Small instances of McpRouting for TLC: two quarters, two directories. *)
EXTENDS McpRouting, TLC
CONSTANTS q1, q2, bin, opt

TwoQuarters == {q1, q2}
TwoDirs == {bin, opt}
SearchPath == <<opt, bin>>

File(p, s, d, x) == [kind |-> "file", bin |-> [parser |-> p, stamp |-> s, dep |-> d],
                     runs |-> x]
Link(d, n) == [kind |-> "link", to |-> <<d, n>>]
Plain(q) == [form |-> "plain", q |-> q]

\* Unsuffixed binaries: well stamped, badly stamped, from `go build`, bare; and
\* a link to a suffixed one.
Latest == {File(q1, q1, q1, TRUE), File(q1, Malformed, q1, TRUE),
           File(q1, NoStamp, q1, TRUE), File(q1, NoStamp, Unknown, TRUE), Link(opt, q1)}
\* Suffixed binaries: absent, well or badly stamped, not executable.
Sibling(q) == {Absent, File(q, q, q, TRUE), File(q, Malformed, Unknown, TRUE)}

SomeDisks ==
  {[p \in TwoDirs \X (TwoQuarters \cup {Unknown}) |->
      CASE p[2] = Unknown -> IF p[1] = bin THEN l ELSE Absent
        [] p[2] = q1 -> IF p[1] = bin THEN Absent ELSE s1
        [] p[2] = q2 -> IF p[1] = bin THEN s2 ELSE s3] :
    l \in Latest, s1 \in Sibling(q1), s2 \in Sibling(q2), s3 \in Sibling(q2) \cup {File(q2, q2, q2, FALSE)}}

\* A sibling's name linked to the plain binary beside it.
LinkedDisks == {[p \in TwoDirs \X (TwoQuarters \cup {Unknown}) |->
                   CASE p = <<bin, Unknown>> -> File(q1, q1, q1, TRUE)
                     [] p = <<bin, q2>> -> Link(bin, Unknown)
                     [] OTHER -> Absent]}
AnyName == TwoQuarters \cup {Unknown}

Packages == {Absent, File(q2, q2, q2, TRUE), File(q1, Malformed, q1, TRUE)}

Tok(k) == [kind |-> k, value |-> EmptyValue]
Eq(v) == [kind |-> "eq", value |-> v]
Word(v) == [kind |-> "word", value |-> v]
Odd == [form |-> "odd", q |-> Unknown]
Loose(q) == [form |-> "loose", q |-> q]

\* Command lines, with and without a flag, before and after "--".
SomeArguments ==
  { <<>>, <<Eq(Plain(q1))>>, <<Eq(Plain(q2))>>, <<Eq(Odd)>>, <<Eq(Loose(q2))>>,
    <<Eq(EmptyValue)>>, <<Tok("bare")>>, <<Tok("bare"), Word(Plain(q2))>>,
    <<Tok("sep"), Eq(Plain(q2))>>, <<Tok("bare"), Tok("sep")>>,
    <<Tok("other"), Word(Junk), Eq(Plain(q2))>>,
    <<Word(Plain(q1)), Eq(Plain(q2))>> }
SomeParams == {EmptyValue, Plain(q1), Plain(q2), Odd, Loose(q2)}

=============================================================================
