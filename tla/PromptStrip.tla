----------------------------- MODULE PromptStrip -----------------------------
(***************************************************************************)
(* internal/sqlformat/strip.go: pasted REPL prompts are cut out of the     *)
(* text, and error positions found in what is left are mapped back.  A     *)
(* line is [prompt, gap, body]: what the prompt expressions match at its   *)
(* start, how many bytes they match, how many follow.                      *)
(***************************************************************************)
EXTENDS Integers, Sequences

CONSTANT Texts   \* the texts given to the command

Prompts == {"none", "primary", "cont"}
Line    == {l \in [prompt : Prompts, gap : Nat, body : Nat] : l.prompt = "none" => l.gap = 0}

ASSUME TextsAssumption == Texts \subseteq Seq(Line)

VARIABLES text,          \* the lines of the input
          line,          \* how many of them are done
          pos,           \* bytes of the input read
          kept,          \* buf: for every byte written, where the input had it
          segments,      \* [start, delta]: StrippedStart and CumDelta
          cumDelta, seenPrimary

stripVars == <<text, line, pos, kept, segments, cumDelta, seenPrimary>>

StripInit == /\ text \in Texts
             /\ line = 0 /\ pos = 0 /\ kept = <<>>
             /\ segments = <<>> /\ cumDelta = 0 /\ seenPrimary = FALSE

\* "->" counts as a prompt only below a primary prompt.
Stripped(l) == l.prompt = "primary" \/ (l.prompt = "cont" /\ seenPrimary)
Cut(l)      == IF Stripped(l) THEN l.gap ELSE 0

\* A slip: the bytes of this prompt alone, not of all so far.
RecordSegmentAlone(l) ==
  IF Stripped(l)
    THEN Append(segments, [start |-> Len(kept), delta |-> Cut(l)])
    ELSE segments

\* recordSegment: one entry per prompt, at the text that follows it.
RecordSegment(l) ==
  IF Stripped(l)
    THEN Append(segments, [start |-> Len(kept), delta |-> cumDelta + Cut(l)])
    ELSE segments

\* One pass of the loop of StripShellPromptsWithMap.
StripLine ==
  /\ line < Len(text)
  /\ LET l == text[line + 1] IN
       /\ seenPrimary' = (seenPrimary \/ l.prompt = "primary")
       /\ segments' = RecordSegment(l)
       /\ cumDelta' = cumDelta + Cut(l)
       /\ kept' = kept \o [i \in 1..(l.gap - Cut(l) + l.body) |-> pos + Cut(l) + i - 1]
       /\ pos' = pos + l.gap + l.body
  /\ line' = line + 1
  /\ UNCHANGED text

StripDone == line = Len(text)

-----------------------------------------------------------------------------
(* StripResult.Translate, on 0-based offsets. *)

Clamp(off) == IF off < 0 THEN 0 ELSE IF off > Len(kept) THEN Len(kept) ELSE off

\* sort.Search: how many segments start at or before the offset.
Before(off) ==
  CHOOSE n \in 0..Len(segments) :
    /\ \A i \in 1..n : segments[i].start <= off
    /\ n < Len(segments) => segments[n + 1].start > off

Translate(offset) ==
  LET off == Clamp(offset) IN
  IF Before(off) = 0 THEN off ELSE off + segments[Before(off)].delta

\* Where the input had a byte of the output; its end for the end.
Origin(off) == IF off < Len(kept) THEN kept[off + 1] ELSE pos

(***************************************************************************)
(* A position reported in the cut text comes back as the position of the   *)
(* same byte in what the user typed, whatever prompts stand before it, and *)
(* the end as the end: StripResult.Translate inverts the removal.          *)
(***************************************************************************)
TranslateExact ==
  StripDone => \A off \in 0..Len(kept) : Translate(off) = Origin(off)

StripSpec == StripInit /\ [][StripLine]_stripVars
=============================================================================
