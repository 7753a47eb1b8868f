----------------------------- MODULE ScanProofs -----------------------------
(***************************************************************************)
(* TLAPS proofs about the single passes over what the program is given:    *)
(* prompts cut out of a text (PromptStrip), the transaction blocks of a    *)
(* script (RiskScan) and the tree of an EXPLAIN (PlanTree), for every      *)
(* text, script and plan.                                                  *)
(***************************************************************************)
EXTENDS PromptStrip, RiskScan, PlanTree, SequenceTheorems, WellFoundedInduction, TLAPS

(***************************************************************************)
(* The offset map of internal/sqlformat/strip.go is exact, for every text. *)
(* A byte kept stands as far from its origin as the prompts before it are  *)
(* long, which is the delta of the last segment that starts at or before   *)
(* it; a segment added later starts where the bytes kept so far end, so it *)
(* changes the answer for none of them.                                    *)
(***************************************************************************)

Segment == [start : Nat, delta : Nat]

StripTypes == /\ text \in Seq(Line)
           /\ line \in 0..Len(text)
           /\ pos \in Nat /\ cumDelta \in Nat /\ seenPrimary \in BOOLEAN
           /\ kept \in Seq(Nat)
           /\ segments \in Seq(Segment)

\* n segments start at or before the offset.
IsBefore(off, n) == /\ \A i \in 1..n : segments[i].start <= off
                    /\ n < Len(segments) => segments[n + 1].start > off

Delta(n) == IF n = 0 THEN 0 ELSE segments[n].delta

Lengths == /\ pos = Len(kept) + cumDelta
           /\ cumDelta = Delta(Len(segments))

StartsKept == \A i \in 1..Len(segments) : segments[i].start <= Len(kept)

HasBefore == \A off \in Nat : \E n \in 0..Len(segments) : IsBefore(off, n)

KeptExact == \A off \in 0..(Len(kept) - 1), n \in 0..Len(segments) :
               IsBefore(off, n) => kept[off + 1] = off + Delta(n)

MapInv == StripTypes /\ Lengths /\ StartsKept /\ HasBefore /\ KeptExact

-----------------------------------------------------------------------------

LEMMA CutBound ==
  ASSUME NEW l \in Line
  PROVE  Cut(l) \in Nat /\ l.gap \in Nat /\ l.body \in Nat /\ l.gap - Cut(l) + l.body \in Nat
BY DEF Cut, Line

\* m more bytes, each d further on in the input than in the text kept.
LEMMA Extend ==
  ASSUME NEW k \in Seq(Nat), NEW m \in Nat, NEW d \in Nat,
         NEW more, more = [i \in 1..m |-> Len(k) + d + i - 1]
  PROVE  /\ k \o more \in Seq(Nat) /\ Len(k \o more) = Len(k) + m
         /\ \A off \in 0..(Len(k) - 1) : (k \o more)[off + 1] = k[off + 1]
         /\ \A off \in Len(k)..(Len(k) + m - 1) : (k \o more)[off + 1] = off + d
<1>1. Len(k) \in Nat
  OBVIOUS
<1>2. more \in Seq(Nat) /\ Len(more) = m
  <2>1. \A i \in 1..m : Len(k) + d + i - 1 \in Nat
    BY <1>1
  <2> QED BY <2>1
<1>3. /\ k \o more \in Seq(Nat) /\ Len(k \o more) = Len(k) + m
      /\ \A i \in 1..(Len(k) + m) : (k \o more)[i] = IF i <= Len(k) THEN k[i] ELSE more[i - Len(k)]
  BY <1>2, ConcatProperties
<1>4. ASSUME NEW off \in 0..(Len(k) - 1) PROVE (k \o more)[off + 1] = k[off + 1]
  <2>1. off + 1 \in 1..(Len(k) + m) /\ off + 1 <= Len(k)
    BY <1>1
  <2> QED BY <2>1, <1>3
<1>5. ASSUME NEW off \in Len(k)..(Len(k) + m - 1) PROVE (k \o more)[off + 1] = off + d
  <2>1. off + 1 - Len(k) \in 1..m /\ off + 1 \in 1..(Len(k) + m) /\ ~(off + 1 <= Len(k))
    BY <1>1
  <2>2. (k \o more)[off + 1] = more[off + 1 - Len(k)]
    BY <2>1, <1>3
  <2>3. more[off + 1 - Len(k)] = Len(k) + d + (off + 1 - Len(k)) - 1
    BY <2>1
  <2> QED BY <2>2, <2>3, <1>1
<1> QED BY <1>3, <1>4, <1>5

\* What a step does to the text kept: more bytes, each cumDelta' further on.
LEMMA KeptGrows ==
  ASSUME MapInv, StripLine
  PROVE  /\ kept' \in Seq(Nat) /\ Len(kept) \in Nat /\ Len(kept') \in Nat
         /\ Len(kept) <= Len(kept')
         /\ \A off \in 0..(Len(kept) - 1) : kept'[off + 1] = kept[off + 1]
         /\ \A off \in Len(kept)..(Len(kept') - 1) : kept'[off + 1] = off + cumDelta'
         /\ pos' = Len(kept') + cumDelta' /\ cumDelta' \in Nat
<1>1. PICK l \in Line : l = text[line + 1]
  BY DEF MapInv, StripTypes, StripLine
<1>2. PICK m \in Nat : m = l.gap - Cut(l) + l.body
  BY CutBound
<1>3. PICK d \in Nat : d = cumDelta + Cut(l)
  BY CutBound DEF MapInv, StripTypes
<1>4. /\ pos \in Nat /\ cumDelta \in Nat /\ kept \in Seq(Nat) /\ Len(kept) \in Nat
      /\ pos = Len(kept) + cumDelta
      /\ Cut(l) \in Nat /\ l.gap \in Nat /\ l.body \in Nat
  BY CutBound DEF MapInv, StripTypes, Lengths
<1> DEFINE more == [i \in 1..m |-> Len(kept) + d + i - 1]
<1>5. kept' = kept \o more
  <2>1. kept' = kept \o [i \in 1..m |-> pos + Cut(l) + i - 1]
    BY <1>1, <1>2 DEF StripLine
  <2>2. \A i \in 1..m : pos + Cut(l) + i - 1 = Len(kept) + d + i - 1
    BY <1>3, <1>4
  <2> QED BY <2>1, <2>2
<1>6. cumDelta' = d /\ pos' = pos + l.gap + l.body
  BY <1>1, <1>3 DEF StripLine
<1> HIDE DEF more
<1>7. /\ kept' \in Seq(Nat) /\ Len(kept') = Len(kept) + m
      /\ \A off \in 0..(Len(kept) - 1) : kept'[off + 1] = kept[off + 1]
      /\ \A off \in Len(kept)..(Len(kept) + m - 1) : kept'[off + 1] = off + d
  <2>1. /\ kept \o more \in Seq(Nat) /\ Len(kept \o more) = Len(kept) + m
        /\ \A off \in 0..(Len(kept) - 1) : (kept \o more)[off + 1] = kept[off + 1]
        /\ \A off \in Len(kept)..(Len(kept) + m - 1) : (kept \o more)[off + 1] = off + d
    <3>1. more = [i \in 1..m |-> Len(kept) + d + i - 1]
      BY DEF more
    <3>2. kept \in Seq(Nat)
      BY <1>4
    <3> QED BY ONLY <3>1, <3>2, m \in Nat, d \in Nat, Extend
  <2> QED BY <1>5, <2>1, Zenon
<1>8. pos' = Len(kept) + m + d
  <2>1. pos' = Len(kept) + cumDelta + l.gap + l.body
    BY <1>4, <1>6
  <2>2. l.gap + l.body = m + Cut(l)
    BY <1>2, <1>4
  <2>3. cumDelta + Cut(l) = d
    BY <1>3
  <2> DEFINE k == Len(kept)
             c == Cut(l)
             g == l.gap
             b == l.body
             t == cumDelta
  <2>4. /\ pos' = k + t + g + b /\ g + b = m + c /\ t + c = d
        /\ k \in Nat /\ c \in Nat /\ g \in Nat /\ b \in Nat /\ t \in Nat
    BY ONLY <1>4, <2>1, <2>2, <2>3 DEF k, c, g, b, t
  <2> HIDE DEF k, c, g, b, t
  <2>5. pos' = k + m + d
    BY ONLY <2>4, m \in Nat, d \in Nat
  <2> QED BY ONLY <2>5 DEF k
<1>9. Len(kept') \in Nat /\ Len(kept) <= Len(kept')
  BY <1>4, <1>7
<1>10. \A off \in Len(kept)..(Len(kept') - 1) : kept'[off + 1] = off + cumDelta'
  BY <1>6, <1>7
<1>11. pos' = Len(kept') + cumDelta'
  BY <1>6, <1>7, <1>8
<1> QED BY <1>4, <1>6, <1>7, <1>9, <1>10, <1>11

\* What it does to the map: nothing, or one segment, at the end of the text
\* kept so far, with all that was cut.
LEMMA MapGrows ==
  ASSUME MapInv, StripLine
  PROVE  \/ segments' = segments /\ cumDelta' = cumDelta
         \/ LET s == [start |-> Len(kept), delta |-> cumDelta'] IN
              /\ segments' \in Seq(Segment)
              /\ segments' = Append(segments, s)
              /\ Len(segments') = Len(segments) + 1
              /\ segments'[Len(segments) + 1] = s
              /\ \A i \in 1..Len(segments) : segments'[i] = segments[i]
<1> DEFINE l == text[line + 1]
<1>1. l \in Line
  BY DEF MapInv, StripTypes, StripLine
<1>2. cumDelta \in Nat /\ Cut(l) \in Nat /\ Len(kept) \in Nat /\ segments \in Seq(Segment)
  BY <1>1, CutBound DEF MapInv, StripTypes
<1>3. segments' = RecordSegment(l) /\ cumDelta' = cumDelta + Cut(l)
  BY DEF StripLine
<1> HIDE DEF l
<1>4. CASE Stripped(l)
  <2> DEFINE s == [start |-> Len(kept), delta |-> cumDelta']
  <2>1. s \in Segment
    BY <1>2, <1>3 DEF Segment
  <2>2. segments' = Append(segments, s)
    BY <1>3, <1>4 DEF RecordSegment
  <2> HIDE DEF s
  <2>3. /\ segments' \in Seq(Segment)
        /\ Len(segments') = Len(segments) + 1
        /\ segments'[Len(segments) + 1] = s
        /\ \A i \in 1..Len(segments) : segments'[i] = segments[i]
    BY <1>2, <2>1, <2>2
  <2> QED BY <2>2, <2>3 DEF s
<1>5. CASE ~Stripped(l)
  BY <1>2, <1>3, <1>5 DEF RecordSegment, Cut
<1> QED BY <1>4, <1>5

\* The four parts of the invariant that relate the map to the text kept.
LEMMA MapKept ==
  ASSUME MapInv, StripLine
  PROVE  Lengths' /\ StartsKept' /\ HasBefore' /\ KeptExact'
<1> DEFINE N == Len(segments)
<1>1. /\ N \in Nat /\ segments \in Seq(Segment) /\ cumDelta \in Nat
      /\ \A i \in 1..N : segments[i].start \in Nat /\ segments[i].start <= Len(kept)
  <2>1. \A i \in 1..N : segments[i] \in Segment
    BY DEF MapInv, StripTypes
  <2> QED BY <2>1 DEF MapInv, StripTypes, StartsKept, Segment
<1>2. /\ Len(kept) \in Nat /\ Len(kept') \in Nat /\ Len(kept) <= Len(kept')
      /\ \A off \in 0..(Len(kept) - 1) : kept'[off + 1] = kept[off + 1]
      /\ \A off \in Len(kept)..(Len(kept') - 1) : kept'[off + 1] = off + cumDelta'
      /\ pos' = Len(kept') + cumDelta'
  BY KeptGrows
<1>3. CASE segments' = segments /\ cumDelta' = cumDelta
  <2>1. Lengths'
    BY <1>2, <1>3 DEF MapInv, Lengths, Delta
  <2>2. StartsKept'
    BY <1>1, <1>2, <1>3 DEF StartsKept
  <2>3. HasBefore'
    BY <1>3 DEF MapInv, HasBefore, IsBefore
  <2>4. KeptExact'
    <3> SUFFICES ASSUME NEW off \in 0..(Len(kept') - 1), NEW n \in 0..N, IsBefore(off, n)
                 PROVE  kept'[off + 1] = off + Delta(n)
      BY <1>3 DEF KeptExact, IsBefore, Delta
    <3>1. CASE off < Len(kept)
      BY <3>1, <1>2 DEF MapInv, KeptExact
    <3>2. CASE ~(off < Len(kept))
      <4>1. n = N
        BY <3>2, <1>1, <1>2 DEF IsBefore
      <4> QED BY <4>1, <3>2, <1>2, <1>3 DEF MapInv, Lengths
    <3> QED BY <3>1, <3>2
  <2> QED BY <2>1, <2>2, <2>3, <2>4
<1>4. CASE /\ Len(segments') = N + 1
           /\ segments'[N + 1] = [start |-> Len(kept), delta |-> cumDelta']
           /\ \A i \in 1..N : segments'[i] = segments[i]
  <2>1. segments'[N + 1].start = Len(kept) /\ segments'[N + 1].delta = cumDelta'
    BY <1>4
  <2>2. Lengths'
    BY <1>1, <1>2, <1>4, <2>1 DEF Lengths, Delta
  <2>3. StartsKept'
    <3>1. ASSUME NEW i \in 1..(N + 1) PROVE segments'[i].start <= Len(kept')
      <4>1. CASE i = N + 1
        BY ONLY <1>2, <2>1, <4>1
      <4>2. CASE i \in 1..N
        BY ONLY <1>1, <1>2, <1>4, <4>2
      <4> QED BY ONLY <1>1, <4>1, <4>2, i \in 1..(N + 1) DEF N
    <3> QED BY <1>4, <3>1 DEF StartsKept
  <2>4. HasBefore'
    <3> SUFFICES ASSUME NEW off \in Nat PROVE \E n \in 0..(N + 1) : IsBefore(off, n)'
      BY <1>4 DEF HasBefore
    <3>1. PICK n \in 0..N : IsBefore(off, n)
      BY DEF MapInv, HasBefore
    <3>2. CASE n = N /\ Len(kept) <= off
      <4>1. \A i \in 1..(N + 1) : segments'[i].start <= off
        <5> SUFFICES ASSUME NEW i \in 1..(N + 1) PROVE segments'[i].start <= off
          OBVIOUS
        <5>1. CASE i = N + 1
          BY <5>1, <3>2, <2>1
        <5>2. CASE i \in 1..N
          BY <5>2, <3>1, <3>2, <1>4 DEF IsBefore
        <5> QED BY <5>1, <5>2, <1>1
      <4>2. ~(N + 1 < Len(segments'))
        BY <1>1, <1>4
      <4> QED BY <4>1, <4>2, <1>1 DEF IsBefore
    <3>3. CASE ~(n = N /\ Len(kept) <= off)
      <4>1. \A i \in 1..n : segments'[i].start <= off
        BY <3>1, <1>1, <1>4 DEF IsBefore
      <4>2. segments'[n + 1].start > off
        <5>1. CASE n = N
          BY <5>1, <3>3, <1>2, <2>1
        <5>2. CASE n < N
          <6>1. segments[n + 1].start > off /\ n + 1 \in 1..N
            BY <5>2, <3>1, <1>1 DEF IsBefore
          <6> QED BY <6>1, <1>4
        <5> QED BY <5>1, <5>2, <1>1
      <4> QED BY <4>1, <4>2, <1>1 DEF IsBefore
    <3> QED BY <3>2, <3>3
  <2>5. KeptExact'
    <3> SUFFICES ASSUME NEW off \in 0..(Len(kept') - 1), NEW n \in 0..(N + 1), IsBefore(off, n)'
                 PROVE  kept'[off + 1] = off + Delta(n)'
      BY <1>4 DEF KeptExact
    <3>1. CASE off < Len(kept)
      <4>1. n # N + 1
        BY <3>1, <1>1, <2>1 DEF IsBefore
      <4>2. IsBefore(off, n)
        <5>1. /\ \A i \in 1..n : segments'[i].start <= off
              /\ n < N + 1 => segments'[n + 1].start > off
          BY <1>4 DEF IsBefore
        <5>2. \A i \in 1..n : segments[i].start <= off
          BY ONLY <1>1, <1>4, <4>1, <5>1, n \in 0..(N + 1) DEF N
        <5>3. n < N => n + 1 \in 1..N /\ n < N + 1
          BY ONLY <1>1, n \in 0..(N + 1)
        <5>4. n < N => segments[n + 1].start > off
          BY ONLY <1>4, <5>1, <5>3
        <5> QED BY <5>2, <5>4 DEF IsBefore
      <4>3. Delta(n)' = Delta(n)
        BY <4>1, <1>1, <1>4 DEF Delta
      <4> QED BY <3>1, <4>1, <4>2, <4>3, <1>1, <1>2 DEF MapInv, KeptExact
    <3>2. CASE ~(off < Len(kept))
      <4>1. n = N + 1
        <5>1. n < N + 1 => segments'[n + 1].start > off
          BY <1>4 DEF IsBefore
        <5>2. CASE n = N
          BY ONLY <1>1, <1>2, <2>1, <3>2, <5>1, <5>2, off \in 0..(Len(kept') - 1) DEF N
        <5>3. CASE n < N
          <6>1. n + 1 \in 1..N /\ segments[n + 1].start > off
            BY ONLY <1>1, <1>4, <5>1, <5>3, n \in 0..(N + 1) DEF N
          <6>2. segments[n + 1].start \in Nat /\ segments[n + 1].start <= Len(kept)
            BY <1>1, <6>1
          <6> QED BY ONLY <1>2, <3>2, <6>1, <6>2, off \in 0..(Len(kept') - 1)
        <5> QED BY ONLY <1>1, <5>2, <5>3, n \in 0..(N + 1) DEF N
      <4>2. Delta(n)' = cumDelta'
        BY <4>1, <1>1, <2>1 DEF Delta
      <4> QED BY <4>2, <3>2, <1>2
    <3> QED BY <3>1, <3>2
  <2> QED BY <2>2, <2>3, <2>4, <2>5
<1> QED BY <1>3, <1>4, MapGrows

\* The map stays exact for what is kept, and complete: every offset has its
\* segment.
THEOREM StripInvariant == StripSpec => []MapInv
<1>1. StripInit => MapInv
  <2> SUFFICES ASSUME StripInit PROVE MapInv
    OBVIOUS
  <2>1. StripTypes
    <3>1. text \in Seq(Line)
      BY TextsAssumption DEF StripInit
    <3>2. 0 \in 0..Len(text) /\ <<>> \in Seq(Nat) /\ <<>> \in Seq(Segment)
      BY <3>1
    <3> QED BY <3>1, <3>2 DEF StripInit, StripTypes
  <2>2. Lengths /\ StartsKept /\ KeptExact
    BY DEF StripInit, Lengths, StartsKept, KeptExact, Delta
  <2>3. \A off \in Nat : IsBefore(off, 0)
    BY DEF StripInit, IsBefore
  <2> QED BY <2>1, <2>2, <2>3 DEF StripInit, MapInv, HasBefore
<1>2. MapInv /\ [StripLine]_stripVars => MapInv'
  <2> SUFFICES ASSUME MapInv, [StripLine]_stripVars PROVE MapInv'
    OBVIOUS
  <2>1. CASE UNCHANGED stripVars
    BY <2>1 DEF stripVars, MapInv, StripTypes, Lengths, StartsKept, HasBefore, KeptExact, IsBefore, Delta
  <2>2. CASE StripLine
    <3>1. StripTypes'
      <4>1. text' = text /\ line' \in 0..Len(text) /\ seenPrimary' \in BOOLEAN
        BY <2>2 DEF StripLine, MapInv, StripTypes
      <4>2. pos' \in Nat /\ cumDelta' \in Nat /\ kept' \in Seq(Nat)
        BY <2>2, KeptGrows
      <4>3. segments' \in Seq(Segment)
        BY <2>2, MapGrows DEF MapInv, StripTypes
      <4> QED BY <4>1, <4>2, <4>3 DEF MapInv, StripTypes
    <3> QED BY <3>1, <2>2, MapKept DEF MapInv
  <2> QED BY <2>1, <2>2
<1> QED BY <1>1, <1>2, PTL DEF StripSpec

-----------------------------------------------------------------------------

\* An error position found in the stripped text is reported at the byte it is
\* about in what the user typed, for every text: Translate inverts the removal.
THEOREM TranslateIsExact == StripSpec => []TranslateExact
<1>1. MapInv => TranslateExact
  <2> SUFFICES ASSUME MapInv, NEW off \in 0..Len(kept) PROVE Translate(off) = Origin(off)
    BY DEF TranslateExact
  <2>1. Len(kept) \in Nat /\ off \in Nat /\ Clamp(off) = off /\ Len(segments) \in Nat
    BY DEF MapInv, StripTypes, Clamp
  <2> DEFINE n == Before(off)
  <2>2. n \in 0..Len(segments) /\ IsBefore(off, n)
    <3>1. \E k \in 0..Len(segments) : IsBefore(off, k)
      BY <2>1 DEF MapInv, HasBefore
    <3> QED BY <3>1 DEF Before, IsBefore
  <2>3. Translate(off) = off + Delta(n)
    BY <2>1, <2>2 DEF Translate, Delta
  <2>4. CASE off < Len(kept)
    BY <2>1, <2>2, <2>3, <2>4 DEF MapInv, KeptExact, Origin
  <2>5. CASE off = Len(kept)
    <3>1. n = Len(segments)
      <4>1. \A i \in 1..Len(segments) : segments[i].start \in Nat /\ segments[i].start <= off
        <5>1. \A i \in 1..Len(segments) : segments[i] \in Segment
          BY DEF MapInv, StripTypes
        <5> QED BY <5>1, <2>5 DEF MapInv, Segment, StartsKept
      <4> QED BY <4>1, <2>1, <2>2 DEF IsBefore
    <3> QED BY <3>1, <2>1, <2>3, <2>5 DEF MapInv, Lengths, Origin
  <2> QED BY <2>1, <2>4, <2>5
<1> QED BY <1>1, StripInvariant, PTL

-----------------------------------------------------------------------------
(***************************************************************************)
(* The block rules of internal/risk miss nothing, for every script: every  *)
(* BEGIN has a block, and a block ends at a COMMIT or ROLLBACK, or not at  *)
(* all, so it covers whatever runs before the next COMMIT or ROLLBACK.     *)
(***************************************************************************)

Block == [start : 1..Len(script), end : 1..(Len(script) + 1)]

ScanTypes == /\ Len(script) \in Nat
           /\ scanned \in 0..Len(script)
           /\ blocks \in Seq(Block)
           /\ openStack \in Seq(1..Len(blocks))

\* Every BEGIN passed has opened a block of its own.
BeginsOpen == \A b \in 1..scanned : script[b].kind = "begin" =>
                \E k \in 1..Len(blocks) : blocks[k].start = b

\* A block has run to a COMMIT or ROLLBACK after its BEGIN, or still runs.
BlocksEnd == \A k \in 1..Len(blocks) :
               /\ blocks[k].start <= scanned
               /\ \/ blocks[k].end = Len(script) + 1
                  \/ /\ blocks[k].start < blocks[k].end
                     /\ blocks[k].end <= Len(script)
                     /\ script[blocks[k].end].kind \in Ends

ScanInv == ScanTypes /\ BeginsOpen /\ BlocksEnd

-----------------------------------------------------------------------------

\* A BEGIN: one more block, open, its index on the stack.
LEMMA BeginKeepsInv == ASSUME ScanInv, ScanBegin PROVE ScanInv'
<1> USE DEF ScanInv, Scanning
<1>1. scanned + 1 \in 1..Len(script) /\ script' = script /\ scanned' = scanned + 1
  BY DEF ScanBegin, ScanTypes
<1>2. OpenBlock \in Block
  BY <1>1 DEF OpenBlock, Block, ScanTypes
<1>3. /\ Len(blocks') = Len(blocks) + 1
      /\ blocks'[Len(blocks) + 1] = OpenBlock
      /\ \A k \in 1..Len(blocks) : blocks'[k] = blocks[k]
  BY <1>2 DEF ScanBegin, ScanTypes
<1>4. ScanTypes'
  <2>1. Block' = Block
    BY <1>1 DEF Block
  <2>2. blocks' \in Seq(Block)
    BY <1>2 DEF ScanBegin, ScanTypes
  <2>3. openStack' \in Seq(1..Len(blocks'))
    BY <1>3 DEF ScanBegin, ScanTypes
  <2> QED BY <1>1, <2>1, <2>2, <2>3 DEF ScanTypes
<1>5. BeginsOpen'
  <2> SUFFICES ASSUME NEW b \in 1..(scanned + 1), script[b].kind = "begin"
               PROVE  \E k \in 1..Len(blocks') : blocks'[k].start = b
    BY <1>1 DEF BeginsOpen
  <2>1. CASE b = scanned + 1
    BY <2>1, <1>3 DEF OpenBlock, ScanTypes
  <2>2. CASE b \in 1..scanned
    <3>1. PICK k \in 1..Len(blocks) : blocks[k].start = b
      BY <2>2 DEF BeginsOpen
    <3>2. Len(blocks) \in Nat
      BY DEF ScanTypes
    <3>3. k \in 1..Len(blocks') /\ blocks'[k].start = b
      BY ONLY <1>3, <3>1, <3>2
    <3> QED BY ONLY <3>3
  <2> QED BY <2>1, <2>2 DEF ScanTypes
<1>6. BlocksEnd'
  <2> SUFFICES ASSUME NEW k \in 1..Len(blocks')
               PROVE  /\ blocks'[k].start <= scanned + 1
                      /\ \/ blocks'[k].end = Len(script) + 1
                         \/ /\ blocks'[k].start < blocks'[k].end
                            /\ blocks'[k].end <= Len(script)
                            /\ script[blocks'[k].end].kind \in Ends
    BY <1>1 DEF BlocksEnd
  <2>1. CASE k = Len(blocks) + 1
    BY <2>1, <1>3 DEF OpenBlock, ScanTypes
  <2>2. CASE k \in 1..Len(blocks)
    <3>1. blocks[k] \in Block
      BY <2>2 DEF ScanTypes
    <3>2. /\ blocks[k].start <= scanned
          /\ \/ blocks[k].end = Len(script) + 1
             \/ /\ blocks[k].start < blocks[k].end
                /\ blocks[k].end <= Len(script)
                /\ script[blocks[k].end].kind \in Ends
      BY <2>2 DEF BlocksEnd
    <3>3. blocks'[k] = blocks[k]
      BY ONLY <1>3, <2>2
    <3>4. blocks[k].start \in Int /\ scanned \in Int
      BY <3>1 DEF Block, ScanTypes
    <3>5. blocks[k].start <= scanned + 1
      BY ONLY <3>2, <3>4
    <3> QED BY ONLY <3>2, <3>3, <3>5
  <2> QED BY <2>1, <2>2, <1>3 DEF ScanTypes
<1> QED BY <1>4, <1>5, <1>6

\* A block given another end is a block that starts where it did.
LEMMA EndOfBlock ==
  ASSUME NEW b \in Block, NEW e \in 1..(Len(script) + 1)
  PROVE  LET c == [b EXCEPT !.end = e] IN c \in Block /\ c.start = b.start /\ c.end = e
BY DEF Block

\* A COMMIT or ROLLBACK: the block on top of the stack ends there.
LEMMA EndKeepsInv == ASSUME ScanInv, ScanEnd PROVE ScanInv'
<1> USE DEF ScanInv, Scanning
<1> DEFINE top == openStack[Len(openStack)]
<1>1. /\ scanned + 1 \in 1..Len(script) /\ script' = script /\ scanned' = scanned + 1
      /\ script[scanned + 1].kind \in Ends
  BY DEF ScanEnd, ScanTypes, Current
<1>2. Len(openStack) \in 1..Len(openStack) /\ top \in 1..Len(blocks)
  BY DEF ScanEnd, ScanTypes
<1> DEFINE new == [blocks[top] EXCEPT !.end = scanned + 1]
<1>3. blocks[top] \in Block /\ scanned + 1 \in 1..(Len(script) + 1)
  BY <1>1, <1>2 DEF ScanTypes
<1>4. new \in Block /\ new.start = blocks[top].start /\ new.end = scanned + 1
  BY <1>3, EndOfBlock
<1>5. blocks' = [blocks EXCEPT ![top] = new]
  BY DEF ScanEnd
<1> HIDE DEF top, new
<1>6. /\ blocks' \in Seq(Block) /\ Len(blocks') = Len(blocks)
      /\ \A k \in 1..Len(blocks) : blocks'[k] = IF k = top THEN new ELSE blocks[k]
  <2>1. blocks \in Seq(Block)
    BY DEF ScanTypes
  <2> QED BY <2>1, <1>2, <1>4, <1>5, ExceptSeq
<1>7. ScanTypes'
  <2>1. Block' = Block
    BY <1>1 DEF Block
  <2>2. openStack' \in Seq(1..Len(blocks'))
    <3>1. openStack \in Seq(1..Len(blocks)) /\ Len(openStack) \in Nat \ {0}
      BY <1>2 DEF ScanTypes
    <3>2. openStack' = SubSeq(openStack, 1, Len(openStack) - 1)
      BY DEF ScanEnd
    <3>3. SubSeq(openStack, 1, Len(openStack) - 1) \in Seq(1..Len(blocks))
      BY <3>1, SubSeqProperties
    <3> QED BY <1>6, <3>2, <3>3
  <2> QED BY <1>1, <1>6, <2>1, <2>2 DEF ScanTypes
<1>8. \A k \in 1..Len(blocks) : blocks'[k].start = blocks[k].start
  BY <1>4, <1>6
<1>9. BeginsOpen'
  <2>1. script[scanned + 1].kind # "begin"
    BY <1>1 DEF Ends
  <2> SUFFICES ASSUME NEW b \in 1..(scanned + 1), script[b].kind = "begin"
               PROVE  \E k \in 1..Len(blocks) : blocks'[k].start = b
    BY <1>1, <1>6 DEF BeginsOpen
  <2>2. b \in 1..scanned
    BY <2>1 DEF ScanTypes
  <2>3. PICK k \in 1..Len(blocks) : blocks[k].start = b
    BY <2>2 DEF BeginsOpen
  <2> QED BY <2>3, <1>8
<1>10. BlocksEnd'
  <2> SUFFICES ASSUME NEW k \in 1..Len(blocks)
               PROVE  /\ blocks'[k].start <= scanned + 1
                      /\ \/ blocks'[k].end = Len(script) + 1
                         \/ /\ blocks'[k].start < blocks'[k].end
                            /\ blocks'[k].end <= Len(script)
                            /\ script[blocks'[k].end].kind \in Ends
    BY <1>1, <1>6 DEF BlocksEnd
  <2>1. blocks[k].start \in Int /\ blocks[k].start <= scanned /\ scanned \in Int /\ Len(script) \in Int
    <3>1. blocks[k] \in Block
      BY DEF ScanTypes
    <3> QED BY <3>1 DEF ScanTypes, Block, BlocksEnd
  <2>2. CASE k = top
    BY <2>1, <2>2, <1>1, <1>4, <1>6
  <2>3. CASE k # top
    <3>1. blocks'[k] = blocks[k]
      BY <2>3, <1>6
    <3> QED BY <2>1, <3>1 DEF BlocksEnd
  <2> QED BY <2>2, <2>3
<1> QED BY <1>7, <1>9, <1>10

\* The invariant holds after every prefix of the scan.
THEOREM BlocksCover == RiskSpec => []ScanInv
<1>1. RiskInit => ScanInv
  BY ScriptsAssumption DEF RiskInit, ScanInv, ScanTypes, BeginsOpen, BlocksEnd
<1>2. ScanInv /\ [ScanStep]_riskVars => ScanInv'
  <2> SUFFICES ASSUME ScanInv, [ScanStep]_riskVars PROVE ScanInv'
    OBVIOUS
  <2>1. CASE ScanBegin
    BY <2>1, BeginKeepsInv
  <2>2. CASE ScanEnd
    BY <2>2, EndKeepsInv
  <2>3. CASE ScanOther
    <3>1. /\ scanned + 1 \in 1..Len(script) /\ scanned' = scanned + 1
          /\ UNCHANGED <<script, blocks, openStack>>
          /\ script[scanned + 1].kind # "begin"
      BY <2>3 DEF ScanOther, Scanning, Current, ScanInv, ScanTypes
    <3>2. ScanTypes'
      BY <3>1 DEF ScanInv, ScanTypes, Block
    <3>3. BeginsOpen'
      BY <3>1 DEF ScanInv, ScanTypes, BeginsOpen
    <3>4. \A k \in 1..Len(blocks) : blocks[k].start \in Int
      <4>1. \A k \in 1..Len(blocks) : blocks[k] \in Block
        BY DEF ScanInv, ScanTypes
      <4> QED BY <4>1 DEF Block
    <3>5. BlocksEnd'
      BY <3>1, <3>4 DEF ScanInv, ScanTypes, BlocksEnd
    <3> QED BY <3>2, <3>3, <3>5 DEF ScanInv
  <2>4. CASE UNCHANGED riskVars
    BY <2>4 DEF riskVars, ScanInv, ScanTypes, BeginsOpen, BlocksEnd, Block
  <2> QED BY <2>1, <2>2, <2>3, <2>4 DEF ScanStep
<1> QED BY <1>1, <1>2, PTL DEF RiskSpec

\* A block that mixes DDL and DML is reported at its BEGIN.
LEMMA MixIsFound ==
  ASSUME NEW c \in BlockSet, Mixes(c)
  PROVE  <<"DDL_AND_DML_IN_TXN", c.start>> \in Findings
<1> DEFINE starts == {b.start : b \in {d \in BlockSet : Mixes(d)}}
<1>1. c.start \in starts
  OBVIOUS
<1>2. BlockFindings =
        ({"MULTIPLE_DDL_IN_TXN"} \X (UNION {ExtraDDL(b) : b \in BlockSet})) \cup ({"DDL_AND_DML_IN_TXN"} \X starts)
  BY DEF BlockFindings
<1> HIDE DEF starts
<1>3. <<"DDL_AND_DML_IN_TXN", c.start>> \in {"DDL_AND_DML_IN_TXN"} \X starts
  BY <1>1
<1> QED BY <1>2, <1>3 DEF Findings

\* "Over-flag rather than under-flag" (rules.go:582), for every script: no two
\* DDL, and no DDL and DML, share a transaction unreported.
THEOREM NothingUnderFlagged == RiskSpec => []NeverUnderFlags
<1>1. ScanInv => NeverUnderFlags
  <2> SUFFICES ASSUME ScanInv, ScanDone,
                      NEW i \in 1..Len(script), NEW j \in 1..Len(script), i < j,
                      NEW b \in 1..(i - 1), Uninterrupted(b, j)
               PROVE  /\ i \in Typed("DDL") /\ j \in Typed("DDL") =>
                           <<"MULTIPLE_DDL_IN_TXN", j>> \in Findings
                      /\ (i \in Typed("DDL") /\ j \in Typed("DML")) \/ (i \in Typed("DML") /\ j \in Typed("DDL"))
                           => <<"DDL_AND_DML_IN_TXN", b>> \in Findings
    BY DEF NeverUnderFlags, SameTxn
  <2>1. i \in Nat /\ j \in Nat /\ b \in 1..scanned /\ b < i
    BY DEF ScanInv, ScanTypes, ScanDone
  <2>2. PICK k \in 1..Len(blocks) : blocks[k].start = b
    BY <2>1 DEF ScanInv, BeginsOpen, Uninterrupted
  <2>3. blocks[k].end \in Nat /\ j < blocks[k].end
    <3>1. blocks[k] \in Block /\ Len(script) \in Nat
      BY DEF ScanInv, ScanTypes
    <3>2. blocks[k].end \in Nat
      BY <3>1 DEF Block
    <3>3. CASE blocks[k].end = Len(script) + 1
      BY <3>1, <3>3, <2>1
    <3>4. CASE b < blocks[k].end /\ script[blocks[k].end].kind \in Ends
      BY <3>2, <3>4, <2>1 DEF Uninterrupted
    <3> QED BY <3>2, <3>3, <3>4, <2>2 DEF ScanInv, BlocksEnd
  <2>4. InBlock(blocks[k], i) /\ InBlock(blocks[k], j) /\ blocks[k] \in BlockSet
    BY <2>1, <2>2, <2>3 DEF InBlock, BlockSet
  <2>5. ASSUME i \in Typed("DDL"), j \in Typed("DDL")
        PROVE  <<"MULTIPLE_DDL_IN_TXN", j>> \in Findings
    <3>1. j \in ExtraDDL(blocks[k])
      BY <2>4, <2>5 DEF ExtraDDL
    <3>2. j \in UNION {ExtraDDL(c) : c \in BlockSet}
      BY <3>1, <2>4
    <3>3. <<"MULTIPLE_DDL_IN_TXN", j>> \in {"MULTIPLE_DDL_IN_TXN"} \X (UNION {ExtraDDL(c) : c \in BlockSet})
      BY <3>2
    <3> QED BY <3>3 DEF Findings, BlockFindings
  <2>6. ASSUME (i \in Typed("DDL") /\ j \in Typed("DML")) \/ (i \in Typed("DML") /\ j \in Typed("DDL"))
        PROVE  <<"DDL_AND_DML_IN_TXN", b>> \in Findings
    <3>1. Mixes(blocks[k])
      BY <2>4, <2>6 DEF Mixes
    <3>2. <<"DDL_AND_DML_IN_TXN", blocks[k].start>> \in Findings
      BY <3>1, <2>4, MixIsFound
    <3> QED BY <3>2, <2>2
  <2> QED BY <2>5, <2>6
<1> QED BY <1>1, BlocksCover, PTL

-----------------------------------------------------------------------------
(***************************************************************************)
(* The tree of internal/conn/explain_parse.go is the tree drawn, for every *)
(* plan.  The open operators stand ever further right and, of those read,  *)
(* each is the last one that is not right of it; so the ones left of a     *)
(* column are the first of the stack, and the deepest of those is the last *)
(* operator drawn left of it.                                              *)
(***************************************************************************)

Row   == [kind : RowKinds, col : Nat]
Attrs == UNION {[D -> Nat] : D \in SUBSET Nat}
Node  == [op : Nat, parent : Nat, attrs : Attrs]
Entry == [col : Nat, node : Nat]

PlanTypes == /\ rows \in Seq(Row)
             /\ inHeader \in BOOLEAN /\ planErr \in BOOLEAN
             /\ header \in Attrs
             /\ nodes \in Seq(Node)
             /\ stack \in Seq(Entry)

ColumnOf(n) == rows[nodes[n].op].col

\* The nodes are the operators in the order of their rows.
NodesAreOps ==
  /\ \A n \in 1..Len(nodes) : nodes[n].op \in Ops /\ nodes[n].parent < n
  /\ \A i \in Ops : \E n \in 1..Len(nodes) : nodes[n].op = i
  /\ \A m, n \in 1..Len(nodes) : m < n => nodes[m].op < nodes[n].op

Drawn == \A n \in 1..Len(nodes) : /\ OpOf(nodes[n].parent) = DrawnParent(nodes[n].op)
                                  /\ nodes[n].attrs = Pairs(KeyValues(nodes[n].op))

\* Every attribute read has an owner.
Placed == \A i \in 1..Len(rows) : rows[i].kind = "kv" /\ ~InHeader(i) => DrawnOwner(i) \in Ops

\* No entry of the stack points into a slice that moved.
StackIsOpen ==
  /\ \A k \in 1..Len(stack) : /\ stack[k].node \in 1..Len(nodes)
                              /\ stack[k].col = ColumnOf(stack[k].node)
                              /\ ~Stale(stack[k].node)
  /\ \A j, k \in 1..Len(stack) : j < k => /\ stack[j].col < stack[k].col
                                          /\ stack[j].node < stack[k].node

\* Whatever was closed has one after it open, at its column or left of it.
ClosedIsCovered ==
  \A n \in 1..Len(nodes) :
    \E k \in 1..Len(stack) : n <= stack[k].node /\ stack[k].col <= ColumnOf(n)

HeaderIsRead == /\ inHeader <=> \A i \in 1..Len(rows) : rows[i].kind \notin {"op", "blank"}
                /\ header = Pairs({i \in 1..Len(rows) : rows[i].kind = "kv" /\ InHeader(i)})

PlanInv ==
  /\ PlanTypes
  /\ planErr <=> \E i \in 1..Len(rows) : Unclassified(i)
  /\ ~planErr => /\ NodesAreOps /\ Drawn /\ Placed
                 /\ StackIsOpen /\ ClosedIsCovered
                 /\ HeaderIsRead

-----------------------------------------------------------------------------
(* What one more row changes of the tree that is drawn. *)

Below == {pair \in Nat \X Nat : pair[1] < pair[2]}

LEMMA LeastNumber ==
  ASSUME NEW S \in SUBSET Nat, S # {}
  PROVE  \E i \in S : \A j \in S : i <= j
<1>1. IsWellFoundedOn(Below, Nat)
  BY NatLessThanWellFounded DEF OpToRel, Below
<1>2. PICK i \in S : \A j \in S : <<j, i>> \notin Below
  BY <1>1, WFMin, Zenon
<1>3. \A j \in S : ~(j < i)
  BY <1>2 DEF Below
<1> QED BY <1>3

LEMMA LatestIs ==
  ASSUME NEW S \in SUBSET Nat, NEW i \in S, i # 0, \A j \in S : j <= i
  PROVE  Latest(S) = i
<1>1. \A j \in S : (\A k \in S : k <= j) => j = i
  OBVIOUS
<1> QED BY <1>1 DEF Latest

LEMMA LatestIn ==
  ASSUME NEW n \in Nat, NEW S \in SUBSET (1..n), S # {}
  PROVE  Latest(S) \in S
<1> DEFINE bounds == {i \in Nat : \A j \in S : j <= i}
<1>1. n \in bounds
  OBVIOUS
<1>2. PICK top \in bounds : \A i \in bounds : top <= i
  BY <1>1, LeastNumber, bounds \in SUBSET Nat
<1>3. top \in S
  <2>1. SUFFICES ASSUME top \notin S PROVE FALSE
    OBVIOUS
  <2>2. PICK j \in S : TRUE
    OBVIOUS
  <2>3. top - 1 \in Nat
    BY <2>2
  <2>4. top - 1 \in bounds
    BY <2>1, <2>3
  <2> QED BY <1>2, <2>4
<1> QED BY <1>3, LatestIs

LEMMA RowsGrow ==
  ASSUME NEW r \in Row, NEW h, h = Here, rows \in Seq(Row), Take(r)
  PROVE  /\ h \in Nat \ {0} /\ Len(rows) \in Nat /\ Len(rows) = h - 1
         /\ rows' \in Seq(Row) /\ Len(rows') = h
         /\ rows'[h] = r
         /\ \A i \in 1..Len(rows) : rows'[i] = rows[i] /\ rows[i] \in Row
BY DEF Take, Here

LEMMA OpsGrow ==
  ASSUME NEW r \in Row, NEW h, h = Here, rows \in Seq(Row), Take(r)
  PROVE  Ops' = IF r.kind = "op" THEN Ops \cup {h} ELSE Ops
<1>1. \A i : i \in 1..h <=> i \in 1..Len(rows) \/ i = h
  BY RowsGrow
<1> QED BY <1>1, RowsGrow DEF Ops

LEMMA OldRows ==
  ASSUME NEW r \in Row, NEW h, h = Here, rows \in Seq(Row), Take(r),
         NEW i \in 1..Len(rows)
  PROVE  /\ DrawnParent(i)' = DrawnParent(i)
         /\ InHeader(i)' <=> InHeader(i)
         /\ DrawnOwner(i)' = DrawnOwner(i)
         /\ Unclassified(i)' <=> Unclassified(i)
<1>1. i \in Nat /\ rows'[i] = rows[i]
  BY RowsGrow
<1>2. \A j : j \in Ops /\ j < i <=> j \in Ops' /\ j < i
  BY OpsGrow, RowsGrow
<1>3. \A j \in Ops : j < i => rows'[j] = rows[j]
  BY RowsGrow DEF Ops
<1>4. DrawnParent(i)' = DrawnParent(i)
  <2>1. {j \in Ops' : j < i /\ rows'[j].col < rows'[i].col} = {j \in Ops : j < i /\ rows[j].col < rows[i].col}
    BY <1>1, <1>2, <1>3
  <2> QED BY <2>1 DEF DrawnParent
<1>5. InHeader(i)' <=> InHeader(i)
  <2>1. \A j \in 1..(i - 1) : rows'[j] = rows[j]
    BY <1>1, RowsGrow
  <2> QED BY <2>1 DEF InHeader
<1>6. DrawnOwner(i)' = DrawnOwner(i)
  <2>1. {k \in Ops' : k < i /\ rows'[k].col <= rows'[i].col - 2} = {k \in Ops : k < i /\ rows[k].col <= rows[i].col - 2}
    BY <1>1, <1>2, <1>3
  <2> DEFINE S == {k \in Ops : k < i /\ rows[k].col <= rows[i].col - 2}
             T == {k \in Ops' : k < i /\ rows'[k].col <= rows'[i].col - 2}
  <2>2. DrawnOwner(i) = IF Latest(S) # 0 /\ rows[Latest(S)].col = rows[i].col - 2 THEN Latest(S) ELSE 0
    BY DEF DrawnOwner
  <2>3. DrawnOwner(i)' = IF Latest(T) # 0 /\ rows'[Latest(T)].col = rows'[i].col - 2 THEN Latest(T) ELSE 0
    BY DEF DrawnOwner
  <2>4. ASSUME Latest(S) # 0
        PROVE  rows'[Latest(S)] = rows[Latest(S)]
    <3>1. S # {} /\ S \in SUBSET (1..Len(rows))
      BY <2>4 DEF Latest, Ops
    <3>2. Latest(S) \in 1..Len(rows)
      BY <3>1, LatestIn, RowsGrow
    <3> QED BY <3>2, RowsGrow
  <2> QED BY <1>1, <2>1, <2>2, <2>3, <2>4
<1> QED BY <1>1, <1>4, <1>5, <1>6 DEF Unclassified

LEMMA NewRow ==
  ASSUME NEW r \in Row, NEW h, h = Here, rows \in Seq(Row), Take(r)
  PROVE  /\ DrawnParent(h)' = Latest({j \in Ops : rows[j].col < r.col})
         /\ InHeader(h)' <=> \A i \in 1..Len(rows) : rows[i].kind \notin {"op", "blank"}
         /\ LET j == Latest({k \in Ops : rows[k].col <= r.col - 2})
            IN DrawnOwner(h)' = IF j # 0 /\ rows[j].col = r.col - 2 THEN j ELSE 0
<1>1. h \in Nat /\ rows'[h] = r /\ h - 1 = Len(rows)
  BY RowsGrow
<1>2. \A j : j \in Ops' /\ j < h <=> j \in Ops
  BY OpsGrow, RowsGrow DEF Ops
<1>3. \A j \in Ops : j \in 1..Len(rows) /\ rows'[j] = rows[j]
  BY RowsGrow DEF Ops
<1>4. DrawnParent(h)' = Latest({j \in Ops : rows[j].col < r.col})
  <2>1. {j \in Ops' : j < h /\ rows'[j].col < rows'[h].col} = {j \in Ops : rows[j].col < r.col}
    BY <1>1, <1>2, <1>3
  <2> QED BY <2>1 DEF DrawnParent
<1>5. InHeader(h)' <=> \A i \in 1..Len(rows) : rows[i].kind \notin {"op", "blank"}
  BY <1>1, RowsGrow DEF InHeader
<1>6. LET j == Latest({k \in Ops : rows[k].col <= r.col - 2})
      IN DrawnOwner(h)' = IF j # 0 /\ rows[j].col = r.col - 2 THEN j ELSE 0
  <2> DEFINE S == {k \in Ops : rows[k].col <= r.col - 2}
             T == {k \in Ops' : k < h /\ rows'[k].col <= rows'[h].col - 2}
  <2>1. T = S
    BY <1>1, <1>2, <1>3
  <2>2. DrawnOwner(h)' = IF Latest(T) # 0 /\ rows'[Latest(T)].col = rows'[h].col - 2 THEN Latest(T) ELSE 0
    BY DEF DrawnOwner
  <2>3. ASSUME Latest(S) # 0
        PROVE  rows'[Latest(S)] = rows[Latest(S)]
    <3>1. S # {} /\ S \in SUBSET (1..Len(rows))
      BY <2>3 DEF Latest, Ops
    <3>2. Latest(S) \in 1..Len(rows)
      BY <3>1, LatestIn, RowsGrow
    <3> QED BY <3>2, RowsGrow
  <2> QED BY <1>1, <2>1, <2>2, <2>3
<1> QED BY <1>4, <1>5, <1>6

\* Pairs, over any rows.
PairsOf(rs, S) == [c \in {rs[i].col : i \in S} |-> Latest({i \in S : rs[i].col = c})]

LEMMA PairsAreOf == \A S : Pairs(S) = PairsOf(rows, S)
BY DEF Pairs, PairsOf

LEMMA PairsGrow ==
  ASSUME NEW r \in Row, NEW h, h = Here, rows \in Seq(Row), Take(r),
         NEW S \in SUBSET (1..Len(rows))
  PROVE  /\ PairsOf(rows', S) = PairsOf(rows, S)
         /\ PairsOf(rows', S \cup {h}) = Put(PairsOf(rows, S), r.col, h)
<1>1. /\ h \in Nat \ {0} /\ rows'[h] = r /\ Len(rows) = h - 1
      /\ \A i \in S : i \in Nat /\ i < h /\ rows'[i] = rows[i]
  BY RowsGrow
<1>2. \A c : {i \in S : rows'[i].col = c} = {i \in S : rows[i].col = c}
  BY <1>1
<1>3. {rows'[i].col : i \in S} = {rows[i].col : i \in S}
  BY <1>1
<1>4. PairsOf(rows', S) = PairsOf(rows, S)
  BY <1>2, <1>3 DEF PairsOf
<1>5. {rows'[i].col : i \in S \cup {h}} = {rows[i].col : i \in S} \cup {r.col}
  BY <1>1
<1>6. \A c : c # r.col => {i \in S \cup {h} : rows'[i].col = c} = {i \in S : rows[i].col = c}
  BY <1>1
<1>7. Latest({i \in S \cup {h} : rows'[i].col = r.col}) = h
  <2> DEFINE U == {i \in S \cup {h} : rows'[i].col = r.col}
  <2>1. h \in U /\ h # 0
    BY <1>1
  <2>2. \A j \in S \cup {h} : j \in Nat /\ j <= h
    BY <1>1
  <2>3. U \subseteq S \cup {h}
    OBVIOUS
  <2> HIDE DEF U
  <2>4. U \in SUBSET Nat /\ \A j \in U : j <= h
    BY <2>2, <2>3
  <2>5. Latest(U) = h
    BY <2>1, <2>4, LatestIs
  <2> QED BY <2>5 DEF U
<1>8. DOMAIN PairsOf(rows, S) = {rows[i].col : i \in S}
  BY DEF PairsOf
<1>9. \A c \in DOMAIN PairsOf(rows, S) : PairsOf(rows, S)[c] = Latest({i \in S : rows[i].col = c})
  BY DEF PairsOf
<1>10. PairsOf(rows', S \cup {h}) = [c \in {rows[i].col : i \in S} \cup {r.col} |->
                                       Latest({i \in S \cup {h} : rows'[i].col = c})]
  BY <1>5 DEF PairsOf
<1>11. Put(PairsOf(rows, S), r.col, h) = [c \in {rows[i].col : i \in S} \cup {r.col} |->
                                            IF c = r.col THEN h ELSE PairsOf(rows, S)[c]]
  BY <1>8 DEF Put
<1>12. \A c \in {rows[i].col : i \in S} \cup {r.col} :
         Latest({i \in S \cup {h} : rows'[i].col = c}) = IF c = r.col THEN h ELSE PairsOf(rows, S)[c]
  <2> TAKE c \in {rows[i].col : i \in S} \cup {r.col}
  <2>1. CASE c = r.col
    BY <1>7, <2>1
  <2>2. CASE c # r.col
    <3>1. c \in DOMAIN PairsOf(rows, S)
      BY <1>8, <2>2
    <3>2. {i \in S \cup {h} : rows'[i].col = c} = {i \in S : rows[i].col = c}
      BY <1>6, <2>2
    <3> QED BY <1>9, <2>2, <3>1, <3>2
  <2> QED BY <2>1, <2>2
<1>13. PairsOf(rows', S \cup {h}) = Put(PairsOf(rows, S), r.col, h)
  BY <1>10, <1>11, <1>12, Zenon
<1> QED BY <1>4, <1>13

-----------------------------------------------------------------------------
(* The operators left of a column.                                         *)

\* The first k of the stack are those left of the column.
LeftOf(k, col) == /\ \A j \in 1..k : stack[j].col < col
                  /\ \A j \in (k + 1)..Len(stack) : col <= stack[j].col

LEMMA StackTypes ==
  ASSUME PlanTypes, StackIsOpen
  PROVE  /\ Len(stack) \in Nat /\ Len(nodes) \in Nat
         /\ \A k \in 1..Len(stack) :
              /\ stack[k] \in Entry
              /\ stack[k].col \in Nat /\ stack[k].node \in Nat
              /\ stack[k].node \in 1..Len(nodes)
         /\ \A n \in 1..Len(nodes) : nodes[n] \in Node
<1>1. /\ Len(stack) \in Nat /\ Len(nodes) \in Nat
      /\ \A k \in 1..Len(stack) : stack[k] \in Entry
      /\ \A n \in 1..Len(nodes) : nodes[n] \in Node
  BY DEF PlanTypes
<1>2. \A e \in Entry : e.col \in Nat /\ e.node \in Nat
  BY DEF Entry
<1> QED BY <1>1, <1>2 DEF StackIsOpen

LEMMA LeftOfExists ==
  ASSUME PlanTypes, StackIsOpen, NEW col \in Int
  PROVE  \E k \in 0..Len(stack) : LeftOf(k, col)
<1> DEFINE right == {j \in 1..Len(stack) : col <= stack[j].col}
<1>1. CASE right = {}
  <2>1. LeftOf(Len(stack), col)
    <3>1. Len(stack) \in Nat /\ \A j \in 1..Len(stack) : stack[j].col \in Nat
      BY StackTypes
    <3>2. \A j \in 1..Len(stack) : stack[j].col < col
      BY ONLY <1>1, <3>1, col \in Int
    <3> QED BY ONLY <3>1, <3>2 DEF LeftOf
  <2> QED BY <2>1, StackTypes
<1>2. CASE right # {}
  <2>1. right \in SUBSET Nat
    OBVIOUS
  <2>2. PICK i \in right : \A j \in right : i <= j
    BY <1>2, <2>1, LeastNumber
  <2>3. i \in 1..Len(stack) /\ col <= stack[i].col
    BY <2>2
  <2>4. \A j \in 1..(i - 1) : stack[j].col < col
    BY <2>2, <2>3, StackTypes
  <2>5. \A j \in i..Len(stack) : stack[i].col <= stack[j].col
    BY <2>3, StackTypes DEF StackIsOpen
  <2>6. \A j \in i..Len(stack) : col <= stack[j].col
    BY <2>3, <2>5, StackTypes
  <2>7. LeftOf(i - 1, col)
    BY <2>3, <2>4, <2>6 DEF LeftOf
  <2> QED BY <2>3, <2>7, StackTypes
<1> QED BY <1>1, <1>2

LEMMA PopIs ==
  ASSUME PlanTypes, StackIsOpen, NEW col \in Int, NEW k \in 0..Len(stack), LeftOf(k, col)
  PROVE  PopTo(col) = SubSeq(stack, 1, k)
<1> DEFINE open == {j \in 0..Len(stack) : j = 0 \/ stack[j].col < col}
           top == CHOOSE j \in open : \A i \in open : i <= j
<1>1. k \in open
  BY DEF LeftOf
<1>2. \A j \in open : j <= k
  <2> SUFFICES ASSUME NEW j \in open, ~(j <= k) PROVE FALSE
    OBVIOUS
  <2>1. j \in (k + 1)..Len(stack) /\ j \in 1..Len(stack)
    BY StackTypes
  <2> QED BY <2>1, StackTypes DEF LeftOf
<1>3. open \in SUBSET Nat
  OBVIOUS
<1> HIDE DEF open
<1>4. \A j \in open : (\A i \in open : i <= j) <=> j = k
  BY <1>1, <1>2, <1>3
<1>5. top = k
  BY <1>1, <1>4
<1> QED BY <1>5 DEF PopTo, open

LEMMA LastLeft ==
  ASSUME PlanTypes, NodesAreOps, StackIsOpen, ClosedIsCovered,
         NEW col \in Int, NEW k \in 0..Len(stack), LeftOf(k, col)
  PROVE  Latest({i \in Ops : rows[i].col < col}) = IF k = 0 THEN 0 ELSE nodes[stack[k].node].op
<1> DEFINE left == {i \in Ops : rows[i].col < col}
<1>0. \A i \in Ops : i \in Nat /\ i # 0 /\ rows[i].col \in Nat
  <2>1. \A i \in 1..Len(rows) : rows[i] \in Row
    BY DEF PlanTypes
  <2>2. \A e \in Row : e.col \in Nat
    BY DEF Row
  <2> QED BY <2>1, <2>2 DEF Ops
<1>1. \A i \in left : k # 0 /\ i <= nodes[stack[k].node].op
  <2> TAKE i \in left
  <2>1. PICK n \in 1..Len(nodes) : nodes[n].op = i
    BY DEF NodesAreOps
  <2>2. PICK j \in 1..Len(stack) : n <= stack[j].node /\ stack[j].col <= rows[i].col
    BY <2>1 DEF ClosedIsCovered, ColumnOf
  <2>3. stack[j].col < col
    BY <1>0, <2>2, StackTypes
  <2>4. j <= k
    BY <2>3, StackTypes DEF LeftOf
  <2>5. k \in 1..Len(stack) /\ stack[j].node <= stack[k].node
    BY <2>4, StackTypes DEF StackIsOpen
  <2>6. stack[k].node \in 1..Len(nodes) /\ n <= stack[k].node
    BY <2>2, <2>5, StackTypes
  <2>7. n < stack[k].node => nodes[n].op < nodes[stack[k].node].op
    BY <2>6 DEF NodesAreOps
  <2>8. i \in Nat /\ nodes[stack[k].node].op \in Nat
    BY <1>0, <2>6 DEF NodesAreOps
  <2>9. n = stack[k].node \/ n < stack[k].node
    BY <2>6
  <2>10. i <= nodes[stack[k].node].op
    BY ONLY <2>1, <2>7, <2>8, <2>9
  <2> QED BY <2>5, <2>10
<1>2. CASE k = 0
  <2>1. left = {}
    BY <1>1, <1>2
  <2> QED BY <1>2, <2>1 DEF Latest
<1>3. CASE k # 0
  <2>1. k \in 1..Len(stack) /\ stack[k].node \in 1..Len(nodes)
    BY <1>3, StackTypes
  <2>2. nodes[stack[k].node].op \in left
    BY <2>1 DEF LeftOf, StackIsOpen, NodesAreOps, ColumnOf
  <2>3. left \in SUBSET Nat /\ nodes[stack[k].node].op # 0
    BY <1>0, <2>2
  <2> HIDE DEF left
  <2>4. Latest(left) = nodes[stack[k].node].op
    BY <1>1, <2>2, <2>3, LatestIs
  <2> QED BY <1>3, <2>4 DEF left
<1> QED BY <1>2, <1>3

LEMMA OwnerIs ==
  ASSUME PlanTypes, StackIsOpen, NEW col \in Int, NEW k \in 0..Len(stack), LeftOf(k, col + 1)
  PROVE  Owner(col) = IF k # 0 /\ stack[k].col = col THEN stack[k].node ELSE 0
<1> DEFINE at == {j \in 1..Len(stack) : stack[j].col = col}
<1>1. \A j \in at : j = k
  <2> TAKE j \in at
  <2>1. j <= k
    BY StackTypes DEF LeftOf
  <2>2. SUFFICES ASSUME j < k PROVE FALSE
    BY <2>1
  <2>3. stack[j].col < stack[k].col /\ stack[k].col < col + 1
    BY <2>2 DEF StackIsOpen, LeftOf
  <2> QED BY <2>2, <2>3, StackTypes
<1>2. CASE k # 0 /\ stack[k].col = col
  <2>1. at = {k}
    BY <1>1, <1>2, StackTypes
  <2>2. (CHOOSE j \in at : \A i \in at : i <= j) = k
    BY <2>1
  <2> QED BY <1>2, <2>1, <2>2 DEF Owner
<1>3. CASE ~(k # 0 /\ stack[k].col = col)
  <2>1. at = {}
    BY <1>1, <1>3
  <2> QED BY <1>3, <2>1 DEF Owner
<1> QED BY <1>2, <1>3

-----------------------------------------------------------------------------
(* One row read.                                                           *)

HeaderRows == {i \in 1..Len(rows) : rows[i].kind = "kv" /\ InHeader(i)}

LEMMA RowsRead ==
  ASSUME NEW r \in Row, NEW h, h = Here, PlanInv, ~planErr, Take(r)
  PROVE  /\ InHeader(h)' <=> inHeader
         /\ HeaderRows' = IF r.kind = "kv" /\ inHeader THEN HeaderRows \cup {h} ELSE HeaderRows
         /\ \A o : KeyValues(o)' = IF r.kind = "kv" /\ ~inHeader /\ DrawnOwner(h)' = o
                                   THEN KeyValues(o) \cup {h} ELSE KeyValues(o)
         /\ Placed' <=> (r.kind = "kv" /\ ~inHeader => DrawnOwner(h)' \in Ops')
         /\ (\E i \in 1..Len(rows) : Unclassified(i))'
              <=> \/ r.kind \in {"bare", "text"}
                  \/ r.kind = "kv" /\ ~inHeader /\ DrawnOwner(h)' = 0
<1> USE DEF PlanInv, PlanTypes
<1>1. \A i : i \in 1..Len(rows') <=> i \in 1..Len(rows) \/ i = h
  BY RowsGrow
<1>2. /\ rows'[h] = r /\ h \notin 1..Len(rows)
      /\ \A i \in 1..Len(rows) : rows'[i] = rows[i]
  BY RowsGrow
<1>3. InHeader(h)' <=> inHeader
  BY NewRow DEF HeaderIsRead
<1>4. \A i \in 1..Len(rows) : /\ InHeader(i)' <=> InHeader(i)
                              /\ DrawnOwner(i)' = DrawnOwner(i)
                              /\ Unclassified(i)' <=> Unclassified(i)
  BY OldRows
<1>5. HeaderRows' = IF r.kind = "kv" /\ inHeader THEN HeaderRows \cup {h} ELSE HeaderRows
  <2>1. \A i : i \in HeaderRows' <=> \/ i \in HeaderRows
                                     \/ i = h /\ r.kind = "kv" /\ inHeader
    BY <1>1, <1>2, <1>3, <1>4 DEF HeaderRows
  <2> QED BY <2>1
<1>6. ASSUME NEW o
      PROVE  KeyValues(o)' = IF r.kind = "kv" /\ ~inHeader /\ DrawnOwner(h)' = o
                             THEN KeyValues(o) \cup {h} ELSE KeyValues(o)
  <2>1. \A i : i \in KeyValues(o)' <=> \/ i \in KeyValues(o)
                                       \/ i = h /\ r.kind = "kv" /\ ~inHeader /\ DrawnOwner(h)' = o
    BY <1>1, <1>2, <1>3, <1>4 DEF KeyValues
  <2> QED BY <2>1
<1>7. Placed' <=> (r.kind = "kv" /\ ~inHeader => DrawnOwner(h)' \in Ops')
  <2>1. \A i \in 1..Len(rows) : i \in Ops <=> i \in Ops'
    BY <1>2, OpsGrow
  <2>2. \A i \in 1..Len(rows) : DrawnOwner(i) \in Ops => DrawnOwner(i) \in Ops'
    BY <2>1 DEF Ops
  <2>3. \A i \in 1..Len(rows) : rows[i].kind = "kv" /\ ~InHeader(i) => DrawnOwner(i)' \in Ops'
    BY <1>4, <2>2 DEF Placed
  <2> QED BY <1>1, <1>2, <1>3, <1>4, <2>3 DEF Placed
<1>8. Unclassified(h)' <=> \/ r.kind \in {"bare", "text"}
                           \/ r.kind = "kv" /\ ~inHeader /\ DrawnOwner(h)' = 0
  BY <1>2, <1>3 DEF Unclassified
<1>9. \A i \in 1..Len(rows) : ~Unclassified(i)
  OBVIOUS
<1>10. (\E i \in 1..Len(rows) : Unclassified(i))' <=> Unclassified(h)'
  BY <1>1, <1>4, <1>9
<1> QED BY <1>3, <1>5, <1>6, <1>7, <1>8, <1>10

LEMMA OwnerRead ==
  ASSUME NEW r \in Row, NEW h, h = Here, PlanInv, ~planErr, Take(r)
  PROVE  /\ DrawnOwner(h)' = OpOf(Owner(r.col - 2))
         /\ Owner(r.col - 2) # 0 => /\ Owner(r.col - 2) \in 1..Len(nodes)
                                    /\ ~Stale(Owner(r.col - 2))
<1> USE DEF PlanInv, PlanTypes
<1>1. r.col \in Int /\ r.col - 2 \in Int /\ r.col - 2 + 1 \in Int
  BY DEF Row
<1>2. PICK k \in 0..Len(stack) : LeftOf(k, r.col - 2 + 1)
  BY <1>1, LeftOfExists
<1>3. Owner(r.col - 2) = IF k # 0 /\ stack[k].col = r.col - 2 THEN stack[k].node ELSE 0
  BY <1>1, <1>2, OwnerIs
<1>4. Latest({i \in Ops : rows[i].col < r.col - 2 + 1}) = IF k = 0 THEN 0 ELSE nodes[stack[k].node].op
  BY <1>1, <1>2, LastLeft
<1>5. {i \in Ops : rows[i].col < r.col - 2 + 1} = {i \in Ops : rows[i].col <= r.col - 2}
  <2>1. \A i \in Ops : rows[i] \in Row
    BY DEF Ops
  <2>2. \A i \in Ops : rows[i].col \in Nat
    BY <2>1 DEF Row
  <2> QED BY <1>1, <2>2
<1> DEFINE last == Latest({i \in Ops : rows[i].col <= r.col - 2})
<1>6. DrawnOwner(h)' = IF last # 0 /\ rows[last].col = r.col - 2 THEN last ELSE 0
  BY NewRow
<1>7. last = IF k = 0 THEN 0 ELSE nodes[stack[k].node].op
  BY <1>4, <1>5
<1> HIDE DEF last
<1>8. CASE k = 0
  BY <1>3, <1>8, <1>6, <1>7 DEF OpOf
<1>9. CASE k # 0
  <2>1. /\ stack[k].node \in 1..Len(nodes) /\ ~Stale(stack[k].node)
        /\ rows[nodes[stack[k].node].op].col = stack[k].col
        /\ nodes[stack[k].node].op # 0
    BY <1>9, StackTypes DEF StackIsOpen, NodesAreOps, ColumnOf, Ops
  <2>2. last = nodes[stack[k].node].op /\ rows[last].col = stack[k].col /\ last # 0
    BY <1>9, <1>7, <2>1
  <2>3. stack[k].node # 0 /\ OpOf(stack[k].node) = last
    BY <2>1, <2>2 DEF OpOf
  <2>4. CASE stack[k].col = r.col - 2
    BY <1>3, <1>9, <1>6, <2>1, <2>2, <2>3, <2>4
  <2>5. CASE stack[k].col # r.col - 2
    BY <1>3, <1>6, <2>2, <2>5 DEF OpOf
  <2> QED BY <2>4, <2>5
<1> QED BY <1>8, <1>9

LEMMA AtNode ==
  ASSUME NEW n, NEW i
  PROVE  /\ nodes[n].op = i => /\ DrawnParent(nodes[n].op) = DrawnParent(i)
                               /\ Pairs(KeyValues(nodes[n].op)) = PairsOf(rows, KeyValues(i))
         /\ nodes'[n].op = i => /\ DrawnParent(nodes[n].op)' = DrawnParent(i)'
                                /\ Pairs(KeyValues(nodes[n].op))' = PairsOf(rows', KeyValues(i)')
<1>1. ASSUME nodes[n].op = i
      PROVE  /\ DrawnParent(nodes[n].op) = DrawnParent(i)
             /\ Pairs(KeyValues(nodes[n].op)) = PairsOf(rows, KeyValues(i))
  BY <1>1 DEF DrawnParent, Pairs, PairsOf, KeyValues
<1>2. ASSUME nodes'[n].op = i
      PROVE  /\ DrawnParent(nodes[n].op)' = DrawnParent(i)'
             /\ Pairs(KeyValues(nodes[n].op))' = PairsOf(rows', KeyValues(i)')
  BY <1>2 DEF DrawnParent, Pairs, PairsOf, KeyValues
<1> QED BY <1>1, <1>2

\* A row that is no operator leaves the tree and the stack as they are.
LEMMA TreeKept ==
  ASSUME NEW r \in Row, NEW h, h = Here, PlanInv, ~planErr, Take(r),
         r.kind # "op", stack' = stack, Len(nodes') = Len(nodes),
         \A n \in 1..Len(nodes) : nodes'[n].op = nodes[n].op /\ nodes'[n].parent = nodes[n].parent
  PROVE  /\ Ops' = Ops
         /\ NodesAreOps' /\ StackIsOpen' /\ ClosedIsCovered'
         /\ \A n \in 1..Len(nodes) : OpOf(nodes[n].parent)' = DrawnParent(nodes[n].op)'
<1> USE DEF PlanInv, PlanTypes
<1>1. Ops' = Ops
  BY OpsGrow
<1>2. NodesAreOps'
  BY <1>1 DEF NodesAreOps
<1>3. \A n \in 1..Len(nodes) : /\ ColumnOf(n)' = ColumnOf(n)
                               /\ Stale(n)' <=> Stale(n)
  <2> TAKE n \in 1..Len(nodes)
  <2>1. nodes[n].op \in 1..Len(rows)
    BY DEF NodesAreOps, Ops
  <2>2. ColumnOf(n)' = ColumnOf(n)
    BY <2>1, RowsGrow DEF ColumnOf
  <2>3. Len(nodes) \in Nat
    OBVIOUS
  <2>4. \A k \in (n + 1)..Len(nodes) : k \in 1..Len(nodes)
    OBVIOUS
  <2>5. Stale(n)' <=> Stale(n)
    BY <2>4 DEF Stale
  <2> QED BY <2>2, <2>5
<1>4. StackIsOpen'
  BY <1>3 DEF StackIsOpen
<1>5. ClosedIsCovered'
  BY <1>3, StackTypes DEF ClosedIsCovered
<1>6. ASSUME NEW n \in 1..Len(nodes)
      PROVE  OpOf(nodes[n].parent)' = DrawnParent(nodes[n].op)'
  <2>1. PICK i \in 1..Len(rows) : nodes[n].op = i
    BY DEF NodesAreOps, Ops
  <2>2. nodes'[n].op = i
    BY <2>1
  <2>3. DrawnParent(nodes[n].op)' = DrawnParent(nodes[n].op)
    BY <2>1, <2>2, AtNode, OldRows
  <2>4. nodes[n].parent \in Nat /\ n \in Nat /\ nodes[n].parent < n
    BY StackTypes DEF NodesAreOps, Node
  <2>5. nodes[n].parent = 0 \/ nodes[n].parent \in 1..Len(nodes)
    BY <2>4
  <2>6. OpOf(nodes[n].parent)' = OpOf(nodes[n].parent)
    BY <2>5 DEF OpOf
  <2> QED BY <2>3, <2>6 DEF Drawn
<1> QED BY <1>1, <1>2, <1>4, <1>5, <1>6

\* A row that is no attribute leaves those read so far as they are.
LEMMA AttrsKept ==
  ASSUME NEW r \in Row, NEW h, h = Here, PlanInv, ~planErr, Take(r),
         r.kind # "kv" \/ inHeader,
         NEW n \in 1..Len(nodes), nodes'[n].op = nodes[n].op, nodes'[n].attrs = nodes[n].attrs
  PROVE  nodes'[n].attrs = Pairs(KeyValues(nodes[n].op))'
<1> USE DEF PlanInv, PlanTypes
<1>1. PICK i \in 1..Len(rows) : nodes[n].op = i
  BY DEF NodesAreOps, Ops
<1>2. KeyValues(i)' = KeyValues(i)
  BY RowsRead
<1>3. PairsOf(rows', KeyValues(i)) = PairsOf(rows, KeyValues(i))
  BY PairsGrow DEF KeyValues
<1> QED BY <1>1, <1>2, <1>3, AtNode DEF Drawn

\* The header is as it was for a row that is not of it.
LEMMA HeaderKept ==
  ASSUME NEW r \in Row, NEW h, h = Here, PlanInv, ~planErr, Take(r),
         r.kind # "kv" \/ ~inHeader, header' = header,
         inHeader' <=> inHeader /\ r.kind \notin {"op", "blank"}
  PROVE  HeaderIsRead'
<1> USE DEF PlanInv, PlanTypes
<1>1. HeaderRows' = HeaderRows
  BY RowsRead
<1>2. PairsOf(rows', HeaderRows) = PairsOf(rows, HeaderRows)
  BY PairsGrow DEF HeaderRows
<1>3. header' = PairsOf(rows', HeaderRows')
  BY <1>1, <1>2, PairsAreOf DEF HeaderIsRead, HeaderRows
<1>4. header' = Pairs({i \in 1..Len(rows) : rows[i].kind = "kv" /\ InHeader(i)})'
  BY <1>3 DEF HeaderRows, Pairs, PairsOf
<1>5. \A i : i \in 1..Len(rows') <=> i \in 1..Len(rows) \/ i = h
  BY RowsGrow
<1>6. inHeader' <=> \A i \in 1..Len(rows') : rows'[i].kind \notin {"op", "blank"}
  BY <1>5, RowsGrow DEF HeaderIsRead
<1> QED BY <1>4, <1>6 DEF HeaderIsRead

LEMMA PutTypes ==
  ASSUME NEW pairs \in Attrs, NEW key \in Nat, NEW i \in Nat
  PROVE  Put(pairs, key, i) \in Attrs
<1>1. PICK D \in SUBSET Nat : pairs \in [D -> Nat]
  BY DEF Attrs
<1>2. D \cup {key} \in SUBSET Nat
  OBVIOUS
<1>3. Put(pairs, key, i) \in [D \cup {key} -> Nat]
  BY <1>1 DEF Put
<1> QED BY <1>2, <1>3 DEF Attrs

LEMMA NoPairsTypes == NoPairs \in Attrs /\ NoPairs = PairsOf(rows', {})
<1>1. NoPairs \in [{} -> Nat] /\ {} \in SUBSET Nat
  BY DEF NoPairs
<1>2. {rows'[i].col : i \in {}} = {}
  OBVIOUS
<1>3. NoPairs = PairsOf(rows', {})
  BY <1>2 DEF NoPairs, PairsOf
<1> QED BY <1>1, <1>3 DEF Attrs

LEMMA PlanInitInv == PlanInit => PlanInv
<1> SUFFICES ASSUME PlanInit PROVE PlanInv
  OBVIOUS
<1> USE DEF PlanInit
<1>1. PlanTypes
  <2>1. rows \in Seq(Row) /\ nodes \in Seq(Node) /\ stack \in Seq(Entry)
    OBVIOUS
  <2>2. header \in Attrs
    BY NoPairsTypes, Zenon
  <2> QED BY <2>1, <2>2 DEF PlanTypes
<1>2. Len(rows) = 0 /\ Len(nodes) = 0 /\ Len(stack) = 0 /\ 1..0 = {}
  OBVIOUS
<1>3. planErr <=> \E i \in 1..Len(rows) : Unclassified(i)
  BY <1>2
<1>4. NodesAreOps /\ Drawn /\ Placed /\ StackIsOpen /\ ClosedIsCovered
  BY <1>2 DEF NodesAreOps, Drawn, Placed, StackIsOpen, ClosedIsCovered, Ops
<1>5. HeaderIsRead
  <2>1. {i \in 1..Len(rows) : rows[i].kind = "kv" /\ InHeader(i)} = {}
    BY <1>2
  <2>2. header = Pairs({})
    BY DEF NoPairs, Pairs
  <2> QED BY <1>2, <2>1, <2>2 DEF HeaderIsRead
<1> QED BY <1>1, <1>3, <1>4, <1>5 DEF PlanInv

\* Of a row that is none of the tree.
LEMMA QuietStep ==
  ASSUME NEW r \in Row, NEW h, h = Here, PlanInv, ~planErr, Take(r),
         r.kind \notin {"op", "bare", "text"}, r.kind # "kv" \/ inHeader,
         UNCHANGED <<nodes, stack, planErr>>,
         inHeader' \in BOOLEAN, header' \in Attrs, HeaderIsRead'
  PROVE  PlanInv'
<1>1. PlanTypes'
  BY RowsGrow DEF PlanInv, PlanTypes
<1>2. Placed' /\ ~(\E i \in 1..Len(rows) : Unclassified(i))'
  BY RowsRead
<1>3. /\ NodesAreOps' /\ StackIsOpen' /\ ClosedIsCovered'
      /\ \A n \in 1..Len(nodes) : OpOf(nodes[n].parent)' = DrawnParent(nodes[n].op)'
  BY TreeKept
<1>4. \A n \in 1..Len(nodes) : nodes'[n].attrs = Pairs(KeyValues(nodes[n].op))'
  BY AttrsKept
<1>5. Drawn'
  BY <1>3, <1>4 DEF Drawn
<1> QED BY <1>1, <1>2, <1>3, <1>5 DEF PlanInv

LEMMA SeparatorStep ==
  ASSUME NEW r \in Row, PlanInv, ~planErr, Take(r), Separator(r)
  PROVE  PlanInv'
<1>1. HeaderIsRead'
  BY HeaderKept DEF Separator
<1> QED BY <1>1, QuietStep DEF Separator, PlanInv, PlanTypes

LEMMA RuleStep ==
  ASSUME NEW r \in Row, PlanInv, ~planErr, Take(r), Rule(r)
  PROVE  PlanInv'
<1>1. HeaderIsRead'
  BY HeaderKept DEF Rule
<1> QED BY <1>1, QuietStep DEF Rule, PlanInv, PlanTypes

LEMMA HeaderLineStep ==
  ASSUME NEW r \in Row, NEW h, h = Here, PlanInv, ~planErr, Take(r), HeaderLine(r)
  PROVE  PlanInv'
<1> USE DEF HeaderLine
<1>0. rows \in Seq(Row) /\ h \in Nat /\ r.col \in Nat /\ header \in Attrs
  BY RowsGrow DEF PlanInv, PlanTypes, Row
<1>1. HeaderRows' = HeaderRows \cup {h}
  BY RowsRead
<1>2. HeaderRows \in SUBSET (1..Len(rows)) /\ header = PairsOf(rows, HeaderRows)
  BY PairsAreOf DEF PlanInv, HeaderIsRead, HeaderRows
<1>3. header' = PairsOf(rows', HeaderRows')
  BY <1>0, <1>1, <1>2, PairsGrow
<1>4. header' = Pairs({i \in 1..Len(rows) : rows[i].kind = "kv" /\ InHeader(i)})'
  BY <1>3 DEF HeaderRows, Pairs, PairsOf
<1>5. \A i : i \in 1..Len(rows') <=> i \in 1..Len(rows) \/ i = h
  BY <1>0, RowsGrow
<1>6. inHeader' <=> \A i \in 1..Len(rows') : rows'[i].kind \notin {"op", "blank"}
  BY <1>0, <1>5, RowsGrow DEF PlanInv, HeaderIsRead
<1>7. HeaderIsRead'
  BY <1>4, <1>6 DEF HeaderIsRead
<1>8. header' \in Attrs
  BY <1>0, PutTypes
<1> QED BY <1>7, <1>8, QuietStep DEF PlanInv, PlanTypes

LEMMA RejectStep ==
  ASSUME NEW r \in Row, NEW h, h = Here, PlanInv, ~planErr, Take(r), Reject(r)
  PROVE  PlanInv'
<1>1. PlanTypes'
  BY RowsGrow DEF PlanInv, PlanTypes, Reject
<1>2. r.kind = "kv" /\ ~inHeader /\ Owner(r.col - 2) = 0 => DrawnOwner(h)' = 0
  BY OwnerRead DEF OpOf
<1>3. (\E i \in 1..Len(rows) : Unclassified(i))'
  BY <1>2, RowsRead DEF Reject
<1> QED BY <1>1, <1>3 DEF PlanInv, Reject

LEMMA AttributeStep ==
  ASSUME NEW r \in Row, NEW h, h = Here, PlanInv, ~planErr, Take(r), Attribute(r)
  PROVE  PlanInv'
<1>0. r.kind = "kv" /\ ~inHeader /\ UNCHANGED <<inHeader, header, stack, planErr>>
  BY DEF Attribute
<1>1. rows \in Seq(Row) /\ nodes \in Seq(Node) /\ h \in Nat /\ r.col \in Nat
  BY RowsGrow DEF PlanInv, PlanTypes, Row
<1>2. PICK owner : owner = Owner(r.col - 2)
  OBVIOUS
<1>3. owner \in 1..Len(nodes) /\ ~Stale(owner) /\ owner # 0
  BY <1>2, OwnerRead DEF Attribute
<1>4. DrawnOwner(h)' = nodes[owner].op
  BY <1>2, <1>3, OwnerRead DEF OpOf
<1>5. nodes' = [nodes EXCEPT ![owner].attrs = Put(@, r.col, h)]
  BY <1>2, <1>3 DEF Attribute
<1>6. \A n \in 1..Len(nodes) : nodes[n] \in Node
  BY <1>1
<1>7. \A n \in 1..Len(nodes) : nodes[n].op \in Nat /\ nodes[n].parent \in Nat /\ nodes[n].attrs \in Attrs
  BY <1>6 DEF Node
<1> DEFINE written == [nodes[owner] EXCEPT !.attrs = Put(@, r.col, h)]
<1>8. /\ written.op = nodes[owner].op /\ written.parent = nodes[owner].parent
      /\ written.attrs = Put(nodes[owner].attrs, r.col, h)
      /\ written \in Node
  <2>1. Put(nodes[owner].attrs, r.col, h) \in Attrs
    BY <1>1, <1>3, <1>7, PutTypes
  <2> QED BY <1>3, <1>6, <2>1 DEF Node
<1>9. nodes' = [nodes EXCEPT ![owner] = written]
  BY <1>5
<1> HIDE DEF written
<1>10. /\ nodes' \in Seq(Node) /\ Len(nodes') = Len(nodes)
       /\ \A n \in 1..Len(nodes) : nodes'[n] = IF n = owner THEN written ELSE nodes[n]
  <2>1. written \in Node
    BY <1>8
  <2> QED BY <1>1, <1>3, <1>9, <2>1, ExceptSeq
<1>11. PlanTypes'
  BY <1>0, <1>10, RowsGrow DEF PlanInv, PlanTypes
<1>12. /\ Len(nodes') = Len(nodes)
       /\ \A n \in 1..Len(nodes) : nodes'[n].op = nodes[n].op /\ nodes'[n].parent = nodes[n].parent
       /\ \A n \in 1..Len(nodes) : nodes'[n].attrs = IF n = owner THEN Put(nodes[n].attrs, r.col, h)
                                                     ELSE nodes[n].attrs
  BY <1>8, <1>10
<1>13. /\ Ops' = Ops /\ NodesAreOps' /\ StackIsOpen' /\ ClosedIsCovered'
       /\ \A n \in 1..Len(nodes) : OpOf(nodes[n].parent)' = DrawnParent(nodes[n].op)'
  BY <1>0, <1>12, TreeKept
<1>14. ASSUME NEW n \in 1..Len(nodes)
       PROVE  nodes'[n].attrs = Pairs(KeyValues(nodes[n].op))'
  <2>1. PICK i \in 1..Len(rows) : nodes[n].op = i
    BY DEF PlanInv, NodesAreOps, Ops
  <2>2. nodes'[n].op = i
    BY <1>12, <2>1
  <2>3. nodes[n].attrs = PairsOf(rows, KeyValues(i))
    BY <2>1, AtNode DEF PlanInv, Drawn
  <2>4. KeyValues(i) \in SUBSET (1..Len(rows))
    BY DEF KeyValues
  <2>5. nodes'[n].attrs = PairsOf(rows', KeyValues(i)')
    <3>1. CASE n = owner
      <4>1. KeyValues(i)' = KeyValues(i) \cup {h}
        BY <1>0, <1>4, <2>1, <3>1, RowsRead
      <4>2. PairsOf(rows', KeyValues(i) \cup {h}) = Put(PairsOf(rows, KeyValues(i)), r.col, h)
        BY <1>1, <2>4, PairsGrow
      <4>3. nodes'[n].attrs = Put(nodes[n].attrs, r.col, h)
        BY <1>12, <3>1
      <4> QED BY <2>3, <4>1, <4>2, <4>3
    <3>2. CASE n # owner
      <4>1. nodes[owner].op # i
        BY <1>3, <1>7, <2>1, <3>2 DEF PlanInv, NodesAreOps
      <4>2. KeyValues(i)' = KeyValues(i)
        BY <1>4, <4>1, RowsRead
      <4> QED BY <1>1, <1>12, <2>3, <2>4, <3>2, <4>2, PairsGrow
    <3> QED BY <3>1, <3>2
  <2> QED BY <2>2, <2>5, AtNode
<1>15. Drawn'
  BY <1>12, <1>13, <1>14 DEF Drawn
<1>16. DrawnOwner(h)' \in Ops /\ 0 \notin Ops
  BY <1>3, <1>4 DEF PlanInv, NodesAreOps, Ops
<1>17. Placed' /\ ~(\E i \in 1..Len(rows) : Unclassified(i))'
  BY <1>0, <1>13, <1>16, RowsRead
<1>18. HeaderIsRead'
  BY <1>0, HeaderKept
<1> QED BY <1>0, <1>11, <1>13, <1>15, <1>17, <1>18 DEF PlanInv

\* What an operator row does, seen from the k open operators left of it.
LEMMA OperatorReads ==
  ASSUME NEW r \in Row, NEW h, h = Here, PlanInv, ~planErr, Operator(r),
         NEW k \in 0..Len(stack), LeftOf(k, r.col), NEW p, p = IF k = 0 THEN 0 ELSE stack[k].node
  PROVE  /\ p \in 0..Len(nodes) /\ ~(p # 0 /\ Stale(p))
         /\ nodes' = Append(nodes, [op |-> h, parent |-> p, attrs |-> NoPairs])
         /\ stack' = Append(SubSeq(stack, 1, k), [col |-> r.col, node |-> Len(nodes')])
<1> USE DEF PlanInv
<1>1. r.col \in Int
  BY DEF Row
<1>2. PopTo(r.col) = SubSeq(stack, 1, k)
  BY <1>1, PopIs
<1>3. /\ Len(stack) \in Nat /\ k \in Nat /\ k <= Len(stack)
      /\ \A j \in 1..k : stack[j] \in Entry
  BY StackTypes
<1>4. /\ Len(SubSeq(stack, 1, k)) = k
      /\ \A j \in 1..k : SubSeq(stack, 1, k)[j] = stack[j]
  BY <1>3, SubSeqProperties
<1>5. p = IF PopTo(r.col) = <<>> THEN 0 ELSE PopTo(r.col)[Len(PopTo(r.col))].node
  <2>1. CASE k = 0
    BY <1>2, <2>1
  <2>2. CASE k # 0
    <3>1. SubSeq(stack, 1, k) # <<>>
      BY <1>3, <1>4, <2>2
    <3>2. SubSeq(stack, 1, k)[k] = stack[k]
      BY <1>3, <1>4, <2>2
    <3> QED BY <1>2, <1>4, <2>2, <3>1, <3>2
  <2> QED BY <2>1, <2>2
<1>6. p \in 0..Len(nodes) /\ ~(p # 0 /\ Stale(p))
  <2>1. CASE k = 0
    BY <2>1, StackTypes
  <2>2. CASE k # 0
    BY <1>3, <2>2, StackTypes DEF StackIsOpen
  <2> QED BY <2>1, <2>2
<1> HIDE DEF PlanInv
<1>7. nodes' = IF p # 0 /\ Stale(p) THEN nodes
               ELSE Append(nodes, [op |-> h, parent |-> p, attrs |-> NoPairs])
  BY <1>5 DEF Operator
<1>8. stack' = Append(SubSeq(stack, 1, k), [col |-> r.col, node |-> Len(nodes')])
  BY <1>2 DEF Operator
<1> QED BY <1>6, <1>7, <1>8

LEMMA OperatorStep ==
  ASSUME NEW r \in Row, NEW h, h = Here, PlanInv, ~planErr, Take(r), Operator(r)
  PROVE  PlanInv'
<1>0. r.kind = "op" /\ ~inHeader' /\ inHeader' \in BOOLEAN /\ UNCHANGED <<header, planErr>>
  BY DEF Operator
<1>1. rows \in Seq(Row) /\ nodes \in Seq(Node) /\ stack \in Seq(Entry) /\ h \in Nat /\ h # 0 /\ r.col \in Nat
  BY RowsGrow DEF PlanInv, PlanTypes, Row
<1>2. PICK k \in 0..Len(stack) : LeftOf(k, r.col)
  <2>1. PlanTypes /\ StackIsOpen /\ r.col \in Int
    BY <1>1 DEF PlanInv
  <2> QED BY <2>1, LeftOfExists
<1>3. PICK p : p = IF k = 0 THEN 0 ELSE stack[k].node
  OBVIOUS
<1>4. PICK new : new = Len(nodes) + 1
  OBVIOUS
<1>5. /\ p \in 0..Len(nodes) /\ (p # 0 => ~Stale(p))
      /\ nodes' = Append(nodes, [op |-> h, parent |-> p, attrs |-> NoPairs])
      /\ stack' = Append(SubSeq(stack, 1, k), [col |-> r.col, node |-> Len(nodes')])
  BY <1>2, <1>3, OperatorReads
<1>6. /\ nodes' \in Seq(Node) /\ Len(nodes') = new /\ new \in Nat /\ new # 0
      /\ \A n \in 1..Len(nodes) : nodes'[n] = nodes[n] /\ nodes[n] \in Node
      /\ nodes'[new] = [op |-> h, parent |-> p, attrs |-> NoPairs]
      /\ \A n : n \in 1..new <=> n \in 1..Len(nodes) \/ n = new
  <2>1. p \in Nat /\ NoPairs \in Attrs
    BY <1>1, <1>5, NoPairsTypes
  <2>2. [op |-> h, parent |-> p, attrs |-> NoPairs] \in Node
    BY <1>1, <2>1 DEF Node
  <2> DEFINE node == [op |-> h, parent |-> p, attrs |-> NoPairs]
  <2>3. nodes' = Append(nodes, node) /\ node \in Node
    BY <1>5, <2>2
  <2> HIDE DEF node
  <2>4. /\ nodes' \in Seq(Node) /\ Len(nodes') = new /\ new \in Nat /\ new # 0
        /\ \A n \in 1..Len(nodes) : nodes'[n] = nodes[n] /\ nodes[n] \in Node
        /\ nodes'[new] = node
    BY <1>1, <1>4, <2>3, AppendProperties, ElementOfSeq
  <2>5. \A n : n \in 1..new <=> n \in 1..Len(nodes) \/ n = new
    BY <1>1, <1>4
  <2> QED BY <2>4, <2>5 DEF node
<1>7. /\ stack' \in Seq(Entry) /\ Len(stack') = k + 1
      /\ \A j \in 1..k : stack'[j] = stack[j] /\ j \in 1..Len(stack)
      /\ stack'[k + 1] = [col |-> r.col, node |-> new]
      /\ \A j : j \in 1..(k + 1) <=> j \in 1..k \/ j = k + 1
  <2>1. \A j \in 1..k : stack[j] \in Entry /\ j \in 1..Len(stack)
    BY <1>1, <1>2, ElementOfSeq
  <2>2. /\ SubSeq(stack, 1, k) \in Seq(Entry) /\ Len(SubSeq(stack, 1, k)) = k
        /\ \A j \in 1..k : SubSeq(stack, 1, k)[j] = stack[j]
    BY <1>1, <1>2, <2>1, SubSeqProperties
  <2>3. [col |-> r.col, node |-> new] \in Entry
    BY <1>1, <1>6 DEF Entry
  <2> DEFINE entry == [col |-> r.col, node |-> new]
             open == SubSeq(stack, 1, k)
  <2>4. stack' = Append(open, entry) /\ entry \in Entry
    BY <1>5, <1>6, <2>3
  <2> HIDE DEF entry, open
  <2>5. open \in Seq(Entry) /\ Len(open) = k /\ \A j \in 1..k : open[j] = stack[j]
    BY <2>2 DEF open
  <2>6. /\ stack' \in Seq(Entry) /\ Len(stack') = k + 1
        /\ \A j \in 1..k : stack'[j] = stack[j]
        /\ stack'[k + 1] = entry
    BY <2>4, <2>5, AppendProperties
  <2> QED BY <1>2, <2>1, <2>6 DEF entry
<1>8. PlanTypes'
  BY <1>0, <1>6, <1>7, RowsGrow DEF PlanInv, PlanTypes
<1>9. Ops' = Ops \cup {h} /\ h \notin Ops /\ \A i \in Ops : i \in Nat /\ i < h
  BY <1>0, <1>1, OpsGrow, RowsGrow DEF Ops
<1>10. Placed' /\ ~(\E i \in 1..Len(rows) : Unclassified(i))'
  BY <1>0, RowsRead
<1>11. HeaderIsRead'
  BY <1>0, HeaderKept
<1>12. \A n \in 1..Len(nodes) : /\ nodes[n].op \in Ops /\ nodes[n].parent \in Nat /\ nodes[n].parent < n
                                /\ nodes'[n].op = nodes[n].op /\ nodes'[n].parent = nodes[n].parent
  BY <1>6 DEF PlanInv, NodesAreOps, Node
<1>13. nodes'[new].op = h /\ nodes'[new].parent = p /\ nodes'[new].attrs = NoPairs
  BY <1>6
<1>14. NodesAreOps'
  <2>1. \A n \in 1..new : nodes'[n].op \in Ops' /\ nodes'[n].parent < n
    BY <1>4, <1>5, <1>6, <1>9, <1>12, <1>13
  <2>2. \A i \in Ops' : \E n \in 1..new : nodes'[n].op = i
    <3> TAKE i \in Ops'
    <3>1. CASE i = h
      BY <1>6, <1>13, <3>1
    <3>2. CASE i \in Ops
      <4>1. PICK n \in 1..Len(nodes) : nodes[n].op = i
        BY <3>2 DEF PlanInv, NodesAreOps
      <4> QED BY <1>6, <1>12, <4>1
    <3> QED BY <1>9, <3>1, <3>2
  <2>3. ASSUME NEW m \in 1..new, NEW n \in 1..new, m < n
        PROVE  nodes'[m].op < nodes'[n].op
    <3>1. m \in 1..Len(nodes)
      BY <1>4, <1>6, <2>3
    <3>2. CASE n = new
      BY <1>9, <1>12, <1>13, <3>1, <3>2
    <3>3. CASE n \in 1..Len(nodes)
      BY <1>12, <2>3, <3>1, <3>3 DEF PlanInv, NodesAreOps
    <3> QED BY <1>6, <3>2, <3>3
  <2> QED BY <1>6, <2>1, <2>2, <2>3 DEF NodesAreOps
<1>15. /\ \A n \in 1..Len(nodes) : ColumnOf(n)' = ColumnOf(n)
       /\ ColumnOf(new)' = r.col
  <2>1. \A i \in Ops : rows'[i] = rows[i]
    BY <1>1, RowsGrow DEF Ops
  <2>2. rows'[h] = r
    BY <1>1, RowsGrow
  <2> QED BY <1>12, <1>13, <2>1, <2>2 DEF ColumnOf
<1>16. /\ \A n \in 1..Len(nodes) : ~Stale(n) /\ nodes[n].parent # p => ~Stale(n)'
       /\ ~Stale(new)'
  <2>1. ASSUME NEW n \in 1..Len(nodes), ~Stale(n), nodes[n].parent # p, Stale(n)'
        PROVE  FALSE
    <3>1. PICK m \in (n + 1)..new : nodes'[m].parent = nodes[n].parent
      BY <1>6, <1>12, <2>1 DEF Stale
    <3>2. m # new /\ m \in 1..new
      BY <1>13, <2>1, <3>1
    <3>3. m \in (n + 1)..Len(nodes) /\ m \in 1..Len(nodes)
      BY <1>4, <1>6, <3>1, <3>2
    <3> QED BY <1>12, <2>1, <3>1, <3>3 DEF Stale
  <2>2. ~Stale(new)'
    <3>1. (new + 1)..new = {}
      BY <1>6
    <3> QED BY <1>6, <3>1 DEF Stale
  <2> QED BY <2>1, <2>2
<1>17. \A j \in 1..k : /\ stack'[j] = stack[j] /\ j \in 1..Len(stack)
                       /\ stack[j].node \in 1..Len(nodes) /\ stack[j].node \in Nat
                       /\ stack[j].col = ColumnOf(stack[j].node) /\ ~Stale(stack[j].node)
                       /\ stack[j].node <= p /\ stack[j].col < r.col /\ stack[j].col \in Nat
  <2> TAKE j \in 1..k
  <2>1. /\ stack'[j] = stack[j] /\ j \in 1..Len(stack) /\ k \in 1..Len(stack) /\ k # 0 /\ j <= k
    BY <1>1, <1>2, <1>7
  <2>2. /\ stack[j].node \in 1..Len(nodes) /\ stack[j].node \in Nat
        /\ stack[j].col \in Nat /\ stack[k].node \in Nat
    BY <2>1, StackTypes DEF PlanInv
  <2>3. stack[j].col = ColumnOf(stack[j].node) /\ ~Stale(stack[j].node)
    BY <2>1 DEF PlanInv, StackIsOpen
  <2>4. j < k => stack[j].node < stack[k].node
    BY <2>1 DEF PlanInv, StackIsOpen
  <2>5. stack[j].node <= p
    BY <1>3, <2>1, <2>2, <2>4
  <2>6. stack[j].col < r.col
    BY <1>2 DEF LeftOf
  <2> QED BY <2>1, <2>2, <2>3, <2>5, <2>6
<1>18. stack'[k + 1].col = r.col /\ stack'[k + 1].node = new
  BY <1>7
<1>19. StackIsOpen'
  <2>1. \A j \in 1..(k + 1) : /\ stack'[j].node \in 1..new
                              /\ stack'[j].col = ColumnOf(stack[j].node)'
                              /\ ~Stale(stack[j].node)'
    <3> TAKE j \in 1..(k + 1)
    <3>1. CASE j \in 1..k
      <4>1. PICK n \in 1..Len(nodes) : n = stack[j].node
        BY <1>17, <3>1
      <4>2. nodes[n].parent < n /\ n <= p /\ nodes[n].parent \in Nat /\ p \in Nat
        BY <1>5, <1>12, <1>17, <3>1, <4>1
      <4>3. ~Stale(n)' /\ ColumnOf(n)' = stack[j].col
        BY <1>15, <1>16, <1>17, <3>1, <4>1, <4>2
      <4>4. stack'[j].node = n /\ stack'[j].col = stack[j].col /\ n \in 1..new
        BY <1>6, <1>17, <3>1, <4>1
      <4> QED BY <4>3, <4>4 DEF ColumnOf, Stale
    <3>2. CASE j = k + 1
      <4>1. stack'[j].node = new /\ stack'[j].col = r.col
        BY <1>18, <3>2
      <4> QED BY <1>6, <1>15, <1>16, <4>1 DEF ColumnOf, Stale
    <3> QED BY <1>7, <3>1, <3>2
  <2>2. ASSUME NEW i \in 1..(k + 1), NEW j \in 1..(k + 1), i < j
        PROVE  stack'[i].col < stack'[j].col /\ stack'[i].node < stack'[j].node
    <3>1. i \in 1..k /\ i \in 1..Len(stack)
      BY <1>2, <1>7, <2>2
    <3>2. CASE j = k + 1
      BY <1>1, <1>4, <1>17, <1>18, <3>1, <3>2
    <3>3. CASE j \in 1..k
      BY <1>17, <2>2, <3>1, <3>3 DEF PlanInv, StackIsOpen
    <3> QED BY <1>7, <3>2, <3>3
  <2> QED BY <1>6, <1>7, <2>1, <2>2 DEF StackIsOpen
<1>20. ClosedIsCovered'
  <2>1. ASSUME NEW n \in 1..new
        PROVE  \E j \in 1..(k + 1) : n <= stack'[j].node /\ stack'[j].col <= ColumnOf(n)'
    <3>1. CASE n = new
      <4>1. n <= stack'[k + 1].node /\ stack'[k + 1].col <= ColumnOf(n)'
        BY <1>1, <1>6, <1>15, <1>18, <3>1
      <4> QED BY <1>7, <4>1
    <3>2. CASE n \in 1..Len(nodes)
      <4>1. PICK j \in 1..Len(stack) : n <= stack[j].node /\ stack[j].col <= ColumnOf(n)
        BY <3>2 DEF PlanInv, ClosedIsCovered
      <4>2. CASE j \in 1..k
        BY <1>7, <1>15, <1>17, <3>2, <4>1, <4>2
      <4>3. CASE j \notin 1..k
        <5>1. r.col <= stack[j].col /\ stack[j].col \in Nat
          BY <1>1, <1>2, <4>1, <4>3, StackTypes DEF LeftOf, PlanInv
        <5>2. ColumnOf(n) \in Int
          <6>1. nodes[n].op \in 1..Len(rows)
            BY <1>12, <3>2 DEF Ops
          <6>2. rows[nodes[n].op] \in Row
            BY <1>1, <6>1
          <6> QED BY <6>2 DEF ColumnOf, Row
        <5>3. r.col <= ColumnOf(n)'
          BY <1>1, <1>15, <3>2, <4>1, <5>1, <5>2
        <5>4. n <= new
          BY <1>6
        <5> QED BY <1>7, <1>18, <5>3, <5>4
      <4> QED BY <4>2, <4>3
    <3> QED BY <1>6, <3>1, <3>2
  <2> QED BY <1>6, <1>7, <2>1 DEF ClosedIsCovered
<1>21. Drawn'
  <2>1. ASSUME NEW n \in 1..Len(nodes)
        PROVE  /\ OpOf(nodes[n].parent)' = DrawnParent(nodes[n].op)'
               /\ nodes'[n].attrs = Pairs(KeyValues(nodes[n].op))'
    <3>1. PICK i \in 1..Len(rows) : nodes[n].op = i /\ nodes'[n].op = i
      BY <1>12 DEF Ops
    <3>2. DrawnParent(nodes[n].op)' = DrawnParent(nodes[n].op)
      BY <1>1, <3>1, AtNode, OldRows
    <3>3. nodes[n].parent = 0 \/ nodes[n].parent \in 1..Len(nodes)
      BY <1>1, <1>12
    <3>4. OpOf(nodes[n].parent)' = OpOf(nodes[n].parent)
      BY <1>12, <3>3 DEF OpOf
    <3>5. nodes'[n].attrs = Pairs(KeyValues(nodes[n].op))'
      BY <1>0, <1>6, <3>1, AttrsKept
    <3> QED BY <3>2, <3>4, <3>5 DEF PlanInv, Drawn
  <2>2. OpOf(nodes[new].parent)' = DrawnParent(nodes[new].op)'
    <3>1. DrawnParent(h)' = IF k = 0 THEN 0 ELSE nodes[stack[k].node].op
      <4>1. PlanTypes /\ NodesAreOps /\ StackIsOpen /\ ClosedIsCovered /\ r.col \in Int
        BY <1>1 DEF PlanInv
      <4>2. Latest({i \in Ops : rows[i].col < r.col}) = IF k = 0 THEN 0 ELSE nodes[stack[k].node].op
        BY <1>2, <4>1, LastLeft
      <4>3. DrawnParent(h)' = Latest({i \in Ops : rows[i].col < r.col})
        BY <1>1, NewRow
      <4> QED BY <4>2, <4>3
    <3>2. OpOf(p)' = IF k = 0 THEN 0 ELSE nodes[stack[k].node].op
      <4>1. CASE k = 0
        BY <1>3, <4>1 DEF OpOf
      <4>2. CASE k # 0
        <5>1. p \in 1..Len(nodes) /\ p # 0 /\ p = stack[k].node
          BY <1>2, <1>3, <4>2, StackTypes DEF PlanInv
        <5> QED BY <1>12, <4>2, <5>1 DEF OpOf
      <4> QED BY <4>1, <4>2
    <3>3. DrawnParent(nodes[new].op)' = DrawnParent(h)'
      BY <1>13, AtNode
    <3>4. OpOf(nodes[new].parent)' = OpOf(p)'
      BY <1>13 DEF OpOf
    <3> QED BY <3>1, <3>2, <3>3, <3>4
  <2>3. nodes'[new].attrs = Pairs(KeyValues(nodes[new].op))'
    <3>1. KeyValues(h)' = {}
      <4>1. KeyValues(h)' = KeyValues(h)
        BY <1>0, RowsRead
      <4>2. KeyValues(h) = {}
        BY <1>9 DEF PlanInv, Placed, KeyValues
      <4> QED BY <4>1, <4>2
    <3>2. NoPairs = PairsOf(rows', KeyValues(h)')
      BY <3>1, NoPairsTypes
    <3> QED BY <1>13, <3>2, AtNode
  <2> QED BY <1>6, <2>1, <2>2, <2>3 DEF Drawn
<1> QED BY <1>0, <1>8, <1>10, <1>11, <1>14, <1>19, <1>20, <1>21 DEF PlanInv

\* Every plan, read to any row.
THEOREM PlanIsDrawn == PlanSpec => []PlanInv
<1>1. PlanInv /\ [ReadRow]_planVars => PlanInv'
  <2>1. ASSUME PlanInv, ReadRow PROVE PlanInv'
    <3>1. PICK r \in Rows : /\ Take(r)
                            /\ \/ Operator(r) \/ Separator(r) \/ Rule(r)
                               \/ HeaderLine(r) \/ Attribute(r) \/ Reject(r)
      BY <2>1 DEF ReadRow
    <3>2. r \in Row /\ ~planErr
      BY <2>1, PlanAssumption DEF Row, ReadRow
    <3>3. PICK h : h = Here
      OBVIOUS
    <3>4. CASE Operator(r)
      BY <2>1, <3>1, <3>2, <3>3, <3>4, OperatorStep
    <3>5. CASE Separator(r)
      BY <2>1, <3>1, <3>2, <3>5, SeparatorStep
    <3>6. CASE Rule(r)
      BY <2>1, <3>1, <3>2, <3>6, RuleStep
    <3>7. CASE HeaderLine(r)
      BY <2>1, <3>1, <3>2, <3>3, <3>7, HeaderLineStep
    <3>8. CASE Attribute(r)
      BY <2>1, <3>1, <3>2, <3>3, <3>8, AttributeStep
    <3>9. CASE Reject(r)
      BY <2>1, <3>1, <3>2, <3>3, <3>9, RejectStep
    <3> QED BY <3>1, <3>4, <3>5, <3>6, <3>7, <3>8, <3>9
  <2>2. ASSUME PlanInv, UNCHANGED planVars PROVE PlanInv'
    <3>1. UNCHANGED <<rows, inHeader, header, nodes, stack, planErr>>
      BY <2>2 DEF planVars
    <3> USE <3>1
    <3>2. PlanTypes' <=> PlanTypes
      BY DEF PlanTypes
    <3>3. NodesAreOps' <=> NodesAreOps
      BY DEF NodesAreOps, Ops
    <3>4. Drawn' <=> Drawn
      BY DEF Drawn, OpOf, DrawnParent, Ops, Pairs, KeyValues, InHeader, DrawnOwner
    <3>5. Placed' <=> Placed
      BY DEF Placed, InHeader, DrawnOwner, Ops
    <3>6. (\E i \in 1..Len(rows) : Unclassified(i))' <=> \E i \in 1..Len(rows) : Unclassified(i)
      BY DEF Unclassified, InHeader, DrawnOwner, Ops
    <3>7. StackIsOpen' <=> StackIsOpen
      BY DEF StackIsOpen, ColumnOf, Stale
    <3>8. ClosedIsCovered' <=> ClosedIsCovered
      BY DEF ClosedIsCovered, ColumnOf
    <3>9. HeaderIsRead' <=> HeaderIsRead
      BY DEF HeaderIsRead, Pairs, InHeader
    <3> QED BY <2>2, <3>2, <3>3, <3>4, <3>5, <3>6, <3>7, <3>8, <3>9 DEF PlanInv
  <2> QED BY <2>1, <2>2
<1> QED BY PlanInitInv, <1>1, PTL DEF PlanSpec

\* What parseExplainTree returns, on every plan: the nodes are the operators,
\* each below the one it is drawn below, with its own attributes; the header
\* is whole; and a row out of place is an error.
THEOREM PlanIsRebuilt == PlanSpec => []PlanRebuilt
<1>1. ASSUME PlanInv PROVE PlanRebuilt
  <2>1. planErr <=> \E i \in 1..Len(rows) : Unclassified(i)
    BY <1>1 DEF PlanInv
  <2>2. ASSUME ~planErr
        PROVE  /\ {nodes[n].op : n \in 1..Len(nodes)} = Ops
               /\ \A m, n \in 1..Len(nodes) : m < n => nodes[m].op < nodes[n].op
    BY <1>1, <2>2 DEF PlanInv, NodesAreOps
  <2> QED BY <1>1, <2>1, <2>2 DEF PlanInv, Drawn, HeaderIsRead, PlanRebuilt
<1> QED BY PlanIsDrawn, <1>1, PTL
=============================================================================
