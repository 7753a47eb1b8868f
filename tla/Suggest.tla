------------------------------- MODULE Suggest -------------------------------
(***************************************************************************)
(* "Did you mean?": internal/diag/suggest.go and keywords.go, and the      *)
(* sample of functions in internal/semcheck/functions.go.  A lookup is     *)
(* [metric, token, names]: "name" is Suggest, "keyword" SuggestKeyword     *)
(* with names the keyword list, "sample" sampleNearest.  A word is a       *)
(* sequence of byte values; all letters are ASCII.  Lookups have a position.*)
(***************************************************************************)
EXTENDS Integers, Sequences, FiniteSetsExt

CONSTANT Lookups

LookupsAssumption ==
  \A l \in Lookups : /\ l.metric \in {"name", "keyword", "sample"}
                     /\ l.token \in Seq(Nat) /\ l.names \in Seq(Seq(Nat))
ASSUME LookupsAssumption

MaxSuggestions               == 3
KeywordSuggestionDistanceCap == 2
AvailableFunctionsSampleSize == 25

VARIABLES lookup,
          tried,           \* how many of the names have been looked at
          prevPrev, prev,  \* rows of the distance table
          row,             \* how many rows are done; NoRow between names
          hits,            \* [name, distance], in the order of the names
          ranked,          \* is there an answer?
          offer            \* the answer, nearest first

suggestVars == <<lookup, tried, prevPrev, prev, row, hits, ranked, offer>>

NoRow == -1

SuggestInit == /\ lookup \in Lookups
               /\ tried = 0 /\ prevPrev = <<>> /\ prev = <<>> /\ row = NoRow
               /\ hits = <<>> /\ ranked = FALSE /\ offer = <<>>

UpperA == 65
LowerA == 97
Lower(l) == IF l \in UpperA..(UpperA + 25) THEN l + (LowerA - UpperA) ELSE l
Fold(w)  == [i \in 1..Len(w) |-> Lower(w[i])]

Token == lookup.token
Name  == lookup.names[tried + 1]

MaxDistance(n) == IF n <= 3 THEN 1 ELSE IF n <= 6 THEN 2 ELSE 3

\* The largest distance offered; the sample has no such limit.
Limit == IF lookup.metric = "keyword" THEN Min({KeywordSuggestionDistanceCap, MaxDistance(Len(Token))})
         ELSE MaxDistance(Len(Token))
TooFar(d) == lookup.metric # "sample" /\ d > Limit

Size == IF lookup.metric = "sample" THEN AvailableFunctionsSampleSize ELSE MaxSuggestions

IsKeyword(w) == \E i \in 1..Len(lookup.names) : lookup.names[i] = Fold(w)

\* Nothing to ask about; a keyword in the wrong place is no typo.
Refuses == \/ lookup.names = <<>>
           \/ Token = <<>> /\ lookup.metric # "sample"
           \/ lookup.metric = "keyword" /\ IsKeyword(Token)

Refuse == /\ ~ranked /\ tried = 0 /\ row = NoRow /\ Refuses
          /\ ranked' = TRUE
          /\ UNCHANGED <<lookup, tried, prevPrev, prev, row, hits, offer>>

Asking == ~ranked /\ ~Refuses /\ tried < Len(lookup.names)

\* An equal name is no fix; one of a very different length is too far.
Unfit(w) == \/ w = <<>> \/ Fold(w) = Fold(Token)
            \/ TooFar(Len(w) - Len(Token)) \/ TooFar(Len(Token) - Len(w))

SkipName == /\ Asking /\ row = NoRow /\ Unfit(Name)
            /\ tried' = tried + 1
            /\ UNCHANGED <<lookup, prevPrev, prev, row, hits, ranked, offer>>

-----------------------------------------------------------------------------
(* levenshtein and damerauLevenshtein: the distance table, row by row. *)

StartTable == /\ Asking /\ row = NoRow /\ ~Unfit(Name)
              /\ prev' = [j \in 0..Len(Name) |-> j]
              /\ prevPrev' = [j \in 0..Len(Name) |-> 0]
              /\ row' = 0
              /\ UNCHANGED <<lookup, tried, hits, ranked, offer>>

Swapped(i, j) == /\ lookup.metric = "keyword" /\ i >= 2 /\ j >= 2
                 /\ Lower(Token[i]) = Lower(Name[j - 1]) /\ Lower(Token[i - 1]) = Lower(Name[j])

\* A slip: the swap is taken from the row above, not the one before it.
SwapFromRowAbove(j) == prev[j - 2] + 1

SwapCost(j) == prevPrev[j - 2] + 1

NextRow ==
  LET i == row + 1
      cell[j \in 0..Len(Name)] ==
        IF j = 0 THEN i
        ELSE Min({prev[j] + 1, cell[j - 1] + 1,
                  prev[j - 1] + (IF Lower(Token[i]) = Lower(Name[j]) THEN 0 ELSE 1)}
                 \cup (IF Swapped(i, j) THEN {SwapCost(j)} ELSE {}))
  IN cell

FillRow == /\ Asking /\ row # NoRow /\ row < Len(Token)
           /\ prevPrev' = prev /\ prev' = NextRow
           /\ row' = row + 1
           /\ UNCHANGED <<lookup, tried, hits, ranked, offer>>

\* The distance is in the last cell.
ScoreName ==
  /\ Asking /\ row = Len(Token)
  /\ LET d == prev[Len(Name)]
     IN hits' = IF TooFar(d) THEN hits ELSE Append(hits, [name |-> Name, distance |-> d])
  /\ tried' = tried + 1
  /\ row' = NoRow
  /\ UNCHANGED <<lookup, prevPrev, prev, ranked, offer>>

-----------------------------------------------------------------------------
(* Ranking. *)

Alphabetic(v, w) ==
  \/ Len(v) < Len(w) /\ SubSeq(w, 1, Len(v)) = v
  \/ \E k \in 1..Len(v) : /\ k <= Len(w) /\ SubSeq(v, 1, k - 1) = SubSeq(w, 1, k - 1)
                          /\ v[k] < w[k]

SameLength(h) == Len(h.name) = Len(Token)

\* By distance, then (for keywords) words of the token's length, then by name.
Better(g, h) ==
  \/ g.distance < h.distance
  \/ /\ g.distance = h.distance
     /\ IF lookup.metric = "keyword" /\ SameLength(g) # SameLength(h)
          THEN SameLength(g) ELSE Alphabetic(g.name, h.name)

\* The arrangements of n hits, and those sort.Slice may leave.
Arrangements(n) == {p \in [1..n -> 1..n] : \A i \in 1..n : \E k \in 1..n : p[k] = i}
Sorted(order)   == \A j, k \in 1..Len(hits) : j < k => ~Better(hits[order[k]], hits[order[j]])

Rank == /\ ~ranked /\ ~Refuses /\ tried = Len(lookup.names)
        /\ \E order \in Arrangements(Len(hits)) :
             /\ Sorted(order)
             /\ offer' = [k \in 1..Min({Size, Len(hits)}) |-> hits[order[k]]]
        /\ ranked' = TRUE
        /\ UNCHANGED <<lookup, tried, prevPrev, prev, row, hits>>

SuggestNext == Refuse \/ SkipName \/ StartTable \/ FillRow \/ ScoreName \/ Rank

-----------------------------------------------------------------------------
(* What it should be: edits counted from the front of the two words. *)

Edits(v, w, swaps) ==
  LET Crossed(i, j) == swaps /\ i + 2 <= Len(v) /\ j + 2 <= Len(w) /\ v[i + 1] = w[j + 2] /\ v[i + 2] = w[j + 1]
      rest[p \in (0..Len(v)) \X (0..Len(w))] ==   \* what follows p[1] bytes of v and p[2] of w
        LET i == p[1]
            j == p[2]
        IN IF i = Len(v) THEN Len(w) - j ELSE IF j = Len(w) THEN Len(v) - i
           ELSE Min({rest[<<i + 1, j + 1>>] + (IF v[i + 1] = w[j + 1] THEN 0 ELSE 1),
                     rest[<<i + 1, j>>] + 1, rest[<<i, j + 1>>] + 1}
                    \cup (IF Crossed(i, j) THEN {rest[<<i + 2, j + 2>>] + 1} ELSE {}))
  IN rest[<<0, 0>>]

Distance(w) == Edits(Fold(Token), Fold(w), lookup.metric = "keyword")

\* The names worth offering, with their distances.
Worthy == {i \in 1..Len(lookup.names) :
             LET w == lookup.names[i]
             IN w # <<>> /\ Fold(w) # Fold(Token) /\ ~TooFar(Distance(w))}
Scored(i) == [name |-> lookup.names[i], distance |-> Distance(lookup.names[i])]

(***************************************************************************)
(* The answer holds the nearest names, nearest first, with their distances *)
(* and as many as may be shown: neither the length filter, nor the rolling *)
(* rows, nor the cut after sorting loses a name that is nearer than one    *)
(* shown.  Suggest, SuggestKeyword and sampleNearest rank alike ("the two  *)
(* implementations must stay behaviourally identical", functions.go:274).  *)
(***************************************************************************)
SuggestsNearest ==
  ranked =>
    IF lookup.metric = "keyword" /\ IsKeyword(Token) THEN offer = <<>>
    ELSE /\ Len(offer) = Min({Size, IF Token = <<>> /\ lookup.metric # "sample" THEN 0 ELSE Cardinality(Worthy)})
         /\ \A k \in 1..Len(offer) :
              /\ offer[k] \in {Scored(i) : i \in Worthy}
              /\ \A i \in Worthy : Better(Scored(i), offer[k]) => \E j \in 1..(k - 1) : offer[j] = Scored(i)

SuggestSpec == SuggestInit /\ [][SuggestNext]_suggestVars
=============================================================================
