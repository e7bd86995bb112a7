----------------------------- MODULE FuzzyMatch -----------------------------
(***************************************************************************)
(* The choice of a W-space record by a name that need not be exact.  Texts *)
(* are opaque: what the score reads of them is given by constants, and a   *)
(* score is in thousandths.                                                *)
(***************************************************************************)
EXTENDS SpaceApi, Naturals, Sequences, FiniteSetsExt

CONSTANTS
    Blank,       \* the normal text of a name without Latin letters or digits
    Normal,      \* name -> its lower-case words, with single spaces between
    WordsOf,     \* normal text -> the set of its words
    Contains,    \* normal text -> the normal texts that are parts of it
    Ratio        \* <<normal text, normal text>> -> SequenceMatcher's ratio

\* Every normal text has a word, except the blank one
ASSUME WordsAssumption ==
    \A n \in Range(Normal) \ {Blank} : IsFiniteSet(WordsOf[n]) /\ WordsOf[n] # {}

\* Two texts that differ never match from end to end
ASSUME RatioAssumption ==
    \A q, c \in Range(Normal) \ {Blank} : q # c => Ratio[<<q, c>>] \in 0 .. 999

Threshold == 400

\* The share of words in common
Overlap(q, c) ==
    (1000 * Cardinality(WordsOf[q] \cap WordsOf[c])) \div Cardinality(WordsOf[q] \cup WordsOf[c])

Larger(a, b) == IF a >= b THEN a ELSE b

\* Mutant: a name within the other counts as much as the same name
PartIsWhole(query, candidate) ==
    LET q == Normal[query]
        c == Normal[candidate]
    IN CASE q = Blank \/ c = Blank -> 0
         [] Blank \notin {q, c} /\ (q \in Contains[c] \/ c \in Contains[q]) -> 1000
         [] OTHER -> Larger(Ratio[<<q, c>>], Overlap(q, c))

Score(query, candidate) ==
    LET q == Normal[query]
        c == Normal[candidate]
    IN CASE q = Blank \/ c = Blank -> 0
         [] q = c /\ q # Blank -> 1000
         [] q # c /\ Blank \notin {q, c} /\ (q \in Contains[c] \/ c \in Contains[q]) -> 900
         [] OTHER -> Larger(Ratio[<<q, c>>], Overlap(q, c))

\* The first of the records in "listed" with the highest score, unless that is too low
PickBestMatch(query, records, listed, name) ==
    LET score(i) == Score(query, name[records[i]])
        among == {i \in DOMAIN records : records[i] \in listed}
        best == {i \in among : \A j \in among : score(j) <= score(i)}
    IN IF best = {} \/ \E i \in best : score(i) < Threshold
       THEN None
       ELSE records[Min(best)]

\* Two names of the same words, in whatever order and spelling
SameWords(a, b) == Normal[a] # Blank /\ WordsOf[Normal[a]] = WordsOf[Normal[b]]

=============================================================================
