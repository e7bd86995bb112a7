---------------------------- MODULE PayloadProofs ----------------------------
(***************************************************************************)
(* Proofs about EventPayload, for every value of its constants: any        *)
(* webhooks Rails may post, payloads of any depth, any number of rows, any *)
(* environment.                                                            *)
(*                                                                         *)
(* Two operators fold over a sequence, UnionLists and Overlay.  What they  *)
(* compute is proved by induction over its length, stated for a set of     *)
(* numbers (InductionOverNat) and so without an operator for a parameter; that *)
(* the functions they define by recursion exist is proved first            *)
(* (FoldExists), so that the definitions are not taken on trust.           *)
(***************************************************************************)
EXTENDS EventPayload, WellFoundedInduction, SequenceTheorems, TLAPS

-----------------------------------------------------------------------------
(* Induction over numbers, first-order                                     *)

\* A set of numbers that is not empty has a smallest one
LEMMA NatMinimum ==
  ASSUME NEW T, T \subseteq Nat, T # {}
  PROVE  \E m \in T : \A n \in T : m <= n
<1> DEFINE R == OpToRel(<, Nat)
<1>1. IsWellFoundedOn(R, Nat)
  BY NatLessThanWellFounded
<1>2. \A m, n \in T : n < m => <<n, m>> \in R
  BY DEF OpToRel
<1> HIDE DEF R
<1>3. PICK m \in T : \A n \in T : ~(<<n, m>> \in R)
  BY <1>1, WFMin
<1>4. \A n \in T : ~(n < m)
  BY <1>2, <1>3
<1>5. \A n \in T : m <= n
  BY <1>4
<1> QED
  BY <1>5

\* A set that has 0, and with a number the next one, has all numbers
LEMMA InductionOverNat ==
  ASSUME NEW T, 0 \in T, \A n \in Nat : n \in T => n + 1 \in T
  PROVE  Nat \subseteq T
<1> DEFINE U == Nat \ T
<1> SUFFICES ASSUME U # {} PROVE FALSE
  OBVIOUS
<1>1. PICK m \in U : \A n \in U : m <= n
  BY NatMinimum
<1>2. m # 0 /\ m - 1 \in Nat /\ m - 1 \notin U
  BY <1>1
<1> QED
  BY <1>1, <1>2

-----------------------------------------------------------------------------
(* Paths                                                                   *)

\* A prefix of a path, strictly shorter, is one of its initial segments
LEMMA PrefixIsSegment ==
  ASSUME NEW S, NEW p \in Seq(S), NEW q \in Seq(S), IsStrictPrefix(p, q)
  PROVE  \E n \in 0 .. Len(q) - 1 : p = SubSeq(q, 1, n)
<1>1. Len(p) <= Len(q) /\ SubSeq(p, 1, Len(p)) = SubSeq(q, 1, Len(p)) /\ p # q
  BY DEF IsStrictPrefix, IsPrefix
<1>2. SubSeq(p, 1, Len(p)) = p /\ SubSeq(q, 1, Len(q)) = q
  OBVIOUS
<1>3. Len(p) # Len(q)
  BY <1>1, <1>2
<1>4. Len(p) \in 0 .. Len(q) - 1
  BY <1>1, <1>3
<1>5. p = SubSeq(q, 1, Len(p))
  BY <1>1, <1>2
<1> QED
  BY <1>4, <1>5

LEMMA SegmentIsPrefix ==
  ASSUME NEW S, NEW q \in Seq(S), NEW n \in 0 .. Len(q) - 1
  PROVE  SubSeq(q, 1, n) \in Seq(S) /\ Len(SubSeq(q, 1, n)) = n /\ IsStrictPrefix(SubSeq(q, 1, n), q)
<1> DEFINE p == SubSeq(q, 1, n)
<1>1. p \in Seq(S) /\ Len(p) = n
  OBVIOUS
<1>2. SubSeq(p, 1, n) = p
  BY <1>1
<1> QED
  BY <1>1, <1>2 DEF IsStrictPrefix, IsPrefix

\* A prefix of a prefix is a prefix
LEMMA PrefixTransitive ==
  ASSUME NEW S, NEW p \in Seq(S), NEW q \in Seq(S), NEW r \in Seq(S),
         IsStrictPrefix(p, q), IsStrictPrefix(q, r)
  PROVE  IsStrictPrefix(p, r)
<1>1. PICK m \in 0 .. Len(q) - 1 : p = SubSeq(q, 1, m)
  BY PrefixIsSegment
<1>2. PICK n \in 0 .. Len(r) - 1 : q = SubSeq(r, 1, n)
  BY PrefixIsSegment
<1>3. Len(q) = n /\ m \in 0 .. Len(r) - 1
  BY <1>2
<1>4. p = SubSeq(r, 1, m)
  BY <1>1, <1>2, <1>3
<1> QED
  BY <1>3, <1>4, SegmentIsPrefix

\* On the way to what a payload has at a path there are dicts
LEMMA WayThere ==
  ASSUME NEW data, IsPayload(data), NEW path \in DOMAIN data, NEW above \in Seq(Names),
         IsStrictPrefix(above, path)
  PROVE  above \in DOMAIN data /\ data[above].kind = "dict"
<1>1. path \in Seq(Names)
  BY DEF IsPayload
<1>2. PICK n \in 0 .. Len(path) - 1 : above = SubSeq(path, 1, n)
  BY <1>1, PrefixIsSegment
<1> QED
  BY <1>2 DEF IsPayload

-----------------------------------------------------------------------------
(* Lists                                                                   *)

LEMMA AppendItems ==
  ASSUME NEW S, NEW list \in Seq(S), NEW item \in S
  PROVE  Range(Append(list, item)) = Range(list) \cup {item}
<1> DEFINE more == Append(list, item)
<1>1. DOMAIN more = 1 .. Len(list) + 1 /\ DOMAIN list = 1 .. Len(list)
  OBVIOUS
<1>2. \A i \in 1 .. Len(list) : more[i] = list[i]
  OBVIOUS
<1>3. more[Len(list) + 1] = item
  OBVIOUS
<1> HIDE DEF more
<1>4. Range(more) = {more[i] : i \in 1 .. Len(list) + 1}
  BY <1>1 DEF Range
<1> QED
  BY <1>1, <1>2, <1>3, <1>4 DEF Range, more

\* What UnionLists asks of the function it defines by recursion
UnionSteps(base, overlay, f) ==
    [i \in 0 .. Len(overlay) |->
        IF i = 0 THEN base
        ELSE IF overlay[i] \in Range(f[i - 1]) THEN f[i - 1]
        ELSE Append(f[i - 1], overlay[i])]

\* That function exists
LEMMA UnionExists ==
  ASSUME NEW base, NEW overlay, Len(overlay) \in Nat
  PROVE  \E f : f = UnionSteps(base, overlay, f)
<1> DEFINE Step(i, list) == IF overlay[i] \in Range(list) THEN list ELSE Append(list, overlay[i])
           T == {n \in Nat : \E f : f = [i \in 0 .. n |-> IF i = 0 THEN base ELSE Step(i, f[i - 1])]}
<1> HIDE DEF Step
<1>1. 0 \in T
  <2> DEFINE f == [i \in 0 .. 0 |-> base]
  <2>1. f = [i \in 0 .. 0 |-> IF i = 0 THEN base ELSE Step(i, f[i - 1])]
    OBVIOUS
  <2> QED
    BY <2>1
<1>2. ASSUME NEW n \in Nat, n \in T PROVE n + 1 \in T
  <2>1. PICK f : f = [i \in 0 .. n |-> IF i = 0 THEN base ELSE Step(i, f[i - 1])]
    BY <1>2
  <2> DEFINE g == [i \in 0 .. n + 1 |-> IF i <= n THEN f[i] ELSE Step(n + 1, f[n])]
  <2>2. ASSUME NEW i \in 0 .. n + 1 PROVE g[i] = IF i = 0 THEN base ELSE Step(i, g[i - 1])
    <3>1. CASE i = 0
      BY <3>1, <2>1
    <3>2. CASE i \in 1 .. n
      BY <3>2, <2>1
    <3>3. CASE i = n + 1
      BY <3>3
    <3> QED
      BY <3>1, <3>2, <3>3
  <2>3. g = [i \in 0 .. n + 1 |-> IF i = 0 THEN base ELSE Step(i, g[i - 1])]
    BY <2>2
  <2> HIDE DEF g
  <2>4. n + 1 \in Nat
    OBVIOUS
  <2> QED
    BY <2>3, <2>4
<1>3. Nat \subseteq T
  <2> HIDE DEF T
  <2> QED
    BY <1>1, <1>2, InductionOverNat
<1>4. PICK f : f = [i \in 0 .. Len(overlay) |-> IF i = 0 THEN base ELSE Step(i, f[i - 1])]
  BY <1>3
<1>5. f = UnionSteps(base, overlay, f)
  BY <1>4 DEF Step, UnionSteps
<1> QED
  BY <1>5

\* A union has the items of both lists, and no others
LEMMA UnionItems ==
  ASSUME NEW base \in Seq(Items), NEW overlay \in Seq(Items)
  PROVE  /\ UnionLists(base, overlay) \in Seq(Items)
         /\ Range(UnionLists(base, overlay)) = Range(base) \cup Range(overlay)
<1> DEFINE merged == CHOOSE f : f = UnionSteps(base, overlay, f)
<1>1. UnionLists(base, overlay) = merged[Len(overlay)]
  BY DEF UnionLists, UnionSteps
<1>rec. merged = UnionSteps(base, overlay, merged)
  <2>1. Len(overlay) \in Nat
    OBVIOUS
  <2> QED
    BY <2>1, UnionExists
<1> HIDE DEF merged
<1>2. merged[0] = base
  BY <1>rec DEF UnionSteps
<1>3. \A i \in 1 .. Len(overlay) :
        merged[i] = IF overlay[i] \in Range(merged[i - 1]) THEN merged[i - 1]
                    ELSE Append(merged[i - 1], overlay[i])
  <2> SUFFICES ASSUME NEW i \in 1 .. Len(overlay)
               PROVE  merged[i] = IF overlay[i] \in Range(merged[i - 1]) THEN merged[i - 1]
                                  ELSE Append(merged[i - 1], overlay[i])
    OBVIOUS
  <2>1. i \in 0 .. Len(overlay) /\ i # 0
    OBVIOUS
  <2> QED
    BY <2>1, <1>rec DEF UnionSteps
<1> DEFINE T == {n \in Nat : n <= Len(overlay) =>
                    /\ merged[n] \in Seq(Items)
                    /\ Range(merged[n]) = Range(base) \cup {overlay[i] : i \in 1 .. n}}
<1>4. 0 \in T
  BY <1>2
<1>5. ASSUME NEW n \in Nat, n \in T PROVE n + 1 \in T
  <2> SUFFICES ASSUME n + 1 <= Len(overlay)
               PROVE  /\ merged[n + 1] \in Seq(Items)
                      /\ Range(merged[n + 1]) = Range(base) \cup {overlay[i] : i \in 1 .. n + 1}
    OBVIOUS
  <2>1. merged[n] \in Seq(Items) /\ Range(merged[n]) = Range(base) \cup {overlay[i] : i \in 1 .. n}
    BY <1>5
  <2>2. {overlay[i] : i \in 1 .. n + 1} = {overlay[i] : i \in 1 .. n} \cup {overlay[n + 1]}
    OBVIOUS
  <2>3. merged[n + 1] = IF overlay[n + 1] \in Range(merged[n]) THEN merged[n]
                        ELSE Append(merged[n], overlay[n + 1])
    BY <1>3
  <2>4. overlay[n + 1] \in Items
    OBVIOUS
  <2>5. Range(Append(merged[n], overlay[n + 1])) = Range(merged[n]) \cup {overlay[n + 1]}
    BY <2>1, <2>4, AppendItems
  <2> QED
    BY <2>1, <2>2, <2>3, <2>4, <2>5
<1>6. Nat \subseteq T
  <2> HIDE DEF T
  <2> QED
    BY <1>4, <1>5, InductionOverNat
<1>7. Range(overlay) = {overlay[i] : i \in 1 .. Len(overlay)}
  BY DEF Range
<1> QED
  <2>1. Len(overlay) \in Nat
    OBVIOUS
  <2>2. Len(overlay) \in T
    <3> HIDE DEF T
    <3> QED
      BY <2>1, <1>6
  <2> QED
    BY <2>2, <1>1, <1>7

-----------------------------------------------------------------------------
(* One dict laid over another                                              *)

LEMMA MergedDomain ==
  ASSUME NEW base, NEW overlay
  PROVE  /\ DOMAIN DeepMerge(base, overlay) =
                DOMAIN overlay \cup {p \in DOMAIN base : ~Replaced(overlay, p)}
         /\ \A p \in DOMAIN overlay :
               DeepMerge(base, overlay)[p] =
                   IF p \in DOMAIN base THEN MergedNode(base[p], overlay[p]) ELSE overlay[p]
         /\ \A p \in DOMAIN base \ DOMAIN overlay :
               ~Replaced(overlay, p) => DeepMerge(base, overlay)[p] = base[p]
  BY DEF DeepMerge

LEMMA MergedNodeKinds ==
  ASSUME NEW old, NEW new
  PROVE  /\ new.kind = "null" => MergedNode(old, new) = old
         /\ new.kind # "null" /\ ~(old.kind = "list" /\ new.kind = "list") => MergedNode(old, new) = new
         /\ old.kind = "list" /\ new.kind = "list" =>
               MergedNode(old, new) = [kind |-> "list", of |-> UnionLists(old.of, new.of)]
  BY DEF MergedNode

\* A prefix of what the overlay has leaves what lies over it alone
LEMMA NotReplacedAbove ==
  ASSUME NEW base, IsPayload(base), NEW overlay, IsPayload(overlay),
         NEW path \in DOMAIN base, ~Replaced(overlay, path),
         NEW above \in Seq(Names), IsStrictPrefix(above, path)
  PROVE  /\ ~Replaced(overlay, above)
         /\ above \in DOMAIN overlay => overlay[above].kind \in {"dict", "null"}
<1>1. path \in Seq(Names) /\ DOMAIN overlay \subseteq Seq(Names)
  BY DEF IsPayload
<1>2. \A p \in DOMAIN overlay : IsStrictPrefix(p, above) => IsStrictPrefix(p, path)
  BY <1>1, PrefixTransitive
<1> QED
  BY <1>2 DEF Replaced

\* What is merged is again a payload: what is nested in it is nested in dicts
LEMMA MergeIsPayload ==
  ASSUME NEW base, IsPayload(base), NEW overlay, IsPayload(overlay)
  PROVE  IsPayload(DeepMerge(base, overlay))
<1> DEFINE merged == DeepMerge(base, overlay)
<1>1. /\ DOMAIN merged = DOMAIN overlay \cup {p \in DOMAIN base : ~Replaced(overlay, p)}
      /\ \A p \in DOMAIN overlay :
            merged[p] = IF p \in DOMAIN base THEN MergedNode(base[p], overlay[p]) ELSE overlay[p]
      /\ \A p \in DOMAIN base \ DOMAIN overlay : ~Replaced(overlay, p) => merged[p] = base[p]
  BY MergedDomain
<1> HIDE DEF merged
<1>2. DOMAIN base \subseteq Seq(Names) /\ DOMAIN overlay \subseteq Seq(Names)
  BY DEF IsPayload
<1>3. \A p \in DOMAIN overlay : overlay[p].kind = "dict" => p \in DOMAIN merged /\ merged[p].kind = "dict"
  BY <1>1, MergedNodeKinds
<1>4. <<>> \in DOMAIN merged /\ merged[<<>>].kind = "dict"
  BY <1>3 DEF IsPayload
<1>5. ASSUME NEW p \in DOMAIN merged
      PROVE  /\ merged[p].kind \in {"dict", "list", "text", "flag", "null"}
             /\ merged[p].kind = "list" => merged[p].of \in Seq(Items)
  <2>1. \A data \in {base, overlay} : p \in DOMAIN data =>
            /\ data[p].kind \in {"dict", "list", "text", "flag", "null"}
            /\ data[p].kind = "list" => data[p].of \in Seq(Items)
    BY DEF IsPayload
  <2>2. CASE p \in DOMAIN overlay /\ p \in DOMAIN base
    <3>1. merged[p] = MergedNode(base[p], overlay[p])
      BY <2>2, <1>1
    <3>2. CASE base[p].kind = "list" /\ overlay[p].kind = "list"
      <4>1. base[p].of \in Seq(Items) /\ overlay[p].of \in Seq(Items)
        BY <2>1, <2>2, <3>2
      <4>2. UnionLists(base[p].of, overlay[p].of) \in Seq(Items)
        BY <4>1, UnionItems
      <4> QED
        BY <3>1, <3>2, <4>2, MergedNodeKinds
    <3>3. CASE ~(base[p].kind = "list" /\ overlay[p].kind = "list")
      <4>1. merged[p] = base[p] \/ merged[p] = overlay[p]
        BY <3>1, <3>3, MergedNodeKinds
      <4> QED
        BY <4>1, <2>1, <2>2
    <3> QED
      BY <3>2, <3>3
  <2>3. CASE p \in DOMAIN overlay /\ p \notin DOMAIN base
    BY <2>1, <2>3, <1>1
  <2>4. CASE p \notin DOMAIN overlay
    <3>1. p \in DOMAIN base /\ merged[p] = base[p]
      BY <2>4, <1>1
    <3> QED
      BY <2>1, <3>1
  <2> QED
    BY <2>2, <2>3, <2>4
<1>6. ASSUME NEW p \in DOMAIN merged, NEW n \in 0 .. Len(p) - 1
      PROVE  SubSeq(p, 1, n) \in DOMAIN merged /\ merged[SubSeq(p, 1, n)].kind = "dict"
  <2> DEFINE above == SubSeq(p, 1, n)
  <2>1. p \in Seq(Names)
    BY <1>1, <1>2
  <2>2. above \in Seq(Names) /\ IsStrictPrefix(above, p)
    BY <2>1, SegmentIsPrefix
  <2> SUFFICES above \in DOMAIN merged /\ merged[above].kind = "dict"
    OBVIOUS
  <2> HIDE DEF above
  <2>3. CASE p \in DOMAIN overlay
    <3>1. above \in DOMAIN overlay /\ overlay[above].kind = "dict"
      BY <2>2, <2>3, WayThere
    <3> QED
      BY <3>1, <1>3
  <2>4. CASE p \notin DOMAIN overlay
    <3>1. p \in DOMAIN base /\ ~Replaced(overlay, p)
      BY <2>4, <1>1
    <3>2. above \in DOMAIN base /\ base[above].kind = "dict"
      BY <2>2, <3>1, WayThere
    <3>3. ~Replaced(overlay, above) /\ (above \in DOMAIN overlay => overlay[above].kind \in {"dict", "null"})
      BY <2>2, <3>1, NotReplacedAbove
    <3>4. CASE above \in DOMAIN overlay
      BY <3>2, <3>3, <3>4, <1>1, <1>3, MergedNodeKinds
    <3>5. CASE above \notin DOMAIN overlay
      BY <3>2, <3>3, <3>5, <1>1
    <3> QED
      BY <3>4, <3>5
  <2> QED
    BY <2>3, <2>4
<1>7. DOMAIN merged \subseteq Seq(Names)
  BY <1>1, <1>2
<1>8. IsPayload(merged)
  BY <1>4, <1>5, <1>6, <1>7 DEF IsPayload
<1> QED
  BY <1>8 DEF merged

\* What is said by a payload, fact by fact
LEMMA SaidAt ==
  ASSUME NEW data, NEW fact
  PROVE  fact \in Said(data) <=>
            \E p \in DOMAIN data :
               \/ /\ data[p].kind \in {"text", "flag"}
                  /\ fact = [path |-> p, listed |-> FALSE, says |-> data[p]]
               \/ /\ data[p].kind = "list"
                  /\ \E item \in Range(data[p].of) : fact = [path |-> p, listed |-> TRUE, says |-> item]
  BY DEF Said

\* Laid over another, a payload says all it said, and the other what it does not contradict
LEMMA MergeSays ==
  ASSUME NEW base, IsPayload(base), NEW overlay, IsPayload(overlay), NEW fact
  PROVE  fact \in Said(DeepMerge(base, overlay)) <=>
            \/ fact \in Said(overlay)
            \/ fact \in Said(base) /\ ~Contradicts(overlay, fact)
<1> DEFINE merged == DeepMerge(base, overlay)
<1>1. /\ DOMAIN merged = DOMAIN overlay \cup {p \in DOMAIN base : ~Replaced(overlay, p)}
      /\ \A p \in DOMAIN overlay :
            merged[p] = IF p \in DOMAIN base THEN MergedNode(base[p], overlay[p]) ELSE overlay[p]
      /\ \A p \in DOMAIN base \ DOMAIN overlay : ~Replaced(overlay, p) => merged[p] = base[p]
  BY MergedDomain
<1> HIDE DEF merged
<1>2. DOMAIN base \subseteq Seq(Names) /\ DOMAIN overlay \subseteq Seq(Names)
  BY DEF IsPayload
<1>3. \A p \in DOMAIN overlay, q \in DOMAIN overlay : IsStrictPrefix(p, q) => overlay[p].kind = "dict"
  BY <1>2, WayThere
<1>4. \A p \in DOMAIN base \cap DOMAIN overlay : base[p].kind = "list" /\ overlay[p].kind = "list" =>
         /\ merged[p].kind = "list"
         /\ Range(merged[p].of) = Range(base[p].of) \cup Range(overlay[p].of)
  <2> SUFFICES ASSUME NEW p \in DOMAIN base \cap DOMAIN overlay, base[p].kind = "list", overlay[p].kind = "list"
               PROVE  /\ merged[p].kind = "list"
                      /\ Range(merged[p].of) = Range(base[p].of) \cup Range(overlay[p].of)
    OBVIOUS
  <2>1. base[p].of \in Seq(Items) /\ overlay[p].of \in Seq(Items)
    BY DEF IsPayload
  <2>2. merged[p] = [kind |-> "list", of |-> UnionLists(base[p].of, overlay[p].of)]
    BY <1>1, MergedNodeKinds
  <2> QED
    BY <2>1, <2>2, UnionItems
<1>5. ASSUME fact \in Said(merged)
      PROVE  fact \in Said(overlay) \/ (fact \in Said(base) /\ ~Contradicts(overlay, fact))
  <2>1. PICK p \in DOMAIN merged :
           \/ /\ merged[p].kind \in {"text", "flag"}
              /\ fact = [path |-> p, listed |-> FALSE, says |-> merged[p]]
           \/ /\ merged[p].kind = "list"
              /\ \E item \in Range(merged[p].of) : fact = [path |-> p, listed |-> TRUE, says |-> item]
    BY <1>5, SaidAt
  <2>2. fact.path = p
    BY <2>1
  <2>3. CASE p \notin DOMAIN overlay
    <3>1. p \in DOMAIN base /\ merged[p] = base[p] /\ ~Replaced(overlay, p)
      BY <2>3, <1>1
    <3>2. fact \in Said(base)
      BY <2>1, <3>1, SaidAt
    <3>3. ~Contradicts(overlay, fact)
      BY <2>2, <2>3, <3>1 DEF Contradicts, Replaced
    <3> QED
      BY <3>2, <3>3
  <2>4. CASE p \in DOMAIN overlay /\ (p \notin DOMAIN base \/ merged[p] = overlay[p])
    <3>1. merged[p] = overlay[p]
      BY <2>4, <1>1
    <3> QED
      BY <2>1, <2>4, <3>1, SaidAt
  <2>5. CASE p \in DOMAIN overlay /\ p \in DOMAIN base /\ overlay[p].kind = "null"
    <3>1. merged[p] = base[p]
      BY <2>5, <1>1, MergedNodeKinds
    <3>2. fact \in Said(base)
      BY <2>1, <2>5, <3>1, SaidAt
    <3>3. ~Contradicts(overlay, fact)
      BY <2>2, <2>5, <1>3 DEF Contradicts
    <3> QED
      BY <3>2, <3>3
  <2>6. CASE p \in DOMAIN overlay /\ p \in DOMAIN base /\ base[p].kind = "list" /\ overlay[p].kind = "list"
    <3>1. merged[p].kind = "list" /\ Range(merged[p].of) = Range(base[p].of) \cup Range(overlay[p].of)
      BY <2>6, <1>4
    <3>2. PICK item \in Range(base[p].of) \cup Range(overlay[p].of) :
             fact = [path |-> p, listed |-> TRUE, says |-> item]
      BY <2>1, <3>1
    <3>3. CASE item \in Range(overlay[p].of)
      BY <2>6, <3>2, <3>3, SaidAt
    <3>4. CASE item \in Range(base[p].of)
      <4>1. fact \in Said(base)
        BY <2>6, <3>2, <3>4, SaidAt
      <4>2. fact.listed = TRUE
        BY <3>2
      <4>3. ~Contradicts(overlay, fact)
        BY <2>2, <2>6, <4>2, <1>3 DEF Contradicts
      <4> QED
        BY <4>1, <4>3
    <3> QED
      BY <3>2, <3>3, <3>4
  <2>7. CASE p \in DOMAIN overlay /\ p \in DOMAIN base /\ overlay[p].kind # "null"
                /\ ~(base[p].kind = "list" /\ overlay[p].kind = "list")
    BY <2>4, <2>7, <1>1, MergedNodeKinds
  <2> QED
    BY <2>3, <2>4, <2>5, <2>6, <2>7
<1>6. ASSUME fact \in Said(overlay)
      PROVE  fact \in Said(merged)
  <2>1. PICK p \in DOMAIN overlay :
           \/ /\ overlay[p].kind \in {"text", "flag"}
              /\ fact = [path |-> p, listed |-> FALSE, says |-> overlay[p]]
           \/ /\ overlay[p].kind = "list"
              /\ \E item \in Range(overlay[p].of) : fact = [path |-> p, listed |-> TRUE, says |-> item]
    BY <1>6, SaidAt
  <2>2. p \in DOMAIN merged
    BY <1>1
  <2>3. CASE p \in DOMAIN base /\ base[p].kind = "list" /\ overlay[p].kind = "list"
    <3>1. PICK item \in Range(overlay[p].of) : fact = [path |-> p, listed |-> TRUE, says |-> item]
      BY <2>1, <2>3
    <3>2. merged[p].kind = "list" /\ item \in Range(merged[p].of)
      BY <2>3, <1>4
    <3> QED
      BY <2>2, <3>1, <3>2, SaidAt
  <2>4. CASE ~(p \in DOMAIN base /\ base[p].kind = "list" /\ overlay[p].kind = "list")
    <3>1. overlay[p].kind # "null"
      BY <2>1
    <3>2. merged[p] = overlay[p]
      BY <2>4, <3>1, <1>1, MergedNodeKinds
    <3> QED
      BY <2>1, <2>2, <3>2, SaidAt
  <2> QED
    BY <2>3, <2>4
<1>7. ASSUME fact \in Said(base), ~Contradicts(overlay, fact)
      PROVE  fact \in Said(merged)
  <2>1. PICK p \in DOMAIN base :
           \/ /\ base[p].kind \in {"text", "flag"}
              /\ fact = [path |-> p, listed |-> FALSE, says |-> base[p]]
           \/ /\ base[p].kind = "list"
              /\ \E item \in Range(base[p].of) : fact = [path |-> p, listed |-> TRUE, says |-> item]
    BY <1>7, SaidAt
  <2>2. fact.path = p
    BY <2>1
  <2>3. ~Replaced(overlay, p)
    BY <2>2, <1>7 DEF Contradicts, Replaced
  <2>4. p \in DOMAIN merged
    BY <2>3, <1>1
  <2>5. CASE p \notin DOMAIN overlay
    <3>1. merged[p] = base[p]
      BY <2>3, <2>5, <1>1
    <3> QED
      BY <2>1, <2>4, <3>1, SaidAt
  <2>6. CASE p \in DOMAIN overlay /\ overlay[p].kind = "null"
    <3>1. merged[p] = base[p]
      BY <2>6, <1>1, MergedNodeKinds
    <3> QED
      BY <2>1, <2>4, <3>1, SaidAt
  <2>7. CASE p \in DOMAIN overlay /\ overlay[p].kind # "null"
    <3>1. CASE base[p].kind = "list"
      <4>1. PICK item \in Range(base[p].of) : fact = [path |-> p, listed |-> TRUE, says |-> item]
        BY <2>1, <3>1
      <4>2. fact.listed = TRUE
        BY <4>1
      <4>3. overlay[p].kind = "list"
        BY <2>2, <2>7, <4>2, <1>7 DEF Contradicts
      <4>4. merged[p].kind = "list" /\ item \in Range(merged[p].of)
        BY <3>1, <2>7, <4>3, <1>4
      <4> QED
        BY <2>4, <4>1, <4>4, SaidAt
    <3>2. CASE base[p].kind # "list"
      <4>1. fact.listed = FALSE /\ fact.says = base[p]
        BY <2>1, <3>2
      <4>2. overlay[p] = base[p]
        BY <2>2, <2>7, <4>1, <1>7 DEF Contradicts
      <4>3. merged[p] = overlay[p]
        BY <2>7, <3>2, <1>1, MergedNodeKinds
      <4>4. merged[p] = base[p]
        BY <4>2, <4>3
      <4> QED
        BY <2>1, <2>4, <4>4, SaidAt
    <3> QED
      BY <3>1, <3>2
  <2> QED
    BY <2>5, <2>6, <2>7
<1> QED
  BY <1>5, <1>6, <1>7 DEF merged

-----------------------------------------------------------------------------
(* Rows laid over a payload, one after the other                           *)

\* What Overlay asks of the function it defines by recursion
OverlaySteps(data, some, f) ==
    [i \in 0 .. Len(rows) |->
        IF i = 0 THEN data
        ELSE IF i \in some THEN DeepMerge(f[i - 1], rows[i].data)
        ELSE f[i - 1]]

\* That function exists
LEMMA OverlayExists ==
  ASSUME NEW data, NEW some, Len(rows) \in Nat
  PROVE  \E f : f = OverlaySteps(data, some, f)
<1> DEFINE Step(i, merged) == IF i \in some THEN DeepMerge(merged, rows[i].data) ELSE merged
           T == {n \in Nat : \E f : f = [i \in 0 .. n |-> IF i = 0 THEN data ELSE Step(i, f[i - 1])]}
<1> HIDE DEF Step
<1>1. 0 \in T
  <2> DEFINE f == [i \in 0 .. 0 |-> data]
  <2>1. f = [i \in 0 .. 0 |-> IF i = 0 THEN data ELSE Step(i, f[i - 1])]
    OBVIOUS
  <2> QED
    BY <2>1
<1>2. ASSUME NEW n \in Nat, n \in T PROVE n + 1 \in T
  <2>1. PICK f : f = [i \in 0 .. n |-> IF i = 0 THEN data ELSE Step(i, f[i - 1])]
    BY <1>2
  <2> DEFINE g == [i \in 0 .. n + 1 |-> IF i <= n THEN f[i] ELSE Step(n + 1, f[n])]
  <2>2. ASSUME NEW i \in 0 .. n + 1 PROVE g[i] = IF i = 0 THEN data ELSE Step(i, g[i - 1])
    <3>1. CASE i = 0
      BY <3>1, <2>1
    <3>2. CASE i \in 1 .. n
      BY <3>2, <2>1
    <3>3. CASE i = n + 1
      BY <3>3
    <3> QED
      BY <3>1, <3>2, <3>3
  <2>3. g = [i \in 0 .. n + 1 |-> IF i = 0 THEN data ELSE Step(i, g[i - 1])]
    BY <2>2
  <2> HIDE DEF g
  <2>4. n + 1 \in Nat
    OBVIOUS
  <2> QED
    BY <2>3, <2>4
<1>3. Nat \subseteq T
  <2> HIDE DEF T
  <2> QED
    BY <1>1, <1>2, InductionOverNat
<1>4. PICK f : f = [i \in 0 .. Len(rows) |-> IF i = 0 THEN data ELSE Step(i, f[i - 1])]
  BY <1>3
<1>5. f = OverlaySteps(data, some, f)
  BY <1>4 DEF Step, OverlaySteps
<1> QED
  BY <1>5

\* Overlay is the last of a chain of payloads, one for each row
LEMMA OverlayChain ==
  ASSUME NEW data, NEW some, Len(rows) \in Nat
  PROVE  \E f : /\ f[0] = data
                /\ \A i \in 1 .. Len(rows) :
                      f[i] = IF i \in some THEN DeepMerge(f[i - 1], rows[i].data) ELSE f[i - 1]
                /\ Overlay(data, some) = f[Len(rows)]
<1> DEFINE merged == CHOOSE f : f = OverlaySteps(data, some, f)
<1>1. Overlay(data, some) = merged[Len(rows)]
  BY DEF Overlay, OverlaySteps
<1>2. merged = OverlaySteps(data, some, merged)
  BY OverlayExists
<1> HIDE DEF merged
<1>3. merged[0] = data
  BY <1>2 DEF OverlaySteps
<1>4. ASSUME NEW i \in 1 .. Len(rows)
      PROVE  merged[i] = IF i \in some THEN DeepMerge(merged[i - 1], rows[i].data) ELSE merged[i - 1]
  <2>1. i \in 0 .. Len(rows) /\ i # 0
    OBVIOUS
  <2> QED
    BY <2>1, <1>2 DEF OverlaySteps
<1> QED
  BY <1>1, <1>3, <1>4

LEMMA RankIsNumber ==
  ASSUME NEW w
  PROVE  Rank(w) \in 1 .. 4
  BY DEF Rank

\* The payload that some rows make when they are laid over another, as what it says
LaidOver(data, base, laid) ==
    /\ IsPayload(data)
    /\ Said(data) =
          Kept(laid) \cup
          {fact \in Said(base) : ~ \E j \in laid : Contradicts(rows[j].data, fact)}

\* One more row that overrides them all
LEMMA OneMoreRow ==
  ASSUME NEW data, NEW base, NEW laid, LaidOver(data, base, laid),
         NEW k, k \notin laid, IsPayload(rows[k].data),
         \A j \in laid : Overrides(k, j) /\ ~Overrides(j, k),
         ~Overrides(k, k)
  PROVE  LaidOver(DeepMerge(data, rows[k].data), base, laid \cup {k})
<1> DEFINE merged == DeepMerge(data, rows[k].data)
<1>1. IsPayload(data)
  BY DEF LaidOver
<1>2. IsPayload(merged)
  BY <1>1, MergeIsPayload
<1>3. \A fact : fact \in Said(merged) <=>
                   \/ fact \in Said(rows[k].data)
                   \/ fact \in Said(data) /\ ~Contradicts(rows[k].data, fact)
  BY <1>1, MergeSays
<1> HIDE DEF merged
<1>4. \A fact : fact \in Said(data) <=>
                   \/ fact \in Kept(laid)
                   \/ fact \in Said(base) /\ ~ \E j \in laid : Contradicts(rows[j].data, fact)
  BY DEF LaidOver
<1>5. \A some, fact : fact \in Kept(some) <=>
         \E i \in some : /\ fact \in Said(rows[i].data)
                         /\ ~ \E j \in some : Overrides(j, i) /\ Contradicts(rows[j].data, fact)
  BY DEF Kept
<1>6. ASSUME NEW fact
      PROVE  fact \in Kept(laid \cup {k}) <=>
                \/ fact \in Said(rows[k].data)
                \/ fact \in Kept(laid) /\ ~Contradicts(rows[k].data, fact)
  <2>1. fact \in Kept(laid \cup {k}) <=>
           \E i \in laid \cup {k} :
              /\ fact \in Said(rows[i].data)
              /\ ~ \E j \in laid \cup {k} : Overrides(j, i) /\ Contradicts(rows[j].data, fact)
    BY <1>5
  <2>2. fact \in Kept(laid) <=>
           \E i \in laid : /\ fact \in Said(rows[i].data)
                           /\ ~ \E j \in laid : Overrides(j, i) /\ Contradicts(rows[j].data, fact)
    BY <1>5
  <2> QED
    BY <2>1, <2>2
<1>7. \A fact : fact \in Said(merged) <=>
         \/ fact \in Kept(laid \cup {k})
         \/ fact \in Said(base) /\ ~ \E j \in laid \cup {k} : Contradicts(rows[j].data, fact)
  BY <1>3, <1>4, <1>6
<1>8. Said(merged) = Kept(laid \cup {k}) \cup
          {fact \in Said(base) : ~ \E j \in laid \cup {k} : Contradicts(rows[j].data, fact)}
  BY <1>7
<1>9. LaidOver(merged, base, laid \cup {k})
  BY <1>2, <1>8 DEF LaidOver
<1> QED
  BY <1>9 DEF merged

UpTo(members, rank) == {i \in members : Rank(rows[i]) <= rank}

\* The rows of one rank, over those of the lower ones
LEMMA OneMoreRank ==
  ASSUME rows \in Seq(Webhooks), NEW members, members \subseteq DOMAIN rows,
         NEW rank \in 1 .. 4, NEW data, NEW base, LaidOver(data, base, UpTo(members, rank - 1))
  PROVE  LaidOver(Overlay(data, OfRank(members, rank)), base, UpTo(members, rank))
<1> DEFINE some == OfRank(members, rank)
<1>1. Len(rows) \in Nat /\ DOMAIN rows = 1 .. Len(rows)
  OBVIOUS
<1>2. PICK f : /\ f[0] = data
               /\ \A i \in 1 .. Len(rows) :
                     f[i] = IF i \in some THEN DeepMerge(f[i - 1], rows[i].data) ELSE f[i - 1]
               /\ Overlay(data, some) = f[Len(rows)]
  <2> HIDE DEF some
  <2> QED
    BY <1>1, OverlayChain
<1> DEFINE Laid(n) == UpTo(members, rank - 1) \cup {i \in some : i <= n}
           T == {n \in Nat : n <= Len(rows) => LaidOver(f[n], base, Laid(n))}
<1>3. \A i \in members : Rank(rows[i]) \in 1 .. 4
  BY RankIsNumber
<1>4. \A i \in some : i \in members /\ i \in 1 .. Len(rows) /\ Rank(rows[i]) = rank
  BY <1>1 DEF OfRank
<1>5. \A i \in UpTo(members, rank - 1) : i \in members /\ Rank(rows[i]) <= rank - 1
  BY DEF UpTo
<1>6. 0 \in T
  <2>1. {i \in some : i <= 0} = {}
    BY <1>4
  <2>2. Laid(0) = UpTo(members, rank - 1)
    BY <2>1
  <2> QED
    BY <1>2, <2>2
<1>7. ASSUME NEW n \in Nat, n \in T PROVE n + 1 \in T
  <2> SUFFICES ASSUME n + 1 <= Len(rows) PROVE LaidOver(f[n + 1], base, Laid(n + 1))
    OBVIOUS
  <2>1. LaidOver(f[n], base, Laid(n))
    BY <1>7
  <2>2. f[n + 1] = IF n + 1 \in some THEN DeepMerge(f[n], rows[n + 1].data) ELSE f[n]
    BY <1>2
  <2>3. CASE n + 1 \notin some
    <3>1. Laid(n + 1) = Laid(n)
      BY <2>3, <1>4
    <3> QED
      BY <2>1, <2>2, <2>3, <3>1
  <2>4. CASE n + 1 \in some
    <3>1. Laid(n + 1) = Laid(n) \cup {n + 1}
      BY <2>4, <1>4
    <3>2. \A j \in Laid(n) : \/ j \in members /\ Rank(rows[j]) <= rank - 1
                             \/ j \in members /\ Rank(rows[j]) = rank /\ j <= n
      BY <1>4, <1>5
    <3>3. Rank(rows[n + 1]) = rank
      BY <2>4, <1>4
    <3>4. \A j \in members : j \in Nat
      BY <1>1
    <3>5. n + 1 \notin Laid(n)
      BY <3>2, <3>3, <1>3
    <3>6. \A j \in Laid(n) : Overrides(n + 1, j) /\ ~Overrides(j, n + 1)
      BY <3>2, <3>3, <3>4, <1>3 DEF Overrides
    <3>7. ~Overrides(n + 1, n + 1)
      BY <3>3 DEF Overrides
    <3>8. IsPayload(rows[n + 1].data)
      BY <1>1, WebhookAssumption
    <3>9. LaidOver(DeepMerge(f[n], rows[n + 1].data), base, Laid(n) \cup {n + 1})
      <4> HIDE DEF Laid, some
      <4> QED
        BY <2>1, <3>5, <3>6, <3>7, <3>8, OneMoreRow
    <3>10. f[n + 1] = DeepMerge(f[n], rows[n + 1].data)
      BY <2>2, <2>4
    <3> HIDE DEF Laid, some
    <3> QED
      BY <3>1, <3>9, <3>10
  <2> QED
    BY <2>3, <2>4
<1>8. Nat \subseteq T
  <2> HIDE DEF T
  <2> QED
    BY <1>6, <1>7, InductionOverNat
<1>9. LaidOver(f[Len(rows)], base, Laid(Len(rows)))
  <2>1. Len(rows) \in T
    <3> HIDE DEF T
    <3> QED
      BY <1>1, <1>8
  <2> QED
    BY <2>1, <1>1
<1>10. Laid(Len(rows)) = UpTo(members, rank)
  <2>1. \A i \in members : i <= Len(rows)
    BY <1>1
  <2> QED
    BY <2>1, <1>3 DEF UpTo, OfRank
<1> QED
  BY <1>2, <1>9, <1>10

\* The members in the order of their ranks, over one of them: what it says, as the base
\* of all, it says as a member
LEMMA MergedSays ==
  ASSUME rows \in Seq(Webhooks), NEW members, members \subseteq DOMAIN rows, NEW l \in members
  PROVE  /\ IsPayload(MergedData(members, rows[l]))
         /\ Said(MergedData(members, rows[l])) = Kept(members)
<1> DEFINE base == rows[l].data
           first == Overlay(base, OfRank(members, 1))
           second == Overlay(first, OfRank(members, 2))
           third == Overlay(second, OfRank(members, 3))
           last == Overlay(third, OfRank(members, 4))
<1>1. IsPayload(base)
  BY WebhookAssumption
<1>2. \A i \in members : Rank(rows[i]) \in 1 .. 4
  BY RankIsNumber
<1>3. LaidOver(base, base, UpTo(members, 0))
  <2>1. UpTo(members, 0) = {}
    BY <1>2 DEF UpTo
  <2> QED
    BY <1>1, <2>1 DEF LaidOver, Kept
<1>4. LaidOver(first, base, UpTo(members, 1))
  BY <1>3, OneMoreRank, 1 \in 1 .. 4, 1 - 1 = 0
<1> HIDE DEF first
<1>5. LaidOver(second, base, UpTo(members, 2))
  BY <1>4, OneMoreRank, 2 \in 1 .. 4, 2 - 1 = 1
<1> HIDE DEF second
<1>6. LaidOver(third, base, UpTo(members, 3))
  BY <1>5, OneMoreRank, 3 \in 1 .. 4, 3 - 1 = 2
<1> HIDE DEF third
<1>7. LaidOver(last, base, UpTo(members, 4))
  BY <1>6, OneMoreRank, 4 \in 1 .. 4, 4 - 1 = 3
<1>8. MergedData(members, rows[l]) = last
  BY DEF MergedData, last, third, second, first
<1> HIDE DEF last
<1>9. UpTo(members, 4) = members
  BY <1>2 DEF UpTo
<1>10. Said(last) = Kept(members) \cup
                   {fact \in Said(base) : ~ \E j \in members : Contradicts(rows[j].data, fact)}
  BY <1>7, <1>9 DEF LaidOver
<1>11. \A fact \in Said(base) : (~ \E j \in members : Contradicts(rows[j].data, fact)) => fact \in Kept(members)
  BY DEF Kept
<1>12. IsPayload(last)
  BY <1>7 DEF LaidOver
<1> HIDE DEF base
<1> QED
  BY <1>8, <1>10, <1>11, <1>12

-----------------------------------------------------------------------------
(* The inductive invariant: what a lead and a dispatch are of the key they *)
(* are filed under, and what a dispatch has kept of the moment it started. *)

Fields == { "members", "type", "data", "found", "left", "files", "unresolved", "named",
            "encoding", "errors", "stage" }

\* The rows of a dispatch are those of its key among the first ones
FirstOfKey(key, members) ==
    lead[key] \in members /\ \E n \in DOMAIN rows : members = {i \in 1 .. n : Key(rows[i]) = key}

\* Its payload is merged from them, and what it found is searched in that
MergedFrom(r) ==
    /\ IsPayload(r.data)
    /\ Said(r.data) = Kept(r.members)
    /\ r.type = "ai_question_asked" <=> \E i \in r.members : rows[i].type = "ai_question_asked"
    /\ r.found = Attachments(r.data) \/ Cardinality(r.found) >= settings.max_attachments

\* Once the request is made, the summary in it is that of all unresolved ones
Requested(r) ==
    /\ r.encoding # "none" <=> r.stage \in {"sent", "answered", "failed"}
    /\ r.encoding # "none" => r.named = Named(r)

Dispatches ==
    /\ TypeOK
    /\ \A key \in DOMAIN lead : Key(rows[lead[key]]) = key
    /\ \A key \in DOMAIN run :
          /\ DOMAIN run[key] = Fields
          /\ FirstOfKey(key, run[key].members)
          /\ MergedFrom(run[key])
          /\ Requested(run[key])

\* Of one dispatch, what TypeOK asks
RunOK(r) ==
    /\ r.members \subseteq DOMAIN rows
    /\ r.stage \in {"preparing", "ready", "sent", "answered", "failed"}
    /\ r.encoding \in {"none", "json", "form", "multipart"} /\ r.errors \in {0, 1}
    /\ r.left # {} <=> r.stage = "preparing"
    /\ r.found = r.left \cup r.files \cup r.unresolved
    /\ r.left \cap (r.files \cup r.unresolved) = {} /\ r.files \cap r.unresolved = {}
    /\ Cardinality(r.found) <= Limit

LEMMA DispatchesAsParts ==
  ASSUME Dispatches
  PROVE  /\ rows \in Seq(Webhooks) /\ Len(rows) <= MaxRows /\ settings \in Settings
         /\ DOMAIN run \subseteq DOMAIN lead
         /\ DOMAIN lead = {Key(w) : w \in Range(rows)}
         /\ \A key \in DOMAIN lead : lead[key] \in DOMAIN rows /\ Key(rows[lead[key]]) = key
         /\ \A key \in DOMAIN run :
               /\ RunOK(run[key])
               /\ DOMAIN run[key] = Fields
               /\ FirstOfKey(key, run[key].members)
               /\ MergedFrom(run[key])
               /\ Requested(run[key])
  BY DEF Dispatches, TypeOK, RunOK

LEMMA DispatchesInit ==
  ASSUME Init
  PROVE  Dispatches
<1>1. rows = <<>> /\ DOMAIN lead = {} /\ DOMAIN run = {} /\ settings \in Settings
  BY DEF Init
<1>2. rows \in Seq(Webhooks) /\ Len(rows) = 0 /\ Range(rows) = {}
  BY <1>1 DEF Range
<1>3. Len(rows) <= MaxRows
  BY <1>2, BoundAssumption
<1> QED
  BY <1>1, <1>2, <1>3 DEF Dispatches, TypeOK

\* More rows do not change what the first ones say
LEMMA KeptStays ==
  ASSUME NEW members, members \subseteq DOMAIN rows, \A i \in DOMAIN rows : rows'[i] = rows[i]
  PROVE  Kept(members)' = Kept(members)
  BY DEF Kept, Overrides

LEMMA ReceiveKeeps ==
  ASSUME Dispatches, NEW w \in Webhooks, Receive(w)
  PROVE  Dispatches'
<1> DEFINE n == Len(rows)
<1>1. /\ rows \in Seq(Webhooks) /\ settings \in Settings
      /\ DOMAIN run \subseteq DOMAIN lead
      /\ DOMAIN lead = {Key(v) : v \in Range(rows)}
      /\ \A key \in DOMAIN lead : lead[key] \in DOMAIN rows /\ Key(rows[lead[key]]) = key
      /\ \A key \in DOMAIN run :
            /\ RunOK(run[key])
            /\ DOMAIN run[key] = Fields
            /\ FirstOfKey(key, run[key].members)
            /\ MergedFrom(run[key])
            /\ Requested(run[key])
  BY DispatchesAsParts
<1>2. /\ n < MaxRows /\ rows' = Append(rows, w)
      /\ lead' = [key \in DOMAIN lead \cup {Key(w)} |-> IF key \in DOMAIN lead THEN lead[key] ELSE n + 1]
      /\ run' = run /\ settings' = settings
  BY DEF Receive
<1>3. /\ rows' \in Seq(Webhooks) /\ Len(rows') = n + 1 /\ DOMAIN rows' = 1 .. n + 1
      /\ DOMAIN rows = 1 .. n /\ n \in Nat
      /\ \A i \in 1 .. n : rows'[i] = rows[i]
      /\ rows'[n + 1] = w
  BY <1>1, <1>2
<1>4. Len(rows') <= MaxRows
  BY <1>2, <1>3, BoundAssumption
<1>5. DOMAIN lead' = {Key(v) : v \in Range(rows')}
  <2>1. Range(rows') = Range(rows) \cup {w}
    BY <1>1, <1>2, AppendItems
  <2>2. DOMAIN lead' = DOMAIN lead \cup {Key(w)}
    BY <1>2
  <2> QED
    BY <2>1, <2>2, <1>1
<1>6. ASSUME NEW key \in DOMAIN lead' PROVE lead'[key] \in DOMAIN rows' /\ Key(rows'[lead'[key]]) = key
  BY <1>1, <1>2, <1>3
<1>7. ASSUME NEW key \in DOMAIN run'
      PROVE  /\ RunOK(run[key])'
             /\ DOMAIN run'[key] = Fields
             /\ FirstOfKey(key, run[key].members)'
             /\ MergedFrom(run[key])'
             /\ Requested(run[key])'
  <2> DEFINE r == run[key]
  <2>1. key \in DOMAIN run /\ run'[key] = r
    BY <1>2
  <2>2. RunOK(r) /\ DOMAIN r = Fields /\ FirstOfKey(key, r.members) /\ MergedFrom(r) /\ Requested(r)
    BY <2>1, <1>1
  <2>3. r.members \subseteq DOMAIN rows
    BY <2>2 DEF RunOK
  <2>4. RunOK(run[key])'
    BY <2>1, <2>2, <1>2, <1>3 DEF RunOK, Limit
  <2>5. FirstOfKey(key, run[key].members)'
    <3>1. lead'[key] = lead[key]
      BY <2>1, <1>1, <1>2
    <3>2. PICK m \in DOMAIN rows : r.members = {i \in 1 .. m : Key(rows[i]) = key}
      BY <2>2 DEF FirstOfKey
    <3>3. m \in DOMAIN rows' /\ {i \in 1 .. m : Key(rows'[i]) = key} = {i \in 1 .. m : Key(rows[i]) = key}
      BY <1>3
    <3>4. lead[key] \in r.members
      BY <2>2 DEF FirstOfKey
    <3> QED
      BY <2>1, <3>1, <3>2, <3>3, <3>4 DEF FirstOfKey
  <2>6. MergedFrom(run[key])'
    <3>1. Kept(r.members)' = Kept(r.members)
      BY <2>1, <2>3, <1>2, <1>3, KeptStays
    <3>2. \A i \in r.members : rows'[i] = rows[i]
      BY <2>3, <1>3
    <3> QED
      BY <2>1, <2>2, <3>1, <3>2, <1>2 DEF MergedFrom
  <2>7. Requested(run[key])'
    BY <2>1, <2>2, <1>2 DEF Requested, Named
  <2> QED
    BY <2>1, <2>2, <2>4, <2>5, <2>6, <2>7
<1>8. TypeOK'
  BY <1>1, <1>2, <1>3, <1>4, <1>5, <1>6, <1>7 DEF TypeOK, RunOK
<1> QED
  BY <1>6, <1>7, <1>8 DEF Dispatches


LEMMA StartKeeps ==
  ASSUME Dispatches, NEW key \in DOMAIN lead, Start(key)
  PROVE  Dispatches'
<1> DEFINE members == Members(key)
           data == MergedData(members, rows[lead[key]])
<1>1. /\ rows \in Seq(Webhooks) /\ Len(rows) <= MaxRows /\ settings \in Settings
      /\ DOMAIN run \subseteq DOMAIN lead
      /\ DOMAIN lead = {Key(v) : v \in Range(rows)}
      /\ \A k \in DOMAIN lead : lead[k] \in DOMAIN rows /\ Key(rows[lead[k]]) = k
      /\ \A k \in DOMAIN run :
            /\ RunOK(run[k])
            /\ DOMAIN run[k] = Fields
            /\ FirstOfKey(k, run[k].members)
            /\ MergedFrom(run[k])
            /\ Requested(run[k])
  BY DispatchesAsParts
<1>2. PICK found \in Extracts(data) :
         run' = [k \in DOMAIN run \cup {key} |-> IF k = key THEN Started(key, data, found) ELSE run[k]]
  BY DEF Start
<1>3. rows' = rows /\ lead' = lead /\ settings' = settings /\ key \notin DOMAIN run
  BY DEF Start
<1> DEFINE r == Started(key, data, found)
<1>4. /\ DOMAIN run' = DOMAIN run \cup {key} /\ run'[key] = r
      /\ \A k \in DOMAIN run : run'[k] = run[k]
  BY <1>2, <1>3
<1>5. members \subseteq DOMAIN rows /\ lead[key] \in members
  BY <1>1 DEF Members
<1>6. IsPayload(data) /\ Said(data) = Kept(members)
  BY <1>1, <1>5, MergedSays
<1>7. settings.max_attachments \in Int /\ settings.upload \in BOOLEAN
  BY <1>1, SettingsAssumption
<1>8. Cardinality(found) <= Limit /\ (found = Attachments(data) \/ Cardinality(found) >= settings.max_attachments)
  BY <1>7 DEF Extracts, Limit
<1>9. /\ r.members = members /\ r.type = MergedType(members, rows[lead[key]]) /\ r.data = data
      /\ r.found = found /\ r.files = {} /\ r.named = {}
      /\ r.left = IF settings.upload THEN found ELSE {}
      /\ r.unresolved = IF settings.upload THEN {} ELSE found
      /\ r.encoding = "none" /\ r.errors = 0
      /\ r.stage = IF settings.upload /\ found # {} THEN "preparing" ELSE "ready"
      /\ DOMAIN r = Fields
  BY DEF Started, Fields
<1> HIDE DEF data, members, r
<1>10. RunOK(r)
  BY <1>5, <1>7, <1>8, <1>9 DEF RunOK
<1>11. FirstOfKey(key, r.members)
  <2>1. DOMAIN rows = 1 .. Len(rows) /\ Len(rows) \in DOMAIN rows
    BY <1>1
  <2>2. r.members = {i \in 1 .. Len(rows) : Key(rows[i]) = key}
    BY <2>1, <1>9 DEF members, Members
  <2> QED
    BY <2>1, <2>2, <1>5, <1>9 DEF FirstOfKey
<1>12. r.type = "ai_question_asked" <=> \E i \in r.members : rows[i].type = "ai_question_asked"
  BY <1>5, <1>9 DEF MergedType
<1>13. MergedFrom(r)
  BY <1>6, <1>8, <1>9, <1>12 DEF MergedFrom
<1>14. Requested(r)
  BY <1>9 DEF Requested
<1>15. ASSUME NEW k \in DOMAIN run'
       PROVE  /\ RunOK(run[k])'
              /\ DOMAIN run'[k] = Fields
              /\ FirstOfKey(k, run[k].members)'
              /\ MergedFrom(run[k])'
              /\ Requested(run[k])'
  <2> DEFINE d == run'[k]
  <2>1. RunOK(d) /\ DOMAIN d = Fields /\ FirstOfKey(k, d.members) /\ MergedFrom(d) /\ Requested(d)
    <3>1. CASE k = key
      BY <3>1, <1>4, <1>9, <1>10, <1>11, <1>13, <1>14
    <3>2. CASE k \in DOMAIN run
      BY <3>2, <1>1, <1>4
    <3> QED
      BY <3>1, <3>2, <1>4
  <2>2. RunOK(run[k])'
    BY <2>1, <1>3 DEF RunOK, Limit
  <2>3. FirstOfKey(k, run[k].members)'
    BY <2>1, <1>3 DEF FirstOfKey
  <2>4. MergedFrom(run[k])'
    BY <2>1, <1>3 DEF MergedFrom, Kept, Overrides
  <2>5. Requested(run[k])'
    BY <2>1, <1>3 DEF Requested, Named
  <2> QED
    BY <2>1, <2>2, <2>3, <2>4, <2>5
<1>16. TypeOK'
  BY <1>1, <1>3, <1>4, <1>15 DEF TypeOK, RunOK
<1> QED
  BY <1>1, <1>3, <1>15, <1>16 DEF Dispatches

\* One dispatch moves on: its rows, what was merged and what was found stay
LEMMA OneDispatchMoves ==
  ASSUME Dispatches, UNCHANGED <<rows, lead, settings>>, NEW key \in DOMAIN run,
         DOMAIN run' = DOMAIN run, \A k \in DOMAIN run \ {key} : run'[k] = run[k],
         DOMAIN run'[key] = Fields,
         run'[key].members = run[key].members, run'[key].type = run[key].type,
         run'[key].data = run[key].data, run'[key].found = run[key].found,
         RunOK(run'[key]), Requested(run'[key])
  PROVE  Dispatches'
<1>1. /\ rows \in Seq(Webhooks) /\ Len(rows) <= MaxRows /\ settings \in Settings
      /\ DOMAIN run \subseteq DOMAIN lead
      /\ DOMAIN lead = {Key(v) : v \in Range(rows)}
      /\ \A k \in DOMAIN lead : lead[k] \in DOMAIN rows /\ Key(rows[lead[k]]) = k
      /\ \A k \in DOMAIN run :
            /\ RunOK(run[k])
            /\ DOMAIN run[k] = Fields
            /\ FirstOfKey(k, run[k].members)
            /\ MergedFrom(run[k])
            /\ Requested(run[k])
  BY DispatchesAsParts
<1>2. rows' = rows /\ lead' = lead /\ settings' = settings
  OBVIOUS
<1>3. ASSUME NEW k \in DOMAIN run'
      PROVE  /\ RunOK(run[k])'
             /\ DOMAIN run'[k] = Fields
             /\ FirstOfKey(k, run[k].members)'
             /\ MergedFrom(run[k])'
             /\ Requested(run[k])'
  <2> DEFINE d == run'[k]
  <2>1. RunOK(d) /\ DOMAIN d = Fields /\ FirstOfKey(k, d.members) /\ MergedFrom(d) /\ Requested(d)
    <3>1. CASE k = key
      BY <3>1, <1>1 DEF MergedFrom
    <3>2. CASE k # key
      BY <3>2, <1>1
    <3> QED
      BY <3>1, <3>2
  <2>2. RunOK(run[k])'
    BY <2>1, <1>2 DEF RunOK, Limit
  <2>3. FirstOfKey(k, run[k].members)'
    BY <2>1, <1>2 DEF FirstOfKey
  <2>4. MergedFrom(run[k])'
    BY <2>1, <1>2 DEF MergedFrom, Kept, Overrides
  <2>5. Requested(run[k])'
    BY <2>1, <1>2 DEF Requested, Named
  <2> QED
    BY <2>1, <2>2, <2>3, <2>4, <2>5
<1>4. TypeOK'
  BY <1>1, <1>2, <1>3 DEF TypeOK, RunOK
<1> QED
  BY <1>1, <1>2, <1>3, <1>4 DEF Dispatches


LEMMA RunFields ==
  ASSUME Dispatches, NEW key \in DOMAIN run
  PROVE  RunOK(run[key]) /\ DOMAIN run[key] = Fields /\ Requested(run[key])
  BY DispatchesAsParts

LEMMA PrepareKeeps ==
  ASSUME Dispatches, UNCHANGED <<rows, lead, settings>>, NEW key \in DOMAIN run,
         run[key].stage = "preparing", NEW item \in run[key].left,
         NEW files, NEW unresolved, {files, unresolved} = {{item}, {}},
         Prepared(key, item, files, unresolved)
  PROVE  Dispatches'
<1> DEFINE r == run[key]
<1>1. RunOK(r) /\ DOMAIN r = Fields /\ Requested(r)
  BY RunFields
<1>2. /\ DOMAIN run' = DOMAIN run /\ \A k \in DOMAIN run \ {key} : run'[k] = run[k]
      /\ DOMAIN run'[key] = Fields
      /\ run'[key].left = r.left \ {item} /\ run'[key].files = r.files \cup files
      /\ run'[key].unresolved = r.unresolved \cup unresolved
      /\ run'[key].stage = IF r.left = {item} THEN "ready" ELSE "preparing"
      /\ run'[key].members = r.members /\ run'[key].type = r.type /\ run'[key].data = r.data
      /\ run'[key].found = r.found /\ run'[key].encoding = r.encoding /\ run'[key].errors = r.errors
      /\ run'[key].named = r.named
  BY <1>1 DEF Prepared, Fields
<1>3. RunOK(run'[key])
  <2>1. \/ files = {item} /\ unresolved = {}
        \/ files = {} /\ unresolved = {item}
    OBVIOUS
  <2> DEFINE d == run'[key]
  <2>2. d.found = d.left \cup d.files \cup d.unresolved
    BY <2>1, <1>1, <1>2 DEF RunOK
  <2>3. d.left \cap (d.files \cup d.unresolved) = {} /\ d.files \cap d.unresolved = {}
    BY <2>1, <1>1, <1>2 DEF RunOK
  <2>4. d.stage \in {"preparing", "ready"} /\ (d.left # {} <=> d.stage = "preparing")
    BY <1>1, <1>2 DEF RunOK
  <2> QED
    BY <2>2, <2>3, <2>4, <1>1, <1>2 DEF RunOK
<1>4. Requested(run'[key])
  BY <1>1, <1>2 DEF Requested
<1> QED
  BY <1>2, <1>3, <1>4, OneDispatchMoves

LEMMA SendKeeps ==
  ASSUME Dispatches, NEW key \in DOMAIN run, Send(key)
  PROVE  Dispatches'
<1> DEFINE r == run[key]
<1>1. RunOK(r) /\ DOMAIN r = Fields /\ Requested(r)
  BY RunFields
<1>2. /\ DOMAIN run' = DOMAIN run /\ \A k \in DOMAIN run \ {key} : run'[k] = run[k]
      /\ DOMAIN run'[key] = Fields
      /\ run'[key].stage = "sent" /\ run'[key].named = Named(r) /\ run'[key].encoding = Encoding(r)
      /\ run'[key].members = r.members /\ run'[key].type = r.type /\ run'[key].data = r.data
      /\ run'[key].found = r.found /\ run'[key].left = r.left /\ run'[key].files = r.files
      /\ run'[key].unresolved = r.unresolved /\ run'[key].errors = r.errors
      /\ r.stage = "ready" /\ UNCHANGED <<rows, lead, settings>>
  BY <1>1 DEF Send, Fields
<1>3. Encoding(r) \in {"json", "form", "multipart"}
  BY DEF Encoding
<1>4. RunOK(run'[key])
  BY <1>1, <1>2, <1>3 DEF RunOK
<1>5. Requested(run'[key])
  BY <1>2, <1>3 DEF Requested, Named
<1> QED
  BY <1>2, <1>4, <1>5, OneDispatchMoves

LEMMA EndKeeps ==
  ASSUME Dispatches, NEW key \in DOMAIN run, Answer(key) \/ CallFails(key)
  PROVE  Dispatches'
<1> DEFINE r == run[key]
<1>1. RunOK(r) /\ DOMAIN r = Fields /\ Requested(r)
  BY RunFields
<1>2. /\ DOMAIN run' = DOMAIN run /\ \A k \in DOMAIN run \ {key} : run'[k] = run[k]
      /\ DOMAIN run'[key] = Fields
      /\ run'[key].stage \in {"answered", "failed"} /\ run'[key].errors \in {0, 1}
      /\ run'[key].members = r.members /\ run'[key].type = r.type /\ run'[key].data = r.data
      /\ run'[key].found = r.found /\ run'[key].left = r.left /\ run'[key].files = r.files
      /\ run'[key].unresolved = r.unresolved /\ run'[key].named = r.named
      /\ run'[key].encoding = r.encoding
      /\ r.stage = "sent" /\ UNCHANGED <<rows, lead, settings>>
  <2>1. CASE Answer(key)
    BY <2>1, <1>1 DEF Answer, Fields, RunOK
  <2>2. CASE CallFails(key)
    <3>1. PICK rowsLeft \in {0, 1} :
             run' = [run EXCEPT ![key].stage = "failed", ![key].errors = rowsLeft]
      BY <2>2 DEF CallFails
    <3>2. r.stage = "sent" /\ UNCHANGED <<rows, lead, settings>>
      BY <2>2 DEF CallFails
    <3> QED
      BY <3>1, <3>2, <1>1 DEF Fields
  <2> QED
    BY <2>1, <2>2
<1>3. RunOK(run'[key])
  BY <1>1, <1>2 DEF RunOK
<1>4. Requested(run'[key])
  BY <1>1, <1>2 DEF Requested, Named
<1> QED
  BY <1>2, <1>3, <1>4, OneDispatchMoves

LEMMA DispatchesNext ==
  ASSUME Dispatches, [Next]_vars
  PROVE  Dispatches'
<1>1. CASE UNCHANGED vars
  BY <1>1 DEF vars, Dispatches, TypeOK, FirstOfKey, MergedFrom, Requested, Limit, Named, Kept, Overrides
<1>2. ASSUME NEW w \in Webhooks, Receive(w) PROVE Dispatches'
  BY <1>2, ReceiveKeeps
<1>3. ASSUME NEW key \in DOMAIN lead, Start(key) PROVE Dispatches'
  BY <1>3, StartKeeps
<1>4. ASSUME NEW key \in DOMAIN run, Dispatch(key) PROVE Dispatches'
  <2>1. CASE KeepFile(key)
    BY <2>1, PrepareKeeps DEF KeepFile
  <2>2. CASE LeaveUnresolved(key)
    BY <2>2, PrepareKeeps DEF LeaveUnresolved
  <2>3. CASE Send(key)
    BY <2>3, SendKeeps
  <2>4. CASE Answer(key) \/ CallFails(key)
    BY <2>4, EndKeeps
  <2> QED
    BY <1>4, <2>1, <2>2, <2>3, <2>4 DEF Dispatch
<1> QED
  BY <1>1, <1>2, <1>3, <1>4 DEF Next

\* The invariant of the proofs holds of every behaviour
THEOREM DispatchesInvariant == Spec => []Dispatches
<1>1. Init => Dispatches
  BY DispatchesInit
<1>2. Dispatches /\ [Next]_vars => Dispatches'
  BY DispatchesNext
<1> QED
  BY <1>1, <1>2, PTL DEF Spec


-----------------------------------------------------------------------------
(* The key of a unit                                                       *)

\* The key of a message's webhook is what it is about: its message is named in one of
\* three places, and wherever that is it is found
LEMMA MessageKey ==
  ASSUME NEW w \in Webhooks, w.about[1] = "message"
  PROVE  Key(w) = w.about
<1>1. w.type \in MessageEventTypes /\ w.group # None /\ RoomOf(w) # None
  BY RailsAssumption
<1>2. PICK id \in NamedIds(w) : NamedIds(w) = {id} /\ w.about = <<"message", w.group, RoomOf(w), id>>
  BY RailsAssumption
<1>3. MessageIdOf(w) = id /\ id # None
  <2> DEFINE a == AsText(Field(w.data, <<"content_payload", "message_id">>))
             b == AsText(Field(w.data, <<"message_id">>))
             c == w.event_id
  <2>1. NamedIds(w) = {a, b, c} \ {None}
    BY DEF NamedIds
  <2>2. MessageIdOf(w) = Or(a, Or(b, c))
    BY DEF MessageIdOf
  <2> HIDE DEF a, b, c
  <2> QED
    BY <2>1, <2>2, <1>2 DEF Or
<1>4. IsMember(w)
  BY <1>1, <1>3 DEF IsMember
<1> QED
  BY <1>2, <1>3, <1>4 DEF Key

\* That of another event's has its data
LEMMA FactKey ==
  ASSUME NEW w \in Webhooks, w.about[1] = "fact"
  PROVE  Key(w) = <<"event", w.type, IdentityOf(w), w.data>>
<1>1. w.type \notin MessageEventTypes \/ w.group = None \/ RoomOf(w) = None \/ NamedIds(w) = {}
  BY RailsAssumption
<1>2. NamedIds(w) = {} => MessageIdOf(w) = None
  <2> DEFINE a == AsText(Field(w.data, <<"content_payload", "message_id">>))
             b == AsText(Field(w.data, <<"message_id">>))
             c == w.event_id
  <2>1. NamedIds(w) = {a, b, c} \ {None}
    BY DEF NamedIds
  <2>2. MessageIdOf(w) = Or(a, Or(b, c))
    BY DEF MessageIdOf
  <2> HIDE DEF a, b, c
  <2> QED
    BY <2>1, <2>2 DEF Or
<1>3. ~IsMember(w)
  BY <1>1, <1>2 DEF IsMember
<1> QED
  BY <1>3 DEF Key

\* Two webhooks have one key exactly when they are about the same
LEMMA KeysApart ==
  ASSUME NEW v \in Webhooks, NEW w \in Webhooks
  PROVE  Key(v) = Key(w) <=> v.about = w.about
<1>1. v.about[1] \in {"message", "fact"} /\ w.about[1] \in {"message", "fact"}
  BY RailsAssumption
<1>2. CASE v.about[1] = "message" /\ w.about[1] = "message"
  BY <1>2, MessageKey
<1>3. CASE v.about[1] = "fact" /\ w.about[1] = "fact"
  <2>1. Key(v) = <<"event", v.type, IdentityOf(v), v.data>>
    BY <1>3, FactKey
  <2>2. Key(w) = <<"event", w.type, IdentityOf(w), w.data>>
    BY <1>3, FactKey
  <2>3. Key(v) = Key(w) <=> v.type = w.type /\ IdentityOf(v) = IdentityOf(w) /\ v.data = w.data
    BY <2>1, <2>2
  <2>4. v.about = w.about <=> v.type = w.type /\ IdentityOf(v) = IdentityOf(w) /\ v.data = w.data
    BY <1>3, RailsAssumption
  <2> QED
    BY <2>3, <2>4
<1>4. CASE v.about[1] # w.about[1]
  <2>1. \A u \in {v, w} : u.about[1] = "message" => Key(u)[1] = "message"
    BY MessageKey
  <2>2. \A u \in {v, w} : u.about[1] = "fact" => Key(u)[1] = "event"
    BY FactKey
  <2> QED
    BY <1>1, <1>4, <2>1, <2>2
<1> QED
  BY <1>1, <1>2, <1>3, <1>4

-----------------------------------------------------------------------------
(* The attachments                                                         *)

\* The first place, in the order in which they are looked at, that gives a link
LEMMA UrlIsGiven ==
  ASSUME NEW d, NEW i \in DOMAIN UrlKeys, AsText(Field(d, UrlKeys[i])) \in Links
  PROVE  /\ Url(d) # None
         /\ \E m \in DOMAIN UrlKeys : /\ AsText(Field(d, UrlKeys[m])) \in Links
                                      /\ Url(d) = AsText(Field(d, UrlKeys[m]))
<1> DEFINE given == {k \in DOMAIN UrlKeys : AsText(Field(d, UrlKeys[k])) \in Links}
<1>1. given \subseteq Nat /\ given # {}
  <2>1. DOMAIN UrlKeys = 1 .. 6
    BY DEF UrlKeys
  <2> QED
    BY <2>1
<1>2. Min(given) \in given
  <2>1. \E m \in given : \A n \in given : m <= n
    <3> HIDE DEF given
    <3> QED
      BY <1>1, NatMinimum
  <2> HIDE DEF given
  <2> QED
    BY <2>1 DEF Min
<1>3. Url(d) = AsText(Field(d, UrlKeys[Min(given)]))
  BY <1>1 DEF Url
<1> DEFINE m == Min(given)
<1>4. m \in DOMAIN UrlKeys /\ AsText(Field(d, UrlKeys[m])) \in Links /\ Url(d) = AsText(Field(d, UrlKeys[m]))
  BY <1>2, <1>3
<1> HIDE DEF m
<1> QED
  BY <1>4, LinkAssumption

\* A dict that gives a link is among the attachments, with one of its links
LEMMA DictWithLink ==
  ASSUME NEW data, NEW d \in Dicts(data), Url(d) # None
  PROVE  \E item \in Attachments(data) : item.url = Url(d)
<1>1. Reference(d) \in Attachments(data)
  BY DEF Attachments
<1>2. Reference(d).url = Url(d)
  BY DEF Reference
<1> QED
  BY <1>1, <1>2

\* Whatever a payload says that gives links, they are among those of its attachments, or
\* at least one of the same dict is
LEMMA LinksAreFound ==
  ASSUME NEW data, IsPayload(data), NEW fact \in Said(data),
         NEW reached, reached = {item.url : item \in Attachments(data)}
  PROVE  \/ LinksOf(fact) \subseteq reached
         \/ ~fact.listed /\ \E other \in Said(data) :
               /\ ~other.listed /\ Front(other.path) = Front(fact.path)
               /\ LinksOf(other) \cap reached # {}
<1>1. PICK p \in DOMAIN data :
         \/ /\ data[p].kind \in {"text", "flag"}
            /\ fact = [path |-> p, listed |-> FALSE, says |-> data[p]]
         \/ /\ data[p].kind = "list"
            /\ \E item \in Range(data[p].of) : fact = [path |-> p, listed |-> TRUE, says |-> item]
  BY SaidAt
<1>2. CASE data[p].kind = "list"
  <2>1. PICK item \in Range(data[p].of) : fact = [path |-> p, listed |-> TRUE, says |-> item]
    BY <1>1, <1>2
  <2>2. LinksOf(fact) = {Url(d) : d \in Inside[item]} \ {None}
    BY <2>1 DEF LinksOf
  <2>3. \A d \in Inside[item] : d \in Dicts(data)
    BY <1>2, <2>1 DEF Dicts
  <2> QED
    BY <2>2, <2>3, DictWithLink
<1>3. CASE data[p].kind \in {"text", "flag"}
  <2>1. fact = [path |-> p, listed |-> FALSE, says |-> data[p]]
    BY <1>1, <1>3
  <2> SUFFICES ASSUME LinksOf(fact) # {}
               PROVE  \E other \in Said(data) :
                         /\ ~other.listed /\ Front(other.path) = Front(fact.path)
                         /\ LinksOf(other) \cap reached # {}
    BY <2>1
  <2>2. PICK k \in Range(UrlKeys) : p = Append(Front(p), k)
    BY <2>1 DEF LinksOf
  <2>3. AsText(data[p]) \in Links
    BY <2>1, <2>2 DEF LinksOf
  <2> DEFINE above == Front(p)
             d == DictAt(data, above)
  <2>4. p \in Seq(Names)
    BY DEF IsPayload
  <2>5. Len(p) # 0
    BY <2>4, <1>3 DEF IsPayload
  <2>6. above = SubSeq(p, 1, Len(p) - 1) /\ Len(p) - 1 \in 0 .. Len(p) - 1
    BY <2>4, <2>5 DEF Front
  <2>7. above \in DOMAIN data /\ data[above].kind = "dict" /\ above \in Seq(Names)
    BY <2>6, <2>4 DEF IsPayload
  <2>8. d \in Dicts(data)
    BY <2>7 DEF Dicts
  <2>9. k \in Names
    <3>1. k = p[Len(p)]
      BY <2>2, <2>4, <2>5, <2>6, <2>7
    <3> QED
      BY <3>1, <2>4, <2>5
  <2>10. \A key : key \in DOMAIN d <=> key \in Names /\ Append(above, key) \in DOMAIN data
    BY DEF DictAt
  <2>11. \A key \in DOMAIN d : Field(d, key) = data[Append(above, key)]
    BY DEF DictAt, Field
  <2> HIDE DEF d, above
  <2>12. k \in DOMAIN d /\ AsText(Field(d, k)) \in Links
    BY <2>2, <2>3, <2>9, <2>10, <2>11 DEF above
  <2>13. PICK i \in DOMAIN UrlKeys : UrlKeys[i] = k
    BY <2>2 DEF Range
  <2>14. PICK m \in DOMAIN UrlKeys : /\ AsText(Field(d, UrlKeys[m])) \in Links
                                     /\ Url(d) = AsText(Field(d, UrlKeys[m]))
    BY <2>12, <2>13, UrlIsGiven
  <2>15. Url(d) # None /\ Url(d) \in Links
    BY <2>14, LinkAssumption
  <2>16. Url(d) \in reached
    BY <2>8, <2>15, DictWithLink
  <2> DEFINE q == Append(above, UrlKeys[m])
  <2>17. UrlKeys[m] \in DOMAIN d
    <3>1. AsText(Null) = None
      BY DEF AsText, Null
    <3>2. Field(d, UrlKeys[m]) # Null
      BY <2>14, <3>1, LinkAssumption
    <3> QED
      BY <3>2 DEF Field
  <2>18. UrlKeys[m] \in Names /\ q \in DOMAIN data /\ Field(d, UrlKeys[m]) = data[q]
    BY <2>10, <2>11, <2>17
  <2>19. data[q].kind = "text"
    BY <2>14, <2>18, LinkAssumption DEF AsText
  <2>20. Front(q) = above
    BY <2>7, <2>18 DEF Front
  <2> DEFINE other == [path |-> q, listed |-> FALSE, says |-> data[q]]
  <2>21. other \in Said(data)
    BY <2>18, <2>19, SaidAt
  <2>22. UrlKeys[m] \in Range(UrlKeys)
    BY DEF Range
  <2>23. LinksOf(other) = {AsText(data[q])} \cap Links
    BY <2>20, <2>22 DEF LinksOf
  <2>24. Url(d) \in LinksOf(other)
    BY <2>14, <2>18, <2>23
  <2>25. Front(fact.path) = above
    BY <2>1 DEF above
  <2> HIDE DEF q
  <2>26. ~other.listed /\ other.path = q
    OBVIOUS
  <2> HIDE DEF other
  <2> QED
    BY <2>16, <2>20, <2>21, <2>24, <2>25, <2>26
<1> QED
  BY <1>1, <1>2, <1>3


-----------------------------------------------------------------------------
(* The properties the run checks, for every value of the constants         *)

\* Types, and the attachments found are shared out among those still to be prepared, the
\* files and the unresolved ones, none in two places (_prepare_file_uploads)
THEOREM PayloadTypes == Spec => []TypeOK
<1>1. Dispatches => TypeOK
  BY DEF Dispatches
<1> QED
  BY <1>1, DispatchesInvariant, PTL

\* Webhooks with one key are about one message or one fact, those about one message have
\* one key, and a dispatch carries all that was stored of its unit when it started and
\* nothing of another (build_dedupe_key, resolve_group_events)
THEOREM UnitsAreKeptApart == Spec => []CarriesItsUnit
<1>1. ASSUME Dispatches PROVE CarriesItsUnit
  <2>1. rows \in Seq(Webhooks) /\ DOMAIN run \subseteq DOMAIN lead
    BY <1>1, DispatchesAsParts
  <2>2. \A key \in DOMAIN lead : lead[key] \in DOMAIN rows /\ Key(rows[lead[key]]) = key
    BY <1>1, DispatchesAsParts
  <2>3. \A i, j \in DOMAIN rows : Key(rows[i]) = Key(rows[j]) <=> rows[i].about = rows[j].about
    BY <2>1, KeysApart
  <2>4. ASSUME NEW key \in DOMAIN run
        PROVE  /\ lead[key] \in run[key].members
               /\ \E n \in DOMAIN rows :
                     run[key].members = {i \in 1 .. n : rows[i].about = rows[lead[key]].about}
    <3>1. FirstOfKey(key, run[key].members)
      BY <1>1, DispatchesAsParts
    <3>2. lead[key] \in run[key].members
      BY <3>1 DEF FirstOfKey
    <3>3. PICK n \in DOMAIN rows : run[key].members = {i \in 1 .. n : Key(rows[i]) = key}
      BY <3>1 DEF FirstOfKey
    <3>4. \A i \in 1 .. n : i \in DOMAIN rows
      BY <2>1
    <3>5. lead[key] \in DOMAIN rows /\ Key(rows[lead[key]]) = key
      BY <2>1, <2>2
    <3>6. \A i \in 1 .. n : Key(rows[i]) = key <=> rows[i].about = rows[lead[key]].about
      BY <2>3, <3>4, <3>5
    <3> QED
      BY <3>2, <3>3, <3>6
  <2> QED
    BY <2>3, <2>4 DEF CarriesItsUnit
<1> QED
  BY <1>1, DispatchesInvariant, PTL

\* The payload of a dispatch says exactly what the members of its unit say, except where
\* one of a higher rank says something else, whichever of them was stored first and
\* whichever was queued; it is routed as a question exactly when a member is one
\* (merge_group_events)
THEOREM NothingIsLostInTheMerge == Spec => []MergeKeepsAll
<1>1. ASSUME Dispatches PROVE MergeKeepsAll
  <2>1. \A key \in DOMAIN run : MergedFrom(run[key])
    BY <1>1, DispatchesAsParts
  <2> QED
    BY <2>1 DEF MergeKeepsAll, MergedFrom
<1> QED
  BY <1>1, DispatchesInvariant, PTL

\* With the fallback on, whatever downloads fail, every link that the unit gives for an
\* attachment reaches Hermes, as a file or by name and not as both, unless the limit was
\* reached; of several links in one dict, one does (_run_space_event_and_update)
THEOREM LinksReachHermes == Spec => []AttachmentsReachHermes
<1>1. ASSUME Dispatches PROVE AttachmentsReachHermes
  <2> SUFFICES ASSUME NEW key \in DOMAIN run, run[key].encoding # "none", settings.fallback,
                      NEW reached, reached = {item.url : item \in run[key].files \cup run[key].named}
               PROVE  /\ run[key].files \cap run[key].named = {}
                      /\ \/ Cardinality(run[key].files \cup run[key].named) >= settings.max_attachments
                         \/ \A fact \in Kept(run[key].members) :
                               \/ LinksOf(fact) \subseteq reached
                               \/ ~fact.listed /\ \E other \in Kept(run[key].members) :
                                     /\ ~other.listed /\ Front(other.path) = Front(fact.path)
                                     /\ LinksOf(other) \cap reached # {}
    BY DEF AttachmentsReachHermes
  <2> DEFINE r == run[key]
  <2>1. RunOK(r) /\ MergedFrom(r) /\ Requested(r)
    BY <1>1, DispatchesAsParts
  <2>2. r.named = r.unresolved /\ r.left = {}
    BY <2>1 DEF Requested, Named, RunOK
  <2>3. r.found = r.files \cup r.named /\ r.files \cap r.named = {}
    BY <2>1, <2>2 DEF RunOK
  <2>4. IsPayload(r.data) /\ Said(r.data) = Kept(r.members)
    BY <2>1 DEF MergedFrom
  <2>5. r.found = Attachments(r.data) \/ Cardinality(r.found) >= settings.max_attachments
    BY <2>1 DEF MergedFrom
  <2>6. CASE Cardinality(r.found) >= settings.max_attachments
    BY <2>3, <2>6
  <2>7. CASE r.found = Attachments(r.data)
    <3>1. reached = {item.url : item \in Attachments(r.data)}
      BY <2>3, <2>7
    <3>2. \A fact \in Said(r.data) :
             \/ LinksOf(fact) \subseteq reached
             \/ ~fact.listed /\ \E other \in Said(r.data) :
                   /\ ~other.listed /\ Front(other.path) = Front(fact.path)
                   /\ LinksOf(other) \cap reached # {}
      BY <2>4, <3>1, LinksAreFound
    <3> QED
      BY <2>3, <2>4, <3>2
  <2> QED
    BY <2>5, <2>6, <2>7
<1> QED
  BY <1>1, DispatchesInvariant, PTL


=============================================================================
