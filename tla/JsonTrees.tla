------------------------------- MODULE JsonTrees -------------------------------
(***************************************************************************)
(* Payloads as Python holds them, and the recursive functions that merge   *)
(* and search them (_deep_merge, _collect_candidate_attachment_rows).      *)
(* EventPayload reads a payload as a function from paths; here TLC checks  *)
(* that this comes to the same.  Recursive, and so without theorems.       *)
(*                                                                         *)
(* A JSON value is [kind, of]; the of of a "dict" is a function of its     *)
(* keys, of a "list" a sequence, of a "text" or a "flag" a string.         *)
(***************************************************************************)
EXTENDS EventPayload

CONSTANT Trees      \* the payloads of the webhooks, as values of kind "dict"

UnitedLists(base, overlay) ==
    FoldLeft(LAMBDA merged, item : IF Contains(merged, item) THEN merged ELSE Append(merged, item),
             base, overlay)

RECURSIVE MergedDicts(_, _)
MergedDicts(base, overlay) ==
    [ key \in DOMAIN base \cup DOMAIN overlay |->
        LET old == Field(base, key)
            new == Field(overlay, key)
        IN CASE old.kind = "dict" /\ new.kind = "dict" ->
                    [kind |-> "dict", of |-> MergedDicts(old.of, new.of)]
             [] old.kind = "list" /\ new.kind = "list" ->
                    [kind |-> "list", of |-> UnitedLists(old.of, new.of)]
             [] new.kind = "null" -> old
             [] OTHER -> new ]

\* What a value looks like to one that does not enter it
Node(value) == IF value.kind = "dict" THEN [kind |-> "dict", of |-> "dict"] ELSE value

RECURSIVE DictsIn(_)
DictsIn(value) ==
    CASE value.kind = "dict" ->
            {[key \in DOMAIN value.of |-> Node(value.of[key])]} \cup
            UNION {DictsIn(value.of[key]) : key \in DOMAIN value.of}
      [] value.kind = "list" -> UNION {DictsIn(item) : item \in Range(value.of)}
      [] OTHER -> {}

RECURSIVE PathsIn(_)
PathsIn(value) ==
    {<<>>} \cup IF value.kind = "dict"
                THEN UNION {{<<key>> \o path : path \in PathsIn(value.of[key])} : key \in DOMAIN value.of}
                ELSE {}

RECURSIVE Within(_, _)
Within(value, path) == IF path = <<>> THEN value ELSE Within(value.of[Head(path)], Tail(path))

\* The function from paths that EventPayload has for a tree
Flat(tree) == [path \in PathsIn(tree) |-> Node(Within(tree, path))]

TreeOf(data) == CHOOSE tree \in Trees : Flat(tree) = data

\* sorted() keeps rows of one rank in their order
MergedTree(members, queued) ==
    LET ordered == SetToSortSeq(members, LAMBDA i, j : Overrides(j, i))
    IN [ kind |-> "dict",
         of |-> FoldLeft(LAMBDA merged, i : MergedDicts(merged, TreeOf(rows[i].data).of),
                         TreeOf(queued.data).of, ordered) ]

\* The payload of a dispatch, and the dicts that are searched for attachments, are those
\* that Python's recursion over nested dicts arrives at (dedupe.py:506, executors.py:30)
PathsAreTrees ==
    \A key \in DOMAIN run :
        LET tree == MergedTree(run[key].members, rows[lead[key]])
        IN run[key].data = Flat(tree) /\ Dicts(run[key].data) = DictsIn(tree)

=============================================================================
