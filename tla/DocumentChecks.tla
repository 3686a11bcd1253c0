---------------------------- MODULE DocumentChecks ----------------------------
(***************************************************************************)
(* The older checks of validate.py, and what validation/tree.py says of    *)
(* the preceding_context of a row: the nodes a job showed the model when   *)
(* the row was summarised or embedded.  TRUE: no error is reported.         *)
(***************************************************************************)
EXTENDS ForestValidation

(* validate.py *)

\* validate_document_coverage
DocumentCoverage(rows, textEnd) ==
    LET leaves == Childless(rows)
    IN  /\ leaves # {}
        /\ Contiguous(rows, leaves)
        /\ \A n \in leaves : (\A m \in leaves : ~Precedes(rows, n, m)) => rows[n].span_end = textEnd

\* validate_tree_structure, without the text
TreeStructure(rows) ==
    /\ rows # EmptyStore
    /\ \A n \in DOMAIN rows :
          LET l == rows[n].left_child_id
              r == rows[n].right_child_id
          IN  /\ rows[n].span_start < rows[n].span_end
              /\ l # NIL => l \in DOMAIN rows /\ rows[l].span_start = rows[n].span_start
              /\ r # NIL => r \in DOMAIN rows /\ rows[r].span_end = rows[n].span_end
              /\ {l, r} \subseteq DOMAIN rows => rows[l].span_end >= rows[r].span_start

\* validate_perfect_binary_trees
ChildrenComeInPairs(rows) ==
    /\ PerfectBinaryTrees(rows)
    /\ \A n \in DOMAIN rows : ChildrenNamed(rows[n]) \subseteq DOMAIN rows

\* validate_equal_leaf_depth, when root is the parentless row that comes first
LeavesReach(rows, root) ==
    LET Depths(n) ==
            LET up[k \in 0 .. Cardinality(DOMAIN rows)] ==
                    IF k = 0 THEN n
                    ELSE IF up[k - 1] \in DOMAIN rows THEN rows[up[k - 1]].parent_id ELSE NIL
            IN  {k \in DOMAIN up : up[k] = root}
    IN  \E depth \in 0 .. Cardinality(DOMAIN rows) :
            \A n \in Childless(rows) : Depths(n) = {depth}

EqualLeafDepth(rows) == {LeavesReach(rows, root) : root \in Roots(rows)}

-----------------------------------------------------------------------------
(* preceding_context *)

\* What _get_preceding_context can leave for a row that starts at position:
\* the nodes of a tiling of the text before it, or, with a token_cap, the
\* last of them.
PrecedingContexts(rows, position) ==
    LET before[p \in 0 .. position] ==
            UNION {{<<n>>} \cup {Append(c, n) : c \in before[rows[n].span_start]} :
                      n \in {n \in DOMAIN rows : rows[n].span_end = p
                                                  /\ rows[n].span_start < p}}
    IN  IF position = 0 THEN {<<>>} ELSE before[position]

\* The shortest end of a tiling that has cap tokens, or all of it.
ApplyTokenCap(context, tokens, cap) ==
    LET behind(i) == MapThenSumSet(LAMBDA k : tokens[context[k]], (i + 1) .. Len(context))
        shown     == {i \in DOMAIN context : behind(i) < cap}
    IN  IF shown = {} THEN <<>> ELSE SubSeq(context, Min(shown), Len(context))

\* _preceding_context_check, for a row with children
PrecedingContextCheck(rows, n, context) ==
    IF rows[n].span_start = 0 THEN context = <<>>
    ELSE /\ context # <<>>
         /\ ToSet(context) \subseteq DOMAIN rows
         /\ rows[Last(context)].span_end = rows[n].span_start
         /\ \A i \in 2 .. Len(context) :
               rows[context[i]].span_start = rows[context[i - 1]].span_end


\* _vector_index_consistency and _completeness_check: the vectors of a document
VectorsMatch(rows, vectors) == vectors \subseteq DOMAIN rows /\ Childless(rows) \subseteq vectors
===============================================================================
