---------------------------- MODULE MCMemoEditing ----------------------------
(* The instances of MemoEditing that TLC checks.                           *)
EXTENDS MemoEditing, TLC

CONSTANTS m1, m2, a1, a2, r1, r2, plain, image, l1, l2

MCMemo == {m1, m2}
MCOneMemo == {m1}
MCContent == {plain, image}
MCOneLocation == {l1}
MCLocation == {l1, l2}
MCAttachment == {a1, a2}
MCOneAttachment == {a1}
MCRequest == {r1, r2}

\* The content image shows attachment a1, plain shows none.
MCRefs == (plain :> {}) @@ (image :> {a1})

MCMasks == {{"content"}, {"location"}, {"attachments"}, {"content", "attachments"}}
MCAllMasks == (SUBSET {"content", "location", "attachments"}) \ {{}}
MCContentMasks == {{"content"}, {"content", "attachments"}}
MCNoMask == {}

Symmetry == Permutations(MCMemo) \cup Permutations(MCRequest)
=============================================================================
