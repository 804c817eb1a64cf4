----------------------------- MODULE MCCatalog -----------------------------
EXTENDS Catalog

CONSTANTS c1, c2, p1, task1, n1, n2, th1, th2

MCLabels == {n1, n2}
MCThreads == {th1, th2}

(* Rename, archive, unarchive, move to c2 or p1, clear the client, and clear *)
(* and move at once, which the schema admits.                                *)
MCPatches ==
    {[NoPatch EXCEPT !.label = n2], [NoPatch EXCEPT !.archived = TRUE],
     [NoPatch EXCEPT !.archived = FALSE], [NoPatch EXCEPT !.parent = c2],
     [NoPatch EXCEPT !.parent = p1],
     [NoPatch EXCEPT !.clear = TRUE], [NoPatch EXCEPT !.clear = TRUE, !.parent = c2]}
=============================================================================
