------------------------ MODULE MCDesignFlowManager ------------------------
(* Small design flows for DesignFlowManager.                               *)
EXTENDS DesignFlowManager

CONSTANTS a, b, c, d

MCSteps == {a, b, c, d}
MCBefore == {<<a, b>>, <<a, c>>, <<a, d>>, <<b, c>>, <<b, d>>, <<c, d>>}

\* Relationships as sets of pairs <<step, the one before it>>.
FromPairs(D, P) ==
    [dep |-> [x \in MCSteps |-> {y \in MCSteps : <<x, y>> \in D}],
     prec |-> [x \in MCSteps |-> {y \in MCSteps : <<x, y>> \in P}]]

\* d depends on c, and would have b, which depends on a, go first; executing a
\* step may add that c depends on a, that d depends on b, and that c would
\* have b go first.
GrowingRelations ==
    {FromPairs({<<d, c>>, <<b, a>>} \cup D, {<<d, b>>} \cup P) :
        D \in SUBSET {<<c, a>>, <<d, b>>}, P \in SUBSET {<<c, b>>}}
GrowingInitial == FromPairs({<<d, c>>, <<b, a>>}, {<<d, b>>})
Grows(q, r) ==
    \A x \in MCSteps : q.dep[x] \subseteq r.dep[x] /\ q.prec[x] \subseteq r.prec[x]
GrowingEvolve == {e \in GrowingRelations \X GrowingRelations : Grows(e[1], e[2])}

\* Relationships may also disappear: that c depends on a, and that c would have
\* b go first.
ShrinkingRelations ==
    {FromPairs({<<d, c>>, <<b, a>>} \cup D, {<<d, b>>} \cup P) :
        D \in SUBSET {<<c, a>>}, P \in SUBSET {<<c, b>>}}
ShrinkingEvolve == ShrinkingRelations \X ShrinkingRelations

\* Every step may invalidate the two before it.
MCInvalidates ==
    [x \in MCSteps |-> CASE x = a -> {} [] x = b -> {a} [] x = c -> {a, b} [] x = d -> {b, c}]
\* Relationships that never change.
NoEvolve == {}
=============================================================================
