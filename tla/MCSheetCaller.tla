---------------------------- MODULE MCSheetCaller ----------------------------
EXTENDS SheetCaller

Lit(text) == [kind |-> "literal", text |-> text]
Ref(a) == [kind |-> "cell", at |-> a]

\* A literal, a reference and a cycle.
FewFormulas == {[op |-> "leaf", args |-> <<leaf>>] : leaf \in {Lit(<<1>>), Lit(<<2>>), Ref(1), Ref(2)}}
=============================================================================
