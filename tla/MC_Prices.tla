---- MODULE MC_Prices ----
EXTENDS Prices
\* One price list is enough: the run asks which rule is chosen.
MCTerms == {[shipping |-> 1, local |-> 2, tax |-> 25, insurance |-> 5, storage |-> 1,
             clearing |-> 1, margin |-> 10, commission |-> 5, discount |-> 0]}
====
