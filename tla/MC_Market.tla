---- MODULE MC_Market ----
EXTENDS Market, TLC
\* Two price lists whose percentages leave no fraction of the millionths prices are kept in.
Plain == [shipping |-> 1, local |-> 2, tax |-> 25, insurance |-> 5, storage |-> 1,
          clearing |-> 1, margin |-> 10, commission |-> 5, discount |-> 0]
MCTerms == {Plain, [Plain EXCEPT !.margin = 20, !.commission = 10, !.discount = 10]}
\* Half of the price, or a tenth of a cent.
MCDiscounts == {[percent |-> 50 * Fine, amount |-> None],
                [percent |-> None, amount |-> 10 * Fine]}
\* Routes for one role, for a permission, and for any account.
MCAsked == SettingsRoutes \cup OwnRoutes \cup PricingRoutes
\* Only one part is at work, so that links, inquiries, rules, notifications and
\* the rest share their model values: fewer permutations for the same reduction.
Sym == Permutations(Handlers) \cup Permutations(Rules)
====
