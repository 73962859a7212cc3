------------------------------- MODULE Prices -------------------------------
(***************************************************************************)
(* PricingService and ExchangeRateService over the pricing of listings:    *)
(* how a price is built from the seller's input and a rule, which rule     *)
(* that is, what the update of a rule does to the listings priced by it,   *)
(* what becomes of the price of a listing that changes its sales channel,  *)
(* and how the prices left in dollars follow the frozen rate.              *)
(*                                                                         *)
(* Amounts are whole francs; on the way to a price they are kept in        *)
(* millionths, so that three percentages in a row stay exact.  disturbed   *)
(* holds the listings, and "rate", whose writers overlapped or died.       *)
(***************************************************************************)
EXTENDS Integers

CONSTANTS
  Listings, Rules,
  Terms,        \* terms a rule may be given (bound): records of TermsType
  Inputs,       \* base, fob or payout amounts, and dollars of old listings (bound)
  Discounts,    \* listing discounts (bound)
  Rates,        \* frozen rates (bound)
  Places,       \* countries listings start in (bound)
  Origins,      \* countries rules are written for (bound), None among them for a rule
                \* for every country
  Channels,     \* channels listings start in and rules are written for (bound)
  Columns,      \* columns of listings and rules that edits change (bound)
  MaxRequests,  \* requests started in one behaviour (bound)
  Handlers,     \* requests that may be in progress at once
  None          \* SQL null

TermsType == [shipping : Nat, local : Nat, tax : 0 .. 100, insurance : 0 .. 100,
              storage : Nat, clearing : Nat, margin : 0 .. 100, commission : 0 .. 99,
              discount : 0 .. 100]

MARKETPLACE_SELLER_TYPES == {"LOCAL_SELLER", "INTERNATIONAL_SELLER"}
\* A listing comes to Rwanda and leaves for China.
Countries == Places \cup (Origins \ {None}) \cup {"RW", "CN"}
SellerType == {"UZA_RWANDA_STOCK", "UZA_CHINA_SOURCING"} \cup MARKETPLACE_SELLER_TYPES

-----------------------------------------------------------------------------
(* Amounts *)

Million == 1000000
Percent(p, x) == (x * p) \div 100

\* Math.round of x / n: halves go up.
Round(x, n) == (2 * x + n) \div (2 * n)

UsdtToRwf(usd, rate) == Round(usd * rate, 1)

\* applyRuleAndListingDiscounts: the rule's percentage first, then the listing's amount.
ApplyDiscounts(price, rule, discount) == price - Percent(rule.discount, price) - discount * Million

RwandaStockPrice(base, rule, discount) ==
  ApplyDiscounts(base * Million, rule, discount)

ChinaSourcingPrice(fob, rule, discount) ==
  LET cif == (fob + rule.shipping) * Million
      landing == cif + Percent(rule.tax, cif) + Percent(rule.insurance, cif)
                   + (rule.local + rule.storage + rule.clearing) * Million
  IN ApplyDiscounts(landing + Percent(rule.margin, landing), rule, discount)

\* The payout is what remains when the platform has taken its commission.
LocalSellerPrice(payout, rule, discount) ==
  ApplyDiscounts((payout * Million * 100) \div (100 - rule.commission), rule, discount)

InternationalPrice(fob, rule, discount) ==
  LET cif == (fob + rule.shipping) * Million
      cost == cif + rule.local * Million + Percent(rule.tax, cif)
  IN ApplyDiscounts(cost + Percent(rule.margin, cost), rule, discount)

CalculatePrice(type, input, rule, discount) ==
  Round(CASE type = "UZA_RWANDA_STOCK" -> RwandaStockPrice(input, rule, discount)
          [] type = "UZA_CHINA_SOURCING" -> ChinaSourcingPrice(input, rule, discount)
          [] type = "LOCAL_SELLER" -> LocalSellerPrice(input, rule, discount)
          [] type = "INTERNATIONAL_SELLER" -> InternationalPrice(input, rule, discount),
        Million)

-----------------------------------------------------------------------------
(* Rows *)

VARIABLES
  type, country,  \* sellerType and country of each listing
  rule,       \* PricingRule rows: their channel (type), country, active, terms
  pricing,    \* ListingPricing rows
  rate,       \* the frozen rate in the settings
  priced,     \* history: the rule a listing's price was last computed with for the
              \* channel the listing has since
  task, started, disturbed

listings == <<type, country, pricing, priced>>
vars == <<listings, rule, rate, task, started, disturbed>>

\* The column of the amount the price of a channel is computed from.
Column(channel) == CASE channel = "UZA_RWANDA_STOCK" -> "base"
                     [] channel = "LOCAL_SELLER" -> "payout"
                     [] OTHER -> "fob"

NoAmounts == [base |-> None, fob |-> None, payout |-> None]

Idle == [pc |-> "idle", on |-> {}, listing |-> None, type |-> None, country |-> None,
         names |-> {}, rule |-> None, given |-> FALSE, new |-> None, terms |-> None,
         input |-> 0, discount |-> 0, row |-> None, seen |-> None, types |-> None,
         todo |-> {}, rate |-> 0, alone |-> TRUE]

\* Old listings are in dollars, at the frozen rate; no rule is linked to them.
Init ==
  /\ type \in [Listings -> Channels]
  /\ country \in [Listings -> Places]
  /\ rule \in [Rules -> [type : Channels, country : Origins, active : {TRUE},
                         terms : {CHOOSE first \in Terms : TRUE}]]
  /\ rate = CHOOSE first \in Rates : TRUE
  /\ \E usd \in Inputs :
       pricing = [l \in Listings |->
         [currency |-> "USD", amount |-> [NoAmounts EXCEPT ![Column(type[l])] = usd],
          discount |-> 0, link |-> None, final |-> usd, display |-> UsdtToRwf(usd, rate)]]
  /\ priced = [l \in Listings |-> None]
  /\ task = [h \in Handlers |-> Idle]
  /\ started = 0
  /\ disturbed = {}

-----------------------------------------------------------------------------
(* Handlers *)

At(h, pc) == task[h].pc = pc
Finish(h) == task' = [task EXCEPT ![h] = Idle]

Meets(t, g) == task[g].on \cap t.on # {}

\* t.on holds what request t may write: listings, or "rate".
Start(h, t) ==
  /\ At(h, "idle") /\ started < MaxRequests
  /\ started' = started + 1
  /\ task' = [g \in Handlers |->
       CASE g = h -> [t EXCEPT !.alone = \A k \in Handlers : ~Meets(t, k)]
         [] g # h /\ Meets(t, g) -> [task[g] EXCEPT !.alone = FALSE]
         [] OTHER -> task[g]]
  /\ UNCHANGED <<listings, rule, rate, disturbed>>

Continue(h, t) ==
  /\ task' = [task EXCEPT ![h] = t]
  /\ UNCHANGED <<listings, rule, rate, started, disturbed>>

Disturb(h, what) ==
  disturbed' = IF task[h].alone THEN disturbed ELSE disturbed \cup what

\* getActiveRule: the rules of the channel for the country and those for every country,
\* ordered by country descending; PostgreSQL puts the ones without a country first.
RulesFor(t, c) ==
  {r \in Rules : rule[r].active /\ rule[r].type = t /\ rule[r].country \in {c, None}}
Wildcards(t, c) == {r \in RulesFor(t, c) : rule[r].country = None}
ActiveRules(t, c) == IF Wildcards(t, c) # {} THEN Wildcards(t, c) ELSE RulesFor(t, c)

-----------------------------------------------------------------------------
(* updateOwn and updateCreatedByAdmin: a listing is given a price, or another channel *)

\* The amount for channel t left out comes from its column, dollars at the frozen rate;
\* None is a request without the amount that the channel needs (mergeListingPricingInput).
Merged(l, t, input) ==
  LET amount == pricing[l].amount[Column(t)] IN
  IF input # None THEN input
  ELSE IF amount # None /\ pricing[l].currency = "USD" THEN UsdtToRwf(amount, rate)
  ELSE amount

\* A dealer's edit may name another channel of dealers, and another country; an
\* administrator's names no channel.  What is not named is as the listing was read.
NamesOf(l, t, c) ==
  {name \in {"type", "country"} :
     \/ name = "type" /\ t # type[l]
     \/ name = "country" /\ c # country[l]}

MayName(l, t, c) ==
  /\ NamesOf(l, t, c) \subseteq Columns
  /\ t # type[l] => {t, type[l]} \subseteq MARKETPLACE_SELLER_TYPES

BeginPrice(h, l, t, c, input, discount, r) ==
  /\ MayName(l, t, c)
  /\ Merged(l, t, input) # None
  /\ Start(h, [Idle EXCEPT !.pc = "rule", !.on = {l}, !.listing = l, !.type = t,
                           !.country = c, !.names = NamesOf(l, t, c),
                           !.rule = r, !.given = (r # None), !.input = Merged(l, t, input), !.discount = discount])

\* The rule named in the request, whatever it is for and whether it is active or not, else
\* the active one.
FindRule(h) ==
  LET t == task[h] IN
  /\ At(h, "rule")
  /\ \/ /\ t.given
        /\ Continue(h, [t EXCEPT !.pc = "price", !.terms = rule[t.rule].terms])
     \/ /\ ~t.given
        /\ \E r \in ActiveRules(t.type, t.country) :
             Continue(h, [t EXCEPT !.pc = "price", !.rule = r, !.terms = rule[r].terms])
     \/ /\ ~t.given /\ ActiveRules(t.type, t.country) = {}
        /\ Continue(h, Idle)

\* The columns of the row when the one of channel t is written.
AmountsWith(l, t, input) ==
  [IF pricing[l].currency = "RWF" THEN pricing[l].amount ELSE NoAmounts
     EXCEPT ![Column(t)] = input]

\* Listing l gets the price of channel t.  priceNotes are only written when the request
\* names the rule: without it the listing stays linked to the rule of an earlier request.
PricedBy(h, l, t, r, given, input, discount) ==
  LET final == CalculatePrice(t, input, task[h].terms, discount) IN
  /\ pricing' = [pricing EXCEPT ![l] =
       [currency |-> "RWF", amount |-> AmountsWith(l, t, input), discount |-> discount,
        link |-> IF given THEN r ELSE @.link, final |-> final, display |-> final]]
  /\ priced' = [priced EXCEPT ![l] = r]

CommitPrice(h) ==
  LET t == task[h] IN
  /\ At(h, "price") /\ t.row = None
  /\ PricedBy(h, t.listing, t.type, t.rule, t.given, t.input, t.discount)
  /\ type' = IF "type" \in t.names THEN [type EXCEPT ![t.listing] = t.type] ELSE type
  /\ country' = IF "country" \in t.names THEN [country EXCEPT ![t.listing] = t.country]
                                         ELSE country
  /\ Disturb(h, {t.listing})
  /\ Finish(h)
  /\ UNCHANGED <<rule, rate, started>>

\* An edit without prices may change the channel as well; the price stays.
BeginRelabel(h, l, t, c) ==
  /\ MayName(l, t, c) /\ NamesOf(l, t, c) # {}
  /\ Start(h, [Idle EXCEPT !.pc = "relabel", !.on = {l}, !.listing = l, !.type = t,
                           !.country = c, !.names = NamesOf(l, t, c)])

CommitRelabel(h) ==
  LET t == task[h] IN
  /\ At(h, "relabel")
  /\ type' = IF "type" \in t.names THEN [type EXCEPT ![t.listing] = t.type] ELSE type
  /\ country' = IF "country" \in t.names THEN [country EXCEPT ![t.listing] = t.country]
                                         ELSE country
  /\ priced' = IF type' = type THEN priced ELSE [priced EXCEPT ![t.listing] = None]
  /\ Disturb(h, {t.listing})
  /\ Finish(h)
  /\ UNCHANGED <<rule, pricing, rate, started>>

-----------------------------------------------------------------------------
(* advanceInventoryStage and migratePricingForInventoryChannel *)

\* A vehicle comes to Kigali, or a listing in Kigali without a base price is repaired; or a
\* vehicle leaves for China.
BeginMove(h, l, t) ==
  /\ t # type[l] \/ (t = "UZA_RWANDA_STOCK" /\ pricing[l].amount.base = None)
  /\ Start(h, [Idle EXCEPT !.pc = "move", !.on = {l}, !.listing = l, !.type = t,
                 !.country = IF t = "UZA_RWANDA_STOCK" THEN "RW"
                             ELSE IF country[l] = "RW" THEN "CN" ELSE country[l]])

CommitMove(h) ==
  LET t == task[h] IN
  /\ At(h, "move")
  /\ type' = [type EXCEPT ![t.listing] = t.type]
  /\ country' = [country EXCEPT ![t.listing] = t.country]
  /\ priced' = [priced EXCEPT ![t.listing] = None]
  /\ task' = [task EXCEPT ![h].pc = "migrate"]
  /\ UNCHANGED <<rule, pricing, rate, started, disturbed>>

\* What the price of the new channel is computed from: its column, else the price in
\* francs; for a row in dollars, the display (to Rwanda) or the dollars, each at the rate.
MigratedInput(row, t) ==
  LET column == row.amount[Column(t)]
      dollars == CASE t = "UZA_RWANDA_STOCK" -> row.display
                   [] row.amount.fob # None -> row.amount.fob
                   [] row.amount.base # None -> row.amount.base
                   [] OTHER -> row.final
  IN IF row.currency = "USD" THEN UsdtToRwf(dollars, rate)
     ELSE IF column # None THEN column ELSE row.final

ReadForMigration(h) ==
  LET row == pricing[task[h].listing] IN
  /\ At(h, "migrate")
  /\ Continue(h, [task[h] EXCEPT
       !.pc = "rule", !.row = row, !.rule = row.link, !.given = (row.link # None),
       !.input = MigratedInput(row, task[h].type), !.discount = row.discount])

\* The price of Rwanda stock is the one the listing had, if that was in francs; the other
\* channel's amount is written back as it was read.
CommitMigration(h) ==
  LET t == task[h]  l == task[h].listing
      final == CalculatePrice(t.type, t.input, t.terms, t.discount)
      keeps == t.type = "UZA_RWANDA_STOCK" /\ t.row.currency = "RWF"
      other == IF t.type = "UZA_RWANDA_STOCK" THEN "fob" ELSE "base"
      amounts == AmountsWith(l, t.type, t.input)
  IN
  /\ At(h, "price") /\ t.row # None
  /\ pricing' = [pricing EXCEPT ![l] =
       [currency |-> "RWF",
        amount |-> IF t.row.currency = "RWF" /\ t.row.amount[other] # None
                     THEN [amounts EXCEPT ![other] = t.row.amount[other]] ELSE amounts,
        discount |-> t.discount, link |-> IF t.given THEN t.rule ELSE @.link,
        final |-> IF keeps THEN t.row.final ELSE final,
        display |-> IF keeps THEN t.row.final ELSE final]]
  /\ priced' = [priced EXCEPT ![l] = IF keeps THEN None ELSE t.rule]
  /\ Disturb(h, {l})
  /\ Finish(h)
  /\ UNCHANGED <<type, country, rule, rate, started>>

-----------------------------------------------------------------------------
(* Rules *)

\* A new rule changes no price: it is as if the row had been inactive until then.
CreateRule(r) ==
  /\ ~rule[r].active
  /\ \A l \in Listings : pricing[l].link # r /\ priced[l] # r
  /\ \A h \in Handlers : task[h].rule # r
  /\ started < MaxRequests /\ started' = started + 1
  /\ rule' = [rule EXCEPT ![r].active = TRUE]
  /\ UNCHANGED <<listings, rate, task, disturbed>>

DeactivateRule(r) ==
  /\ rule[r].active
  /\ started < MaxRequests /\ started' = started + 1
  /\ rule' = [rule EXCEPT ![r].active = FALSE]
  /\ UNCHANGED <<listings, rate, task, disturbed>>

RuleRows == [type : Channels, country : Origins, active : BOOLEAN, terms : Terms]

\* A request may change every column of a rule (here one of them: bound).
BeginUpdateRule(h, r, column, new) ==
  /\ new # rule[r]
  /\ \A other \in {"type", "country", "active", "terms"} \ {column} :
       new[other] = rule[r][other]
  /\ Start(h, [Idle EXCEPT !.pc = "update", !.on = Listings, !.rule = r, !.names = {column},
                           !.new = new])

Written(t, column) ==
  IF column \in t.names THEN t.new[column] ELSE rule[t.rule][column]

WriteRule(t) ==
  rule' = [rule EXCEPT ![t.rule] =
    [type |-> Written(t, "type"), country |-> Written(t, "country"),
     active |-> Written(t, "active"), terms |-> Written(t, "terms")]]

CommitUpdateRuleOnly(h) ==   \* faulty: forgets the listings priced by the rule
  /\ At(h, "update")
  /\ WriteRule(task[h])
  /\ Finish(h)
  /\ UNCHANGED <<listings, rate, started, disturbed>>

CommitUpdateRule(h) ==
  /\ At(h, "update")
  /\ WriteRule(task[h])
  /\ task' = [task EXCEPT ![h].pc = "list"]
  /\ UNCHANGED <<listings, rate, started, disturbed>>

\* syncListingsForPricingRule: the listings of the rule's channel in francs, as they are
\* when the list is read.
ListPriced(h) ==
  /\ At(h, "list")
  /\ Continue(h, [task[h] EXCEPT !.pc = "each", !.seen = pricing, !.types = type,
                    !.todo = {l \in Listings : /\ type[l] = rule[task[h].rule].type
                                               /\ pricing[l].currency = "RWF"}])

\* A listing linked to another rule is passed over, one without a link is taken when this
\* rule is the active one.
Applies(h, l) ==
  \/ task[h].seen[l].link = task[h].rule
  \/ /\ task[h].seen[l].link = None
     /\ task[h].rule \in ActiveRules(task[h].types[l], country[l])

PassOver(h, l) ==
  /\ At(h, "each") /\ l \in task[h].todo
  /\ \/ task[h].seen[l].link \notin {None, task[h].rule}
     \/ LET active == ActiveRules(task[h].types[l], country[l]) IN
        /\ task[h].seen[l].link = None
        /\ active = {} \/ \E r \in active : r # task[h].rule
  /\ Continue(h, [task[h] EXCEPT !.todo = @ \ {l}])

\* The amount of a row for channel t: without one a rule reckons with nothing.
AmountOf(row, t) ==
  LET amount == row.amount[Column(t)] IN IF amount = None THEN 0 ELSE amount

\* The price is computed for the channel and from the amounts read with the list, and the
\* rule as it is now.
Recalculate(h, l) ==
  /\ At(h, "each") /\ l \in task[h].todo
  /\ Applies(h, l)
  /\ Continue(h, [task[h] EXCEPT !.pc = "write", !.listing = l,
                    !.terms = rule[task[h].rule].terms])

CommitRecalculated(h) ==
  LET t == task[h]  l == task[h].listing IN
  /\ At(h, "write")
  /\ PricedBy(h, l, t.types[l], t.rule, TRUE, AmountOf(t.seen[l], t.types[l]), t.seen[l].discount)
  /\ Disturb(h, {l})
  /\ task' = [task EXCEPT ![h].pc = "each", ![h].todo = @ \ {l}, ![h].listing = None]
  /\ UNCHANGED <<type, country, rule, rate, started>>

EndSync(h) ==
  /\ At(h, "each") /\ task[h].todo = {}
  /\ Disturb(h, Listings)
  /\ Finish(h)
  /\ UNCHANGED <<listings, rule, rate, started>>

-----------------------------------------------------------------------------
(* The frozen rate *)

BeginSetFrozenRate(h, n) ==
  /\ n # rate
  /\ Start(h, [Idle EXCEPT !.pc = "rate", !.on = {"rate"}, !.rate = n])

WriteFrozenRate(h) ==
  /\ At(h, "rate")
  /\ rate' = task[h].rate
  /\ task' = [task EXCEPT ![h].pc = "display"]
  /\ UNCHANGED <<listings, rule, started, disturbed>>

RedisplayAll(h) ==   \* faulty: redisplays the prices in francs, too
  /\ At(h, "display")
  /\ pricing' = [l \in Listings |->
       [pricing[l] EXCEPT !.display = UsdtToRwf(pricing[l].final, task[h].rate)]]
  /\ Disturb(h, {"rate"})
  /\ Finish(h)
  /\ UNCHANGED <<type, country, rule, rate, priced, started>>

RedisplayDollars(h) ==
  /\ At(h, "display")
  /\ pricing' = [l \in Listings |->
       IF pricing[l].currency = "USD"
         THEN [pricing[l] EXCEPT !.display = UsdtToRwf(pricing[l].final, task[h].rate)]
         ELSE pricing[l]]
  /\ Disturb(h, {"rate"})
  /\ Finish(h)
  /\ UNCHANGED <<type, country, rule, rate, priced, started>>

-----------------------------------------------------------------------------
(* The server *)

\* What dies half way leaves the rule or the rate without its listings.
Crash(h) ==
  /\ ~At(h, "idle")
  /\ disturbed' = IF task[h].pc \in {"list", "each", "write", "display"}
                    THEN disturbed \cup task[h].on ELSE disturbed
  /\ Finish(h)
  /\ UNCHANGED <<listings, rule, rate, started>>

Begin(h) ==
  /\ At(h, "idle") /\ started < MaxRequests
  /\ \/ \E l \in Listings, t \in SellerType, c \in Countries :
          /\ MayName(l, t, c)
          /\ \/ BeginRelabel(h, l, t, c)
             \/ \E i \in Inputs \cup {None}, d \in Discounts, r \in Rules \cup {None} :
                  BeginPrice(h, l, t, c, i, d, r)
     \/ \E l \in Listings, t \in SellerType \ MARKETPLACE_SELLER_TYPES : BeginMove(h, l, t)
     \/ \E r \in Rules, column \in Columns, new \in RuleRows :
          BeginUpdateRule(h, r, column, new)
     \/ \E n \in Rates : BeginSetFrozenRate(h, n)

Step(h) ==
  \/ FindRule(h) \/ CommitPrice(h) \/ CommitRelabel(h)
  \/ CommitMove(h) \/ ReadForMigration(h) \/ CommitMigration(h)
  \/ CommitUpdateRule(h) \/ ListPriced(h)
  \/ \E l \in Listings : PassOver(h, l) \/ Recalculate(h, l)
  \/ CommitRecalculated(h) \/ EndSync(h)
  \/ WriteFrozenRate(h) \/ RedisplayDollars(h)

Next ==
  \/ \E h \in Handlers : Begin(h) \/ Step(h) \/ Crash(h)
  \/ \E r \in Rules : CreateRule(r) \/ DeactivateRule(r)

Spec == Init /\ [][Next]_vars

-----------------------------------------------------------------------------
(* Properties *)

\* Rows are well formed, and a price in francs was computed with a rule.
TypeOK ==
  /\ \A l \in Listings :
       /\ pricing[l].currency \in {"USD", "RWF"}
       /\ pricing[l].link \in Rules \cup {None}
       /\ priced[l] # None => pricing[l].currency = "RWF"
  /\ rate \in Rates
  /\ \A r \in Rules : rule[r] \in RuleRows

PriceOf(l, r) ==
  CalculatePrice(type[l], AmountOf(pricing[l], type[l]), rule[r].terms, pricing[l].discount)

Syncing == \E h \in Handlers : task[h].pc \in {"list", "each", "write"}

\* A listing linked to the rule its price was computed with, and in the channel that rule
\* is for, has the price the rule gives now, whatever became of the rule since, unless the
\* update of a rule died or overlapped another pricing of the listing.  A listing whose
\* channel has changed is outside until it is priced for the new one: nothing in the code
\* reprices it then, and what brings it to Kigali keeps the price it had.
PricesFollowTheirRule ==
  ~Syncing => \A l \in Listings \ disturbed :
    LET link == pricing[l].link IN
    link # None /\ link = priced[l] /\ type[l] = rule[link].type
      => pricing[l].final = PriceOf(l, link)

\* What buyers are shown: francs as computed, dollars at the frozen rate, unless two
\* changes of the rate overlap or one dies half way.
DisplayFollowsRate ==
  \A l \in Listings :
    IF pricing[l].currency = "RWF" THEN pricing[l].display = pricing[l].final
    ELSE \/ pricing[l].display = UsdtToRwf(pricing[l].final, rate)
         \/ "rate" \in disturbed
         \/ \E h \in Handlers : At(h, "display")

RuleStep ==
  \A h \in Handlers :
    At(h, "rule") /\ ~task[h].given /\ task[h]'.rule # None
      => LET c == task[h].country IN
         (\E r \in RulesFor(task[h].type, c) : rule[r].country = c)
           => rule[task[h]'.rule].country = c

\* "specific origin wins over wildcard": a price computed without a named rule uses the
\* rule for the origin of the listing when there is one.
SpecificRuleWins == [][RuleStep]_vars
=============================================================================
