---------------------------- MODULE OfferProofs ----------------------------
(***************************************************************************)
(* Proofs about what visitors are offered in Market: Prices, Promotions    *)
(* and Catalogue, for every set of listings, rules, terms, rates,          *)
(* campaigns, categories and handlers and whatever the bounds; and, with   *)
(* AccountProofs, that every part of Market stays well formed.             *)
(***************************************************************************)
EXTENDS AccountProofs, Sequences

-----------------------------------------------------------------------------
(* Finite sets *)

\* A finite set has an element whose figure is the highest.
LEMMA HighestExists ==
  ASSUME NEW D, IsFiniteSet(D), D # {}, NEW f \in [D -> Int]
  PROVE  \E k \in D : \A l \in D : f[l] <= f[k]
<1> DEFINE Above(k) == {l \in D : f[l] > f[k]}
<1> DEFINE Q == {Above(k) : k \in D}
<1>1. IsWellFoundedOn(StrictSubsetOrdering(D), SUBSET D)
  BY FS_FiniteSubsetsOfFinite, FS_StrictSubsetOrderingWellFounded
<1>2. Q \subseteq SUBSET D /\ Q # {}
  <2>1. PICK k \in D : TRUE
    OBVIOUS
  <2>2. Above(k) \in Q
    OBVIOUS
  <2>3. \A j \in D : Above(j) \in SUBSET D
    OBVIOUS
  <2>4. Q \subseteq SUBSET D
    BY <2>3
  <2> HIDE DEF Q
  <2>5. QED
    BY <2>2, <2>4
<1>3. PICK M \in Q : \A B \in Q : ~(<<B, M>> \in StrictSubsetOrdering(D))
  BY <1>1, <1>2, WFMin
<1>4. PICK k \in D : M = Above(k)
  BY <1>3
<1>5. ASSUME NEW l \in D, f[l] > f[k]
      PROVE  FALSE
  <2>1. Above(l) \subseteq Above(k) /\ l \in Above(k) /\ l \notin Above(l)
    BY <1>5
  <2>2. <<Above(l), M>> \in (SUBSET D) \X (SUBSET D) /\ Above(l) # M /\ Above(l) \subseteq M
    BY <1>4, <2>1
  <2>3. <<Above(l), M>> \in StrictSubsetOrdering(D)
    BY <2>2 DEF StrictSubsetOrdering
  <2>4. QED
    BY <1>3, <2>3
<1>6. QED
  BY <1>5

\* A set of numbers up to n has a least one.
LEMMA LeastExists ==
  ASSUME NEW n \in Nat, NEW D \in SUBSET (0 .. n), D # {}
  PROVE  \E k \in D : \A l \in D : k <= l
<1>1. IsFiniteSet(D)
  <2>1. IsFiniteSet(0 .. n)
    BY FS_Interval
  <2>2. QED
    BY <2>1, FS_Subset
<1> DEFINE f == [k \in D |-> -k]
<1>2. f \in [D -> Int]
  OBVIOUS
<1>3. PICK k \in D : \A l \in D : f[l] <= f[k]
  <2> HIDE DEF f
  <2>1. QED
    BY <1>1, <1>2, HighestExists
<1>4. \A l \in D : -l <= -k
  BY <1>3
<1>5. QED
  BY <1>4

-----------------------------------------------------------------------------
(* Prices *)

PriceAmounts == [base : Int \cup {None}, fob : Int \cup {None}, payout : Int \cup {None}]
PriceRow ==
  [currency : {"USD", "RWF"}, amount : PriceAmounts, discount : Int, link : Rules \cup {None},
   final : Int, display : Int]
\* The domains of what a task holds, by name, so that they need not be seen in every proof.
PricePlaces == {"idle", "rule", "price", "relabel", "move", "migrate", "update", "list", "each",
                "write", "rate", "display"}
PriceWrites == SUBSET (Listings \cup {"rate"})
OneListing == Listings \cup {None}
OneType == P!SellerType \cup {None}
OneCountry == P!Countries \cup {None}
OneRule == Rules \cup {None}
OneRuleRow == P!RuleRows \cup {None}
OneTerms == Terms \cup {None}
OneRow == PriceRow \cup {None}
AllNames == SUBSET {"type", "country", "active", "terms"}
AllRows == [Listings -> PriceRow] \cup {None}
AllTypes == [Listings -> P!SellerType] \cup {None}
PriceTask ==
  [pc : PricePlaces, on : PriceWrites, listing : OneListing, type : OneType,
   country : OneCountry, names : AllNames, rule : OneRule, given : BOOLEAN, new : OneRuleRow,
   terms : OneTerms, input : Int, discount : Int, row : OneRow, seen : AllRows,
   types : AllTypes, todo : SUBSET Listings, rate : Int, alone : BOOLEAN]

PricesTyped ==
  /\ type \in [Listings -> P!SellerType] /\ country \in [Listings -> P!Countries]
  /\ rule \in [Rules -> P!RuleRows]
  /\ pricing \in [Listings -> PriceRow] /\ priced \in [Listings -> Rules \cup {None}]
  /\ rate \in Rates
  /\ \A l \in Listings : priced[l] # None => pricing[l].currency = "RWF"

\* Task t is about the price or the channel of one listing.
OnOne(t) == t.pc \in {"rule", "price", "relabel", "move", "migrate"}

\* Task t goes through the listings priced by its rule.
Syncs(t) == t.pc \in {"list", "each", "write"}

\* What a task holds at its place.
PriceShape(t) ==
  /\ t.pc = "idle" => t.on = {}
  /\ OnOne(t) => /\ t.listing \in Listings /\ t.on = {t.listing}
                 /\ t.type \in P!SellerType /\ t.country \in P!Countries
  /\ t.pc \in {"move", "migrate"} => t.names = {}
  /\ OnOne(t) /\ t.row # None => t.names = {}
  /\ t.pc = "rule" /\ t.given => t.rule \in Rules
  /\ t.pc \in {"price", "write"} => t.terms \in Terms
  /\ t.pc \in {"price", "update", "list", "each", "write"} => t.rule \in Rules
  /\ t.pc = "update" => t.new \in P!RuleRows
  /\ t.pc = "update" \/ Syncs(t) => t.on = Listings
  /\ t.pc \in {"each", "write"} => /\ t.seen \in [Listings -> PriceRow]
                                   /\ t.types \in [Listings -> P!SellerType]
  /\ t.pc = "write" => t.listing \in t.todo
  /\ t.pc \in {"rate", "display"} => t.on = {"rate"} /\ t.rate \in Rates

\* What a task that is alone with what it may write relies on.
PriceCurrent(t) ==
  /\ t.pc \in {"price", "write"} => t.terms = rule[t.rule].terms
  /\ t.pc \in {"rule", "price", "migrate"} /\ "type" \notin t.names => t.type = type[t.listing]
  /\ t.pc \in {"each", "write"} =>
       \A l \in t.todo : t.seen[l].link = pricing[l].link /\ t.types[l] = type[l]
  /\ t.pc = "display" => t.rate = rate

PriceTasksAreSound ==
  \A h \in Handlers : PriceShape(task[h]) /\ (task[h].alone => PriceCurrent(task[h]))

\* Two tasks that may write the same know of each other.
PriceTasksMeet ==
  \A g, h \in Handlers : g # h /\ task[g].on \cap task[h].on # {} => ~task[g].alone

\* An update of a rule that overlapped something has still to disturb all listings.
Messy == \E h \in Handlers : Syncs(task[h]) /\ ~task[h].alone

Reaches(t, l) == Syncs(t) /\ (t.pc = "list" \/ l \in t.todo)

FollowsRule(l) ==
  LET r == pricing[l].link IN
  r # None /\ r = priced[l] /\ type[l] = rule[r].type => pricing[l].final = P!PriceOf(l, r)

\* A price that is not what its rule gives now waits for the update of the rule.
FinalsAreSound ==
  \/ Messy
  \/ \A l \in Listings \ disturbed :
       \/ FollowsRule(l)
       \/ \E h \in Handlers : task[h].rule = pricing[l].link /\ Reaches(task[h], l)

\* A display that is not at the frozen rate waits for the change of the rate.
DisplaysAreSound ==
  \A l \in Listings :
    /\ pricing[l].currency = "RWF" => pricing[l].display = pricing[l].final
    /\ pricing[l].currency = "USD" =>
         \/ pricing[l].display = P!UsdtToRwf(pricing[l].final, rate)
         \/ "rate" \in disturbed \/ \E h \in Handlers : task[h].pc = "display"

PricesInv ==
  /\ PricesTyped /\ task \in [Handlers -> PriceTask]
  /\ PriceTasksAreSound /\ PriceTasksMeet /\ FinalsAreSound /\ DisplaysAreSound

PricesIInv == work = "prices" => PricesInv

LEMMA OfferBounds ==
  /\ None \notin Rules /\ None \notin Listings /\ None \notin Int
  /\ Channels \subseteq P!SellerType
  /\ Columns \subseteq {"type", "country", "active", "terms"}
  /\ Inputs \subseteq Nat /\ Amounts \subseteq Nat /\ Rates \subseteq Nat \ {0} /\ Rates # {}
  BY MarketBoundsOK

LEMMA TermsAre ==
  ASSUME NEW x \in Terms
  PROVE  /\ x.shipping \in Nat /\ x.local \in Nat /\ x.tax \in Nat /\ x.insurance \in Nat
         /\ x.storage \in Nat /\ x.clearing \in Nat /\ x.margin \in Nat
         /\ x.commission \in Nat /\ x.commission < 100 /\ x.discount \in Nat
<1>1. x \in P!TermsType
  BY MarketBoundsOK
<1>2. QED
  BY <1>1 DEF P!TermsType

(* Amounts: whatever is computed is a whole number. *)

LEMMA PercentType ==
  ASSUME NEW p \in Nat, NEW x \in Int
  PROVE  P!Percent(p, x) \in Int
<1>1. x * p \in Int
  OBVIOUS
<1>2. QED
  BY <1>1 DEF P!Percent

LEMMA RoundType ==
  ASSUME NEW x \in Int, NEW n \in Nat \ {0}
  PROVE  P!Round(x, n) \in Int
  BY DEF P!Round

LEMMA UsdtToRwfType ==
  ASSUME NEW usd \in Int, NEW r \in Int
  PROVE  P!UsdtToRwf(usd, r) \in Int
<1>1. usd * r \in Int
  OBVIOUS
<1>2. QED
  BY <1>1, RoundType DEF P!UsdtToRwf

LEMMA ApplyDiscountsType ==
  ASSUME NEW x \in Terms, NEW amount \in Int, NEW d \in Int
  PROVE  P!ApplyDiscounts(amount, x, d) \in Int
<1>1. P!Percent(x.discount, amount) \in Int
  BY TermsAre, PercentType
<1>2. QED
  BY <1>1 DEF P!ApplyDiscounts, P!Million

LEMMA CalculatePriceType ==
  ASSUME NEW x \in Terms, NEW input \in Int, NEW d \in Int, NEW seller \in P!SellerType
  PROVE  P!CalculatePrice(seller, input, x, d) \in Int
<1>1. P!RwandaStockPrice(input, x, d) \in Int
  BY ApplyDiscountsType DEF P!RwandaStockPrice, P!Million
<1>2. P!ChinaSourcingPrice(input, x, d) \in Int
  <2> DEFINE cif == (input + x.shipping) * P!Million
             landing == cif + P!Percent(x.tax, cif) + P!Percent(x.insurance, cif)
                          + (x.local + x.storage + x.clearing) * P!Million
  <2>1. cif \in Int
    BY TermsAre DEF P!Million
  <2>2. P!Percent(x.tax, cif) \in Int /\ P!Percent(x.insurance, cif) \in Int
    BY <2>1, TermsAre, PercentType
  <2>3. landing \in Int
    BY <2>1, <2>2, TermsAre DEF P!Million
  <2> HIDE DEF landing
  <2>4. landing + P!Percent(x.margin, landing) \in Int
    BY <2>3, TermsAre, PercentType
  <2>5. P!ApplyDiscounts(landing + P!Percent(x.margin, landing), x, d) \in Int
    BY <2>4, ApplyDiscountsType
  <2>6. QED
    BY <2>5 DEF P!ChinaSourcingPrice, landing
<1>3. P!LocalSellerPrice(input, x, d) \in Int
  <2>1. input * P!Million * 100 \in Int /\ 100 - x.commission \in Nat \ {0}
    BY TermsAre DEF P!Million
  <2>2. (input * P!Million * 100) \div (100 - x.commission) \in Int
    BY <2>1
  <2>3. QED
    BY <2>2, ApplyDiscountsType DEF P!LocalSellerPrice
<1>4. P!InternationalPrice(input, x, d) \in Int
  <2> DEFINE cif == (input + x.shipping) * P!Million
             cost == cif + x.local * P!Million + P!Percent(x.tax, cif)
  <2>1. cif \in Int
    BY TermsAre DEF P!Million
  <2>2. P!Percent(x.tax, cif) \in Int
    BY <2>1, TermsAre, PercentType
  <2>3. cost \in Int
    BY <2>1, <2>2, TermsAre DEF P!Million
  <2> HIDE DEF cost
  <2>4. cost + P!Percent(x.margin, cost) \in Int
    BY <2>3, TermsAre, PercentType
  <2>5. P!ApplyDiscounts(cost + P!Percent(x.margin, cost), x, d) \in Int
    BY <2>4, ApplyDiscountsType
  <2>6. QED
    BY <2>5 DEF P!InternationalPrice, cost
<1>5. P!Million \in Nat \ {0}
  BY DEF P!Million
<1>6. CASE seller = "UZA_RWANDA_STOCK"
  BY <1>1, <1>5, <1>6, RoundType DEF P!CalculatePrice
<1>7. CASE seller = "UZA_CHINA_SOURCING"
  BY <1>2, <1>5, <1>7, RoundType DEF P!CalculatePrice
<1>8. CASE seller = "LOCAL_SELLER"
  BY <1>3, <1>5, <1>8, RoundType DEF P!CalculatePrice
<1>9. CASE seller = "INTERNATIONAL_SELLER"
  BY <1>4, <1>5, <1>9, RoundType DEF P!CalculatePrice
<1>10. QED
  BY <1>6, <1>7, <1>8, <1>9 DEF P!SellerType, P!MARKETPLACE_SELLER_TYPES

\* The column of a channel is one of the three of a row.
LEMMA ColumnIs ==
  ASSUME NEW c \in P!SellerType
  PROVE  /\ P!Column(c) \in {"base", "fob", "payout"}
         /\ P!Column(c) # (IF c = "UZA_RWANDA_STOCK" THEN "fob" ELSE "base")
  BY DEF P!Column, P!SellerType, P!MARKETPLACE_SELLER_TYPES

LEMMA ColumnOf ==
  ASSUME NEW row \in PriceRow, NEW c \in P!SellerType
  PROVE  row.amount[P!Column(c)] \in Int \cup {None}
<1>1. row.amount \in PriceAmounts
  BY DEF PriceRow
<1>2. QED
  BY <1>1, ColumnIs DEF PriceAmounts

LEMMA AmountOfType ==
  ASSUME NEW row \in PriceRow, NEW c \in P!SellerType
  PROVE  P!AmountOf(row, c) \in Int
  BY ColumnOf DEF P!AmountOf

\* One column of the amounts is written.
LEMMA AmountWritten ==
  ASSUME NEW amounts \in PriceAmounts, NEW column \in {"base", "fob", "payout"},
         NEW n \in Int \cup {None}
  PROVE  /\ [amounts EXCEPT ![column] = n] \in PriceAmounts
         /\ [amounts EXCEPT ![column] = n][column] = n
         /\ \A other \in {"base", "fob", "payout"} \ {column} :
              [amounts EXCEPT ![column] = n][other] = amounts[other]
<1>1. CASE column = "base"
  BY <1>1 DEF PriceAmounts
<1>2. CASE column = "fob"
  BY <1>2 DEF PriceAmounts
<1>3. CASE column = "payout"
  BY <1>3 DEF PriceAmounts
<1>4. QED
  BY <1>1, <1>2, <1>3

LEMMA AmountsType ==
  ASSUME PricesTyped, NEW l \in Listings, NEW c \in P!SellerType, NEW n \in Int
  PROVE  P!AmountsWith(l, c, n) \in PriceAmounts /\ P!AmountsWith(l, c, n)[P!Column(c)] = n
<1>1. pricing[l].amount \in PriceAmounts
  BY DEF PricesTyped, PriceRow
<1>2. P!NoAmounts \in PriceAmounts
  BY DEF P!NoAmounts, PriceAmounts
<1>3. PICK amounts \in PriceAmounts :
        amounts = IF pricing[l].currency = "RWF" THEN pricing[l].amount ELSE P!NoAmounts
  BY <1>1, <1>2
<1>4. P!AmountsWith(l, c, n) = [amounts EXCEPT ![P!Column(c)] = n]
  BY <1>3 DEF P!AmountsWith
<1>5. CASE P!Column(c) = "base"
  BY <1>4, <1>5 DEF PriceAmounts
<1>6. CASE P!Column(c) = "fob"
  BY <1>4, <1>6 DEF PriceAmounts
<1>7. CASE P!Column(c) = "payout"
  BY <1>4, <1>7 DEF PriceAmounts
<1>8. QED
  BY <1>5, <1>6, <1>7, ColumnIs

\* What a task may hold.
LEMMA PriceDomains ==
  /\ "idle" \in PricePlaces /\ "rule" \in PricePlaces /\ "price" \in PricePlaces
  /\ "relabel" \in PricePlaces /\ "move" \in PricePlaces /\ "migrate" \in PricePlaces
  /\ "update" \in PricePlaces /\ "list" \in PricePlaces /\ "each" \in PricePlaces
  /\ "write" \in PricePlaces /\ "rate" \in PricePlaces /\ "display" \in PricePlaces
  /\ {} \in PriceWrites /\ Listings \in PriceWrites /\ {"rate"} \in PriceWrites
  /\ \A l \in Listings : {l} \in PriceWrites /\ l \in OneListing
  /\ \A c \in P!SellerType : c \in OneType
  /\ \A c \in P!Countries : c \in OneCountry
  /\ \A names \in SUBSET {"type", "country", "active", "terms"} : names \in AllNames
  /\ \A names \in SUBSET {"type", "country"} : names \in AllNames
  /\ \A r \in Rules \cup {None} : r \in OneRule
  /\ \A row \in P!RuleRows : row \in OneRuleRow
  /\ \A terms \in Terms : terms \in OneTerms
  /\ \A row \in PriceRow : row \in OneRow
  /\ \A rows \in [Listings -> PriceRow] : rows \in AllRows
  /\ \A types \in [Listings -> P!SellerType] : types \in AllTypes
  /\ None \in OneListing /\ None \in OneType /\ None \in OneCountry /\ {} \in AllNames
  /\ None \in OneRule /\ None \in OneRuleRow /\ None \in OneTerms /\ None \in OneRow
  /\ None \in AllRows /\ None \in AllTypes
<1>1. /\ "idle" \in PricePlaces /\ "rule" \in PricePlaces /\ "price" \in PricePlaces
      /\ "relabel" \in PricePlaces /\ "move" \in PricePlaces /\ "migrate" \in PricePlaces
      /\ "update" \in PricePlaces /\ "list" \in PricePlaces /\ "each" \in PricePlaces
      /\ "write" \in PricePlaces /\ "rate" \in PricePlaces /\ "display" \in PricePlaces
  BY DEF PricePlaces
<1>2. QED
  BY <1>1 DEF PriceWrites, OneListing, OneType, OneCountry, AllNames, OneRule, OneRuleRow,
              OneTerms, OneRow, AllRows, AllTypes

LEMMA PriceIdle ==
  /\ P!Idle \in PriceTask /\ PriceShape(P!Idle) /\ PriceCurrent(P!Idle) /\ PriceCurrent(P!Idle)'
  /\ P!Idle.pc = "idle" /\ P!Idle.on = {} /\ P!Idle.alone
  /\ P!Idle.row = None /\ P!Idle.names = {}
<1>1. P!Idle.pc = "idle" /\ P!Idle.on = {} /\ P!Idle.alone
      /\ P!Idle.row = None /\ P!Idle.names = {}
  BY DEF P!Idle
<1>2. P!Idle \in PriceTask
  BY PriceDomains DEF P!Idle, PriceTask
<1>3. QED
  BY <1>1, <1>2 DEF PriceShape, PriceCurrent, Syncs, OnOne

LEMMA PricesInitInv == P!Init => PricesInv
<1> SUFFICES ASSUME P!Init
             PROVE  PricesInv
  OBVIOUS
<1>1. /\ type \in [Listings -> P!SellerType] /\ country \in [Listings -> P!Countries]
      /\ rate = CHOOSE first \in Rates : TRUE
      /\ priced = [l \in Listings |-> None] /\ task = [h \in Handlers |-> P!Idle]
      /\ disturbed = {}
  BY OfferBounds DEF P!Init, P!Countries
<1>2. rate \in Rates
  BY <1>1, OfferBounds
<1>3. rule \in [Rules -> P!RuleRows]
  <2>1. (CHOOSE first \in Terms : TRUE) \in Terms
    BY MarketBoundsOK
  <2>2. PICK terms \in Terms :
          rule \in [Rules -> [type : Channels, country : Origins, active : {TRUE}, terms : {terms}]]
    BY <2>1 DEF P!Init
  <2>3. \A r \in [type : Channels, country : Origins, active : {TRUE}, terms : {terms}] :
          r \in P!RuleRows
    BY DEF P!RuleRows
  <2>4. QED
    BY <2>2, <2>3
<1>4. PICK usd \in Inputs :
        pricing = [l \in Listings |->
          [currency |-> "USD", amount |-> [P!NoAmounts EXCEPT ![P!Column(type[l])] = usd],
           discount |-> 0, link |-> None, final |-> usd, display |-> P!UsdtToRwf(usd, rate)]]
  BY DEF P!Init
<1>5. usd \in Int /\ P!UsdtToRwf(usd, rate) \in Int
  BY <1>2, OfferBounds, UsdtToRwfType
<1>6. \A l \in Listings : [P!NoAmounts EXCEPT ![P!Column(type[l])] = usd] \in PriceAmounts
  <2>1. P!NoAmounts \in PriceAmounts
    BY DEF P!NoAmounts, PriceAmounts
  <2>2. QED
    BY <1>1, <1>5, <2>1, ColumnIs, AmountWritten
<1>7. /\ pricing \in [Listings -> PriceRow]
      /\ \A l \in Listings : /\ pricing[l].currency = "USD" /\ pricing[l].link = None
                             /\ pricing[l].display = P!UsdtToRwf(pricing[l].final, rate)
  BY <1>4, <1>5, <1>6 DEF PriceRow
<1>8. PricesTyped
  BY <1>1, <1>2, <1>3, <1>7 DEF PricesTyped
<1>9. task \in [Handlers -> PriceTask] /\ PriceTasksAreSound /\ PriceTasksMeet
  BY <1>1, PriceIdle DEF PriceTasksAreSound, PriceTasksMeet
<1>10. FinalsAreSound /\ DisplaysAreSound
  BY <1>7 DEF FinalsAreSound, FollowsRule, DisplaysAreSound
<1>11. QED
  BY <1>8, <1>9, <1>10 DEF PricesInv

(* Handlers *)

\* What handler g, apart from one that starts with task t, holds: it knows of t.
PriceBystander(g, t) ==
  /\ task'[g] = task[g] \/ task'[g] = [task[g] EXCEPT !.alone = FALSE]
  /\ t.on \cap task[g].on # {} => ~task'[g].alone
  /\ task'[g].alone => task[g].alone

\* A handler that starts writes nothing, and is alone if nobody may write the same.
LEMMA PriceStartPreservesInv ==
  ASSUME PricesInv, NEW h \in Handlers, NEW t \in PriceTask, P!Start(h, t),
         PriceShape(t), PriceCurrent(t),
         t.pc \in {"rule", "relabel", "move", "update", "rate"}
  PROVE  PricesInv'
<1>1. task \in [Handlers -> PriceTask] /\ PriceTasksMeet /\ PriceTasksAreSound
  BY DEF PricesInv
<1>2. /\ task[h].pc = "idle" /\ task[h].on = {}
      /\ UNCHANGED <<type, country, rule, pricing, rate, priced, disturbed>>
  BY <1>1 DEF P!Start, P!At, P!listings, PriceTasksAreSound, PriceShape
<1>3. PICK b \in BOOLEAN : b = \A k \in Handlers : ~P!Meets(t, k)
  OBVIOUS
<1>4. PICK u \in PriceTask : u = [t EXCEPT !.alone = b]
  BY DEF PriceTask
<1>5. /\ u.pc = t.pc /\ u.on = t.on /\ u.alone = b
      /\ u.listing = t.listing /\ u.rule = t.rule /\ u.given = t.given /\ u.terms = t.terms
      /\ u.seen = t.seen /\ u.todo = t.todo /\ u.rate = t.rate
      /\ u.type = t.type /\ u.country = t.country /\ u.names = t.names /\ u.new = t.new
      /\ u.types = t.types /\ u.row = t.row
  BY <1>4 DEF PriceTask
<1>6. task' = [g \in Handlers |->
                 IF g = h THEN u
                 ELSE IF P!Meets(t, g) THEN [task[g] EXCEPT !.alone = FALSE] ELSE task[g]]
  BY <1>3, <1>4 DEF P!Start
<1>7. ASSUME NEW g \in Handlers \ {h}
      PROVE  task'[g] \in PriceTask /\ PriceBystander(g, t)
  <2>1. task[g] \in PriceTask /\ (P!Meets(t, g) <=> task[g].on \cap t.on # {})
    BY <1>1 DEF P!Meets
  <2>2. CASE P!Meets(t, g)
    <3>1. task'[g] = [task[g] EXCEPT !.alone = FALSE]
      BY <1>6, <2>2
    <3>2. QED
      BY <2>1, <3>1 DEF PriceBystander, PriceTask
  <2>3. CASE ~P!Meets(t, g)
    <3>1. task'[g] = task[g]
      BY <1>6, <2>3
    <3>2. QED
      BY <2>1, <2>3, <3>1 DEF PriceBystander
  <2>4. QED
    BY <2>2, <2>3
<1>8. task'[h] = u /\ task' \in [Handlers -> PriceTask]
  BY <1>6, <1>7
<1>9. ASSUME NEW g \in Handlers \ {h}
      PROVE  /\ task'[g].pc = task[g].pc /\ task'[g].on = task[g].on
             /\ task'[g].listing = task[g].listing /\ task'[g].rule = task[g].rule
             /\ task'[g].given = task[g].given /\ task'[g].terms = task[g].terms
             /\ task'[g].seen = task[g].seen /\ task'[g].todo = task[g].todo
             /\ task'[g].rate = task[g].rate
             /\ task'[g].type = task[g].type /\ task'[g].country = task[g].country
             /\ task'[g].names = task[g].names /\ task'[g].new = task[g].new
             /\ task'[g].types = task[g].types /\ task'[g].row = task[g].row
  <2>1. task[g] \in PriceTask
    BY <1>1
  <2>2. CASE task'[g] = task[g]
    BY <2>2
  <2>3. CASE task'[g] = [task[g] EXCEPT !.alone = FALSE]
    BY <2>1, <2>3 DEF PriceTask
  <2>4. QED
    BY <1>7, <2>2, <2>3 DEF PriceBystander
<1>10. PriceTasksMeet'
  <2>1. ASSUME NEW f \in Handlers, NEW g \in Handlers, f # g,
               task'[f].on \cap task'[g].on # {}
        PROVE  ~task'[f].alone
    <3>1. CASE f = h
      <4>1. P!Meets(t, g)
        BY <1>5, <1>8, <1>9, <2>1, <3>1 DEF P!Meets
      <4>2. QED
        BY <1>3, <1>5, <1>8, <3>1, <4>1
    <3>2. CASE f # h /\ g = h
      BY <1>5, <1>7, <1>8, <1>9, <2>1, <3>2 DEF PriceBystander
    <3>3. CASE f # h /\ g # h
      <4>1. task'[f].on = task[f].on /\ task'[g].on = task[g].on
        BY <1>9, <3>3
      <4>2. ~task[f].alone
        BY <1>1, <2>1, <4>1 DEF PriceTasksMeet
      <4>3. QED
        BY <1>7, <3>3, <4>2 DEF PriceBystander
    <3>4. QED
      BY <3>1, <3>2, <3>3
  <2>2. QED
    BY <2>1 DEF PriceTasksMeet
<1>11. PriceTasksAreSound'
  <2>1. ASSUME NEW g \in Handlers \ {h}
        PROVE  PriceShape(task[g])' /\ (task'[g].alone => PriceCurrent(task[g])')
    <3>1. PriceShape(task[g]) /\ (task[g].alone => PriceCurrent(task[g]))
      BY <1>1 DEF PriceTasksAreSound
    <3>2. PriceShape(task[g])'
      BY <1>9, <3>1 DEF PriceShape, Syncs, OnOne
    <3>3. task'[g].alone => PriceCurrent(task[g])'
      <4>1. task'[g].alone => task[g].alone
        BY <1>7 DEF PriceBystander
      <4>2. QED
        BY <1>2, <1>9, <3>1, <4>1 DEF PriceCurrent
    <3>4. QED
      BY <3>2, <3>3
  <2>2. PriceShape(task[h])' /\ PriceCurrent(task[h])'
    BY <1>2, <1>5, <1>8 DEF PriceShape, PriceCurrent, Syncs, OnOne
  <2>3. QED
    BY <2>1, <2>2 DEF PriceTasksAreSound
<1>12. PricesTyped'
  BY <1>2 DEF PricesInv, PricesTyped
<1>13. FinalsAreSound'
  <2>1. CASE Messy
    <3>1. PICK g \in Handlers : Syncs(task[g]) /\ ~task[g].alone
      BY <2>1 DEF Messy
    <3>2. g # h
      BY <1>2, <3>1 DEF Syncs
    <3>3. Syncs(task[g])' /\ ~task'[g].alone
      BY <1>7, <1>9, <3>1, <3>2 DEF Syncs, PriceBystander
    <3>4. QED
      BY <3>3 DEF FinalsAreSound, Messy
  <2>2. CASE ~Messy
    <3>1. ASSUME NEW l \in Listings \ disturbed
          PROVE  \/ FollowsRule(l)'
                 \/ \E g \in Handlers : task'[g].rule = pricing[l].link /\ Reaches(task[g], l)'
      <4>1. CASE FollowsRule(l)
        BY <1>2, <4>1 DEF FollowsRule, P!PriceOf
      <4>2. ASSUME NEW g \in Handlers, task[g].rule = pricing[l].link, Reaches(task[g], l)
            PROVE  task'[g].rule = pricing[l].link /\ Reaches(task[g], l)'
        <5>1. g # h
          BY <1>2, <4>2 DEF Reaches, Syncs
        <5>2. QED
          BY <1>9, <4>2, <5>1 DEF Reaches, Syncs
      <4>3. QED
        BY <2>2, <4>1, <4>2 DEF PricesInv, FinalsAreSound
    <3>2. QED
      BY <1>2, <3>1 DEF FinalsAreSound
  <2>3. QED
    BY <2>1, <2>2
<1>14. DisplaysAreSound'
  <2>1. \A g \in Handlers : task[g].pc = "display" => task'[g].pc = "display"
    BY <1>2, <1>9
  <2>2. QED
    BY <1>2, <2>1 DEF PricesInv, DisplaysAreSound
<1>15. QED
  BY <1>8, <1>10, <1>11, <1>12, <1>13, <1>14 DEF PricesInv

LEMMA PriceBeginPreservesInv ==
  ASSUME PricesInv, NEW h \in Handlers, P!Begin(h)
  PROVE  PricesInv'
<1>1. ASSUME NEW l \in Listings, NEW i \in Inputs \cup {None}, NEW d \in Amounts,
             NEW r \in Rules \cup {None}, NEW s \in P!SellerType, NEW c \in P!Countries,
             P!BeginPrice(h, l, s, c, i, d, r)
      PROVE  PricesInv'
  <2>1. PICK given \in BOOLEAN : given = (r # None)
    OBVIOUS
  <2>2. P!Merged(l, s, i) \in Int
    <3>1. pricing[l] \in PriceRow /\ rate \in Int
      BY OfferBounds DEF PricesInv, PricesTyped
    <3>2. PICK n \in Int \cup {None} : n = pricing[l].amount[P!Column(s)]
      BY <3>1, ColumnOf
    <3>3. n # None => P!UsdtToRwf(n, rate) \in Int
      BY <3>1, <3>2, UsdtToRwfType
    <3>4. P!Merged(l, s, i) # None
      BY <1>1 DEF P!BeginPrice
    <3>5. QED
      BY <3>2, <3>3, <3>4, OfferBounds DEF P!Merged
  <2>3. PICK n \in Int : n = P!Merged(l, s, i)
    BY <2>2
  <2>4. PICK names \in SUBSET {"type", "country"} : names = P!NamesOf(l, s, c)
    BY DEF P!NamesOf
  <2> DEFINE t == [P!Idle EXCEPT !.pc = "rule", !.on = {l}, !.listing = l, !.type = s,
                                 !.country = c, !.names = names, !.rule = r,
                                 !.given = given, !.input = n, !.discount = d]
  <2>5. P!Start(h, t)
    BY <1>1, <2>1, <2>3, <2>4 DEF P!BeginPrice
  <2>6. /\ t \in PriceTask /\ t.pc = "rule" /\ t.listing = l /\ t.on = {l} /\ t.rule = r
        /\ t.given = given /\ t.type = s /\ t.country = c /\ t.names = names /\ t.row = None
    <3>1. PICK u \in PriceTask :
            u = [P!Idle EXCEPT !.pc = "rule", !.on = {l}, !.listing = l, !.type = s]
      BY PriceIdle, PriceDomains DEF PriceTask
    <3>2. /\ u.pc = "rule" /\ u.on = {l} /\ u.listing = l /\ u.type = s /\ u.row = None
          /\ t = [u EXCEPT !.country = c, !.names = names, !.rule = r, !.given = given,
                          !.input = n, !.discount = d]
      BY <3>1, PriceIdle DEF PriceTask
    <3>3. PICK v \in PriceTask :
            v = [u EXCEPT !.country = c, !.names = names, !.rule = r]
      BY <3>1, PriceDomains DEF PriceTask
    <3>4. /\ v.pc = "rule" /\ v.on = {l} /\ v.listing = l /\ v.type = s /\ v.row = None
          /\ v.country = c /\ v.names = names /\ v.rule = r
          /\ t = [v EXCEPT !.given = given, !.input = n, !.discount = d]
      <4> HIDE DEF t
      <4>1. QED
        BY <3>2, <3>3 DEF PriceTask
    <3>5. d \in Int
      BY OfferBounds
    <3> HIDE DEF t
    <3>6. QED
      BY <3>4, <3>5 DEF PriceTask
  <2> HIDE DEF t
  <2>7. PriceShape(t)
    BY <2>1, <2>6 DEF PriceShape, Syncs, OnOne
  <2>8. PriceCurrent(t)
    BY <2>4, <2>6 DEF PriceCurrent, P!NamesOf
  <2>9. QED
    BY <2>5, <2>6, <2>7, <2>8, PriceStartPreservesInv
<1>2. ASSUME NEW l \in Listings, NEW s \in P!SellerType, NEW c \in P!Countries,
             P!BeginRelabel(h, l, s, c)
      PROVE  PricesInv'
  <2>1. PICK names \in SUBSET {"type", "country"} : names = P!NamesOf(l, s, c)
    BY DEF P!NamesOf
  <2> DEFINE t == [P!Idle EXCEPT !.pc = "relabel", !.on = {l}, !.listing = l, !.type = s,
                                 !.country = c, !.names = names]
  <2>2. P!Start(h, t)
    BY <1>2, <2>1 DEF P!BeginRelabel
  <2>3. /\ t \in PriceTask /\ t.pc = "relabel" /\ t.listing = l /\ t.on = {l}
        /\ t.type = s /\ t.country = c /\ t.row = None
    BY PriceIdle, PriceDomains DEF PriceTask
  <2> HIDE DEF t
  <2>4. PriceShape(t) /\ PriceCurrent(t)
    BY <2>3 DEF PriceShape, PriceCurrent, Syncs, OnOne
  <2>5. QED
    BY <2>2, <2>3, <2>4, PriceStartPreservesInv
<1>3. ASSUME NEW l \in Listings, NEW s \in P!SellerType, P!BeginMove(h, l, s)
      PROVE  PricesInv'
  <2>1. PICK c \in P!Countries :
          c = IF s = "UZA_RWANDA_STOCK" THEN "RW" ELSE IF country[l] = "RW" THEN "CN" ELSE country[l]
    BY DEF P!Countries, PricesInv, PricesTyped
  <2> DEFINE t == [P!Idle EXCEPT !.pc = "move", !.on = {l}, !.listing = l, !.type = s,
                                 !.country = c]
  <2>2. P!Start(h, t)
    BY <1>3, <2>1 DEF P!BeginMove
  <2>3. /\ t \in PriceTask /\ t.pc = "move" /\ t.listing = l /\ t.on = {l}
        /\ t.type = s /\ t.country = c /\ t.names = {}
    BY PriceIdle, PriceDomains DEF PriceTask
  <2> HIDE DEF t
  <2>4. PriceShape(t) /\ PriceCurrent(t)
    BY <2>3 DEF PriceShape, PriceCurrent, Syncs, OnOne
  <2>5. QED
    BY <2>2, <2>3, <2>4, PriceStartPreservesInv
<1>4. ASSUME NEW r \in Rules, NEW column \in Columns, NEW new \in P!RuleRows,
             P!BeginUpdateRule(h, r, column, new)
      PROVE  PricesInv'
  <2>1. PICK names \in SUBSET {"type", "country", "active", "terms"} : names = {column}
    BY OfferBounds
  <2> DEFINE t == [P!Idle EXCEPT !.pc = "update", !.on = Listings, !.rule = r, !.names = names,
                                 !.new = new]
  <2>2. /\ t \in PriceTask /\ t.pc = "update" /\ t.on = Listings /\ t.rule = r
        /\ t.new = new
    BY PriceIdle, PriceDomains DEF PriceTask
  <2>3. P!Start(h, t)
    BY <1>4, <2>1 DEF P!BeginUpdateRule
  <2> HIDE DEF t
  <2>4. PriceShape(t) /\ PriceCurrent(t)
    BY <2>2 DEF PriceShape, PriceCurrent, Syncs, OnOne
  <2>5. QED
    BY <2>2, <2>3, <2>4, PriceStartPreservesInv
<1>5. ASSUME NEW n \in Rates, P!BeginSetFrozenRate(h, n)
      PROVE  PricesInv'
  <2> DEFINE t == [P!Idle EXCEPT !.pc = "rate", !.on = {"rate"}, !.rate = n]
  <2>1. t \in PriceTask /\ t.pc = "rate" /\ t.on = {"rate"} /\ t.rate = n
    <3>1. n \in Int
      BY OfferBounds
    <3>2. QED
      BY <3>1, PriceIdle, PriceDomains DEF PriceTask
  <2>2. P!Start(h, t)
    BY <1>5 DEF P!BeginSetFrozenRate
  <2> HIDE DEF t
  <2>3. PriceShape(t) /\ PriceCurrent(t)
    BY <2>1 DEF PriceShape, PriceCurrent, Syncs, OnOne
  <2>4. QED
    BY <2>1, <2>2, <2>3, PriceStartPreservesInv
<1>6. QED
  BY <1>1, <1>2, <1>3, <1>4, <1>5 DEF P!Begin

\* What handler h holds after a step, t, is sound, and so is what the others hold, if h writes
\* only what it had announced.
LEMMA PriceTasksStay ==
  ASSUME PricesInv, NEW h \in Handlers, NEW t \in PriceTask, task' = [task EXCEPT ![h] = t],
         t.on \subseteq task[h].on, t.alone => task[h].alone \/ t.on = {},
         PriceShape(t), t.alone => PriceCurrent(t)',
         task[h].on = Listings \/ \A r \in Rules : rule'[r].terms = rule[r].terms,
         \A l \in Listings \ task[h].on :
           pricing'[l].link = pricing[l].link /\ type'[l] = type[l],
         rate' = rate \/ "rate" \in task[h].on
  PROVE  /\ task' \in [Handlers -> PriceTask] /\ task'[h] = t
         /\ \A g \in Handlers \ {h} : task'[g] = task[g]
         /\ PriceTasksAreSound' /\ PriceTasksMeet'
<1>1. task \in [Handlers -> PriceTask] /\ PriceTasksMeet /\ PriceTasksAreSound
  BY DEF PricesInv
<1>2. /\ task' \in [Handlers -> PriceTask] /\ task'[h] = t
      /\ \A g \in Handlers \ {h} : task'[g] = task[g]
  BY <1>1
<1>3. PriceTasksMeet'
  <2>1. ASSUME NEW f \in Handlers, NEW g \in Handlers, f # g,
               task'[f].on \cap task'[g].on # {}
        PROVE  ~task'[f].alone
    <3>1. task[f].on \cap task[g].on # {} /\ ~task[f].alone
      BY <1>1, <1>2, <2>1 DEF PriceTasksMeet
    <3>2. f = h => t.on # {}
      BY <1>2, <2>1
    <3>3. QED
      BY <1>2, <3>1, <3>2
  <2>2. QED
    BY <2>1 DEF PriceTasksMeet
<1>4. PriceTasksAreSound'
  <2>1. ASSUME NEW g \in Handlers \ {h}
        PROVE  PriceShape(task[g])' /\ (task'[g].alone => PriceCurrent(task[g])')
    <3>1. /\ task'[g] = task[g] /\ task[g] \in PriceTask /\ PriceShape(task[g])
          /\ task[g].alone => PriceCurrent(task[g])
      BY <1>1, <1>2 DEF PriceTasksAreSound
    <3>2. PriceShape(task[g])'
      BY <3>1 DEF PriceShape, Syncs, OnOne
    <3>3. ASSUME task[g].alone
          PROVE  PriceCurrent(task[g])'
      <4>1. task[g].on \cap task[h].on = {}
        BY <1>1, <3>3 DEF PriceTasksMeet
      <4>2. PriceCurrent(task[g])
        BY <3>1, <3>3
      <4>3. ASSUME task[g].pc \in {"price", "write"}
            PROVE  task[g].terms = rule'[task[g].rule].terms
        <5>1. task[g].rule \in Rules
          BY <3>1, <4>3 DEF PriceShape
        <5>2. task[g].on \cap Listings # {}
          BY <3>1, <4>3 DEF PriceShape, Syncs, OnOne, PriceTask
        <5>3. QED
          BY <4>1, <4>2, <4>3, <5>1, <5>2 DEF PriceCurrent
      <4>4. ASSUME task[g].pc \in {"each", "write"}, NEW l \in task[g].todo
            PROVE  task[g].seen[l].link = pricing'[l].link /\ task[g].types[l] = type'[l]
        <5>1. l \in Listings
          BY <3>1 DEF PriceTask
        <5>2. task[g].on = Listings
          BY <3>1, <4>4 DEF PriceShape, Syncs
        <5>3. QED
          BY <4>1, <4>2, <4>4, <5>1, <5>2 DEF PriceCurrent
      <4>5. task[g].pc = "display" => task[g].rate = rate'
        BY <3>1, <4>1, <4>2 DEF PriceCurrent, PriceShape
      <4>6. ASSUME task[g].pc \in {"rule", "price", "migrate"}, "type" \notin task[g].names
            PROVE  task[g].type = type'[task[g].listing]
        <5>1. task[g].listing \in Listings /\ task[g].on = {task[g].listing}
          BY <3>1, <4>6 DEF PriceShape, OnOne
        <5>2. QED
          BY <4>1, <4>2, <4>6, <5>1 DEF PriceCurrent
      <4>7. QED
        BY <3>1, <4>3, <4>4, <4>5, <4>6 DEF PriceCurrent
    <3>4. QED
      BY <3>1, <3>2, <3>3
  <2>2. PriceShape(task[h])'
    BY <1>2 DEF PriceShape, Syncs, OnOne
  <2>3. task'[h].alone => PriceCurrent(task[h])'
    BY <1>2 DEF PriceCurrent
  <2>4. QED
    BY <2>1, <2>2, <2>3 DEF PriceTasksAreSound
<1>5. QED
  BY <1>2, <1>3, <1>4

\* A step of handler h leaves the prices sound if those that do not follow their rule after
\* it, did not before, on account of another handler.
LEMMA FinalsStay ==
  ASSUME PricesInv, NEW h \in Handlers, NEW t \in PriceTask, task'[h] = t,
         \A g \in Handlers \ {h} : task'[g] = task[g], disturbed \subseteq disturbed',
         Syncs(task[h]) /\ ~task[h].alone =>
           (Syncs(t) /\ ~t.alone) \/ Listings \subseteq disturbed',
         \/ Syncs(t) /\ ~t.alone
         \/ \A l \in Listings \ disturbed' :
              \/ FollowsRule(l)'
              \/ t.rule = pricing'[l].link /\ Reaches(t, l)
              \/ /\ pricing'[l].link = pricing[l].link /\ ~FollowsRule(l)
                 /\ ~(task[h].rule = pricing[l].link /\ Reaches(task[h], l))
  PROVE  FinalsAreSound'
<1>1. FinalsAreSound
  BY DEF PricesInv
<1>2. CASE Syncs(t) /\ ~t.alone
  BY <1>2 DEF FinalsAreSound, Messy, Syncs
<1>3. CASE Listings \subseteq disturbed'
  BY <1>3 DEF FinalsAreSound
<1>4. CASE ~(Syncs(t) /\ ~t.alone) /\ ~(Listings \subseteq disturbed')
  <2>1. CASE Messy
    <3>1. PICK g \in Handlers : Syncs(task[g]) /\ ~task[g].alone
      BY <2>1 DEF Messy
    <3>2. g # h
      BY <1>4, <3>1
    <3>3. QED
      BY <3>1, <3>2 DEF FinalsAreSound, Messy, Syncs
  <2>2. CASE ~Messy
    <3>1. ASSUME NEW l \in Listings \ disturbed'
          PROVE  \/ FollowsRule(l)'
                 \/ \E g \in Handlers : task'[g].rule = pricing'[l].link /\ Reaches(task[g], l)'
      <4>1. CASE FollowsRule(l)'
        BY <4>1
      <4>2. CASE t.rule = pricing'[l].link /\ Reaches(t, l)
        BY <4>2 DEF Reaches, Syncs
      <4>3. CASE /\ pricing'[l].link = pricing[l].link /\ ~FollowsRule(l)
                 /\ ~(task[h].rule = pricing[l].link /\ Reaches(task[h], l))
        <5>1. PICK g \in Handlers : task[g].rule = pricing[l].link /\ Reaches(task[g], l)
          BY <1>1, <2>2, <4>3 DEF FinalsAreSound
        <5>2. g # h
          BY <4>3, <5>1
        <5>3. QED
          BY <4>3, <5>1, <5>2 DEF Reaches, Syncs
      <4>4. QED
        BY <1>4, <4>1, <4>2, <4>3
    <3>2. QED
      BY <3>1 DEF FinalsAreSound
  <2>3. QED
    BY <2>1, <2>2
<1>5. QED
  BY <1>2, <1>3, <1>4

\* Displays stay sound while the rate does, and no change of the rate ends.
LEMMA DisplaysStay ==
  ASSUME PricesInv, NEW h \in Handlers, \A g \in Handlers \ {h} : task'[g] = task[g],
         task[h].pc # "display", disturbed \subseteq disturbed', rate' = rate,
         \A l \in Listings : \/ pricing'[l] = pricing[l]
                             \/ /\ pricing'[l].currency = "RWF"
                                /\ pricing'[l].display = pricing'[l].final
  PROVE  DisplaysAreSound'
<1>1. \A g \in Handlers : task[g].pc = "display" => task'[g].pc = "display"
  OBVIOUS
<1>2. ASSUME NEW l \in Listings
      PROVE  /\ pricing'[l].currency = "RWF" => pricing'[l].display = pricing'[l].final
             /\ pricing'[l].currency = "USD" =>
                  \/ pricing'[l].display = P!UsdtToRwf(pricing'[l].final, rate')
                  \/ "rate" \in disturbed' \/ \E g \in Handlers : task'[g].pc = "display"
  <2>1. CASE pricing'[l] = pricing[l]
    BY <1>1, <2>1 DEF PricesInv, DisplaysAreSound
  <2>2. CASE pricing'[l].currency = "RWF" /\ pricing'[l].display = pricing'[l].final
    BY <2>2
  <2>3. QED
    BY <2>1, <2>2
<1>3. QED
  BY <1>2 DEF DisplaysAreSound

\* Listing l follows its rule as long as its row, its channel and the rule stay.
LEMMA FollowsStays ==
  ASSUME NEW l \in Listings, PricesTyped, pricing'[l] = pricing[l], type'[l] = type[l],
         priced'[l] = priced[l], pricing[l].link # None => rule'[pricing[l].link] = rule[pricing[l].link],
         FollowsRule(l)
  PROVE  FollowsRule(l)'
  BY DEF FollowsRule, P!PriceOf

\* Handler h writes the price of rule r into the row of listing l, computed for channel c if
\* computed says so.
RowPriced(h, l, r, given, c, amounts, discount, final, computed) ==
  /\ pricing' = [pricing EXCEPT ![l] =
       [currency |-> "RWF", amount |-> amounts, discount |-> discount,
        link |-> IF given THEN r ELSE pricing[l].link, final |-> final, display |-> final]]
  /\ priced' = [priced EXCEPT ![l] = IF computed THEN r ELSE None]
  /\ computed => /\ amounts[P!Column(c)] \in Int
                 /\ final = P!CalculatePrice(c, amounts[P!Column(c)], task[h].terms, discount)

\* A listing gets the row of a price computed for channel c: it follows its rule, if the terms
\* used are those of the rule, and c is the channel the listing has after it.
LEMMA PricedRowKeeps ==
  ASSUME PricesInv, NEW h \in Handlers, NEW l \in Listings, NEW r \in Rules, NEW given \in BOOLEAN,
         NEW c \in P!SellerType, NEW amounts \in PriceAmounts, NEW discount \in Int,
         NEW final \in Int, NEW computed \in BOOLEAN, task[h].terms \in Terms,
         RowPriced(h, l, r, given, c, amounts, discount, final, computed),
         type' \in [Listings -> P!SellerType], country' \in [Listings -> P!Countries],
         \A k \in Listings \ {l} : type'[k] = type[k], UNCHANGED <<rule, rate>>
  PROVE  /\ PricesTyped'
         /\ \A k \in Listings \ {l} : pricing'[k] = pricing[k] /\ (FollowsRule(k) => FollowsRule(k)')
         /\ pricing'[l].currency = "RWF" /\ pricing'[l].display = pricing'[l].final
         /\ pricing'[l].link = IF given THEN r ELSE pricing[l].link
         /\ (~computed \/ (type'[l] = c /\ task[h].terms = rule[r].terms)) => FollowsRule(l)'
<1>1. PricesTyped
  BY DEF PricesInv
<1>2. PICK row \in PriceRow :
        row = [currency |-> "RWF", amount |-> amounts, discount |-> discount,
               link |-> IF given THEN r ELSE pricing[l].link, final |-> final, display |-> final]
  <2>1. (IF given THEN r ELSE pricing[l].link) \in Rules \cup {None}
    BY <1>1 DEF PricesTyped, PriceRow
  <2>2. QED
    BY <2>1 DEF PriceRow
<1>3. PICK s \in Rules \cup {None} : s = IF computed THEN r ELSE None
  OBVIOUS
<1>4. /\ row.currency = "RWF" /\ row.amount = amounts /\ row.discount = discount
      /\ row.link = (IF given THEN r ELSE pricing[l].link) /\ row.final = final
      /\ row.display = final
  BY <1>2
<1>5. /\ pricing' \in [Listings -> PriceRow] /\ priced' \in [Listings -> Rules \cup {None}]
      /\ pricing'[l] = row /\ priced'[l] = s
      /\ \A k \in Listings \ {l} : pricing'[k] = pricing[k] /\ priced'[k] = priced[k]
  <2>1. pricing' = [pricing EXCEPT ![l] = row] /\ priced' = [priced EXCEPT ![l] = s]
    BY <1>2, <1>3 DEF RowPriced
  <2>2. QED
    BY <1>1, <2>1 DEF PricesTyped
<1>6. PricesTyped'
  BY <1>1, <1>4, <1>5 DEF PricesTyped
<1>7. ASSUME NEW k \in Listings \ {l}, FollowsRule(k)
      PROVE  FollowsRule(k)'
  BY <1>1, <1>5, <1>7, FollowsStays
<1>8. ASSUME ~computed \/ (type'[l] = c /\ task[h].terms = rule[r].terms)
      PROVE  FollowsRule(l)'
  <2>1. CASE ~computed
    BY <1>3, <1>5, <2>1 DEF FollowsRule
  <2>2. CASE computed /\ type'[l] = c /\ task[h].terms = rule[r].terms
    <3>1. amounts[P!Column(c)] \in Int /\ amounts[P!Column(c)] # None
      BY <2>2, OfferBounds DEF RowPriced
    <3>2. P!AmountOf(row, c) = amounts[P!Column(c)]
      BY <1>4, <3>1 DEF P!AmountOf
    <3>3. /\ final = P!CalculatePrice(c, P!AmountOf(row, c), rule[r].terms, discount)
          /\ s = r /\ rule'[r] = rule[r]
      BY <1>3, <2>2, <3>2 DEF RowPriced
    <3>4. P!PriceOf(l, r)' = P!CalculatePrice(c, P!AmountOf(row, c), rule[r].terms, discount)
      BY <1>4, <1>5, <2>2, <3>3 DEF P!PriceOf, P!AmountOf
    <3>5. QED
      BY <1>4, <1>5, <3>3, <3>4 DEF FollowsRule
  <2>3. QED
    BY <1>8, <2>1, <2>2
<1>9. QED
  BY <1>4, <1>5, <1>6, <1>7, <1>8

\* A listing is given a price.
LEMMA PricedByKeeps ==
  ASSUME PricesInv, NEW h \in Handlers, NEW l \in Listings, NEW r \in Rules, NEW given \in BOOLEAN,
         NEW c \in P!SellerType, NEW input \in Int, NEW discount \in Int, task[h].terms \in Terms,
         P!PricedBy(h, l, c, r, given, input, discount),
         type' \in [Listings -> P!SellerType], country' \in [Listings -> P!Countries],
         \A k \in Listings \ {l} : type'[k] = type[k], UNCHANGED <<rule, rate>>
  PROVE  /\ PricesTyped'
         /\ \A k \in Listings \ {l} : pricing'[k] = pricing[k] /\ (FollowsRule(k) => FollowsRule(k)')
         /\ pricing'[l].currency = "RWF" /\ pricing'[l].display = pricing'[l].final
         /\ pricing'[l].link = IF given THEN r ELSE pricing[l].link
         /\ type'[l] = c /\ task[h].terms = rule[r].terms => FollowsRule(l)'
<1>1. PricesTyped
  BY DEF PricesInv
<1>2. PICK amounts \in PriceAmounts :
        amounts = P!AmountsWith(l, c, input) /\ amounts[P!Column(c)] = input
  BY <1>1, AmountsType
<1>3. PICK final \in Int : final = P!CalculatePrice(c, input, task[h].terms, discount)
  BY CalculatePriceType
<1>4. PICK computed \in BOOLEAN : computed = TRUE
  OBVIOUS
<1>5. priced' = [priced EXCEPT ![l] = IF computed THEN r ELSE None]
  BY <1>4 DEF P!PricedBy
<1>6. pricing' = [pricing EXCEPT ![l] =
        [currency |-> "RWF", amount |-> amounts, discount |-> discount,
         link |-> IF given THEN r ELSE pricing[l].link, final |-> final, display |-> final]]
  BY <1>1, <1>2, <1>3 DEF P!PricedBy, PricesTyped
<1>7. RowPriced(h, l, r, given, c, amounts, discount, final, computed)
  BY <1>2, <1>3, <1>5, <1>6 DEF RowPriced
<1>8. type'[l] = c /\ task[h].terms = rule[r].terms => FollowsRule(l)'
  BY <1>7, PricedRowKeeps
<1>9. QED
  BY <1>7, <1>8, PricedRowKeeps

\* What handler h holds changes, and nothing else, while no rule is being updated by it.
LEMMA PriceContinuePreservesInv ==
  ASSUME PricesInv, NEW h \in Handlers, NEW t \in PriceTask, P!Continue(h, t), OnOne(task[h]),
         t.pc = "idle" \/ OnOne(t), t.on \subseteq task[h].on,
         t.alone => task[h].alone \/ t.on = {},
         PriceShape(t), t.alone => PriceCurrent(t)
  PROVE  PricesInv'
<1>1. PricesTyped /\ DisplaysAreSound
  BY DEF PricesInv
<1>2. /\ UNCHANGED <<type, country, rule, pricing, rate, priced, disturbed>>
      /\ task' = [task EXCEPT ![h] = t]
  BY DEF P!Continue, P!listings
<1>3. t.alone => PriceCurrent(t)'
  BY <1>2 DEF PriceCurrent
<1>4. /\ task' \in [Handlers -> PriceTask] /\ task'[h] = t
      /\ \A g \in Handlers \ {h} : task'[g] = task[g]
      /\ PriceTasksAreSound' /\ PriceTasksMeet'
  BY <1>2, <1>3, PriceTasksStay
<1>5. PricesTyped'
  BY <1>1, <1>2 DEF PricesTyped
<1>6. FinalsAreSound'
  <2>1. ~Syncs(task[h]) /\ ~Syncs(t)
    BY DEF Syncs, OnOne
  <2>2. \A l \in Listings : FollowsRule(l) => FollowsRule(l)'
    BY <1>1, <1>2, FollowsStays
  <2>3. QED
    BY <1>2, <1>4, <2>1, <2>2, FinalsStay DEF Reaches
<1>7. DisplaysAreSound'
  <2>1. task[h].pc # "display"
    BY DEF OnOne
  <2>2. QED
    BY <1>1, <1>2, <1>4, <2>1, DisplaysStay
<1>8. QED
  BY <1>4, <1>5, <1>6, <1>7 DEF PricesInv

LEMMA FindRulePreservesInv ==
  ASSUME PricesInv, NEW h \in Handlers, P!FindRule(h)
  PROVE  PricesInv'
<1>1. /\ task[h] \in PriceTask /\ task[h].pc = "rule" /\ PriceShape(task[h]) /\ PricesTyped
      /\ task[h].alone => PriceCurrent(task[h])
  BY DEF P!FindRule, P!At, PricesInv, PriceTasksAreSound
<1>2. OnOne(task[h])
  BY <1>1 DEF OnOne
<1>3. ASSUME NEW r \in Rules,
             P!Continue(h, [task[h] EXCEPT !.pc = "price", !.rule = r, !.terms = rule[r].terms])
      PROVE  PricesInv'
  <2>1. rule[r].terms \in Terms
    BY <1>1 DEF PricesTyped, P!RuleRows
  <2>2. PICK t \in PriceTask :
          t = [task[h] EXCEPT !.pc = "price", !.rule = r, !.terms = rule[r].terms]
    BY <1>1, <2>1, PriceDomains DEF PriceTask
  <2>3. /\ t.pc = "price" /\ t.rule = r /\ t.terms = rule[r].terms /\ t.on = task[h].on
        /\ t.row = task[h].row /\ t.listing = task[h].listing /\ t.alone = task[h].alone
        /\ t.type = task[h].type /\ t.country = task[h].country /\ t.names = task[h].names
    BY <1>1, <2>2 DEF PriceTask
  <2>4. PriceShape(t) /\ (t.alone => PriceCurrent(t)) /\ OnOne(t)
    BY <1>1, <2>1, <2>3 DEF PriceShape, PriceCurrent, Syncs, OnOne
  <2>5. QED
    BY <1>2, <1>3, <2>2, <2>3, <2>4, PriceContinuePreservesInv
<1>4. CASE task[h].given
  <2>1. task[h].rule \in Rules
    BY <1>1, <1>4 DEF PriceShape
  <2>2. [task[h] EXCEPT !.pc = "price", !.terms = rule[task[h].rule].terms]
          = [task[h] EXCEPT !.pc = "price", !.rule = task[h].rule,
                            !.terms = rule[task[h].rule].terms]
    BY <1>1 DEF PriceTask
  <2>3. P!Continue(h, [task[h] EXCEPT !.pc = "price", !.terms = rule[task[h].rule].terms])
    BY <1>4 DEF P!FindRule
  <2>4. QED
    BY <1>3, <2>1, <2>2, <2>3
<1>5. CASE ~task[h].given
  <2>1. CASE P!Continue(h, P!Idle)
    BY <1>2, <2>1, PriceIdle, PriceContinuePreservesInv
  <2>2. ASSUME NEW r \in P!ActiveRules(task[h].type, task[h].country),
               P!Continue(h, [task[h] EXCEPT !.pc = "price", !.rule = r, !.terms = rule[r].terms])
        PROVE  PricesInv'
    <3>1. r \in Rules
      BY DEF P!ActiveRules, P!Wildcards, P!RulesFor
    <3>2. QED
      BY <1>3, <2>2, <3>1
  <2>3. QED
    BY <1>5, <2>1, <2>2 DEF P!FindRule
<1>6. QED
  BY <1>4, <1>5

\* Handler h ends with a price written for listing l.
LEMMA PriceWrittenPreservesInv ==
  ASSUME PricesInv, NEW h \in Handlers, NEW l \in Listings, task[h].pc = "price",
         task[h].on = {l}, task' = [task EXCEPT ![h] = P!Idle], rule' = rule, rate' = rate,
         disturbed' = IF task[h].alone THEN disturbed ELSE disturbed \cup {l},
         PricesTyped', \A k \in Listings \ {l} : type'[k] = type[k],
         \A k \in Listings \ {l} : pricing'[k] = pricing[k] /\ (FollowsRule(k) => FollowsRule(k)'),
         pricing'[l].currency = "RWF", pricing'[l].display = pricing'[l].final,
         task[h].alone => FollowsRule(l)'
  PROVE  PricesInv'
<1>1. P!Idle.on \subseteq task[h].on
  BY PriceIdle
<1>2. \A r \in Rules : rule'[r].terms = rule[r].terms
  OBVIOUS
<1>3. /\ task' \in [Handlers -> PriceTask] /\ task'[h] = P!Idle
      /\ \A g \in Handlers \ {h} : task'[g] = task[g]
      /\ PriceTasksAreSound' /\ PriceTasksMeet'
  <2>1. \A k \in Listings \ task[h].on : pricing'[k].link = pricing[k].link /\ type'[k] = type[k]
    OBVIOUS
  <2>2. QED
    BY <1>1, <1>2, <2>1, PriceIdle, PriceTasksStay
<1>4. FinalsAreSound'
  <2>1. ~Syncs(task[h])
    BY DEF Syncs
  <2>2. disturbed \subseteq disturbed' /\ (l \notin disturbed' => FollowsRule(l)')
    OBVIOUS
  <2>3. QED
    BY <1>3, <2>1, <2>2, PriceIdle, FinalsStay DEF Reaches
<1>5. DisplaysAreSound'
  BY <1>3, DisplaysStay
<1>6. QED
  BY <1>3, <1>4, <1>5 DEF PricesInv

\* The channel and the country of one listing after an edit that names some of them.
LEMMA NamedPlace ==
  ASSUME PricesTyped, NEW l \in Listings, NEW t \in PriceTask, t.type \in P!SellerType,
         t.country \in P!Countries,
         type' = IF "type" \in t.names THEN [type EXCEPT ![l] = t.type] ELSE type,
         country' = IF "country" \in t.names THEN [country EXCEPT ![l] = t.country] ELSE country
  PROVE  /\ type' \in [Listings -> P!SellerType] /\ country' \in [Listings -> P!Countries]
         /\ \A k \in Listings \ {l} : type'[k] = type[k]
         /\ type'[l] = IF "type" \in t.names THEN t.type ELSE type[l]
  BY DEF PricesTyped

LEMMA CommitPricePreservesInv ==
  ASSUME PricesInv, NEW h \in Handlers, P!CommitPrice(h)
  PROVE  PricesInv'
<1>1. /\ task[h] \in PriceTask /\ task[h].pc = "price" /\ PriceShape(task[h])
      /\ task[h].alone => PriceCurrent(task[h])
  BY DEF P!CommitPrice, P!At, PricesInv, PriceTasksAreSound
<1>2. PICK l \in Listings : l = task[h].listing
  BY <1>1 DEF PriceShape, OnOne
<1>3. /\ task[h].on = {l} /\ task[h].rule \in Rules /\ task[h].terms \in Terms
      /\ task[h].given \in BOOLEAN /\ task[h].input \in Int /\ task[h].discount \in Int
      /\ task[h].type \in P!SellerType /\ task[h].country \in P!Countries
  BY <1>1, <1>2 DEF PriceShape, PriceTask, OnOne
<1>4. /\ UNCHANGED <<rule, rate>> /\ task' = [task EXCEPT ![h] = P!Idle]
      /\ P!PricedBy(h, l, task[h].type, task[h].rule, task[h].given, task[h].input,
                    task[h].discount)
      /\ disturbed' = IF task[h].alone THEN disturbed ELSE disturbed \cup {l}
      /\ type' = IF "type" \in task[h].names THEN [type EXCEPT ![l] = task[h].type] ELSE type
      /\ country' = IF "country" \in task[h].names THEN [country EXCEPT ![l] = task[h].country]
                                                   ELSE country
  BY <1>2 DEF P!CommitPrice, P!Finish, P!Disturb
<1>5. /\ type' \in [Listings -> P!SellerType] /\ country' \in [Listings -> P!Countries]
      /\ \A k \in Listings \ {l} : type'[k] = type[k]
      /\ type'[l] = IF "type" \in task[h].names THEN task[h].type ELSE type[l]
  BY <1>1, <1>3, <1>4, NamedPlace DEF PricesInv
<1>6. /\ PricesTyped'
      /\ \A k \in Listings \ {l} : pricing'[k] = pricing[k] /\ (FollowsRule(k) => FollowsRule(k)')
      /\ pricing'[l].currency = "RWF" /\ pricing'[l].display = pricing'[l].final
      /\ type'[l] = task[h].type /\ task[h].terms = rule[task[h].rule].terms => FollowsRule(l)'
  BY <1>3, <1>4, <1>5, PricedByKeeps
<1>7. ASSUME task[h].alone
      PROVE  FollowsRule(l)'
  BY <1>1, <1>2, <1>5, <1>6, <1>7 DEF PriceCurrent
<1>8. QED
  BY <1>1, <1>3, <1>4, <1>5, <1>6, <1>7, PriceWrittenPreservesInv

LEMMA CommitMigrationPreservesInv ==
  ASSUME PricesInv, NEW h \in Handlers, P!CommitMigration(h)
  PROVE  PricesInv'
<1>1. /\ task[h] \in PriceTask /\ task[h].pc = "price" /\ PriceShape(task[h])
      /\ task[h].alone => PriceCurrent(task[h])
      /\ task[h].row # None /\ PricesTyped
  BY DEF P!CommitMigration, P!At, PricesInv, PriceTasksAreSound
<1>2. PICK l \in Listings : l = task[h].listing
  BY <1>1 DEF PriceShape, OnOne
<1>3. PICK c \in P!SellerType : c = task[h].type
  BY <1>1 DEF PriceShape, OnOne
<1>4. PICK row \in PriceRow : row = task[h].row
  BY <1>1 DEF PriceTask, OneRow
<1>5. /\ task[h].on = {l} /\ task[h].rule \in Rules /\ task[h].terms \in Terms
      /\ task[h].given \in BOOLEAN /\ task[h].input \in Int /\ task[h].discount \in Int
  BY <1>1, <1>2 DEF PriceShape, PriceTask, OnOne
<1>6. PICK other \in {"base", "fob", "payout"} :
        other = (IF c = "UZA_RWANDA_STOCK" THEN "fob" ELSE "base") /\ other # P!Column(c)
  BY ColumnIs
<1>7. PICK amounts \in PriceAmounts :
        /\ amounts = IF row.currency = "RWF" /\ row.amount[other] # None
                       THEN [P!AmountsWith(l, c, task[h].input) EXCEPT ![other] = row.amount[other]]
                       ELSE P!AmountsWith(l, c, task[h].input)
        /\ amounts[P!Column(c)] = task[h].input
  <2>1. /\ P!AmountsWith(l, c, task[h].input) \in PriceAmounts
        /\ P!AmountsWith(l, c, task[h].input)[P!Column(c)] = task[h].input
    BY <1>1, <1>5, AmountsType
  <2>2. row.amount[other] \in Int \cup {None}
    BY <1>6 DEF PriceRow, PriceAmounts
  <2>3. /\ [P!AmountsWith(l, c, task[h].input) EXCEPT ![other] = row.amount[other]] \in PriceAmounts
        /\ [P!AmountsWith(l, c, task[h].input) EXCEPT ![other] = row.amount[other]][P!Column(c)]
             = task[h].input
    <3> HIDE DEF P!AmountsWith
    <3>1. CASE other = "base"
      BY <1>6, <2>1, <2>2, <3>1, ColumnIs DEF PriceAmounts
    <3>2. CASE other = "fob"
      BY <1>6, <2>1, <2>2, <3>2, ColumnIs DEF PriceAmounts
    <3>3. QED
      BY <1>6, <3>1, <3>2
  <2>4. QED
    BY <2>1, <2>3
<1>8. PICK keeps \in BOOLEAN : keeps = (c = "UZA_RWANDA_STOCK" /\ row.currency = "RWF")
  OBVIOUS
<1>9. PICK computed \in BOOLEAN : computed = ~keeps
  OBVIOUS
<1>10. PICK final \in Int :
         final = IF keeps THEN row.final
                 ELSE P!CalculatePrice(c, task[h].input, task[h].terms, task[h].discount)
  <2>1. row.final \in Int
    BY DEF PriceRow
  <2>2. P!CalculatePrice(c, task[h].input, task[h].terms, task[h].discount) \in Int
    BY <1>5, CalculatePriceType
  <2>3. QED
    BY <2>1, <2>2
<1>11. /\ UNCHANGED <<type, country, rule, rate>> /\ task' = [task EXCEPT ![h] = P!Idle]
       /\ disturbed' = IF task[h].alone THEN disturbed ELSE disturbed \cup {l}
  BY <1>2 DEF P!CommitMigration, P!Finish, P!Disturb
<1>12. pricing' = [pricing EXCEPT ![l] =
         [currency |-> "RWF", amount |-> amounts, discount |-> task[h].discount,
          link |-> IF task[h].given THEN task[h].rule ELSE pricing[l].link,
          final |-> final, display |-> final]]
  <2>1. (IF keeps THEN row.final
         ELSE P!CalculatePrice(c, task[h].input, task[h].terms, task[h].discount)) = final
    BY <1>10
  <2>2. QED
    BY <1>1, <1>2, <1>3, <1>4, <1>6, <1>7, <1>8, <2>1 DEF P!CommitMigration, PricesTyped
<1>13. priced' = [priced EXCEPT ![l] = IF computed THEN task[h].rule ELSE None]
  BY <1>2, <1>3, <1>4, <1>8, <1>9 DEF P!CommitMigration
<1>14. computed => /\ amounts[P!Column(c)] \in Int
                   /\ final = P!CalculatePrice(c, amounts[P!Column(c)], task[h].terms,
                                               task[h].discount)
  BY <1>5, <1>7, <1>9, <1>10
<1>15. /\ type' \in [Listings -> P!SellerType] /\ country' \in [Listings -> P!Countries]
       /\ \A k \in Listings \ {l} : type'[k] = type[k]
  BY <1>1, <1>11 DEF PricesTyped
<1>16. RowPriced(h, l, task[h].rule, task[h].given, c, amounts, task[h].discount, final, computed)
  BY <1>12, <1>13, <1>14 DEF RowPriced
<1>17. /\ PricesTyped'
       /\ \A k \in Listings \ {l} : pricing'[k] = pricing[k] /\ (FollowsRule(k) => FollowsRule(k)')
       /\ pricing'[l].currency = "RWF" /\ pricing'[l].display = pricing'[l].final
       /\ (~computed \/ (type'[l] = c /\ task[h].terms = rule[task[h].rule].terms))
            => FollowsRule(l)'
  BY <1>5, <1>11, <1>15, <1>16, PricedRowKeeps
<1>18. ASSUME task[h].alone
       PROVE  FollowsRule(l)'
  <2>1. "type" \notin task[h].names
    BY <1>1 DEF PriceShape, OnOne
  <2>2. QED
    BY <1>1, <1>2, <1>3, <1>11, <1>17, <1>18, <2>1 DEF PriceCurrent
<1>19. QED
  BY <1>1, <1>5, <1>11, <1>15, <1>17, <1>18, PriceWrittenPreservesInv

\* Handler h changes the channel and the country of listing l, and is at t after it.  Whoever
\* had computed its price knows of it, and the price is of another channel.
LEMMA ChannelPreservesInv ==
  ASSUME PricesInv, NEW h \in Handlers, NEW l \in Listings, NEW t \in PriceTask,
         task[h].on = {l}, OnOne(task[h]), task' = [task EXCEPT ![h] = t], t.pc = "idle" \/ OnOne(t),
         t.on \subseteq task[h].on, t.alone => task[h].alone \/ t.on = {},
         PriceShape(t), t.alone => PriceCurrent(t)', UNCHANGED <<rule, pricing, rate>>,
         disturbed \subseteq disturbed',
         type' \in [Listings -> P!SellerType], country' \in [Listings -> P!Countries],
         \A k \in Listings \ {l} : type'[k] = type[k],
         \/ type' = type /\ priced' = priced
         \/ priced' = [priced EXCEPT ![l] = None]
  PROVE  PricesInv'
<1>1. PricesTyped
  BY DEF PricesInv
<1>2. /\ task' \in [Handlers -> PriceTask] /\ task'[h] = t
      /\ \A g \in Handlers \ {h} : task'[g] = task[g]
      /\ PriceTasksAreSound' /\ PriceTasksMeet'
  <2>1. \A k \in Listings \ task[h].on : pricing'[k].link = pricing[k].link /\ type'[k] = type[k]
    OBVIOUS
  <2>2. \A r \in Rules : rule'[r].terms = rule[r].terms
    OBVIOUS
  <2>3. QED
    BY <2>1, <2>2, PriceTasksStay
<1>3. PricesTyped'
  BY <1>1 DEF PricesTyped
<1>4. \A k \in Listings : FollowsRule(k) => FollowsRule(k)'
  <2>1. CASE type' = type /\ priced' = priced
    BY <1>1, <2>1, FollowsStays
  <2>2. CASE priced' = [priced EXCEPT ![l] = None]
    <3>1. FollowsRule(l)'
      BY <1>1, <2>2 DEF FollowsRule, PricesTyped
    <3>2. \A k \in Listings \ {l} : priced'[k] = priced[k]
      BY <1>1, <2>2 DEF PricesTyped
    <3>3. \A k \in Listings \ {l} : FollowsRule(k) => FollowsRule(k)'
      BY <1>1, <3>2, FollowsStays
    <3>4. QED
      BY <3>1, <3>3
  <2>3. QED
    BY <2>1, <2>2
<1>5. FinalsAreSound'
  <2>1. ~Syncs(task[h]) /\ ~Syncs(t)
    BY DEF Syncs, OnOne
  <2>2. QED
    BY <1>2, <1>4, <2>1, FinalsStay DEF Reaches
<1>6. DisplaysAreSound'
  <2>1. task[h].pc # "display"
    BY DEF OnOne
  <2>2. QED
    BY <1>2, <2>1, DisplaysStay
<1>7. QED
  BY <1>2, <1>3, <1>5, <1>6 DEF PricesInv

LEMMA CommitRelabelPreservesInv ==
  ASSUME PricesInv, NEW h \in Handlers, P!CommitRelabel(h)
  PROVE  PricesInv'
<1>1. task[h] \in PriceTask /\ task[h].pc = "relabel" /\ PriceShape(task[h]) /\ PricesTyped
  BY DEF P!CommitRelabel, P!At, PricesInv, PriceTasksAreSound
<1>2. PICK l \in Listings : l = task[h].listing
  BY <1>1 DEF PriceShape, OnOne
<1>3. /\ task[h].on = {l} /\ OnOne(task[h])
      /\ task[h].type \in P!SellerType /\ task[h].country \in P!Countries
  BY <1>1, <1>2 DEF PriceShape, OnOne
<1>4. /\ task' = [task EXCEPT ![h] = P!Idle] /\ UNCHANGED <<rule, pricing, rate>>
      /\ disturbed \subseteq disturbed'
      /\ type' = IF "type" \in task[h].names THEN [type EXCEPT ![l] = task[h].type] ELSE type
      /\ country' = IF "country" \in task[h].names THEN [country EXCEPT ![l] = task[h].country]
                                                   ELSE country
      /\ priced' = IF type' = type THEN priced ELSE [priced EXCEPT ![l] = None]
  BY <1>2 DEF P!CommitRelabel, P!Finish, P!Disturb
<1>5. /\ type' \in [Listings -> P!SellerType] /\ country' \in [Listings -> P!Countries]
      /\ \A k \in Listings \ {l} : type'[k] = type[k]
  BY <1>1, <1>3, <1>4, NamedPlace
<1>6. P!Idle.on \subseteq task[h].on
  BY PriceIdle
<1>7. \/ type' = type /\ priced' = priced
      \/ priced' = [priced EXCEPT ![l] = None]
  BY <1>4
<1>8. QED
  BY <1>3, <1>4, <1>5, <1>6, <1>7, PriceIdle, ChannelPreservesInv

LEMMA CommitMovePreservesInv ==
  ASSUME PricesInv, NEW h \in Handlers, P!CommitMove(h)
  PROVE  PricesInv'
<1>1. task[h] \in PriceTask /\ task[h].pc = "move" /\ PriceShape(task[h]) /\ PricesTyped
  BY DEF P!CommitMove, P!At, PricesInv, PriceTasksAreSound
<1>2. PICK l \in Listings : l = task[h].listing
  BY <1>1 DEF PriceShape, OnOne
<1>3. /\ task[h].on = {l} /\ OnOne(task[h])
      /\ task[h].type \in P!SellerType /\ task[h].country \in P!Countries
  BY <1>1, <1>2 DEF PriceShape, OnOne
<1>4. PICK t \in PriceTask : t = [task[h] EXCEPT !.pc = "migrate"]
  BY <1>1, PriceDomains DEF PriceTask
<1>5. /\ t.pc = "migrate" /\ t.names = task[h].names /\ t.on = task[h].on /\ t.alone = task[h].alone /\ t.listing = l
      /\ t.type = task[h].type /\ t.country = task[h].country
  BY <1>1, <1>2, <1>4 DEF PriceTask
<1>6. /\ task' = [task EXCEPT ![h] = t] /\ UNCHANGED <<rule, pricing, rate, disturbed>>
      /\ type' = [type EXCEPT ![l] = task[h].type]
      /\ country' = [country EXCEPT ![l] = task[h].country]
      /\ priced' = [priced EXCEPT ![l] = None]
  BY <1>1, <1>2, <1>4 DEF P!CommitMove, PricesInv
<1>7. /\ type' \in [Listings -> P!SellerType] /\ country' \in [Listings -> P!Countries]
      /\ type'[l] = task[h].type /\ \A k \in Listings \ {l} : type'[k] = type[k]
  BY <1>1, <1>3, <1>6 DEF PricesTyped
<1>8. OnOne(t) /\ PriceShape(t)
  BY <1>1, <1>3, <1>5 DEF PriceShape, OnOne, Syncs
<1>9. PriceCurrent(t)'
  BY <1>5, <1>7 DEF PriceCurrent
<1>10. disturbed \subseteq disturbed' /\ t.on \subseteq task[h].on
  BY <1>5, <1>6
<1>11. UNCHANGED <<rule, pricing, rate>>
  BY <1>6
<1>12. t.alone => task[h].alone \/ t.on = {}
  BY <1>5
<1>13. priced' = [priced EXCEPT ![l] = None] /\ task' = [task EXCEPT ![h] = t]
  BY <1>6
<1>14. QED
  BY <1>3, <1>7, <1>8, <1>9, <1>10, <1>11, <1>12, <1>13, ChannelPreservesInv

LEMMA ReadForMigrationPreservesInv ==
  ASSUME PricesInv, NEW h \in Handlers, P!ReadForMigration(h)
  PROVE  PricesInv'
<1>1. /\ task[h] \in PriceTask /\ task[h].pc = "migrate" /\ PriceShape(task[h]) /\ PricesTyped
      /\ task[h].alone => PriceCurrent(task[h])
  BY DEF P!ReadForMigration, P!At, PricesInv, PriceTasksAreSound
<1>2. /\ task[h].listing \in Listings /\ task[h].type \in P!SellerType /\ OnOne(task[h])
  BY <1>1 DEF PriceShape, OnOne
<1>3. PICK row \in PriceRow : row = pricing[task[h].listing]
  BY <1>1, <1>2 DEF PricesTyped
<1>4. PICK input \in Int : input = P!MigratedInput(row, task[h].type)
  <2>1. \A c \in P!SellerType : row.amount[P!Column(c)] \in Int \cup {None}
    BY ColumnOf
  <2>2. /\ row.amount.fob \in Int \cup {None} /\ row.amount.base \in Int \cup {None}
        /\ row.display \in Int /\ row.final \in Int /\ rate \in Int
    BY <1>1, OfferBounds DEF PriceRow, PriceAmounts, PricesTyped
  <2>3. \A n \in Int : P!UsdtToRwf(n, rate) \in Int
    BY <2>2, UsdtToRwfType
  <2> DEFINE dollars == CASE task[h].type = "UZA_RWANDA_STOCK" -> row.display
                          [] row.amount.fob # None -> row.amount.fob
                          [] row.amount.base # None -> row.amount.base
                          [] OTHER -> row.final
  <2>4. dollars \in Int
    <3>1. CASE task[h].type = "UZA_RWANDA_STOCK"
      BY <2>2, <3>1
    <3>2. CASE task[h].type # "UZA_RWANDA_STOCK"
      BY <2>2, <3>2
    <3>3. QED
      BY <3>1, <3>2
  <2>5. P!MigratedInput(row, task[h].type)
          = IF row.currency = "USD" THEN P!UsdtToRwf(dollars, rate)
            ELSE IF row.amount[P!Column(task[h].type)] # None
                   THEN row.amount[P!Column(task[h].type)] ELSE row.final
    BY DEF P!MigratedInput
  <2> HIDE DEF dollars
  <2>6. QED
    BY <1>2, <2>1, <2>2, <2>3, <2>4, <2>5
<1>5. PICK given \in BOOLEAN : given = (row.link # None)
  OBVIOUS
<1>6. row.link \in Rules \cup {None} /\ row.discount \in Int
  BY DEF PriceRow
<1>7. PICK t \in PriceTask :
        t = [task[h] EXCEPT !.pc = "rule", !.row = row, !.rule = row.link, !.given = given,
                            !.input = input, !.discount = row.discount]
  <2>1. PICK u \in PriceTask :
          u = [task[h] EXCEPT !.pc = "rule", !.row = row, !.rule = row.link]
    BY <1>1, <1>6, PriceDomains DEF PriceTask
  <2>2. [u EXCEPT !.given = given, !.input = input, !.discount = row.discount] \in PriceTask
    BY <1>6 DEF PriceTask
  <2>3. [u EXCEPT !.given = given, !.input = input, !.discount = row.discount]
          = [task[h] EXCEPT !.pc = "rule", !.row = row, !.rule = row.link, !.given = given,
                            !.input = input, !.discount = row.discount]
    BY <1>1, <2>1 DEF PriceTask
  <2>4. QED
    BY <2>2, <2>3
<1>8. /\ t.pc = "rule" /\ t.rule = row.link /\ t.given = given /\ t.on = task[h].on
      /\ t.listing = task[h].listing /\ t.alone = task[h].alone
      /\ t.type = task[h].type /\ t.country = task[h].country /\ t.names = task[h].names
  BY <1>1, <1>7 DEF PriceTask
<1>9. P!Continue(h, t)
  BY <1>3, <1>4, <1>5, <1>7 DEF P!ReadForMigration
<1>10. PriceShape(t) /\ (t.alone => PriceCurrent(t)) /\ OnOne(t)
  BY <1>1, <1>5, <1>6, <1>8 DEF PriceShape, PriceCurrent, Syncs, OnOne
<1>11. QED
  BY <1>2, <1>8, <1>9, <1>10, PriceContinuePreservesInv

LEMMA CommitUpdateRulePreservesInv ==
  ASSUME PricesInv, NEW h \in Handlers, P!CommitUpdateRule(h)
  PROVE  PricesInv'
<1>1. /\ task[h] \in PriceTask /\ task[h].pc = "update" /\ PriceShape(task[h]) /\ PricesTyped
      /\ task \in [Handlers -> PriceTask]
  BY DEF P!CommitUpdateRule, P!At, PricesInv, PriceTasksAreSound
<1>2. PICK r \in Rules : r = task[h].rule
  BY <1>1 DEF PriceShape
<1>3. task[h].new \in P!RuleRows /\ task[h].on = Listings
  BY <1>1 DEF PriceShape
<1>4. PICK t \in PriceTask : t = [task[h] EXCEPT !.pc = "list"]
  BY <1>1, PriceDomains DEF PriceTask
<1>5. /\ t.pc = "list" /\ t.on = Listings /\ t.rule = r /\ t.alone = task[h].alone
  BY <1>1, <1>2, <1>3, <1>4 DEF PriceTask
<1>6. PICK row \in P!RuleRows :
        row = [type |-> P!Written(task[h], "type"), country |-> P!Written(task[h], "country"),
               active |-> P!Written(task[h], "active"), terms |-> P!Written(task[h], "terms")]
  <2>1. rule[r] \in P!RuleRows
    BY <1>1 DEF PricesTyped
  <2>2. /\ P!Written(task[h], "type") \in Channels
        /\ P!Written(task[h], "country") \in Origins
        /\ P!Written(task[h], "active") \in BOOLEAN
        /\ P!Written(task[h], "terms") \in Terms
    BY <1>2, <1>3, <2>1 DEF P!Written, P!RuleRows
  <2>3. QED
    BY <2>2 DEF P!RuleRows
<1>7. /\ task' = [task EXCEPT ![h] = t]
      /\ UNCHANGED <<type, country, pricing, rate, priced, disturbed>>
      /\ rule' = [rule EXCEPT ![r] = row]
  BY <1>1, <1>2, <1>4, <1>6 DEF P!CommitUpdateRule, P!WriteRule, P!listings
<1>8. PriceShape(t) /\ PriceCurrent(t)'
  BY <1>2, <1>5 DEF PriceShape, PriceCurrent, Syncs, OnOne
<1>9. /\ task' \in [Handlers -> PriceTask] /\ task'[h] = t
      /\ \A g \in Handlers \ {h} : task'[g] = task[g]
      /\ PriceTasksAreSound' /\ PriceTasksMeet'
  BY <1>3, <1>5, <1>7, <1>8, PriceTasksStay
<1>10. rule' \in [Rules -> P!RuleRows] /\ \A s \in Rules \ {r} : rule'[s] = rule[s]
  BY <1>1, <1>7 DEF PricesTyped
<1>11. PricesTyped'
  BY <1>1, <1>7, <1>10 DEF PricesTyped
<1>12. FinalsAreSound'
  <2>1. ~Syncs(task[h])
    BY <1>1 DEF Syncs
  <2>2. ASSUME NEW l \in Listings
        PROVE  \/ FollowsRule(l)'
               \/ t.rule = pricing'[l].link /\ Reaches(t, l)
               \/ /\ pricing'[l].link = pricing[l].link /\ ~FollowsRule(l)
                  /\ ~(task[h].rule = pricing[l].link /\ Reaches(task[h], l))
    <3>1. CASE pricing[l].link = r
      BY <1>5, <1>7, <3>1 DEF Reaches, Syncs
    <3>2. CASE pricing[l].link # r
      <4>1. pricing[l].link \in Rules \cup {None}
        BY <1>1 DEF PricesTyped, PriceRow
      <4>2. pricing[l].link # None => rule'[pricing[l].link] = rule[pricing[l].link]
        BY <1>10, <3>2, <4>1
      <4>3. FollowsRule(l) => FollowsRule(l)'
        BY <1>1, <1>7, <4>2, FollowsStays
      <4>4. QED
        BY <1>7, <2>1, <4>3 DEF Reaches
    <3>3. QED
      BY <3>1, <3>2
  <2>3. QED
    BY <1>7, <1>9, <2>1, <2>2, FinalsStay
<1>13. DisplaysAreSound'
  BY <1>1, <1>7, <1>9, DisplaysStay
<1>14. QED
  BY <1>9, <1>11, <1>12, <1>13 DEF PricesInv

\* The update of a rule goes on, and changes no row.
LEMMA SyncContinuePreservesInv ==
  ASSUME PricesInv, NEW h \in Handlers, NEW t \in PriceTask, P!Continue(h, t),
         Syncs(task[h]), Syncs(t), t.rule = task[h].rule, t.alone = task[h].alone,
         PriceShape(t), t.alone => PriceCurrent(t),
         t.alone => \A l \in Listings :
           task[h].rule = pricing[l].link /\ Reaches(task[h], l) => Reaches(t, l) \/ FollowsRule(l)
  PROVE  PricesInv'
<1>1. PriceShape(task[h]) /\ PricesTyped
  BY DEF PricesInv, PriceTasksAreSound
<1>2. /\ UNCHANGED <<type, country, rule, pricing, rate, priced, disturbed>>
      /\ task' = [task EXCEPT ![h] = t]
  BY DEF P!Continue, P!listings
<1>3. t.on = task[h].on
  BY <1>1 DEF PriceShape, Syncs
<1>4. t.alone => PriceCurrent(t)'
  BY <1>2 DEF PriceCurrent
<1>5. /\ task' \in [Handlers -> PriceTask] /\ task'[h] = t
      /\ \A g \in Handlers \ {h} : task'[g] = task[g]
      /\ PriceTasksAreSound' /\ PriceTasksMeet'
  BY <1>2, <1>3, <1>4, PriceTasksStay
<1>6. PricesTyped'
  BY <1>1, <1>2 DEF PricesTyped
<1>7. FinalsAreSound'
  <2>1. \A l \in Listings : FollowsRule(l) => FollowsRule(l)'
    BY <1>1, <1>2, FollowsStays
  <2>2. CASE ~t.alone
    BY <1>2, <1>5, <2>2, FinalsStay
  <2>3. CASE t.alone
    BY <1>2, <1>5, <2>1, <2>3, FinalsStay
  <2>4. QED
    BY <2>2, <2>3
<1>8. DisplaysAreSound'
  <2>1. task[h].pc # "display"
    BY DEF Syncs
  <2>2. QED
    BY <1>2, <1>5, <2>1, DisplaysStay
<1>9. QED
  BY <1>5, <1>6, <1>7, <1>8 DEF PricesInv

LEMMA ListPricedPreservesInv ==
  ASSUME PricesInv, NEW h \in Handlers, P!ListPriced(h)
  PROVE  PricesInv'
<1>1. /\ task[h] \in PriceTask /\ task[h].pc = "list" /\ PriceShape(task[h]) /\ PricesTyped
  BY DEF P!ListPriced, P!At, PricesInv, PriceTasksAreSound
<1>2. PICK todo \in SUBSET Listings :
        todo = {l \in Listings : type[l] = rule[task[h].rule].type /\ pricing[l].currency = "RWF"}
  OBVIOUS
<1>3. PICK t \in PriceTask :
        t = [task[h] EXCEPT !.pc = "each", !.seen = pricing, !.types = type, !.todo = todo]
  BY <1>1, PriceDomains DEF PriceTask, PricesTyped
<1>4. /\ t.pc = "each" /\ t.seen = pricing /\ t.types = type /\ t.todo = todo /\ t.on = task[h].on
      /\ t.rule = task[h].rule /\ t.alone = task[h].alone
  BY <1>1, <1>3 DEF PriceTask
<1>5. P!Continue(h, t)
  BY <1>2, <1>3 DEF P!ListPriced
<1>6. Syncs(task[h]) /\ Syncs(t)
  BY <1>1, <1>4 DEF Syncs
<1>7. PriceShape(t) /\ PriceCurrent(t)
  BY <1>1, <1>4, <1>6 DEF PriceShape, PriceCurrent, PricesTyped, OnOne
<1>8. ASSUME NEW l \in Listings
      PROVE  task[h].rule = pricing[l].link => Reaches(t, l) \/ FollowsRule(l)
  <2>1. CASE l \in todo
    BY <1>4, <1>6, <2>1 DEF Reaches
  <2>2. CASE l \notin todo
    <3>1. priced[l] = None \/ type[l] # rule[task[h].rule].type
      BY <1>1, <1>2, <2>2 DEF PricesTyped
    <3>2. QED
      BY <3>1 DEF FollowsRule
  <2>3. QED
    BY <2>1, <2>2
<1>9. QED
  BY <1>4, <1>5, <1>6, <1>7, <1>8, SyncContinuePreservesInv

LEMMA PassOverPreservesInv ==
  ASSUME PricesInv, NEW h \in Handlers, NEW l \in Listings, P!PassOver(h, l)
  PROVE  PricesInv'
<1>1. /\ task[h] \in PriceTask /\ task[h].pc = "each" /\ l \in task[h].todo
      /\ PriceShape(task[h]) /\ (task[h].alone => PriceCurrent(task[h]))
  BY DEF P!PassOver, P!At, PricesInv, PriceTasksAreSound
<1>2. PICK todo \in SUBSET Listings : todo = task[h].todo \ {l}
  BY <1>1 DEF PriceTask
<1>3. PICK t \in PriceTask : t = [task[h] EXCEPT !.todo = todo]
  BY <1>1 DEF PriceTask
<1>4. /\ t.pc = "each" /\ t.seen = task[h].seen /\ t.todo = todo /\ t.on = task[h].on
      /\ t.types = task[h].types
      /\ t.rule = task[h].rule /\ t.alone = task[h].alone
  BY <1>1, <1>3 DEF PriceTask
<1>5. P!Continue(h, t)
  BY <1>1, <1>2, <1>3 DEF P!PassOver, PriceTask
<1>6. Syncs(task[h]) /\ Syncs(t)
  BY <1>1, <1>4 DEF Syncs
<1>7. PriceShape(t) /\ (t.alone => PriceCurrent(t))
  BY <1>1, <1>2, <1>4, <1>6 DEF PriceShape, PriceCurrent, OnOne
<1>8. ASSUME t.alone, NEW k \in Listings, task[h].rule = pricing[k].link, Reaches(task[h], k)
      PROVE  Reaches(t, k)
  <2>1. k \in task[h].todo
    BY <1>1, <1>8 DEF Reaches
  <2>2. k # l
    <3>1. task[h].seen[l].link = pricing[l].link
      BY <1>1, <1>4, <1>8 DEF PriceCurrent
    <3>2. task[h].seen[l].link # task[h].rule
      <4>1. task[h].rule \in Rules
        BY <1>1 DEF PriceShape
      <4>2. QED
        BY <4>1, OfferBounds DEF P!PassOver
    <3>3. QED
      BY <1>8, <3>1, <3>2
  <2>3. QED
    BY <1>2, <1>4, <1>6, <2>1, <2>2 DEF Reaches
<1>9. QED
  BY <1>4, <1>5, <1>6, <1>7, <1>8, SyncContinuePreservesInv

LEMMA RecalculatePreservesInv ==
  ASSUME PricesInv, NEW h \in Handlers, NEW l \in Listings, P!Recalculate(h, l)
  PROVE  PricesInv'
<1>1. /\ task[h] \in PriceTask /\ task[h].pc = "each" /\ l \in task[h].todo
      /\ PriceShape(task[h]) /\ PricesTyped /\ (task[h].alone => PriceCurrent(task[h]))
  BY DEF P!Recalculate, P!At, PricesInv, PriceTasksAreSound
<1>2. PICK terms \in Terms : terms = rule[task[h].rule].terms
  BY <1>1 DEF PriceShape, PricesTyped, P!RuleRows
<1>3. PICK t \in PriceTask : t = [task[h] EXCEPT !.pc = "write", !.listing = l, !.terms = terms]
  BY <1>1, PriceDomains DEF PriceTask
<1>4. /\ t.pc = "write" /\ t.seen = task[h].seen /\ t.types = task[h].types /\ t.todo = task[h].todo /\ t.on = task[h].on
      /\ t.rule = task[h].rule /\ t.alone = task[h].alone /\ t.listing = l /\ t.terms = terms
  BY <1>1, <1>3 DEF PriceTask
<1>5. P!Continue(h, t)
  BY <1>2, <1>3 DEF P!Recalculate
<1>6. Syncs(task[h]) /\ Syncs(t)
  BY <1>1, <1>4 DEF Syncs
<1>7. PriceShape(t) /\ (t.alone => PriceCurrent(t))
  BY <1>1, <1>2, <1>4, <1>6 DEF PriceShape, PriceCurrent, OnOne
<1>8. \A k \in Listings : Reaches(task[h], k) => Reaches(t, k)
  BY <1>1, <1>4, <1>6 DEF Reaches
<1>9. QED
  BY <1>4, <1>5, <1>6, <1>7, <1>8, SyncContinuePreservesInv

LEMMA CommitRecalculatedPreservesInv ==
  ASSUME PricesInv, NEW h \in Handlers, P!CommitRecalculated(h)
  PROVE  PricesInv'
<1>1. /\ task[h] \in PriceTask /\ task[h].pc = "write" /\ PriceShape(task[h])
      /\ task \in [Handlers -> PriceTask] /\ (task[h].alone => PriceCurrent(task[h]))
  BY DEF P!CommitRecalculated, P!At, PricesInv, PriceTasksAreSound
<1>2. PICK l \in Listings : l = task[h].listing /\ l \in task[h].todo
  BY <1>1 DEF PriceShape, PriceTask
<1>3. PICK r \in Rules : r = task[h].rule
  BY <1>1 DEF PriceShape
<1>4. /\ Syncs(task[h]) /\ task[h].on = Listings /\ task[h].terms \in Terms
      /\ task[h].seen \in [Listings -> PriceRow] /\ task[h].seen[l].discount \in Int
      /\ task[h].types[l] \in P!SellerType
  BY <1>1 DEF PriceShape, Syncs, PriceRow
<1>5. PICK todo \in SUBSET Listings : todo = task[h].todo \ {l}
  BY <1>1 DEF PriceTask
<1>6. PICK t \in PriceTask : t = [task[h] EXCEPT !.pc = "each", !.todo = todo, !.listing = None]
  BY <1>1, PriceDomains DEF PriceTask
<1>7. /\ t.pc = "each" /\ t.seen = task[h].seen /\ t.types = task[h].types /\ t.todo = todo /\ t.on = task[h].on
      /\ t.rule = r /\ t.alone = task[h].alone
  BY <1>1, <1>3, <1>6 DEF PriceTask
<1>8. /\ UNCHANGED <<type, country, rule, rate>> /\ task' = [task EXCEPT ![h] = t]
      /\ P!PricedBy(h, l, task[h].types[l], r, TRUE,
                    P!AmountOf(task[h].seen[l], task[h].types[l]), task[h].seen[l].discount)
      /\ disturbed \subseteq disturbed'
  BY <1>1, <1>2, <1>3, <1>5, <1>6 DEF P!CommitRecalculated, P!Disturb, PriceTask
<1>9. /\ PricesTyped'
      /\ \A k \in Listings \ {l} : pricing'[k] = pricing[k] /\ (FollowsRule(k) => FollowsRule(k)')
      /\ pricing'[l].currency = "RWF" /\ pricing'[l].display = pricing'[l].final
      /\ pricing'[l].link = r
      /\ task[h].types[l] = type[l] /\ task[h].terms = rule[r].terms => FollowsRule(l)'
  <2>1. PICK given \in BOOLEAN : given = TRUE
    OBVIOUS
  <2>2. PICK c \in P!SellerType : c = task[h].types[l]
    BY <1>4
  <2>3. PICK input \in Int, discount \in Int :
          input = P!AmountOf(task[h].seen[l], c) /\ discount = task[h].seen[l].discount
    BY <1>4, AmountOfType
  <2>4. P!PricedBy(h, l, c, r, given, input, discount)
    BY <1>8, <2>1, <2>2, <2>3
  <2>5. /\ task[h].terms \in Terms /\ UNCHANGED <<rule, rate>>
        /\ type' \in [Listings -> P!SellerType] /\ country' \in [Listings -> P!Countries]
        /\ \A k \in Listings \ {l} : type'[k] = type[k]
    BY <1>4, <1>8 DEF PricesInv, PricesTyped
  <2>6. /\ PricesTyped'
        /\ \A k \in Listings \ {l} : pricing'[k] = pricing[k] /\ (FollowsRule(k) => FollowsRule(k)')
        /\ pricing'[l].currency = "RWF" /\ pricing'[l].display = pricing'[l].final
        /\ pricing'[l].link = IF given THEN r ELSE pricing[l].link
        /\ type'[l] = c /\ task[h].terms = rule[r].terms => FollowsRule(l)'
    BY <2>4, <2>5, PricedByKeeps
  <2>7. pricing'[l].link = r
    BY <2>1, <2>6
  <2>8. QED
    BY <1>8, <2>2, <2>6, <2>7
<1>10. Syncs(t) /\ PriceShape(t)
  BY <1>1, <1>3, <1>4, <1>7 DEF PriceShape, Syncs, OnOne
<1>11. ASSUME t.alone
       PROVE  PriceCurrent(t)'
  <2>1. \A k \in todo : /\ k \in Listings \ {l} /\ task[h].seen[k].link = pricing[k].link
                        /\ task[h].types[k] = type[k]
    BY <1>1, <1>5, <1>7, <1>11 DEF PriceCurrent, PriceTask
  <2>2. \A k \in todo : task[h].seen[k].link = pricing'[k].link /\ task[h].types[k] = type'[k]
    BY <1>8, <1>9, <2>1
  <2>3. QED
    BY <1>7, <2>2 DEF PriceCurrent
<1>12. /\ task' \in [Handlers -> PriceTask] /\ task'[h] = t
       /\ \A g \in Handlers \ {h} : task'[g] = task[g]
       /\ PriceTasksAreSound' /\ PriceTasksMeet'
  <2>1. \A k \in Listings \ task[h].on : pricing'[k].link = pricing[k].link /\ type'[k] = type[k]
    BY <1>4
  <2>2. t.on \subseteq task[h].on /\ task[h].on = Listings /\ rate' = rate
    BY <1>4, <1>7, <1>8
  <2>3. QED
    BY <1>7, <1>8, <1>10, <1>11, <2>1, <2>2, PriceTasksStay
<1>13. FinalsAreSound'
  <2>1. CASE ~t.alone
    BY <1>8, <1>10, <1>12, <2>1, FinalsStay
  <2>2. CASE t.alone
    <3>1. FollowsRule(l)'
      BY <1>1, <1>2, <1>3, <1>7, <1>9, <2>2 DEF PriceCurrent
    <3>2. \A k \in Listings \ {l} : Reaches(task[h], k) => Reaches(t, k)
      BY <1>1, <1>5, <1>7, <1>10 DEF Reaches
    <3>3. ASSUME NEW k \in Listings
          PROVE  \/ FollowsRule(k)'
                 \/ t.rule = pricing'[k].link /\ Reaches(t, k)
                 \/ /\ pricing'[k].link = pricing[k].link /\ ~FollowsRule(k)
                    /\ ~(task[h].rule = pricing[k].link /\ Reaches(task[h], k))
      <4>1. CASE k = l
        BY <3>1, <4>1
      <4>2. CASE k # l
        BY <1>3, <1>7, <1>9, <3>2, <4>2
      <4>3. QED
        BY <4>1, <4>2
    <3>4. ~(Syncs(task[h]) /\ ~task[h].alone)
      BY <1>7, <2>2
    <3>5. QED
      BY <1>8, <1>12, <3>3, <3>4, FinalsStay
  <2>3. QED
    BY <2>1, <2>2
<1>14. DisplaysAreSound'
  <2>1. \A k \in Listings : \/ pricing'[k] = pricing[k]
                            \/ /\ pricing'[k].currency = "RWF"
                               /\ pricing'[k].display = pricing'[k].final
    BY <1>9
  <2>2. QED
    BY <1>1, <1>8, <1>12, <2>1, DisplaysStay
<1>15. QED
  BY <1>9, <1>12, <1>13, <1>14 DEF PricesInv

\* A handler ends its request; what it had still to do is disturbed, if it was not alone.
LEMMA PriceFinishPreservesInv ==
  ASSUME PricesInv, NEW h \in Handlers, P!Finish(h),
         UNCHANGED <<type, country, rule, pricing, rate, priced>>, disturbed \subseteq disturbed',
         task[h].pc = "display" => "rate" \in disturbed',
         Syncs(task[h]) => \/ Listings \subseteq disturbed'
                           \/ /\ task[h].alone
                              /\ \A l \in Listings : ~Reaches(task[h], l)
  PROVE  PricesInv'
<1>1. PricesTyped /\ DisplaysAreSound /\ task[h].on \subseteq task[h].on
  BY DEF PricesInv
<1>2. task' = [task EXCEPT ![h] = P!Idle]
  BY DEF P!Finish
<1>3. /\ task' \in [Handlers -> PriceTask] /\ task'[h] = P!Idle
      /\ \A g \in Handlers \ {h} : task'[g] = task[g]
      /\ PriceTasksAreSound' /\ PriceTasksMeet'
  BY <1>2, PriceIdle, PriceTasksStay
<1>4. PricesTyped'
  BY <1>1 DEF PricesTyped
<1>5. FinalsAreSound'
  <2>1. \A l \in Listings : FollowsRule(l) => FollowsRule(l)'
    BY <1>1, FollowsStays
  <2>2. CASE Listings \subseteq disturbed'
    BY <2>2 DEF FinalsAreSound
  <2>3. CASE ~Syncs(task[h]) \/ (task[h].alone /\ \A l \in Listings : ~Reaches(task[h], l))
    BY <1>3, <2>1, <2>3, PriceIdle, FinalsStay DEF Reaches
  <2>4. QED
    BY <2>2, <2>3
<1>6. DisplaysAreSound'
  <2>1. CASE task[h].pc = "display"
    BY <1>1, <2>1 DEF DisplaysAreSound
  <2>2. CASE task[h].pc # "display"
    BY <1>3, <2>2, DisplaysStay
  <2>3. QED
    BY <2>1, <2>2
<1>7. QED
  BY <1>3, <1>4, <1>5, <1>6 DEF PricesInv

LEMMA EndSyncPreservesInv ==
  ASSUME PricesInv, NEW h \in Handlers, P!EndSync(h)
  PROVE  PricesInv'
<1>1. /\ task[h].pc = "each" /\ task[h].todo = {} /\ P!Finish(h)
      /\ UNCHANGED <<type, country, rule, pricing, rate, priced>>
      /\ disturbed' = IF task[h].alone THEN disturbed ELSE disturbed \cup Listings
  BY DEF P!EndSync, P!At, P!Disturb, P!listings
<1>2. \A l \in Listings : ~Reaches(task[h], l)
  BY <1>1 DEF Reaches
<1>3. disturbed \subseteq disturbed' /\ (Listings \subseteq disturbed' \/ task[h].alone)
  BY <1>1
<1>4. QED
  BY <1>1, <1>2, <1>3, PriceFinishPreservesInv

LEMMA PriceCrashPreservesInv ==
  ASSUME PricesInv, NEW h \in Handlers, P!Crash(h)
  PROVE  PricesInv'
<1>1. P!Finish(h) /\ UNCHANGED <<type, country, rule, pricing, rate, priced>>
  BY DEF P!Crash, P!listings
<1>2. PriceShape(task[h])
  BY DEF PricesInv, PriceTasksAreSound
<1>3. disturbed \subseteq disturbed'
  BY DEF P!Crash
<1>4. Syncs(task[h]) => Listings \subseteq disturbed'
  BY <1>2 DEF P!Crash, P!At, PriceShape, Syncs
<1>5. task[h].pc = "display" => "rate" \in disturbed'
  BY <1>2 DEF P!Crash, P!At, PriceShape
<1>6. QED
  BY <1>1, <1>3, <1>4, <1>5, PriceFinishPreservesInv

LEMMA WriteFrozenRatePreservesInv ==
  ASSUME PricesInv, NEW h \in Handlers, P!WriteFrozenRate(h)
  PROVE  PricesInv'
<1>1. /\ task[h] \in PriceTask /\ task[h].pc = "rate" /\ PriceShape(task[h]) /\ PricesTyped
      /\ task \in [Handlers -> PriceTask] /\ DisplaysAreSound
  BY DEF P!WriteFrozenRate, P!At, PricesInv, PriceTasksAreSound
<1>2. task[h].on = {"rate"} /\ task[h].rate \in Rates
  BY <1>1 DEF PriceShape
<1>3. PICK t \in PriceTask : t = [task[h] EXCEPT !.pc = "display"]
  BY <1>1, PriceDomains DEF PriceTask
<1>4. t.pc = "display" /\ t.on = task[h].on /\ t.rate = task[h].rate /\ t.alone = task[h].alone
  BY <1>1, <1>3 DEF PriceTask
<1>5. /\ task' = [task EXCEPT ![h] = t] /\ rate' = task[h].rate
      /\ UNCHANGED <<type, country, rule, pricing, priced, disturbed>>
  BY <1>1, <1>3 DEF P!WriteFrozenRate, P!listings
<1>6. PriceShape(t) /\ PriceCurrent(t)'
  BY <1>2, <1>4, <1>5 DEF PriceShape, PriceCurrent, Syncs, OnOne
<1>7. /\ task' \in [Handlers -> PriceTask] /\ task'[h] = t
      /\ \A g \in Handlers \ {h} : task'[g] = task[g]
      /\ PriceTasksAreSound' /\ PriceTasksMeet'
  <2>1. /\ t.on \subseteq task[h].on /\ "rate" \in task[h].on
        /\ t.alone => task[h].alone \/ t.on = {}
    BY <1>2, <1>4
  <2>2. \A r \in Rules : rule'[r].terms = rule[r].terms
    BY <1>5
  <2>3. \A l \in Listings \ task[h].on : pricing'[l].link = pricing[l].link /\ type'[l] = type[l]
    BY <1>5
  <2>4. QED
    BY <1>5, <1>6, <2>1, <2>2, <2>3, PriceTasksStay
<1>8. PricesTyped'
  BY <1>1, <1>2, <1>5 DEF PricesTyped
<1>9. FinalsAreSound'
  <2>1. ~Syncs(task[h])
    BY <1>1 DEF Syncs
  <2>2. \A l \in Listings : FollowsRule(l) => FollowsRule(l)'
    BY <1>1, <1>5, FollowsStays
  <2>3. QED
    BY <1>5, <1>7, <2>1, <2>2, FinalsStay DEF Reaches
<1>10. DisplaysAreSound'
  <2>1. \E g \in Handlers : task'[g].pc = "display"
    BY <1>4, <1>7
  <2>2. QED
    BY <1>1, <1>5, <2>1 DEF DisplaysAreSound
<1>11. QED
  BY <1>7, <1>8, <1>9, <1>10 DEF PricesInv

LEMMA RedisplayDollarsPreservesInv ==
  ASSUME PricesInv, NEW h \in Handlers, P!RedisplayDollars(h)
  PROVE  PricesInv'
<1>1. /\ task[h] \in PriceTask /\ task[h].pc = "display" /\ PriceShape(task[h]) /\ PricesTyped
      /\ DisplaysAreSound /\ (task[h].alone => PriceCurrent(task[h]))
  BY DEF P!RedisplayDollars, P!At, PricesInv, PriceTasksAreSound
<1>2. task[h].on = {"rate"} /\ task[h].rate \in Rates
  BY <1>1 DEF PriceShape
<1>3. /\ task' = [task EXCEPT ![h] = P!Idle] /\ UNCHANGED <<type, country, rule, rate, priced>>
      /\ disturbed' = IF task[h].alone THEN disturbed ELSE disturbed \cup {"rate"}
      /\ pricing' = [l \in Listings |->
           IF pricing[l].currency = "USD"
             THEN [pricing[l] EXCEPT !.display = P!UsdtToRwf(pricing[l].final, task[h].rate)]
             ELSE pricing[l]]
  BY DEF P!RedisplayDollars, P!Finish, P!Disturb
<1>4. ASSUME NEW l \in Listings
      PROVE  /\ pricing'[l] \in PriceRow
             /\ pricing'[l].currency = pricing[l].currency /\ pricing'[l].link = pricing[l].link
             /\ pricing'[l].amount = pricing[l].amount /\ pricing'[l].final = pricing[l].final
             /\ pricing'[l].discount = pricing[l].discount
             /\ pricing[l].currency = "RWF" => pricing'[l] = pricing[l]
             /\ pricing[l].currency = "USD" =>
                  pricing'[l].display = P!UsdtToRwf(pricing[l].final, task[h].rate)
  <2>1. pricing[l] \in PriceRow /\ task[h].rate \in Int
    BY <1>1, <1>2, OfferBounds DEF PricesTyped
  <2>2. P!UsdtToRwf(pricing[l].final, task[h].rate) \in Int
    BY <2>1, UsdtToRwfType DEF PriceRow
  <2>3. CASE pricing[l].currency = "USD"
    <3>1. pricing'[l] = [pricing[l] EXCEPT !.display = P!UsdtToRwf(pricing[l].final, task[h].rate)]
      BY <1>3, <2>3
    <3>2. QED
      BY <2>1, <2>2, <2>3, <3>1 DEF PriceRow
  <2>4. CASE pricing[l].currency # "USD"
    BY <1>3, <2>1, <2>4
  <2>5. QED
    BY <2>3, <2>4
<1>5. pricing' \in [Listings -> PriceRow]
  BY <1>3, <1>4
<1>6. /\ task' \in [Handlers -> PriceTask] /\ task'[h] = P!Idle
      /\ \A g \in Handlers \ {h} : task'[g] = task[g]
      /\ PriceTasksAreSound' /\ PriceTasksMeet'
  <2>1. P!Idle.on \subseteq task[h].on /\ rate' = rate
    BY <1>3, PriceIdle
  <2>2. \A r \in Rules : rule'[r].terms = rule[r].terms
    BY <1>3
  <2>3. \A k \in Listings \ task[h].on : pricing'[k].link = pricing[k].link /\ type'[k] = type[k]
    BY <1>3, <1>4
  <2>4. QED
    BY <1>3, <2>1, <2>2, <2>3, PriceIdle, PriceTasksStay
<1>7. PricesTyped'
  BY <1>1, <1>3, <1>4, <1>5 DEF PricesTyped
<1>8. FinalsAreSound'
  <2>1. ~Syncs(task[h]) /\ disturbed \subseteq disturbed'
    BY <1>1, <1>3 DEF Syncs
  <2>2. ASSUME NEW l \in Listings, FollowsRule(l)
        PROVE  FollowsRule(l)'
    BY <1>3, <1>4, <2>2 DEF FollowsRule, P!PriceOf, P!AmountOf
  <2>3. QED
    BY <1>4, <1>6, <2>1, <2>2, FinalsStay DEF Reaches
<1>9. DisplaysAreSound'
  <2>1. ASSUME NEW l \in Listings
        PROVE  /\ pricing'[l].currency = "RWF" => pricing'[l].display = pricing'[l].final
               /\ pricing'[l].currency = "USD" =>
                    \/ pricing'[l].display = P!UsdtToRwf(pricing'[l].final, rate')
                    \/ "rate" \in disturbed'
    <3>1. task[h].alone => task[h].rate = rate
      BY <1>1 DEF PriceCurrent
    <3>2. ~task[h].alone => "rate" \in disturbed'
      BY <1>3
    <3>3. QED
      BY <1>1, <1>3, <1>4, <3>1, <3>2 DEF DisplaysAreSound
  <2>2. QED
    BY <2>1 DEF DisplaysAreSound
<1>10. QED
  BY <1>6, <1>7, <1>8, <1>9 DEF PricesInv

\* A rule that is switched on or off keeps its terms.
LEMMA SwitchRulePreservesInv ==
  ASSUME PricesInv, NEW r \in Rules, NEW active \in BOOLEAN,
         rule' = [rule EXCEPT ![r].active = active],
         UNCHANGED <<type, country, pricing, rate, priced, task, disturbed>>
  PROVE  PricesInv'
<1>1. PricesTyped
  BY DEF PricesInv
<1>2. /\ rule' \in [Rules -> P!RuleRows]
      /\ \A s \in Rules : rule'[s].terms = rule[s].terms /\ rule'[s].type = rule[s].type
  BY <1>1 DEF PricesTyped, P!RuleRows
<1>3. PricesTyped'
  BY <1>1, <1>2 DEF PricesTyped
<1>4. PriceTasksAreSound'
  <2>1. ASSUME NEW g \in Handlers
        PROVE  PriceShape(task[g])' /\ (task[g].alone => PriceCurrent(task[g])')
    <3>1. PriceShape(task[g]) /\ (task[g].alone => PriceCurrent(task[g]))
      BY DEF PricesInv, PriceTasksAreSound
    <3>2. PriceShape(task[g])'
      BY <3>1 DEF PriceShape, Syncs, OnOne
    <3>3. task[g].pc \in {"price", "write"} => task[g].rule \in Rules
      BY <3>1 DEF PriceShape
    <3>4. QED
      BY <1>2, <3>1, <3>2, <3>3 DEF PriceCurrent
  <2>2. QED
    BY <2>1 DEF PriceTasksAreSound
<1>5. FinalsAreSound'
  <2>1. ASSUME NEW l \in Listings, FollowsRule(l)
        PROVE  FollowsRule(l)'
    <3>1. pricing[l].link \in Rules \cup {None}
      BY <1>1 DEF PricesTyped, PriceRow
    <3>2. QED
      BY <1>2, <2>1, <3>1 DEF FollowsRule, P!PriceOf
  <2>2. \A g \in Handlers, l \in Listings : Reaches(task[g], l) => Reaches(task[g], l)'
    BY DEF Reaches, Syncs
  <2>3. Messy => Messy'
    BY DEF Messy, Syncs
  <2>4. QED
    BY <2>1, <2>2, <2>3 DEF PricesInv, FinalsAreSound
<1>6. PriceTasksMeet' /\ DisplaysAreSound' /\ task' \in [Handlers -> PriceTask]
  BY DEF PricesInv, PriceTasksMeet, DisplaysAreSound
<1>7. QED
  BY <1>3, <1>4, <1>5, <1>6 DEF PricesInv

LEMMA PricesStutter ==
  ASSUME PricesInv, UNCHANGED <<type, country, rule, pricing, rate, priced, task, disturbed>>
  PROVE  PricesInv'
<1>1. PricesTyped'
  BY DEF PricesInv, PricesTyped
<1>2. PriceTasksAreSound' /\ PriceTasksMeet' /\ DisplaysAreSound' /\ task' \in [Handlers -> PriceTask]
  BY DEF PricesInv, PriceTasksAreSound, PriceTasksMeet, PriceShape, PriceCurrent, Syncs,
         OnOne, DisplaysAreSound
<1>3. FinalsAreSound'
  BY DEF PricesInv, FinalsAreSound, Messy, Reaches, Syncs, FollowsRule, P!PriceOf, P!AmountOf
<1>4. QED
  BY <1>1, <1>2, <1>3 DEF PricesInv

LEMMA PricesNextPreservesInv ==
  ASSUME PricesInv, P!Next
  PROVE  PricesInv'
<1>1. ASSUME NEW h \in Handlers, P!Begin(h) \/ P!Step(h) \/ P!Crash(h)
      PROVE  PricesInv'
  BY <1>1, PriceBeginPreservesInv, PriceCrashPreservesInv, FindRulePreservesInv,
     CommitPricePreservesInv, CommitRelabelPreservesInv, CommitMovePreservesInv,
     ReadForMigrationPreservesInv, CommitMigrationPreservesInv, CommitUpdateRulePreservesInv, ListPricedPreservesInv,
     PassOverPreservesInv, RecalculatePreservesInv, CommitRecalculatedPreservesInv,
     EndSyncPreservesInv, WriteFrozenRatePreservesInv, RedisplayDollarsPreservesInv
  DEF P!Step
<1>2. ASSUME NEW r \in Rules, P!CreateRule(r) \/ P!DeactivateRule(r)
      PROVE  PricesInv'
  <2>1. PICK active \in BOOLEAN : rule' = [rule EXCEPT ![r].active = active]
    BY <1>2 DEF P!CreateRule, P!DeactivateRule
  <2>2. UNCHANGED <<type, country, pricing, rate, priced, task, disturbed>>
    BY <1>2 DEF P!CreateRule, P!DeactivateRule, P!listings
  <2>3. QED
    BY <2>1, <2>2, SwitchRulePreservesInv
<1>3. QED
  BY <1>1, <1>2 DEF P!Next

\* What the invariant says of the properties of Prices.
LEMMA PricesInvHolds ==
  PricesInv => P!TypeOK /\ P!PricesFollowTheirRule /\ P!DisplayFollowsRate
<1> SUFFICES ASSUME PricesInv
             PROVE  P!TypeOK /\ P!PricesFollowTheirRule /\ P!DisplayFollowsRate
  OBVIOUS
<1>1. P!TypeOK
  BY DEF PricesInv, PricesTyped, PriceRow, P!RuleRows, P!TypeOK
<1>2. P!PricesFollowTheirRule
  <2>1. ASSUME ~P!Syncing
        PROVE  ~Messy /\ \A h \in Handlers, l \in Listings : ~Reaches(task[h], l)
    BY <2>1 DEF P!Syncing, Messy, Reaches, Syncs
  <2>2. QED
    BY <2>1 DEF PricesInv, FinalsAreSound, FollowsRule, P!PricesFollowTheirRule
<1>3. P!DisplayFollowsRate
  BY DEF PricesInv, PricesTyped, PriceRow, DisplaysAreSound, P!DisplayFollowsRate, P!At
<1>4. QED
  BY <1>1, <1>2, <1>3

-----------------------------------------------------------------------------
(* Promotions *)

DiscountRow == [percent : Nat \cup {None}, amount : Nat \cup {None}]
PromotionRow ==
  [exists : BOOLEAN, active : BOOLEAN, start : C!Days, end : C!Days, discount : DiscountRow]
ChangeType == UNION {[names -> Nat \cup {None}] : names \in SUBSET {"percent", "amount"}}
PromotionTask ==
  [pc : {"idle", "update", "activate"}, on : Campaigns \cup {None}, start : C!Days \cup {None},
   end : C!Days \cup {None}, given : ChangeType, alone : BOOLEAN]

PromotionsTyped ==
  /\ promotion \in [Campaigns -> PromotionRow] /\ attached \subseteq Listings \X Campaigns
  /\ rate \in Quotes /\ now \in C!Days /\ swept \in C!Days /\ swept <= now
  /\ \A p \in Campaigns : promotion[p].active => promotion[p].exists
  /\ \A place \in attached : promotion[place[2]].exists

\* Two tasks about a promotion know of each other, and one that is alone when it activates a
\* promotion found that it had not ended when the nightly job last ran.
PromotionTasksAreSound ==
  /\ task \in [Handlers -> PromotionTask]
  /\ \A h \in Handlers :
       /\ task[h].pc = "idle" <=> task[h].on = None
       /\ task[h].pc # "idle" => promotion[task[h].on].exists
       /\ task[h].pc = "activate" /\ task[h].alone => promotion[task[h].on].end >= swept
  /\ \A g, h \in Handlers :
       g # h /\ task[g].on = task[h].on /\ task[g].on # None => ~task[g].alone

PromotionsInv == PromotionsTyped /\ PromotionTasksAreSound /\ C!EndedIsInactive
PromotionsIInv == work = "promotions" => PromotionsInv

LEMMA PromotionsBounds == MaxDay \in Nat /\ None \notin Campaigns
  BY MarketBoundsOK

LEMMA PromotionIdle ==
  C!Idle \in PromotionTask /\ C!Idle.pc = "idle" /\ C!Idle.on = None
<1>1. C!NoChange \in [{} -> Nat \cup {None}] /\ {} \in SUBSET {"percent", "amount"}
  BY DEF C!NoChange
<1>2. C!NoChange \in ChangeType
  BY <1>1 DEF ChangeType
<1>3. QED
  BY <1>2 DEF C!Idle, PromotionTask

LEMMA PromotionsInitInv == C!Init => PromotionsInv
<1> SUFFICES ASSUME C!Init
             PROVE  PromotionsInv
  OBVIOUS
<1>1. /\ promotion = [p \in Campaigns |-> C!NoPromotion] /\ attached = {} /\ now = 0 /\ swept = 0
      /\ task = [h \in Handlers |-> C!Idle] /\ rate = CHOOSE first \in Quotes : TRUE
  BY DEF C!Init
<1>2. C!NoPromotion \in PromotionRow /\ ~C!NoPromotion.active
  BY PromotionsBounds DEF C!NoPromotion, PromotionRow, DiscountRow, C!Days
<1>3. PromotionsTyped
  <2>1. rate \in Quotes
    BY <1>1, MarketBoundsOK
  <2>2. QED
    BY <1>1, <1>2, <2>1, PromotionsBounds DEF PromotionsTyped, C!Days
<1>4. PromotionTasksAreSound
  BY <1>1, PromotionIdle DEF PromotionTasksAreSound
<1>5. C!EndedIsInactive
  BY <1>1, <1>2 DEF C!EndedIsInactive
<1>6. QED
  BY <1>3, <1>4, <1>5 DEF PromotionsInv

\* What an update gives of a discount, and what the discount is then.
LEMMA ChangesAre == C!Changes \subseteq ChangeType
<1> SUFFICES ASSUME NEW names \in SUBSET {"percent", "amount"}, NEW d \in Discounts
             PROVE  [c \in names |-> d[c]] \in ChangeType
  BY DEF C!Changes
<1>1. d.percent \in Nat \cup {None} /\ d.amount \in Nat \cup {None}
  BY MarketBoundsOK
<1>2. \A c \in names : d[c] \in Nat \cup {None}
  BY <1>1
<1>3. [c \in names |-> d[c]] \in [names -> Nat \cup {None}]
  BY <1>2
<1>4. QED
  BY <1>3 DEF ChangeType

LEMMA ChangedDiscount ==
  ASSUME NEW d \in DiscountRow, NEW given \in ChangeType
  PROVE  [c \in DOMAIN d |-> IF c \in DOMAIN given THEN given[c] ELSE d[c]] \in DiscountRow
<1>1. PICK names \in SUBSET {"percent", "amount"} : given \in [names -> Nat \cup {None}]
  BY DEF ChangeType
<1>2. /\ DOMAIN given = names /\ \A c \in names : given[c] \in Nat \cup {None}
      /\ d.percent \in Nat \cup {None} /\ d.amount \in Nat \cup {None}
  BY <1>1 DEF DiscountRow
<1>3. PICK percent \in Nat \cup {None} :
        percent = IF "percent" \in names THEN given["percent"] ELSE d["percent"]
  BY <1>2
<1>4. PICK amount \in Nat \cup {None} :
        amount = IF "amount" \in names THEN given["amount"] ELSE d["amount"]
  BY <1>2
<1>5. [c \in DOMAIN d |-> IF c \in DOMAIN given THEN given[c] ELSE d[c]]
        = [percent |-> percent, amount |-> amount]
  BY <1>2, <1>3, <1>4 DEF DiscountRow
<1>6. QED
  BY <1>5 DEF DiscountRow

\* A handler takes up a request; no promotion changes.
LEMMA PromotionStartPreservesInv ==
  ASSUME PromotionsInv, NEW h \in Handlers, NEW t \in PromotionTask, C!Start(h, t),
         t.pc # "idle", t.on \in Campaigns, promotion[t.on].exists,
         t.pc = "activate" => promotion[t.on].end >= swept
  PROVE  PromotionsInv'
<1>1. task \in [Handlers -> PromotionTask] /\ PromotionTasksAreSound
  BY DEF PromotionsInv, PromotionTasksAreSound
<1>2. /\ task[h].pc = "idle"
      /\ UNCHANGED <<promotion, attached, price, rate, now, swept, pricedAt, late>>
  BY DEF C!Start, C!At
<1>3. PICK b \in BOOLEAN : b = \A k \in Handlers : task[k].on # t.on
  OBVIOUS
<1>4. PICK u \in PromotionTask : u = [t EXCEPT !.alone = b]
  BY DEF PromotionTask
<1>5. u.pc = t.pc /\ u.on = t.on /\ u.alone = b
  BY <1>4 DEF PromotionTask
<1>6. task' = [g \in Handlers |->
                 IF g = h THEN u
                 ELSE IF task[g].on = t.on THEN [task[g] EXCEPT !.alone = FALSE] ELSE task[g]]
  BY <1>3, <1>4 DEF C!Start
<1>7. ASSUME NEW g \in Handlers \ {h}
      PROVE  /\ task'[g] \in PromotionTask /\ task'[g].pc = task[g].pc /\ task'[g].on = task[g].on
             /\ task'[g].alone => task[g].alone /\ task[g].on # t.on
  <2>1. task[g] \in PromotionTask
    BY <1>1
  <2>2. CASE task[g].on = t.on
    <3>1. task'[g] = [task[g] EXCEPT !.alone = FALSE]
      BY <1>6, <2>2
    <3>2. QED
      BY <2>1, <3>1 DEF PromotionTask
  <2>3. CASE task[g].on # t.on
    <3>1. task'[g] = task[g]
      BY <1>6, <2>3
    <3>2. QED
      BY <2>1, <2>3, <3>1
  <2>4. QED
    BY <2>2, <2>3
<1>8. task'[h] = u /\ task' \in [Handlers -> PromotionTask]
  BY <1>6, <1>7
<1>9. ASSUME NEW g \in Handlers
      PROVE  /\ task'[g].pc = "idle" <=> task'[g].on = None
             /\ task'[g].pc # "idle" => promotion[task'[g].on].exists
             /\ task'[g].pc = "activate" /\ task'[g].alone => promotion[task'[g].on].end >= swept
  <2>1. CASE g = h
    BY <1>5, <1>8, <2>1, PromotionsBounds
  <2>2. CASE g # h
    BY <1>1, <1>7, <2>2 DEF PromotionTasksAreSound
  <2>3. QED
    BY <2>1, <2>2
<1>10. ASSUME NEW f \in Handlers, NEW g \in Handlers, f # g,
              task'[f].on = task'[g].on, task'[f].on # None
       PROVE  ~task'[f].alone
  <2>1. CASE f = h
    BY <1>3, <1>5, <1>7, <1>8, <1>10, <2>1
  <2>2. CASE f # h /\ g = h
    BY <1>5, <1>7, <1>8, <1>10, <2>2
  <2>3. CASE f # h /\ g # h
    BY <1>1, <1>7, <1>10, <2>3 DEF PromotionTasksAreSound
  <2>4. QED
    BY <2>1, <2>2, <2>3
<1>11. PromotionTasksAreSound'
  BY <1>2, <1>8, <1>9, <1>10 DEF PromotionTasksAreSound
<1>12. PromotionsTyped' /\ C!EndedIsInactive'
  BY <1>2 DEF PromotionsInv, PromotionsTyped, C!EndedIsInactive
<1>13. QED
  BY <1>11, <1>12 DEF PromotionsInv

LEMMA PromotionBeginPreservesInv ==
  ASSUME PromotionsInv, NEW h \in Handlers, NEW p \in Campaigns,
         \/ \E start, end \in C!Days \cup {None} : C!BeginUpdate(h, p, start, end, C!NoChange)
         \/ \E given \in C!Changes : C!BeginUpdate(h, p, None, None, given)
         \/ C!BeginActivate(h, p)
  PROVE  PromotionsInv'
<1>1. ASSUME NEW start \in C!Days \cup {None}, NEW end \in C!Days \cup {None},
             NEW given \in ChangeType, C!BeginUpdate(h, p, start, end, given)
      PROVE  PromotionsInv'
  <2> DEFINE t == [C!Idle EXCEPT !.pc = "update", !.on = p, !.start = start, !.end = end,
                                 !.given = given]
  <2>1. t \in PromotionTask /\ t.pc = "update" /\ t.on = p
    BY PromotionIdle DEF PromotionTask
  <2>2. C!Start(h, t)
    BY <1>1, Zenon DEF C!BeginUpdate
  <2> HIDE DEF t
  <2>3. promotion[t.on].exists
    BY <2>2 DEF C!Start
  <2>4. QED
    BY <2>1, <2>2, <2>3, PromotionStartPreservesInv
<1>2. ASSUME C!BeginActivate(h, p)
      PROVE  PromotionsInv'
  <2> DEFINE t == [C!Idle EXCEPT !.pc = "activate", !.on = p]
  <2>1. t \in PromotionTask /\ t.pc = "activate" /\ t.on = p
    BY PromotionIdle DEF PromotionTask
  <2>2. C!Start(h, t) /\ promotion[p].end >= now
    BY <1>2 DEF C!BeginActivate
  <2> HIDE DEF t
  <2>3. promotion[t.on].exists
    BY <2>2 DEF C!Start
  <2>4. promotion[p].end >= swept
    BY <2>2, PromotionsBounds DEF PromotionsInv, PromotionsTyped, PromotionRow, C!Days
  <2>5. QED
    BY <2>1, <2>2, <2>3, <2>4, PromotionStartPreservesInv
<1>3. C!NoChange \in ChangeType /\ C!Changes \subseteq ChangeType
  BY PromotionIdle, ChangesAre DEF C!Idle, PromotionTask
<1>4. QED
  BY <1>1, <1>2, <1>3

\* What is left to show when handler h ends its request about promotion task[h].on.
LEMMA PromotionFinish ==
  ASSUME PromotionsInv, NEW h \in Handlers, C!Finish(h), swept' = swept,
         \A p \in Campaigns \ {task[h].on} : promotion'[p] = promotion[p],
         \A p \in Campaigns : promotion[p].exists => promotion'[p].exists
  PROVE  PromotionTasksAreSound'
<1>1. PromotionTasksAreSound /\ task \in [Handlers -> PromotionTask]
  BY DEF PromotionsInv, PromotionTasksAreSound
<1>2. /\ task' \in [Handlers -> PromotionTask] /\ task'[h] = C!Idle
      /\ \A g \in Handlers \ {h} : task'[g] = task[g]
  BY <1>1, PromotionIdle DEF C!Finish
<1>3. ASSUME NEW g \in Handlers \ {h}
      PROVE  /\ task[g].pc # "idle" => promotion'[task[g].on].exists
             /\ task[g].pc = "activate" /\ task[g].alone => promotion'[task[g].on].end >= swept
  <2>1. task[g].pc # "idle" => task[g].on \in Campaigns
    BY <1>1 DEF PromotionTasksAreSound, PromotionTask
  <2>2. task[g].pc # "idle" /\ task[g].alone => task[g].on # task[h].on
    BY <1>1 DEF PromotionTasksAreSound
  <2>3. QED
    BY <1>1, <2>1, <2>2 DEF PromotionTasksAreSound
<1>4. QED
  BY <1>1, <1>2, <1>3, PromotionIdle DEF PromotionTasksAreSound

LEMMA CommitUpdatePreservesInv ==
  ASSUME PromotionsInv, NEW h \in Handlers, C!CommitUpdate(h)
  PROVE  PromotionsInv'
<1>1. /\ task[h] \in PromotionTask /\ task[h].pc = "update" /\ task[h].on \in Campaigns
      /\ PromotionsTyped
  BY DEF PromotionsInv, PromotionTasksAreSound, PromotionTask, C!CommitUpdate, C!At
<1>2. PICK p \in Campaigns : p = task[h].on
  BY <1>1
<1>3. PICK row \in PromotionRow : row = promotion[p]
  BY <1>1 DEF PromotionsTyped
<1>4. PICK start \in C!Days : start = IF task[h].start = None THEN row.start ELSE task[h].start
  BY <1>1 DEF PromotionTask, PromotionRow
<1>5. PICK end \in C!Days : end = IF task[h].end = None THEN row.end ELSE task[h].end
  BY <1>1 DEF PromotionTask, PromotionRow
<1> DEFINE changed == [c \in DOMAIN row.discount |->
                         IF c \in DOMAIN task[h].given THEN task[h].given[c] ELSE row.discount[c]]
<1>6. changed \in DiscountRow
  BY <1>1, <1>3, ChangedDiscount DEF PromotionRow, PromotionTask
<1>7. PICK discount \in DiscountRow : discount = changed
  BY <1>6
<1> HIDE DEF changed
<1>8. PICK new \in PromotionRow :
         new = [exists |-> row.exists, active |-> row.active, start |-> start, end |-> end,
                discount |-> discount]
  BY <1>3, <1>7 DEF PromotionRow
<1>9. promotion' = [promotion EXCEPT ![p] = new]
  BY <1>2, <1>3, <1>4, <1>5, <1>7, <1>8 DEF C!CommitUpdate, changed
<1>10. /\ late' = IF ~task[h].alone \/ end < now THEN late \cup {p} ELSE late
      /\ C!Finish(h) /\ UNCHANGED <<attached, rate, now, swept>>
  BY <1>2, <1>3, <1>5 DEF C!CommitUpdate
<1>11. new.exists = row.exists /\ new.active = row.active /\ new.end = end
  BY <1>8
<1>12. /\ promotion' \in [Campaigns -> PromotionRow] /\ promotion'[p] = new
       /\ \A q \in Campaigns \ {p} : promotion'[q] = promotion[q]
  BY <1>1, <1>9 DEF PromotionsTyped
<1>13. \A q \in Campaigns : promotion'[q].exists = promotion[q].exists
  BY <1>3, <1>11, <1>12
<1>14. PromotionsTyped'
  BY <1>1, <1>3, <1>10, <1>11, <1>12 DEF PromotionsTyped
<1>15. PromotionTasksAreSound'
  BY <1>2, <1>10, <1>12, <1>13, PromotionFinish
<1>16. C!EndedIsInactive'
  <2>1. ~(end < now) => ~(end < swept)
    BY <1>1, PromotionsBounds DEF PromotionsTyped, C!Days
  <2>2. late \subseteq late' /\ (end < swept => p \in late')
    BY <1>10, <2>1
  <2>3. QED
    BY <1>10, <1>11, <1>12, <2>2 DEF PromotionsInv, C!EndedIsInactive
<1>17. QED
  BY <1>14, <1>15, <1>16 DEF PromotionsInv

LEMMA CommitActivatePreservesInv ==
  ASSUME PromotionsInv, NEW h \in Handlers, C!CommitActivate(h)
  PROVE  PromotionsInv'
<1>1. /\ task[h] \in PromotionTask /\ task[h].pc = "activate" /\ task[h].on \in Campaigns
      /\ promotion[task[h].on].exists /\ PromotionsTyped
  BY DEF PromotionsInv, PromotionTasksAreSound, PromotionTask, C!CommitActivate, C!At
<1>2. PICK p \in Campaigns : p = task[h].on
  BY <1>1
<1>3. PICK new \in PromotionRow : new = [promotion[p] EXCEPT !.active = TRUE]
  BY <1>1 DEF PromotionsTyped, PromotionRow
<1>4. new.exists = promotion[p].exists /\ new.end = promotion[p].end
  BY <1>1, <1>3 DEF PromotionsTyped, PromotionRow
<1>5. promotion' = [promotion EXCEPT ![p] = new]
  BY <1>1, <1>2, <1>3 DEF C!CommitActivate, PromotionsTyped
<1>6. /\ late' = IF task[h].alone THEN late ELSE late \cup {p}
      /\ C!Finish(h) /\ UNCHANGED <<attached, rate, now, swept>>
  BY <1>2 DEF C!CommitActivate
<1>7. /\ promotion' \in [Campaigns -> PromotionRow] /\ promotion'[p] = new
      /\ \A q \in Campaigns \ {p} : promotion'[q] = promotion[q]
  BY <1>1, <1>5 DEF PromotionsTyped
<1>8. \A q \in Campaigns : promotion'[q].exists = promotion[q].exists
  BY <1>4, <1>7
<1>9. PromotionsTyped'
  BY <1>1, <1>2, <1>4, <1>6, <1>7 DEF PromotionsTyped
<1>10. PromotionTasksAreSound'
  BY <1>2, <1>6, <1>7, <1>8, PromotionFinish
<1>11. C!EndedIsInactive'
  <2>1. task[h].alone => ~(promotion[p].end < swept)
    BY <1>1, <1>2, PromotionsBounds
    DEF PromotionsInv, PromotionTasksAreSound, PromotionsTyped, PromotionRow, C!Days
  <2>2. late \subseteq late' /\ (promotion[p].end < swept => p \in late')
    BY <1>6, <2>1
  <2>3. QED
    BY <1>4, <1>6, <1>7, <2>2 DEF PromotionsInv, C!EndedIsInactive
<1>12. QED
  BY <1>9, <1>10, <1>11 DEF PromotionsInv

LEMMA CreatePromotionPreservesInv ==
  ASSUME PromotionsInv, NEW p \in Campaigns, NEW start \in C!Days, NEW end \in C!Days,
         NEW d \in Discounts, C!Create(p, start, end, d)
  PROVE  PromotionsInv'
<1>1. PromotionsTyped /\ PromotionTasksAreSound /\ C!EndedIsInactive
  BY DEF PromotionsInv
<1>2. PICK new \in PromotionRow :
        new = [exists |-> TRUE, active |-> TRUE, start |-> start, end |-> end, discount |-> d]
  BY MarketBoundsOK DEF PromotionRow, DiscountRow
<1>3. /\ promotion' = [promotion EXCEPT ![p] = new] /\ ~promotion[p].exists
      /\ late' = IF end < now THEN late \cup {p} ELSE late
      /\ UNCHANGED <<attached, rate, now, swept, task>>
  BY <1>2 DEF C!Create, C!SetLate
<1>4. /\ promotion' \in [Campaigns -> PromotionRow] /\ promotion'[p] = new
      /\ new.exists /\ new.end = end
      /\ \A q \in Campaigns \ {p} : promotion'[q] = promotion[q]
  BY <1>1, <1>2, <1>3 DEF PromotionsTyped
<1>5. PromotionsTyped'
  BY <1>1, <1>3, <1>4 DEF PromotionsTyped
<1>6. PromotionTasksAreSound'
  <2>1. \A h \in Handlers : task[h].pc # "idle" => task[h].on \in Campaigns \ {p}
    BY <1>1, <1>3 DEF PromotionTasksAreSound, PromotionTask
  <2>2. QED
    BY <1>1, <1>3, <1>4, <2>1 DEF PromotionTasksAreSound
<1>7. C!EndedIsInactive'
  <2>1. ~(end < now) => ~(end < swept)
    BY <1>1, PromotionsBounds DEF PromotionsTyped, C!Days
  <2>2. late \subseteq late' /\ (end < swept => p \in late')
    BY <1>3, <2>1
  <2>3. QED
    BY <1>1, <1>3, <1>4, <2>2 DEF C!EndedIsInactive
<1>8. QED
  BY <1>5, <1>6, <1>7 DEF PromotionsInv

LEMMA DeactivatePreservesInv ==
  ASSUME PromotionsInv, NEW p \in Campaigns, C!Deactivate(p)
  PROVE  PromotionsInv'
<1>1. PromotionsTyped /\ PromotionTasksAreSound /\ C!EndedIsInactive
  BY DEF PromotionsInv
<1>2. /\ promotion' = [promotion EXCEPT ![p].active = FALSE]
      /\ UNCHANGED <<attached, rate, now, swept, task, late>>
  BY DEF C!Deactivate
<1>3. /\ promotion' \in [Campaigns -> PromotionRow] /\ ~promotion'[p].active
      /\ \A q \in Campaigns : /\ promotion'[q].exists = promotion[q].exists
                              /\ promotion'[q].end = promotion[q].end
      /\ \A q \in Campaigns \ {p} : promotion'[q] = promotion[q]
  BY <1>1, <1>2 DEF PromotionsTyped, PromotionRow
<1>4. PromotionsTyped'
  BY <1>1, <1>2, <1>3 DEF PromotionsTyped
<1>5. PromotionTasksAreSound'
  <2>1. \A h \in Handlers : task[h].pc # "idle" => task[h].on \in Campaigns
    BY <1>1 DEF PromotionTasksAreSound, PromotionTask
  <2>2. QED
    BY <1>1, <1>2, <1>3, <2>1 DEF PromotionTasksAreSound
<1>6. C!EndedIsInactive'
  BY <1>1, <1>2, <1>3 DEF C!EndedIsInactive
<1>7. QED
  BY <1>4, <1>5, <1>6 DEF PromotionsInv

\* The nightly job switches off what has ended, and every request in progress meets it.
LEMMA NightlyJobPreservesInv ==
  ASSUME PromotionsInv, C!NightlyJob
  PROVE  PromotionsInv'
<1>1. PromotionsTyped /\ PromotionTasksAreSound
  BY DEF PromotionsInv
<1>2. /\ promotion' = [p \in Campaigns |->
           IF promotion[p].active /\ promotion[p].end < now
             THEN [promotion[p] EXCEPT !.active = FALSE] ELSE promotion[p]]
      /\ swept' = now /\ UNCHANGED <<attached, rate, now>>
      /\ task' = [h \in Handlers |->
           IF task[h].pc = "idle" THEN C!Idle ELSE [task[h] EXCEPT !.alone = FALSE]]
  BY DEF C!NightlyJob, C!At
<1>3. ASSUME NEW p \in Campaigns
      PROVE  /\ promotion'[p] \in PromotionRow /\ promotion'[p].exists = promotion[p].exists
             /\ promotion'[p].end = promotion[p].end
             /\ promotion'[p].active => promotion[p].active /\ ~(promotion[p].end < now)
  <2>1. promotion[p] \in PromotionRow
    BY <1>1 DEF PromotionsTyped
  <2>2. CASE promotion[p].active /\ promotion[p].end < now
    <3>1. promotion'[p] = [promotion[p] EXCEPT !.active = FALSE]
      BY <1>2, <2>2
    <3>2. QED
      BY <2>1, <3>1 DEF PromotionRow
  <2>3. CASE ~(promotion[p].active /\ promotion[p].end < now)
    BY <1>2, <2>1, <2>3
  <2>4. QED
    BY <2>2, <2>3
<1>4. ASSUME NEW h \in Handlers
      PROVE  /\ task'[h] \in PromotionTask /\ task'[h].pc = task[h].pc /\ task'[h].on = task[h].on
             /\ task[h].pc # "idle" => ~task'[h].alone
  <2>1. task[h] \in PromotionTask
    BY <1>1 DEF PromotionTasksAreSound
  <2>2. CASE task[h].pc = "idle"
    BY <1>1, <1>2, <2>2, PromotionIdle DEF PromotionTasksAreSound
  <2>3. CASE task[h].pc # "idle"
    <3>1. task'[h] = [task[h] EXCEPT !.alone = FALSE]
      BY <1>2, <2>3
    <3>2. QED
      BY <2>1, <3>1 DEF PromotionTask
  <2>4. QED
    BY <2>2, <2>3
<1>5. promotion' \in [Campaigns -> PromotionRow]
  BY <1>2, <1>3
<1>6. task' \in [Handlers -> PromotionTask]
  BY <1>2, <1>4
<1>7. swept' <= now'
  BY <1>1, <1>2, PromotionsBounds DEF PromotionsTyped, C!Days
<1>8. PromotionsTyped'
  BY <1>1, <1>2, <1>3, <1>5, <1>7 DEF PromotionsTyped
<1>9. PromotionTasksAreSound'
  <2>1. \A h \in Handlers : task[h].pc # "idle" => task[h].on \in Campaigns
    BY <1>1 DEF PromotionTasksAreSound, PromotionTask
  <2>2. QED
    BY <1>1, <1>3, <1>4, <1>6, <2>1, PromotionsBounds DEF PromotionTasksAreSound
<1>10. C!EndedIsInactive'
  BY <1>2, <1>3 DEF C!EndedIsInactive
<1>11. QED
  BY <1>8, <1>9, <1>10 DEF PromotionsInv

\* What changes no promotion but where it is attached, prices and the day.
LEMMA PromotionOtherStepsPreserveInv ==
  ASSUME PromotionsInv,
         \/ \E p \in Campaigns, ls \in SUBSET Listings : C!AttachListings(p, ls)
         \/ \E p \in Campaigns, l \in Listings : C!DetachListing(p, l)
         \/ \E l \in Listings, francs \in Francs : C!Reprice(l, francs)
         \/ \E n \in Quotes : C!SetFrozenRate(n)
         \/ C!NextDay
         \/ UNCHANGED <<promotion, attached, rate, now, swept, late, task>>
  PROVE  PromotionsInv'
<1>1. PromotionsTyped /\ PromotionTasksAreSound /\ C!EndedIsInactive
  BY DEF PromotionsInv
<1>2. UNCHANGED <<promotion, swept, late, task>>
  BY DEF C!AttachListings, C!DetachListing, C!Reprice, C!SetFrozenRate, C!NextDay
<1>3. /\ attached' \subseteq Listings \X Campaigns
      /\ \A place \in attached' : promotion[place[2]].exists
  <2>1. ASSUME NEW p \in Campaigns, NEW ls \in SUBSET Listings, C!AttachListings(p, ls)
        PROVE  /\ attached' \subseteq Listings \X Campaigns
               /\ \A place \in attached' : promotion[place[2]].exists
    BY <1>1, <2>1 DEF PromotionsTyped, C!AttachListings
  <2>2. CASE attached' \subseteq attached
    BY <1>1, <2>2 DEF PromotionsTyped
  <2>3. QED
    BY <2>1, <2>2 DEF C!DetachListing, C!Reprice, C!SetFrozenRate, C!NextDay
<1>4. rate' \in Quotes
  BY <1>1 DEF PromotionsTyped, C!AttachListings, C!DetachListing, C!Reprice, C!SetFrozenRate,
              C!NextDay
<1>5. now' \in C!Days /\ swept <= now'
  <2>1. CASE now' = now
    BY <1>1, <2>1 DEF PromotionsTyped
  <2>2. CASE C!NextDay
    BY <1>1, <2>2, PromotionsBounds DEF PromotionsTyped, C!NextDay, C!Days
  <2>3. QED
    BY <2>1, <2>2 DEF C!AttachListings, C!DetachListing, C!Reprice, C!SetFrozenRate
<1>6. PromotionsTyped'
  BY <1>1, <1>2, <1>3, <1>4, <1>5 DEF PromotionsTyped, C!Days
<1>7. PromotionTasksAreSound' /\ C!EndedIsInactive'
  BY <1>1, <1>2 DEF PromotionTasksAreSound, C!EndedIsInactive
<1>8. QED
  BY <1>6, <1>7 DEF PromotionsInv

LEMMA PromotionsNextPreservesInv ==
  ASSUME PromotionsInv, C!Next
  PROVE  PromotionsInv'
<1>1. ASSUME NEW h \in Handlers, C!Crash(h)
      PROVE  PromotionsInv'
  <2>1. C!Finish(h) /\ UNCHANGED <<promotion, attached, rate, now, swept, late>>
    BY <1>1 DEF C!Crash
  <2>2. PromotionTasksAreSound'
    BY <2>1, PromotionFinish
  <2>3. PromotionsTyped' /\ C!EndedIsInactive'
    BY <2>1 DEF PromotionsInv, PromotionsTyped, C!EndedIsInactive
  <2>4. QED
    BY <2>2, <2>3 DEF PromotionsInv
<1>2. QED
  BY <1>1, PromotionBeginPreservesInv, CommitUpdatePreservesInv, CommitActivatePreservesInv,
     CreatePromotionPreservesInv, DeactivatePreservesInv, NightlyJobPreservesInv,
     PromotionOtherStepsPreserveInv
  DEF C!Next, C!Begin, C!Request

\* What the invariant says of the properties of Promotions.
LEMMA PromotionsInvHolds == PromotionsInv => C!TypeOK /\ C!EndedIsInactive
<1> SUFFICES ASSUME PromotionsInv
             PROVE  C!TypeOK
  BY DEF PromotionsInv
<1>1. \A p \in Campaigns : promotion[p].start \in C!Days /\ promotion[p].end \in C!Days
  BY DEF PromotionsInv, PromotionsTyped, PromotionRow
<1>2. QED
  BY <1>1 DEF PromotionsInv, PromotionsTyped, PromotionTasksAreSound, C!TypeOK, C!At

(* The price shown *)

\* Each listing has whole francs, and the whole cents they made at the rate of its pricing.
PromotedPrices ==
  /\ rate \in Quotes
  /\ price \in [Listings -> [rwf : Nat, usd : Int]] /\ pricedAt \in [Listings -> Quotes]
  /\ \A l \in Listings : price[l].usd = C!Round(price[l].rwf * 100, pricedAt[l])
PromotedPricesIInv == work = "promotions" => PromotedPrices

LEMMA QuotesAre == \A r \in Quotes : r \in Nat /\ r > 0
  BY MarketBoundsOK

LEMMA CentsType ==
  ASSUME NEW x \in Int, NEW r \in Nat, r > 0
  PROVE  C!Round(x, r) \in Int
  BY DEF C!Round

LEMMA PromotedPricesInit == C!Init => PromotedPrices
<1> SUFFICES ASSUME C!Init
             PROVE  PromotedPrices
  OBVIOUS
<1>1. rate \in Quotes /\ pricedAt = [l \in Listings |-> rate]
  BY MarketBoundsOK DEF C!Init
<1>2. PICK francs \in Francs :
        price = [l \in Listings |-> [rwf |-> francs, usd |-> C!Round(francs * 100, rate)]]
  BY DEF C!Init, C!RwfToUsd
<1>3. francs \in Nat
  BY <1>2, MarketBoundsOK
<1>4. rate \in Nat /\ rate > 0
  BY <1>1, QuotesAre
<1>5. C!Round(francs * 100, rate) \in Int
  <2>1. francs * 100 \in Int
    BY <1>3
  <2>2. QED
    BY <1>4, <2>1, CentsType
<1>6. QED
  BY <1>1, <1>2, <1>3, <1>5 DEF PromotedPrices

LEMMA PromotedPricesStep == PromotedPrices /\ C!Next => PromotedPrices'
<1> SUFFICES ASSUME PromotedPrices, C!Next
             PROVE  PromotedPrices'
  OBVIOUS
<1>1. CASE UNCHANGED <<price, pricedAt, rate>>
  BY <1>1 DEF PromotedPrices
<1>2. ASSUME NEW l \in Listings, NEW francs \in Francs, C!Reprice(l, francs)
      PROVE  PromotedPrices'
  <2>1. francs \in Nat /\ C!Round(francs * 100, rate) \in Int
    <3>1. francs \in Nat /\ francs * 100 \in Int
      BY MarketBoundsOK
    <3>2. rate \in Nat /\ rate > 0
      BY QuotesAre DEF PromotedPrices
    <3>3. QED
      BY <3>1, <3>2, CentsType
  <2>2. /\ price' = [price EXCEPT ![l] = [rwf |-> francs, usd |-> C!Round(francs * 100, rate)]]
        /\ pricedAt' = [pricedAt EXCEPT ![l] = rate] /\ rate' = rate
    BY <1>2 DEF C!Reprice, C!RwfToUsd
  <2>3. QED
    BY <2>1, <2>2 DEF PromotedPrices
<1>3. ASSUME NEW n \in Quotes, C!SetFrozenRate(n)
      PROVE  PromotedPrices'
  BY <1>3 DEF C!SetFrozenRate, PromotedPrices
<1>4. \/ UNCHANGED <<price, pricedAt, rate>>
      \/ \E l \in Listings, francs \in Francs : C!Reprice(l, francs)
      \/ \E n \in Quotes : C!SetFrozenRate(n)
  <2>1. ASSUME NEW p \in Campaigns, C!Request(p)
        PROVE  UNCHANGED <<price, pricedAt, rate>>
    BY <2>1 DEF C!Request, C!Create, C!Deactivate, C!AttachListings, C!DetachListing
  <2>2. ASSUME NEW h \in Handlers, NEW p \in Campaigns,
               \/ \E start, end \in C!Days \cup {None} :
                    C!BeginUpdate(h, p, start, end, C!NoChange)
               \/ \E given \in C!Changes : C!BeginUpdate(h, p, None, None, given)
               \/ C!BeginActivate(h, p)
        PROVE  UNCHANGED <<price, pricedAt, rate>>
    <3>1. \A t : C!Start(h, t) => UNCHANGED <<price, pricedAt, rate>>
      BY DEF C!Start
    <3>2. \A start, end, given : C!BeginUpdate(h, p, start, end, given) =>
            UNCHANGED <<price, pricedAt, rate>>
      BY <3>1 DEF C!BeginUpdate
    <3>3. C!BeginActivate(h, p) => UNCHANGED <<price, pricedAt, rate>>
      BY <3>1 DEF C!BeginActivate
    <3>4. QED
      BY <2>2, <3>2, <3>3
  <2>3. ASSUME NEW h \in Handlers, C!CommitUpdate(h) \/ C!CommitActivate(h) \/ C!Crash(h)
        PROVE  UNCHANGED <<price, pricedAt, rate>>
    BY <2>3 DEF C!CommitUpdate, C!CommitActivate, C!Crash
  <2>4. C!NightlyJob \/ C!NextDay => UNCHANGED <<price, pricedAt, rate>>
    BY DEF C!NightlyJob, C!NextDay
  <2>5. QED
    BY <2>1, <2>2, <2>3, <2>4 DEF C!Next, C!Begin
<1>5. QED
  BY <1>1, <1>2, <1>3, <1>4

(* Rounding *)

\* Promotions rounds to the nearest, halves up.
LEMMA Quotient ==
  ASSUME NEW x \in Int, NEW n \in Nat, n > 0
  PROVE  /\ x \div n \in Int /\ n * (x \div n) \in Int /\ n * (x \div n) <= x
         /\ x < n * (x \div n) + n
  OBVIOUS

LEMMA DividingIsMonotone ==
  ASSUME NEW x \in Int, NEW y \in Int, x <= y, NEW n \in Nat, n > 0
  PROVE  x \div n <= y \div n
<1> DEFINE a == x \div n
           b == y \div n
<1>1. a \in Int /\ b \in Int /\ n * a <= x /\ y < n * b + n
  BY Quotient
<1> HIDE DEF a, b
<1>2. n * a < n * b + n /\ n * b + n = n * (b + 1)
  BY <1>1
<1>3. a < b + 1
  BY <1>1, <1>2
<1>4. QED
  BY <1>1, <1>3 DEF a, b

LEMMA CentIs == C!Cent \in Nat /\ C!Cent > 0
  BY MarketBoundsOK DEF C!Cent

\* A price in dollars that is not higher is not higher in francs.
LEMMA FrancsAreMonotone ==
  ASSUME NEW r \in Nat, r > 0, rate = r, NEW a \in Int, NEW b \in Int, a <= b
  PROVE  C!UsdtToRwf(a) <= C!UsdtToRwf(b)
<1>1. a * r \in Int /\ b * r \in Int /\ a * r <= b * r
  OBVIOUS
<1> DEFINE x == 2 * (a * r) + 100 * C!Cent
           y == 2 * (b * r) + 100 * C!Cent
           n == 2 * (100 * C!Cent)
<1>2. x \in Int /\ y \in Int /\ x <= y /\ n \in Nat /\ n > 0
  BY <1>1, CentIs
<1>3. C!UsdtToRwf(a) = x \div n /\ C!UsdtToRwf(b) = y \div n
  BY DEF C!UsdtToRwf, C!Round
<1> HIDE DEF x, y, n
<1>4. QED
  BY <1>2, <1>3, DividingIsMonotone

Left(usd, parts) == IF parts > usd * C!Cent THEN 0 ELSE usd * C!Cent - parts

\* What is left of a price of whole francs when parts of a cent are taken off it: not below
\* zero, hardly more than the price, not more once half a cent is taken off, and less once
\* half a cent and half a franc are.
Reduces(francs, usd, parts) ==
  LET left == C!UsdtToRwf(Left(usd, parts)) IN
  /\ 0 <= left /\ 200 * (left - francs) <= rate + 100
  /\ 2 * parts >= C!Cent => left <= francs
  /\ 2 * parts * rate > C!Cent * (rate + 100) => left < francs

\* The same of numbers: c parts make a cent, full is the price in dollars at rate r, off what
\* is taken off at rate r.
LEMMA RoundedIsLess ==
  ASSUME NEW c \in Nat, c > 0, NEW r \in Nat, r > 0, NEW full \in Int, NEW off \in Nat,
         NEW francs \in Nat, 2 * full <= 200 * francs + r, NEW left \in Int,
         (200 * c) * left <= 2 * (c * full - off) + 100 * c
  PROVE  /\ 200 * (left - francs) <= r + 100
         /\ 2 * off >= c * r => left <= francs
         /\ 2 * off > c * (r + 100) => left < francs
<1> DEFINE k == 200 * (left - francs) - r - 100
<1>1. c * (2 * full) <= c * (200 * francs + r)
  OBVIOUS
<1>2. /\ (200 * c) * left = c * (200 * left) /\ c * (2 * full) = 2 * (c * full)
      /\ c * (200 * francs + r) + 100 * c = c * (200 * francs + r + 100)
  OBVIOUS
<1>3. c * (200 * left) <= c * (200 * francs + r + 100) - 2 * off
  BY <1>1, <1>2
<1>4. c * k = c * (200 * left) - c * (200 * francs + r + 100)
  OBVIOUS
<1>5. k \in Int /\ c * k \in Int /\ c * k <= 0 - 2 * off
  BY <1>3, <1>4
<1>6. 200 * (left - francs) = k + r + 100
  OBVIOUS
<1> HIDE DEF k
<1>7. k <= 0
  BY <1>5
<1>8. c * (k + r) = c * k + c * r /\ c * (k + (r + 100)) = c * k + c * (r + 100)
  BY <1>5
<1>9. ASSUME 2 * off >= c * r
      PROVE  left <= francs
  <2>1. c * (k + r) <= 0
    BY <1>5, <1>8, <1>9
  <2>2. k + r <= 0
    BY <1>5, <2>1
  <2>3. QED
    BY <1>5, <1>6, <2>2
<1>10. ASSUME 2 * off > c * (r + 100)
       PROVE  left < francs
  <2>1. c * (k + (r + 100)) < 0
    BY <1>5, <1>8, <1>10
  <2>2. k + (r + 100) < 0
    BY <1>5, <2>1
  <2>3. QED
    BY <1>5, <1>6, <2>2
<1>11. QED
  BY <1>5, <1>6, <1>7, <1>9, <1>10

LEMMA ReducedIsLess ==
  ASSUME rate \in Nat, rate > 0, NEW francs \in Nat, NEW parts \in Nat, parts > 0,
         NEW usd \in Nat, usd > 0, usd = C!Round(francs * 100, rate)
  PROVE  Reduces(francs, usd, parts)
<1> DEFINE r == rate
           c == C!Cent
           left == Left(usd, parts)
           full == usd * r
           off == parts * r
           worth == left * r
           shows == C!UsdtToRwf(left)
<1>1. 2 * full <= 200 * francs + r
  <2> DEFINE x == 200 * francs + r
             y == 2 * r
  <2>1. x \in Nat /\ y \in Nat /\ y > 0 /\ usd = x \div y
    BY DEF C!Round
  <2> HIDE DEF x, y
  <2>2. y * usd <= x
    BY <2>1, Quotient
  <2>3. y * usd = 2 * (usd * r)
    BY DEF y
  <2>4. QED
    BY <2>2, <2>3 DEF x
<1>2. c \in Nat /\ c > 0 /\ usd * c \in Nat
  BY CentIs
<1> HIDE DEF c
<1>3. left \in Nat /\ worth \in Nat /\ full \in Nat /\ off \in Nat /\ full >= r
  BY <1>2 DEF Left, c
<1>4. shows = (2 * worth + 100 * c) \div (2 * (100 * c))
  BY DEF C!UsdtToRwf, C!Round, c
<1>5. worth = IF parts > usd * c THEN 0 ELSE c * full - off
  <2>1. (usd * c - parts) * r = c * (usd * r) - parts * r
    BY <1>2
  <2>2. QED
    BY <1>2, <2>1 DEF Left, c
<1> HIDE DEF worth, full, left
<1> DEFINE x == 2 * worth + 100 * c
           n == 2 * (100 * c)
<1>6. x \in Nat /\ n \in Nat /\ n > 0 /\ shows = x \div n
  BY <1>2, <1>3, <1>4
<1> HIDE DEF x, n, shows
<1>7. shows \in Int /\ n * shows <= x /\ x < n * shows + n
  BY <1>6, Quotient
<1>8. shows >= 0
  <2>1. n * (shows + 1) > 0
    BY <1>6, <1>7
  <2>2. shows + 1 > 0
    BY <1>6, <1>7, <2>1
  <2>3. QED
    BY <1>7, <2>2
<1>9. /\ 200 * (shows - francs) <= r + 100
      /\ 2 * off >= c * r => shows <= francs
      /\ 2 * off > c * (r + 100) => shows < francs
  <2>1. CASE parts > usd * c
    <3>1. worth = 0 /\ x = 100 * c /\ n = 2 * x
      BY <1>2, <1>5, <2>1 DEF x, n
    <3>2. shows = 0
      <4>1. n * shows < n * 1
        BY <1>6, <1>7, <3>1
      <4>2. shows < 1
        BY <1>6, <1>7, <4>1
      <4>3. QED
        BY <1>7, <1>8, <4>2
    <3>3. francs >= 1
      BY <1>1, <1>3
    <3>4. QED
      BY <3>2, <3>3
  <2>2. CASE ~(parts > usd * c)
    <3>1. (200 * c) * shows <= 2 * (c * full - off) + 100 * c
      BY <1>2, <1>3, <1>5, <1>7, <2>2 DEF x, n
    <3> HIDE DEF off
    <3>2. QED
      BY <1>1, <1>2, <1>3, <1>7, <3>1, RoundedIsLess
  <2>3. QED
    BY <2>1, <2>2
<1>10. 2 * parts >= c => 2 * off >= c * r
  <2>1. ASSUME 2 * parts >= c
        PROVE  (2 * parts) * r >= c * r
    BY <1>2, <2>1
  <2>2. (2 * parts) * r = 2 * off
    OBVIOUS
  <2>3. QED
    BY <2>1, <2>2
<1>11. 2 * parts * r = 2 * off
  OBVIOUS
<1>12. QED
  BY <1>7, <1>8, <1>9, <1>10, <1>11 DEF Reduces, shows, left, c

(* The best of the rows *)

\* What the loop keeps when it comes to promotion p.
Better(usd, best, p) ==
  IF C!Saving(usd, p) > (IF best = None THEN 0 ELSE C!Saving(usd, best)) THEN p ELSE best

\* What it has kept after each of the first n rows.
KeptAfter(usd, ps, n, f) ==
  f = [k \in 0 .. n |-> IF k = 0 THEN None ELSE Better(usd, f[k - 1], ps[k])]

LEMMA KeptExists ==
  ASSUME NEW usd, NEW ps, NEW n \in Nat
  PROVE  \E f : KeptAfter(usd, ps, n, f)
<1> DEFINE D == {m \in 0 .. n : ~\E f : KeptAfter(usd, ps, m, f)}
<1> SUFFICES ASSUME D # {}
             PROVE  FALSE
  OBVIOUS
<1>1. PICK m \in D : \A k \in D : m <= k
  <2>1. D \in SUBSET (0 .. n)
    OBVIOUS
  <2> HIDE DEF D
  <2>2. QED
    BY <2>1, LeastExists
<1>2. m \in 0 .. n /\ ~\E f : KeptAfter(usd, ps, m, f)
  OBVIOUS
<1>3. CASE m = 0
  <2> DEFINE f == [k \in 0 .. 0 |-> None]
  <2>1. f = [k \in 0 .. 0 |-> IF k = 0 THEN None ELSE Better(usd, f[k - 1], ps[k])]
    OBVIOUS
  <2>2. QED
    BY <1>2, <1>3, <2>1 DEF KeptAfter
<1>4. CASE m # 0
  <2>1. m - 1 \in 0 .. n /\ m - 1 \notin D
    BY <1>1, <1>2, <1>4
  <2>2. PICK f : KeptAfter(usd, ps, m - 1, f)
    BY <2>1
  <2>3. f = [k \in 0 .. m - 1 |-> IF k = 0 THEN None ELSE Better(usd, f[k - 1], ps[k])]
    BY <2>2 DEF KeptAfter
  <2> DEFINE e == [k \in 0 .. m |-> IF k = m THEN Better(usd, f[m - 1], ps[m]) ELSE f[k]]
  <2>4. ASSUME NEW k \in 0 .. m
        PROVE  e[k] = IF k = 0 THEN None ELSE Better(usd, e[k - 1], ps[k])
    <3>1. CASE k = 0
      BY <1>2, <1>4, <2>3, <3>1
    <3>2. CASE k = m
      BY <1>2, <1>4, <3>2
    <3>3. CASE k \in 1 .. m - 1
      <4>1. e[k] = f[k] /\ e[k - 1] = f[k - 1] /\ k \in 0 .. m - 1
        BY <1>2, <3>3
      <4>2. f[k] = Better(usd, f[k - 1], ps[k])
        BY <2>3, <3>3, <4>1
      <4>3. QED
        BY <3>3, <4>1, <4>2
    <3>4. QED
      BY <1>2, <3>1, <3>2, <3>3
  <2>5. e = [k \in 0 .. m |-> e[k]]
    OBVIOUS
  <2> HIDE DEF e
  <2>6. KeptAfter(usd, ps, m, e)
    BY <2>4, <2>5 DEF KeptAfter
  <2>7. QED
    BY <1>2, <2>6
<1>5. QED
  BY <1>3, <1>4

LEMMA PickBestIsKept ==
  ASSUME NEW usd, NEW ps, Len(ps) \in Nat
  PROVE  \E f : KeptAfter(usd, ps, Len(ps), f) /\ C!PickBest(usd, ps) = f[Len(ps)]
<1> DEFINE f == CHOOSE f : KeptAfter(usd, ps, Len(ps), f)
<1>1. KeptAfter(usd, ps, Len(ps), f)
  BY KeptExists
<1>2. C!PickBest(usd, ps) = f[Len(ps)]
  BY DEF C!PickBest, KeptAfter, Better
<1>3. QED
  BY <1>1, <1>2

\* The loop ends with a row that saves, and none saves more; or no row saves.
KeptIsBest(usd, ps, n, best) ==
  /\ best = None => \A k \in 1 .. n : C!Saving(usd, ps[k]) <= 0
  /\ best # None => /\ \E k \in 1 .. n : best = ps[k]
                    /\ C!Saving(usd, best) > 0
                    /\ \A k \in 1 .. n : C!Saving(usd, ps[k]) <= C!Saving(usd, best)

LEMMA BestIsKept ==
  ASSUME NEW usd, NEW ps, NEW n \in Nat, NEW f, KeptAfter(usd, ps, n, f),
         \A k \in 1 .. n : ps[k] # None /\ C!Saving(usd, ps[k]) \in Int
  PROVE  KeptIsBest(usd, ps, n, f[n])
<1> DEFINE D == {m \in 0 .. n : ~KeptIsBest(usd, ps, m, f[m])}
<1> SUFFICES ASSUME D # {}
             PROVE  FALSE
  OBVIOUS
<1>1. PICK m \in D : \A k \in D : m <= k
  <2>1. D \in SUBSET (0 .. n)
    OBVIOUS
  <2> HIDE DEF D
  <2>2. QED
    BY <2>1, LeastExists
<1>2. m \in 0 .. n /\ ~KeptIsBest(usd, ps, m, f[m])
  OBVIOUS
<1>3. \A k \in 0 .. n : f[k] = IF k = 0 THEN None ELSE Better(usd, f[k - 1], ps[k])
  BY DEF KeptAfter
<1>4. CASE m = 0
  BY <1>2, <1>3, <1>4 DEF KeptIsBest
<1>5. CASE m # 0
  <2>1. m - 1 \in 0 .. n /\ m - 1 \notin D /\ m \in 1 .. n
    BY <1>1, <1>2, <1>5
  <2>2. KeptIsBest(usd, ps, m - 1, f[m - 1])
    BY <2>1
  <2>3. f[m] = Better(usd, f[m - 1], ps[m])
    BY <1>2, <1>3, <1>5
  <2>4. \A k \in 1 .. m : k \in 1 .. m - 1 \/ k = m
    BY <2>1
  <2>5. \A k \in 1 .. m : ps[k] # None /\ C!Saving(usd, ps[k]) \in Int
    BY <2>1
  <2>6. KeptIsBest(usd, ps, m, f[m])
    <3>1. CASE f[m - 1] = None
      BY <2>1, <2>2, <2>3, <2>4, <2>5, <3>1 DEF KeptIsBest, Better
    <3>2. CASE f[m - 1] # None
      BY <2>1, <2>2, <2>3, <2>4, <2>5, <3>2 DEF KeptIsBest, Better
    <3>3. QED
      BY <3>1, <3>2
  <2>7. QED
    BY <1>2, <2>6
<1>6. QED
  BY <1>4, <1>5

\* pickBestDiscountPromotion, for any number of promotions in any order: what it returns saves
\* something, and no promotion saves more; it returns none only if none saves anything.
THEOREM PickBestIsBest ==
  ASSUME NEW usd, NEW ps, Len(ps) \in Nat,
         \A k \in 1 .. Len(ps) : ps[k] # None /\ C!Saving(usd, ps[k]) \in Int
  PROVE  KeptIsBest(usd, ps, Len(ps), C!PickBest(usd, ps))
<1>1. PICK f : KeptAfter(usd, ps, Len(ps), f) /\ C!PickBest(usd, ps) = f[Len(ps)]
  BY PickBestIsKept
<1>2. QED
  BY <1>1, BestIsKept

(* The rows, in any order *)

\* Promotions counts with the definitions of its own instance of the library.
LEMMA CardinalityIs == \A D : C!Cardinality(D) = Cardinality(D)
  BY DEF C!Cardinality, Cardinality, C!IsFiniteSet, IsFiniteSet

LEMMA RowsAre ==
  ASSUME NEW D, IsFiniteSet(D), NEW ps \in C!SetToSeqs(D)
  PROVE  /\ Len(ps) \in Nat /\ \A k \in 1 .. Len(ps) : ps[k] \in D
         /\ \A p \in D : \E k \in 1 .. Len(ps) : ps[k] = p
<1> DEFINE n == Cardinality(D)
<1>1. n \in Nat
  BY FS_CardinalityType
<1>2. /\ ps \in [1 .. n -> D]
      /\ \A i, j \in 1 .. n : i # j => ps[i] # ps[j]
  BY CardinalityIs DEF C!SetToSeqs
<1> HIDE DEF n
<1>3. Len(ps) = n
  BY <1>1, <1>2
<1>4. ps \in Injection(1 .. n, D)
  BY <1>2 DEF Injection, IsInjective
<1>5. Cardinality(1 .. n) = n
  BY <1>1, FS_Interval
<1>6. ps \in Surjection(1 .. n, D)
  <2>1. Cardinality(D) = n
    BY DEF n
  <2>2. QED
    BY <1>4, <1>5, <2>1, FS_Injection
<1>7. QED
  BY <1>1, <1>2, <1>3, <1>6 DEF Surjection

LEMMA RowsExist ==
  ASSUME NEW D, IsFiniteSet(D)
  PROVE  C!SetToSeqs(D) # {}
<1>1. PICK n \in Nat : ExistsBijection(1 .. n, D)
  BY FS_NatBijection
<1>2. Cardinality(D) = n
  BY <1>1, FS_CountingElements
<1>3. PICK ps \in [1 .. n -> D] : \A i, j \in 1 .. n : i # j => ps[i] # ps[j]
  BY <1>1 DEF ExistsBijection, Bijection, Injection, IsInjective
<1>4. ps \in C!SetToSeqs(D)
  BY <1>2, <1>3, CardinalityIs DEF C!SetToSeqs
<1>5. QED
  BY <1>4

\* A promotion saves parts of a cent, and nothing of a price that is nothing.
LEMMA SavingIs ==
  ASSUME NEW p \in Campaigns, promotion[p] \in PromotionRow, NEW usd \in Nat
  PROVE  C!Saving(usd, p) \in Nat /\ (C!Saving(usd, p) > 0 => usd > 0)
<1> DEFINE d == promotion[p].discount
           whole == usd * C!Cent
<1>1. /\ d.percent # None => d.percent \in Nat
      /\ d.amount # None => d.amount \in Nat
  BY DEF PromotionRow, DiscountRow
<1>2. C!Saving(usd, p) = IF d.percent # None THEN usd * d.percent
                         ELSE IF d.amount # None THEN IF d.amount < whole THEN d.amount ELSE whole
                         ELSE 0
  BY DEF C!Saving
<1>3. whole \in Nat /\ (usd = 0 => whole = 0)
  BY CentIs
<1> HIDE DEF d, whole
<1>4. CASE d.percent # None
  BY <1>1, <1>2, <1>4
<1>5. CASE d.percent = None
  BY <1>1, <1>2, <1>3, <1>5
<1>6. QED
  BY <1>4, <1>5

\* Saving more leaves less to pay.
LEMMA SavingMorePaysLess ==
  ASSUME NEW p \in Campaigns, NEW q \in Campaigns, promotion[p] \in PromotionRow,
         promotion[q] \in PromotionRow, NEW usd \in Nat,
         C!Saving(usd, p) <= C!Saving(usd, q)
  PROVE  /\ C!EffectivePrice(usd, p) \in Int /\ C!EffectivePrice(usd, q) \in Int
         /\ C!EffectivePrice(usd, q) <= C!EffectivePrice(usd, p)
<1>1. C!Saving(usd, p) \in Nat /\ C!Saving(usd, q) \in Nat
  BY SavingIs
<1>2. usd * C!Cent \in Nat
  BY CentIs
<1>3. QED
  BY <1>1, <1>2 DEF C!EffectivePrice

\* What the price shown is to a saving.
Lowers(franc, francs, saving) ==
  /\ 2 * saving >= C!Cent => franc <= francs
  /\ 2 * saving * rate > C!Cent * (rate + 100) => franc < francs

\* What the invariants say of the price shown.
LEMMA BestIsShownHolds == PromotionsTyped /\ PromotedPrices => C!BestIsShown
<1> SUFFICES ASSUME PromotionsTyped, PromotedPrices, NEW l \in Listings, pricedAt[l] = rate
             PROVE  /\ \A p \in C!DiscountPromotions(l) :
                         C!Saving(price[l].usd, p) > 0 => C!PromotionalPrices(l) # {}
                    /\ \A franc \in C!PromotionalPrices(l) :
                         /\ 0 <= franc /\ 200 * (franc - price[l].rwf) <= rate + 100
                         /\ \A p \in C!DiscountPromotions(l) :
                              /\ franc <= C!UsdtToRwf(C!EffectivePrice(price[l].usd, p))
                              /\ Lowers(franc, price[l].rwf, C!Saving(price[l].usd, p))
  BY DEF C!BestIsShown, Lowers
<1> DEFINE usd == price[l].usd
           francs == price[l].rwf
           D == C!DiscountPromotions(l)
<1>1. rate \in Nat /\ rate > 0 /\ francs \in Nat /\ usd = C!Round(francs * 100, rate)
  BY QuotesAre DEF PromotedPrices
<1>2. usd \in Nat
  BY <1>1 DEF C!Round
<1>3. /\ D \subseteq Campaigns /\ IsFiniteSet(D) /\ \A p \in D : p # None
      /\ \A p \in D : promotion[p] \in PromotionRow
  <2>1. D \subseteq Campaigns
    BY DEF C!DiscountPromotions
  <2>2. IsFiniteSet(Campaigns) /\ None \notin Campaigns
    BY MarketBoundsOK
  <2> HIDE DEF D
  <2>3. IsFiniteSet(D)
    BY <2>1, <2>2, FS_Subset
  <2>4. QED
    BY <2>1, <2>2, <2>3 DEF PromotionsTyped
<1> HIDE DEF D
<1>4. \A p \in D : C!Saving(usd, p) \in Nat /\ (C!Saving(usd, p) > 0 => usd > 0)
  <2> HIDE DEF usd
  <2>1. QED
    BY <1>2, <1>3, SavingIs
<1>5. ASSUME NEW ps \in C!SetToSeqs(D)
      PROVE  /\ C!PickBest(usd, ps) = None => \A p \in D : C!Saving(usd, p) <= 0
             /\ C!PickBest(usd, ps) # None =>
                  /\ C!PickBest(usd, ps) \in D /\ C!Saving(usd, C!PickBest(usd, ps)) > 0
                  /\ \A p \in D : C!Saving(usd, p) <= C!Saving(usd, C!PickBest(usd, ps))
  <2>1. /\ Len(ps) \in Nat /\ \A k \in 1 .. Len(ps) : ps[k] \in D
        /\ \A p \in D : \E k \in 1 .. Len(ps) : ps[k] = p
    BY <1>3, RowsAre
  <2> HIDE DEF usd
  <2>2. \A k \in 1 .. Len(ps) : ps[k] # None /\ C!Saving(usd, ps[k]) \in Int
    BY <1>3, <1>4, <2>1
  <2>3. KeptIsBest(usd, ps, Len(ps), C!PickBest(usd, ps))
    BY <2>1, <2>2, PickBestIsBest
  <2>4. QED
    BY <2>1, <2>3 DEF KeptIsBest
<1>6. C!PromotionalPrices(l) =
        {C!UsdtToRwf(C!EffectivePrice(usd, q)) :
           q \in {C!PickBest(usd, ps) : ps \in C!SetToSeqs(D)} \ {None}}
  BY DEF C!PromotionalPrices, D
<1>7. ASSUME NEW p \in D, C!Saving(usd, p) > 0
      PROVE  C!PromotionalPrices(l) # {}
  <2>1. PICK ps : ps \in C!SetToSeqs(D)
    BY <1>3, RowsExist
  <2> HIDE DEF usd
  <2>2. C!PickBest(usd, ps) # None
    BY <1>4, <1>5, <1>7, <2>1
  <2>3. QED
    BY <1>6, <2>1, <2>2
<1>8. ASSUME NEW franc \in C!PromotionalPrices(l)
      PROVE  /\ 0 <= franc /\ 200 * (franc - francs) <= rate + 100
             /\ \A p \in D :
                  /\ franc <= C!UsdtToRwf(C!EffectivePrice(usd, p))
                  /\ Lowers(franc, francs, C!Saving(usd, p))
  <2> HIDE DEF usd, francs
  <2>1. PICK q \in D : /\ franc = C!UsdtToRwf(C!EffectivePrice(usd, q))
                       /\ C!Saving(usd, q) > 0
                       /\ \A p \in D : C!Saving(usd, p) <= C!Saving(usd, q)
    BY <1>5, <1>6
  <2> DEFINE parts == C!Saving(usd, q)
             left == C!EffectivePrice(usd, q)
  <2>2. parts \in Nat /\ parts > 0 /\ usd > 0
    BY <1>4, <2>1
  <2>3. left = Left(usd, parts)
    BY DEF C!EffectivePrice, Left
  <2> HIDE DEF parts, left
  <2>4. Reduces(francs, usd, parts)
    BY <1>1, <1>2, <2>2, ReducedIsLess
  <2>5. ASSUME NEW p \in D
        PROVE  /\ franc <= C!UsdtToRwf(C!EffectivePrice(usd, p))
               /\ Lowers(franc, francs, C!Saving(usd, p))
    <3>1. /\ C!EffectivePrice(usd, p) \in Int /\ C!EffectivePrice(usd, q) \in Int
          /\ C!EffectivePrice(usd, q) <= C!EffectivePrice(usd, p)
      BY <1>2, <1>3, <2>1, SavingMorePaysLess
    <3>2. franc <= C!UsdtToRwf(C!EffectivePrice(usd, p))
      BY <1>1, <2>1, <3>1, FrancsAreMonotone
    <3>3. C!Saving(usd, p) \in Nat /\ C!Saving(usd, p) <= parts
      BY <1>4, <2>1 DEF parts
    <3> DEFINE fewer == C!Saving(usd, p)
    <3>4. fewer \in Nat /\ fewer <= parts
      BY <3>3
    <3> HIDE DEF fewer
    <3>5. 2 * fewer * rate <= 2 * parts * rate
      BY <1>1, <2>2, <3>4
    <3>6. /\ 2 * fewer * rate \in Int /\ 2 * parts * rate \in Int
          /\ C!Cent \in Int /\ C!Cent * (rate + 100) \in Int
      BY <1>1, <2>2, <3>4, CentIs
    <3>7. /\ 2 * fewer >= C!Cent => 2 * parts >= C!Cent
          /\ 2 * fewer * rate > C!Cent * (rate + 100) => 2 * parts * rate > C!Cent * (rate + 100)
      BY <2>2, <3>4, <3>5, <3>6
    <3>8. Lowers(franc, francs, fewer)
      BY <2>1, <2>3, <2>4, <3>7 DEF left, Reduces, Lowers
    <3>9. QED
      BY <3>2, <3>8 DEF fewer
  <2>6. QED
    BY <2>1, <2>3, <2>4, <2>5 DEF left, Reduces
<1>9. QED
  BY <1>7, <1>8 DEF D

-----------------------------------------------------------------------------
(* Catalogue *)

TreeStates == {"unused", "active", "inactive", "deleted"}
SubcategoryRow == [state : TreeStates, of : Categories \cup {None}]
CatalogueRow ==
  [status : {"none", "DRAFT", "PUBLISHED", "RESERVED", "SOLD", "ARCHIVED"}, deleted : BOOLEAN,
   category : Categories \cup {None}, subcategory : Subcategories \cup {None},
   trait : Traits \cup {None}, mileage : Int \cup {None}, display : Int \cup {None},
   final : Int, flags : SUBSET T!Flags, views : Nat]
CatalogueTask ==
  [pc : {"idle", "deleteCategory", "deleteSubcategory", "create", "edit", "toggle", "visit", "wish"},
   on : SUBSET (Categories \cup Subcategories \cup Listings),
   row : Categories \cup Subcategories \cup Listings \cup {None},
   category : Categories \cup {None}, subcategory : Subcategories \cup {None, "empty"},
   flag : T!Flags \cup {"none"}, was : BOOLEAN, alone : BOOLEAN]

CatalogueTyped ==
  /\ category \in [Categories -> TreeStates] /\ subcategory \in [Subcategories -> SubcategoryRow]
  /\ listing \in [Listings -> CatalogueRow] /\ saved \subseteq Users \X Listings
  /\ toggled \in [Listings -> SUBSET T!Flags] /\ visits \in [Listings -> Nat]
  /\ task \in [Handlers -> CatalogueTask]

\* A row that refers to another refers to one that exists.
SubcategoriesAreLinked ==
  \A s \in Subcategories : T!SubcategoryExists(s) => T!CategoryExists(subcategory[s].of)
ListingsAreLinked ==
  \A l \in Listings :
    /\ T!ListingExists(l) => T!CategoryExists(listing[l].category)
    /\ listing[l].subcategory # None => T!SubcategoryExists(listing[l].subcategory)
    /\ ~T!ListingExists(l) => listing[l] = T!NoListing
SavedAreLinked == \A w \in saved : T!ListingExists(w[2])
RowsAreLinked == SubcategoriesAreLinked /\ ListingsAreLinked /\ SavedAreLinked

\* Subcategory s, if there is one, is or was one of category c.
InPlace(c, s) == s # None => subcategory[s].of = c /\ subcategory[s].state # "unused"

\* Where an edit puts its listing.
NewCategory(t) == T!Or(t.category, listing[t.row].category)
NewSubcategory(t) ==
  IF t.subcategory = "empty" THEN None ELSE T!Or(t.subcategory, listing[t.row].subcategory)

SavesListing(t) == t.pc \in {"create", "edit", "toggle"}

\* What a task holds at its place.
CatalogueShape(t) ==
  /\ t.pc = "idle" => t.on = {}
  /\ SavesListing(t) => t.row \in t.on
  /\ SavesListing(t) \/ t.pc \in {"visit", "wish"} => t.row \in Listings
  /\ t.pc = "edit" /\ t.subcategory \in Subcategories => t.subcategory \in t.on
  /\ t.pc = "create" => t.category \in Categories /\ t.subcategory \in (t.on \cap Subcategories) \cup {None}
  /\ t.pc = "toggle" => t.flag \in T!Flags
  /\ t.pc = "deleteSubcategory" => t.row \in Subcategories /\ t.row \in t.on
  /\ t.pc = "deleteCategory" => t.row \in Categories

\* What a task found and relies on: the place a listing is put into, the flag it toggles, that
\* no listing has the subcategory it deletes.
CatalogueCurrent(t) ==
  /\ t.pc = "create" => ~T!ListingExists(t.row) /\ InPlace(t.category, t.subcategory)
  /\ t.pc = "edit" /\ t.alone /\ T!ListingExists(t.row) => InPlace(NewCategory(t), NewSubcategory(t))
  /\ t.pc = "toggle" /\ t.alone /\ T!ListingExists(t.row) => (t.was <=> t.flag \in listing[t.row].flags)
  /\ t.pc = "deleteSubcategory" => \A l \in Listings : listing[l].subcategory = t.row => l \in disturbed

\* Two tasks that rely on the same rows know of each other; nothing else is done to a listing
\* that is being created.
CatalogueTasksMeet ==
  \A g, h \in Handlers : g # h =>
    /\ task[g].on \cap task[h].on # {} => ~task[g].alone
    /\ task[g].pc = "create" /\ SavesListing(task[h]) => task[g].row # task[h].row

CatalogueTasksAreSound ==
  (\A h \in Handlers : CatalogueShape(task[h]) /\ CatalogueCurrent(task[h])) /\ CatalogueTasksMeet

CatalogueInv ==
  /\ CatalogueTyped /\ RowsAreLinked /\ CatalogueTasksAreSound
  /\ T!TreeIsKept /\ T!VisitsAndTogglesCount

CatalogueIInv == work = "catalogue" => CatalogueInv

LEMMA CatalogueBounds ==
  /\ None \notin Categories /\ None \notin Subcategories /\ None \notin Listings
  /\ "empty" \notin Categories /\ "empty" \notin Subcategories /\ "empty" \notin Listings
  /\ Figures \subseteq Nat /\ None \notin Int /\ IsFiniteSet(Listings)
  BY MarketBoundsOK

LEMMA CatalogueIdle ==
  /\ T!Idle \in CatalogueTask /\ T!Idle.pc = "idle" /\ T!Idle.on = {} /\ T!Idle.row = None
  /\ CatalogueShape(T!Idle) /\ CatalogueCurrent(T!Idle) /\ CatalogueCurrent(T!Idle)'
<1>1. T!Idle \in CatalogueTask /\ T!Idle.pc = "idle" /\ T!Idle.on = {} /\ T!Idle.row = None
  BY DEF T!Idle, CatalogueTask
<1>2. QED
  BY <1>1 DEF CatalogueShape, CatalogueCurrent, SavesListing

LEMMA NoListingIs ==
  /\ T!NoListing \in CatalogueRow /\ T!NoListing.status = "none" /\ T!NoListing.category = None
  /\ T!NoListing.subcategory = None /\ T!NoListing.flags = {} /\ T!NoListing.views = 0
  BY DEF T!NoListing, CatalogueRow

LEMMA CatalogueInitInv == T!Init => CatalogueInv
<1> SUFFICES ASSUME T!Init
             PROVE  CatalogueInv
  OBVIOUS
<1>1. /\ category \in [Categories -> {"unused", "active"}] /\ saved = {} /\ lost = {}
      /\ toggled = [l \in Listings |-> {}] /\ visits = [l \in Listings |-> 0]
      /\ task = [h \in Handlers |-> T!Idle] /\ disturbed = {}
  BY DEF T!Init
<1>2. ASSUME NEW s \in Subcategories
      PROVE  /\ subcategory[s] \in SubcategoryRow
             /\ \/ subcategory[s].state = "unused" /\ subcategory[s].of = None
                \/ /\ subcategory[s].state = "active" /\ subcategory[s].of \in Categories
                   /\ category[subcategory[s].of] = "active"
  <2>1. subcategory[s] \in T!FirstSubcategories
    BY DEF T!Init
  <2>2. QED
    BY <2>1 DEF SubcategoryRow, TreeStates, T!FirstSubcategories
<1>3. subcategory \in [Subcategories -> SubcategoryRow]
  <2>1. DOMAIN subcategory = Subcategories /\ subcategory = [s \in Subcategories |-> subcategory[s]]
    BY DEF T!Init
  <2>2. QED
    BY <1>2, <2>1
<1>4. ASSUME NEW l \in Listings
      PROVE  /\ listing[l] \in CatalogueRow /\ listing[l].flags = {} /\ listing[l].views = 0
             /\ \/ listing[l] = T!NoListing
                \/ /\ listing[l].status \in {"DRAFT", "PUBLISHED"}
                   /\ listing[l].category \in Categories
                   /\ category[listing[l].category] = "active"
                   /\ \/ listing[l].subcategory = None
                      \/ /\ listing[l].subcategory \in Subcategories
                         /\ subcategory[listing[l].subcategory].of = listing[l].category
  <2>1. CASE listing[l] = T!NoListing
    BY <2>1, NoListingIs
  <2>2. ASSUME NEW p \in T!Pairs, NEW t \in Traits, NEW m \in Figures \cup {None}, NEW n \in Figures,
               NEW state \in {"DRAFT", "PUBLISHED"}, NEW d \in {n, None},
               listing[l] = T!Row(state, p[1], p[2], t, m, d, n)
        PROVE  /\ listing[l] \in CatalogueRow /\ listing[l].flags = {} /\ listing[l].views = 0
               /\ listing[l].status \in {"DRAFT", "PUBLISHED"} /\ listing[l].category \in Categories
               /\ category[listing[l].category] = "active"
               /\ \/ listing[l].subcategory = None
                  \/ /\ listing[l].subcategory \in Subcategories
                     /\ subcategory[listing[l].subcategory].of = listing[l].category
    <3>1. /\ p[1] \in Categories /\ p[2] \in Subcategories \cup {None}
          /\ category[p[1]] = "active" /\ (p[2] # None => subcategory[p[2]].of = p[1])
      BY DEF T!Pairs
    <3>2. n \in Int /\ m \in Int \cup {None} /\ d \in Int \cup {None}
      BY CatalogueBounds
    <3>3. listing[l] = [status |-> state, deleted |-> FALSE, category |-> p[1],
                        subcategory |-> p[2], trait |-> t, mileage |-> m, display |-> d,
                        final |-> n, flags |-> {}, views |-> 0]
      BY <2>2 DEF T!Row
    <3>4. QED
      BY <3>1, <3>2, <3>3 DEF CatalogueRow
  <2>3. listing[l] \in T!FirstListings
    BY DEF T!Init
  <2>4. \/ listing[l] = T!NoListing
        \/ \E p \in T!Pairs, t \in Traits, m \in Figures \cup {None}, n \in Figures :
             \/ listing[l] = T!Row("DRAFT", p[1], p[2], t, m, n, n)
             \/ listing[l] = T!Row("PUBLISHED", p[1], p[2], t, m, None, n)
    BY <2>3 DEF T!FirstListings
  <2>5. QED
    BY <2>1, <2>2, <2>4
<1>5. listing \in [Listings -> CatalogueRow]
  <2>1. DOMAIN listing = Listings /\ listing = [l \in Listings |-> listing[l]]
    BY DEF T!Init
  <2>2. QED
    BY <1>4, <2>1
<1>6. CatalogueTyped
  BY <1>1, <1>3, <1>5, CatalogueIdle DEF CatalogueTyped, TreeStates
<1>7. RowsAreLinked
  <2>1. SubcategoriesAreLinked
    BY <1>2 DEF SubcategoriesAreLinked, T!SubcategoryExists, T!CategoryExists
  <2>2. ListingsAreLinked
    <3>1. ASSUME NEW l \in Listings
          PROVE  /\ T!ListingExists(l) => T!CategoryExists(listing[l].category)
                 /\ listing[l].subcategory # None => T!SubcategoryExists(listing[l].subcategory)
                 /\ ~T!ListingExists(l) => listing[l] = T!NoListing
      <4>1. CASE listing[l] = T!NoListing
        BY <4>1, NoListingIs DEF T!ListingExists
      <4>2. CASE listing[l] # T!NoListing
        <5>1. ASSUME listing[l].subcategory # None
              PROVE  T!SubcategoryExists(listing[l].subcategory)
          BY <1>2, <1>4, <4>2, <5>1, CatalogueBounds DEF T!SubcategoryExists
        <5>2. QED
          BY <1>4, <4>2, <5>1 DEF T!ListingExists, T!CategoryExists
      <4>3. QED
        BY <4>1, <4>2
    <3>2. QED
      BY <3>1 DEF ListingsAreLinked
  <2>3. QED
    BY <1>1, <2>1, <2>2 DEF RowsAreLinked, SavedAreLinked
<1>8. CatalogueTasksAreSound
  BY <1>1, CatalogueIdle DEF CatalogueTasksAreSound, CatalogueTasksMeet
<1>9. T!TreeIsKept /\ T!VisitsAndTogglesCount
  BY <1>1, <1>4, NoListingIs DEF T!TreeIsKept, T!VisitsAndTogglesCount
<1>10. QED
  BY <1>6, <1>7, <1>8, <1>9 DEF CatalogueInv

(* Tasks *)

\* How a row of Listings may change while the tasks that are not about it go on: it stays in its
\* place, is deleted, or is saved by a handler that ends its request.
RowKeeps(l) ==
  /\ listing'[l].subcategory \in {listing[l].subcategory, None}
  /\ listing'[l].category = listing[l].category /\ listing'[l].flags = listing[l].flags
  /\ T!ListingExists(l)' => T!ListingExists(l)
RowSaved(h, l) ==
  /\ task'[h] = T!Idle /\ SavesListing(task[h]) /\ l = task[h].row
  /\ T!ListingExists(l) \/ task[h].pc = "create"
  /\ listing'[l].subcategory \in {None, listing[l].subcategory} \cup task[h].on
  /\ task[h].alone \/ l \in disturbed'

LEMMA CatalogueTasksStay ==
  ASSUME CatalogueInv, task' \in [Handlers -> CatalogueTask],
         \A g \in Handlers : task'[g] \in {task[g], T!Idle},
         disturbed \subseteq disturbed',
         \A s \in Subcategories : subcategory[s].state # "unused" =>
           subcategory'[s].of = subcategory[s].of /\ subcategory'[s].state # "unused",
         \A l \in Listings : \/ RowKeeps(l)
                             \/ ~T!ListingExists(l)' /\ listing'[l].subcategory = None
                             \/ \E h \in Handlers : RowSaved(h, l)
  PROVE  CatalogueTasksAreSound'
<1>1. CatalogueTyped /\ CatalogueTasksMeet
      /\ \A g \in Handlers : CatalogueShape(task[g]) /\ CatalogueCurrent(task[g])
  BY DEF CatalogueInv, CatalogueTasksAreSound
<1>2. ASSUME NEW c \in Categories \cup {None}, NEW s \in Subcategories \cup {None}, InPlace(c, s)
      PROVE  InPlace(c, s)'
  BY <1>2 DEF InPlace
<1>3. ASSUME NEW g \in Handlers, task'[g] = task[g]
      PROVE  CatalogueCurrent(task[g])'
  <2>1. task[g] \in CatalogueTask /\ CatalogueShape(task[g]) /\ CatalogueCurrent(task[g])
    BY <1>1 DEF CatalogueTyped
  <2>2. PICK t \in CatalogueTask : t = task[g]
    BY <2>1
  <2>3. ASSUME t.pc = "create"
        PROVE  ~T!ListingExists(t.row)' /\ InPlace(t.category, t.subcategory)'
    <3>1. t.row \in Listings /\ t.category \in Categories /\ t.subcategory \in Subcategories \cup {None}
      BY <2>1, <2>2, <2>3 DEF CatalogueShape, SavesListing
    <3>2. ~T!ListingExists(t.row) /\ InPlace(t.category, t.subcategory)
      BY <2>1, <2>2, <2>3 DEF CatalogueCurrent
    <3>3. \A h \in Handlers : ~RowSaved(h, t.row)
      BY <1>1, <1>3, <2>2, <2>3, CatalogueIdle DEF CatalogueTasksMeet, RowSaved
    <3>4. ~T!ListingExists(t.row)'
      BY <3>1, <3>2, <3>3 DEF RowKeeps
    <3>5. QED
      BY <1>2, <3>1, <3>2, <3>4
  <2>4. ASSUME NEW l \in Listings, NEW h \in Handlers, SavesListing(t), l = t.row, t.alone,
               RowSaved(h, l)
        PROVE  task[h].pc = "create"
    <3>1. h # g
      BY <1>3, <2>2, <2>4, CatalogueIdle DEF RowSaved, SavesListing
    <3>2. l \in task[h].on \cap t.on
      BY <1>1, <2>2, <2>4 DEF CatalogueShape, RowSaved
    <3>3. QED
      BY <1>1, <2>2, <2>4, <3>1, <3>2 DEF CatalogueTasksMeet
  <2>5. ASSUME NEW l \in Listings, SavesListing(t), l = t.row, t.alone, T!ListingExists(l)'
        PROVE  RowKeeps(l)
    <3>1. ASSUME NEW h \in Handlers, RowSaved(h, l)
          PROVE  FALSE
      <4>1. task[h].pc = "create" /\ task[h].row = l
        BY <2>4, <2>5, <3>1 DEF RowSaved
      <4>2. h # g
        BY <1>3, <2>2, <2>5, <3>1, CatalogueIdle DEF RowSaved, SavesListing
      <4>3. QED
        BY <1>1, <2>2, <2>5, <4>1, <4>2 DEF CatalogueTasksMeet
    <3>2. QED
      BY <2>5, <3>1
  <2>6. ASSUME t.pc = "edit", t.alone, T!ListingExists(t.row)'
        PROVE  InPlace(NewCategory(t), NewSubcategory(t))'
    <3>1. PICK l \in Listings : l = t.row
      BY <2>1, <2>2, <2>6 DEF CatalogueShape, SavesListing
    <3>2. RowKeeps(l)
      BY <2>5, <2>6, <3>1 DEF SavesListing
    <3>3. InPlace(NewCategory(t), NewSubcategory(t))
      BY <2>1, <2>2, <2>6, <3>1, <3>2 DEF CatalogueCurrent, RowKeeps
    <3>4. listing[l] \in CatalogueRow
      BY <1>1 DEF CatalogueTyped
    <3>5. PICK c \in Categories \cup {None} : c = NewCategory(t)
      BY <3>1, <3>4 DEF NewCategory, T!Or, CatalogueTask, CatalogueRow
    <3>6. PICK s \in Subcategories \cup {None} : s = NewSubcategory(t)
      BY <3>1, <3>4 DEF NewSubcategory, T!Or, CatalogueTask, CatalogueRow
    <3>7. NewCategory(t)' = c
      BY <3>1, <3>2, <3>5 DEF NewCategory, T!Or, RowKeeps
    <3>8. NewSubcategory(t)' \in {s, None}
      BY <3>1, <3>2, <3>6 DEF NewSubcategory, T!Or, RowKeeps
    <3>9. InPlace(c, s)'
      BY <1>2, <3>3, <3>5, <3>6
    <3>10. QED
      BY <3>7, <3>8, <3>9 DEF InPlace
  <2>7. ASSUME t.pc = "toggle", t.alone, T!ListingExists(t.row)'
        PROVE  t.was <=> t.flag \in listing'[t.row].flags
    <3>1. PICK l \in Listings : l = t.row
      BY <2>1, <2>2, <2>7 DEF CatalogueShape, SavesListing
    <3>2. RowKeeps(l)
      BY <2>5, <2>7, <3>1 DEF SavesListing
    <3>3. QED
      BY <2>1, <2>2, <2>7, <3>1, <3>2 DEF CatalogueCurrent, RowKeeps
  <2>8. ASSUME t.pc = "deleteSubcategory", NEW l \in Listings, listing'[l].subcategory = t.row
        PROVE  l \in disturbed'
    <3>1. t.row \in Subcategories /\ t.row \in t.on /\ t.row # None
      BY <2>1, <2>2, <2>8, CatalogueBounds DEF CatalogueShape
    <3>2. CASE listing[l].subcategory = t.row
      BY <2>1, <2>2, <2>8, <3>2 DEF CatalogueCurrent
    <3>3. CASE listing[l].subcategory # t.row
      <4>1. PICK h \in Handlers : RowSaved(h, l)
        BY <2>8, <3>1, <3>3 DEF RowKeeps
      <4>2. h # g /\ t.row \in task[h].on
        BY <2>2, <2>8, <3>1, <3>3, <4>1 DEF RowSaved, SavesListing
      <4>3. ~task[h].alone
        BY <1>1, <2>2, <3>1, <4>2 DEF CatalogueTasksMeet
      <4>4. QED
        BY <4>1, <4>3 DEF RowSaved
    <3>4. QED
      BY <3>2, <3>3
  <2>9. QED
    BY <1>3, <2>2, <2>3, <2>6, <2>7, <2>8 DEF CatalogueCurrent
<1>4. ASSUME NEW g \in Handlers
      PROVE  CatalogueShape(task[g])' /\ CatalogueCurrent(task[g])'
  <2>1. CASE task'[g] = task[g]
    <3>1. CatalogueShape(task[g])'
      BY <1>1, <2>1 DEF CatalogueShape, SavesListing
    <3>2. QED
      BY <1>3, <2>1, <3>1
  <2>2. CASE task'[g] = T!Idle
    BY <2>2, CatalogueIdle DEF CatalogueShape, CatalogueCurrent, SavesListing
  <2>3. QED
    BY <2>1, <2>2
<1>5. CatalogueTasksMeet'
  <2>1. ASSUME NEW f \in Handlers, NEW g \in Handlers, f # g
        PROVE  /\ task'[f].on \cap task'[g].on # {} => ~task'[f].alone
               /\ task'[f].pc = "create" /\ SavesListing(task[g])' => task'[f].row # task'[g].row
    <3>1. CASE task'[f] = T!Idle \/ task'[g] = T!Idle
      BY <3>1, CatalogueIdle DEF SavesListing
    <3>2. CASE task'[f] = task[f] /\ task'[g] = task[g]
      BY <1>1, <2>1, <3>2 DEF CatalogueTasksMeet, SavesListing
    <3>3. QED
      BY <3>1, <3>2
  <2>2. QED
    BY <2>1 DEF CatalogueTasksMeet
<1>6. QED
  BY <1>4, <1>5 DEF CatalogueTasksAreSound

LEMMA CatalogueRowsStay ==
  ASSUME CatalogueInv, UNCHANGED <<T!rows, disturbed>>
  PROVE  /\ UNCHANGED <<category, subcategory, listing, saved, toggled, visits, lost>>
         /\ task' \in [Handlers -> CatalogueTask] => CatalogueTyped'
         /\ RowsAreLinked' /\ T!TreeIsKept' /\ T!VisitsAndTogglesCount'
<1>1. UNCHANGED <<category, subcategory, listing, saved, toggled, visits, lost, disturbed>>
  BY DEF T!rows
<1>2. task' \in [Handlers -> CatalogueTask] => CatalogueTyped'
  BY <1>1 DEF CatalogueInv, CatalogueTyped
<1>3. RowsAreLinked'
  BY <1>1 DEF CatalogueInv, RowsAreLinked, SubcategoriesAreLinked, ListingsAreLinked, SavedAreLinked,
              T!SubcategoryExists, T!CategoryExists, T!ListingExists
<1>4. T!TreeIsKept' /\ T!VisitsAndTogglesCount'
  BY <1>1 DEF CatalogueInv, T!TreeIsKept, T!VisitsAndTogglesCount
<1>5. QED
  BY <1>1, <1>2, <1>3, <1>4

LEMMA CatalogueTaskAlone ==
  ASSUME NEW t \in CatalogueTask, NEW b \in BOOLEAN
  PROVE  [t EXCEPT !.alone = b] \in CatalogueTask
  BY DEF CatalogueTask

\* A handler takes up a request.  Nothing has been written.
LEMMA CatalogueStartPreservesInv ==
  ASSUME CatalogueInv, NEW h \in Handlers, NEW t \in CatalogueTask, T!Start(h, t),
         t.alone, CatalogueShape(t), CatalogueCurrent(t),
         t.pc = "create" => \A g \in Handlers : task[g].row # t.row,
         t.pc \in {"edit", "toggle"} => T!ListingExists(t.row)
  PROVE  CatalogueInv'
<1>1. /\ task \in [Handlers -> CatalogueTask] /\ CatalogueTasksMeet
      /\ \A g \in Handlers : CatalogueShape(task[g]) /\ CatalogueCurrent(task[g])
  BY DEF CatalogueInv, CatalogueTyped, CatalogueTasksAreSound
<1>2. task[h].pc = "idle" /\ task[h].on = {} /\ UNCHANGED <<T!rows, disturbed>>
  BY <1>1 DEF T!Start, T!At, CatalogueShape
<1>3. /\ UNCHANGED <<category, subcategory, listing, disturbed>>
      /\ RowsAreLinked' /\ T!TreeIsKept' /\ T!VisitsAndTogglesCount'
      /\ task' \in [Handlers -> CatalogueTask] => CatalogueTyped'
  BY <1>2, CatalogueRowsStay
<1>4. PICK b \in BOOLEAN : b = \A k \in Handlers : task[k].on \cap t.on = {}
  OBVIOUS
<1>5. PICK u \in CatalogueTask : u = [t EXCEPT !.alone = b]
  BY CatalogueTaskAlone
<1>6. /\ u.pc = t.pc /\ u.on = t.on /\ u.row = t.row /\ u.category = t.category
      /\ u.subcategory = t.subcategory /\ u.flag = t.flag /\ u.was = t.was /\ u.alone = b
  BY <1>5 DEF CatalogueTask
<1>7. task' = [g \in Handlers |->
                 IF g = h THEN u
                 ELSE IF task[g].on \cap t.on # {} THEN [task[g] EXCEPT !.alone = FALSE] ELSE task[g]]
  BY <1>4, <1>5 DEF T!Start
<1>8. ASSUME NEW g \in Handlers \ {h}
      PROVE  /\ task'[g] \in CatalogueTask /\ task'[g].pc = task[g].pc /\ task'[g].on = task[g].on
             /\ task'[g].row = task[g].row /\ task'[g].category = task[g].category
             /\ task'[g].subcategory = task[g].subcategory
             /\ task'[g].flag = task[g].flag /\ task'[g].was = task[g].was
             /\ task'[g].alone => task[g].alone /\ task[g].on \cap t.on = {}
  <2>1. task[g] \in CatalogueTask
    BY <1>1
  <2>2. CASE task[g].on \cap t.on # {}
    <3>1. task'[g] = [task[g] EXCEPT !.alone = FALSE]
      BY <1>7, <2>2
    <3>2. QED
      BY <2>1, <3>1 DEF CatalogueTask
  <2>3. CASE task[g].on \cap t.on = {}
    <3>1. task'[g] = task[g]
      BY <1>7, <2>3
    <3>2. QED
      BY <2>1, <2>3, <3>1
  <2>4. QED
    BY <2>2, <2>3
<1>9. task'[h] = u /\ task' \in [Handlers -> CatalogueTask]
  BY <1>7, <1>8
<1>10. ASSUME NEW g \in Handlers
       PROVE  CatalogueShape(task[g])' /\ CatalogueCurrent(task[g])'
  <2>1. CASE g = h
    <3>1. CatalogueShape(u) /\ CatalogueCurrent(u)'
      BY <1>3, <1>6
      DEF CatalogueShape, CatalogueCurrent, SavesListing, InPlace, NewCategory, NewSubcategory,
          T!Or, T!ListingExists
    <3>2. QED
      BY <1>9, <2>1, <3>1 DEF CatalogueShape, CatalogueCurrent, SavesListing
  <2>2. CASE g # h
    <3>1. CatalogueShape(task[g])'
      BY <1>1, <1>8, <2>2 DEF CatalogueShape, SavesListing
    <3>2. CatalogueCurrent(task[g])'
      BY <1>1, <1>3, <1>8, <2>2
      DEF CatalogueCurrent, InPlace, NewCategory, NewSubcategory, T!Or, T!ListingExists
    <3>3. QED
      BY <3>1, <3>2
  <2>3. QED
    BY <2>1, <2>2
<1>11. ASSUME NEW f \in Handlers, NEW g \in Handlers, f # g
       PROVE  /\ task'[f].on \cap task'[g].on # {} => ~task'[f].alone
              /\ task'[f].pc = "create" /\ SavesListing(task[g])' => task'[f].row # task'[g].row
  <2>1. CASE f = h
    <3>1. task'[f].on \cap task'[g].on # {} => ~task'[f].alone
      BY <1>4, <1>6, <1>8, <1>9, <1>11, <2>1
    <3>2. task'[f].pc = "create" => task'[f].row # task'[g].row
      BY <1>6, <1>8, <1>9, <1>11, <2>1
    <3>3. QED
      BY <3>1, <3>2
  <2>2. CASE f # h /\ g = h
    <3>1. task'[f].on \cap task'[g].on # {} => ~task'[f].alone
      BY <1>6, <1>8, <1>9, <2>2
    <3>2. ASSUME task'[f].pc = "create", SavesListing(task[g])'
          PROVE  task'[f].row # task'[g].row
      <4>1. task[f].pc = "create" /\ ~T!ListingExists(task[f].row)
        BY <1>1, <1>8, <2>2, <3>2 DEF CatalogueCurrent
      <4>2. SavesListing(t)
        BY <1>6, <1>9, <2>2, <3>2 DEF SavesListing
      <4>3. task[f].row # t.row
        BY <4>1, <4>2, <2>2 DEF SavesListing
      <4>4. QED
        BY <1>6, <1>8, <1>9, <2>2, <4>3
    <3>3. QED
      BY <3>1, <3>2
  <2>3. CASE f # h /\ g # h
    BY <1>1, <1>8, <1>11, <2>3 DEF CatalogueTasksMeet, SavesListing
  <2>4. QED
    BY <2>1, <2>2, <2>3
<1>12. CatalogueTasksAreSound'
  BY <1>10, <1>11 DEF CatalogueTasksAreSound, CatalogueTasksMeet
<1>13. QED
  BY <1>3, <1>9, <1>12 DEF CatalogueInv

LEMMA CatalogueBeginPreservesInv ==
  ASSUME CatalogueInv, NEW h \in Handlers, T!Begin(h)
  PROVE  CatalogueInv'
<1>1. /\ \A l \in Listings : listing[l] \in CatalogueRow
      /\ \A s \in Subcategories : subcategory[s] \in SubcategoryRow
  BY DEF CatalogueInv, CatalogueTyped
<1>2. ASSUME NEW c \in Categories, T!BeginHardDelete(h, c)
      PROVE  CatalogueInv'
  <2>1. PICK on \in SUBSET (Categories \cup Subcategories \cup Listings) :
          on = {c} \cup {s \in Subcategories : subcategory[s].of = c}
    OBVIOUS
  <2> DEFINE t == [T!Idle EXCEPT !.pc = "deleteCategory", !.row = c, !.on = on]
  <2>2. t \in CatalogueTask /\ t.pc = "deleteCategory" /\ t.row = c /\ t.alone
    BY CatalogueIdle DEF CatalogueTask, T!Idle
  <2>3. T!Start(h, t)
    BY <1>2, <2>1 DEF T!BeginHardDelete
  <2> HIDE DEF t
  <2>4. CatalogueShape(t) /\ CatalogueCurrent(t)
    BY <2>2 DEF CatalogueShape, CatalogueCurrent, SavesListing
  <2>5. QED
    BY <2>2, <2>3, <2>4, CatalogueStartPreservesInv
<1>3. ASSUME NEW s \in Subcategories, T!BeginDeleteSubcategory(h, s)
      PROVE  CatalogueInv'
  <2> DEFINE t == [T!Idle EXCEPT !.pc = "deleteSubcategory", !.row = s, !.on = {s}]
  <2>1. /\ t \in CatalogueTask /\ t.pc = "deleteSubcategory" /\ t.row = s /\ t.on = {s} /\ t.alone
    BY CatalogueIdle DEF CatalogueTask, T!Idle
  <2>2. T!Start(h, t) /\ \A l \in Listings : listing[l].subcategory # s
    BY <1>3 DEF T!BeginDeleteSubcategory
  <2> HIDE DEF t
  <2>3. CatalogueShape(t) /\ CatalogueCurrent(t)
    BY <2>1, <2>2 DEF CatalogueShape, CatalogueCurrent, SavesListing
  <2>4. QED
    BY <2>1, <2>2, <2>3, CatalogueStartPreservesInv
<1>4. ASSUME NEW pc \in {"create", "edit"}, NEW l \in Listings, NEW c \in Categories \cup {None},
             NEW s \in Subcategories \cup {None, "empty"}
      PROVE  /\ T!Save(pc, l, c, s) \in CatalogueTask /\ T!Save(pc, l, c, s).pc = pc
             /\ T!Save(pc, l, c, s).row = l /\ T!Save(pc, l, c, s).category = c
             /\ T!Save(pc, l, c, s).subcategory = s /\ T!Save(pc, l, c, s).alone
             /\ l \in T!Save(pc, l, c, s).on
             /\ s \in Subcategories => s \in T!Save(pc, l, c, s).on
  <2>1. PICK on \in SUBSET (Categories \cup Subcategories \cup Listings) :
          on = {l, c, s} \ {None, "empty"}
    OBVIOUS
  <2>2. PICK t \in CatalogueTask : t = [T!Idle EXCEPT !.pc = pc, !.row = l, !.category = c]
    BY CatalogueIdle DEF CatalogueTask
  <2>3. /\ t.pc = pc /\ t.row = l /\ t.category = c /\ t.alone
        /\ T!Save(pc, l, c, s) = [t EXCEPT !.subcategory = s, !.on = on]
    BY <2>1, <2>2 DEF CatalogueTask, T!Idle, T!Save
  <2>4. PICK u \in CatalogueTask : u = [t EXCEPT !.subcategory = s, !.on = on]
    BY DEF CatalogueTask
  <2>5. u.pc = pc /\ u.row = l /\ u.category = c /\ u.alone /\ u.subcategory = s /\ u.on = on
    BY <2>3, <2>4 DEF CatalogueTask
  <2>6. l \in on /\ (s \in Subcategories => s \in on)
    BY <2>1, CatalogueBounds
  <2>7. QED
    BY <2>3, <2>4, <2>5, <2>6
<1>5. ASSUME NEW c \in Categories \cup {None}, NEW s \in Subcategories \cup {None}, T!Fits(c, s)
      PROVE  InPlace(c, s)
  BY <1>1, <1>5 DEF T!Fits, InPlace, SubcategoryRow
<1>6. ASSUME NEW l \in Listings, NEW c \in Categories, NEW s \in Subcategories \cup {None},
             T!BeginCreate(h, l, c, s)
      PROVE  CatalogueInv'
  <2>1. PICK t \in CatalogueTask : t = T!Save("create", l, c, s)
    BY <1>4
  <2>2. /\ t.pc = "create" /\ t.row = l /\ t.category = c /\ t.subcategory = s /\ t.alone
        /\ l \in t.on /\ (s \in Subcategories => s \in t.on)
    BY <1>4, <2>1
  <2>3. /\ T!Start(h, t) /\ ~T!ListingExists(l) /\ T!Fits(c, s)
        /\ \A g \in Handlers : task[g].row # l
    BY <1>6, <2>1 DEF T!BeginCreate
  <2>4. CatalogueShape(t)
    BY <2>2 DEF CatalogueShape, SavesListing
  <2>5. CatalogueCurrent(t)
    BY <1>5, <2>2, <2>3 DEF CatalogueCurrent
  <2>6. QED
    BY <2>2, <2>3, <2>4, <2>5, CatalogueStartPreservesInv
<1>7. ASSUME NEW l \in Listings, NEW c \in Categories \cup {None},
             NEW s \in Subcategories \cup {None, "empty"},
             T!BeginUpdateOwn(h, l, c, s) \/ T!BeginUpdateByAdmin(h, l, c, s)
      PROVE  CatalogueInv'
  <2>1. PICK t \in CatalogueTask : t = T!Save("edit", l, c, s)
    BY <1>4
  <2>2. /\ t.pc = "edit" /\ t.row = l /\ t.category = c /\ t.subcategory = s /\ t.alone
        /\ l \in t.on /\ (s \in Subcategories => s \in t.on)
    BY <1>4, <2>1
  <2>3. /\ T!Start(h, t) /\ T!Live(l)
        /\ s # "empty" => T!Fits(T!Or(c, listing[l].category), T!Or(s, listing[l].subcategory))
    <3>1. CASE T!BeginUpdateOwn(h, l, c, s)
      BY <2>1, <3>1 DEF T!BeginUpdateOwn
    <3>2. CASE T!BeginUpdateByAdmin(h, l, c, s)
      BY <2>1, <3>2 DEF T!BeginUpdateByAdmin
    <3>3. QED
      BY <1>7, <3>1, <3>2
  <2>4. CatalogueShape(t)
    BY <2>2 DEF CatalogueShape, SavesListing
  <2>5. InPlace(NewCategory(t), NewSubcategory(t))
    <3>1. CASE s = "empty"
      BY <2>2, <3>1 DEF NewSubcategory, InPlace
    <3>2. CASE s # "empty"
      <4>1. PICK k \in Categories \cup {None} : k = NewCategory(t) /\ k = T!Or(c, listing[l].category)
        BY <1>1, <2>2 DEF NewCategory, T!Or, CatalogueRow
      <4>2. PICK z \in Subcategories \cup {None} :
              z = NewSubcategory(t) /\ z = T!Or(s, listing[l].subcategory)
        BY <1>1, <2>2, <3>2 DEF NewSubcategory, T!Or, CatalogueRow
      <4>3. T!Fits(k, z)
        BY <2>3, <3>2, <4>1, <4>2
      <4>4. QED
        BY <1>5, <4>1, <4>2, <4>3
    <3>3. QED
      BY <3>1, <3>2
  <2>6. CatalogueCurrent(t) /\ T!ListingExists(l)
    BY <2>2, <2>3, <2>5 DEF CatalogueCurrent, T!Live
  <2>7. QED
    BY <2>2, <2>3, <2>4, <2>6, CatalogueStartPreservesInv
<1>8. ASSUME NEW l \in Listings, T!BeginVisit(h, l) \/ T!BeginAddToWishlist(h, l)
      PROVE  CatalogueInv'
  <2>1. ASSUME NEW pc \in {"visit", "wish"}, T!Start(h, [T!Idle EXCEPT !.pc = pc, !.row = l])
        PROVE  CatalogueInv'
    <3>1. PICK t \in CatalogueTask : t = [T!Idle EXCEPT !.pc = pc, !.row = l]
      BY CatalogueIdle DEF CatalogueTask
    <3>2. t.pc = pc /\ t.row = l /\ t.alone
      BY <3>1 DEF T!Idle, CatalogueTask
    <3>3. CatalogueShape(t) /\ CatalogueCurrent(t)
      BY <3>2 DEF CatalogueShape, CatalogueCurrent, SavesListing
    <3>4. QED
      BY <2>1, <3>1, <3>2, <3>3, CatalogueStartPreservesInv
  <2>2. QED
    BY <1>8, <2>1 DEF T!BeginVisit, T!BeginAddToWishlist
<1>9. ASSUME NEW l \in Listings, NEW flag \in T!Flags, T!BeginToggle(h, l, flag)
      PROVE  CatalogueInv'
  <2>1. PICK was \in BOOLEAN : was <=> flag \in listing[l].flags
    OBVIOUS
  <2>2. PICK t \in CatalogueTask : t = [T!Idle EXCEPT !.pc = "toggle", !.row = l, !.on = {l}]
    BY CatalogueIdle DEF CatalogueTask
  <2>3. t.pc = "toggle" /\ t.row = l /\ t.on = {l} /\ t.alone
    BY <2>2 DEF T!Idle, CatalogueTask
  <2>4. PICK u \in CatalogueTask : u = [t EXCEPT !.flag = flag, !.was = was]
    BY DEF CatalogueTask
  <2>5. /\ u.pc = "toggle" /\ u.row = l /\ u.on = {l} /\ u.alone /\ u.flag = flag
        /\ u.was <=> flag \in listing[l].flags
    BY <2>1, <2>3, <2>4 DEF CatalogueTask
  <2>6. T!Start(h, u) /\ T!ListingExists(l)
    <3>1. was = (flag \in listing[l].flags)
      BY <2>1
    <3>2. QED
      BY <1>9, <2>2, <2>4, <3>1 DEF T!BeginToggle, T!Live
  <2>7. CatalogueShape(u) /\ CatalogueCurrent(u)
    BY <2>5 DEF CatalogueShape, CatalogueCurrent, SavesListing
  <2>8. QED
    BY <2>5, <2>6, <2>7, CatalogueStartPreservesInv
<1>10. QED
  BY <1>2, <1>3, <1>6, <1>7, <1>8, <1>9 DEF T!Begin

(* Rows *)

\* A row of Listings that exists is written, with a place that exists; unless it is disturbed,
\* one that fits.
LEMMA RowWritten ==
  ASSUME CatalogueInv, NEW l \in Listings, NEW new \in CatalogueRow,
         listing' = [listing EXCEPT ![l] = new],
         UNCHANGED <<category, subcategory, saved, lost>>, disturbed \subseteq disturbed',
         new.status # "none", T!CategoryExists(new.category),
         new.subcategory # None => T!SubcategoryExists(new.subcategory),
         l \notin disturbed' /\ new.subcategory # None =>
           subcategory[new.subcategory].of = new.category
  PROVE  /\ listing' \in [Listings -> CatalogueRow] /\ listing'[l] = new
         /\ \A k \in Listings \ {l} : listing'[k] = listing[k]
         /\ RowsAreLinked' /\ T!TreeIsKept'
<1>1. CatalogueTyped /\ RowsAreLinked /\ T!TreeIsKept
  BY DEF CatalogueInv
<1>2. /\ listing' \in [Listings -> CatalogueRow] /\ listing'[l] = new
      /\ \A k \in Listings \ {l} : listing'[k] = listing[k]
  BY <1>1 DEF CatalogueTyped
<1>3. SubcategoriesAreLinked'
  BY <1>1 DEF RowsAreLinked, SubcategoriesAreLinked, T!SubcategoryExists, T!CategoryExists
<1>4. ListingsAreLinked'
  <2>1. ASSUME NEW k \in Listings
        PROVE  /\ T!ListingExists(k)' => T!CategoryExists(listing[k].category)'
               /\ listing'[k].subcategory # None => T!SubcategoryExists(listing[k].subcategory)'
               /\ ~T!ListingExists(k)' => listing'[k] = T!NoListing
    <3>1. CASE k = l
      BY <1>2, <3>1 DEF T!ListingExists, T!CategoryExists, T!SubcategoryExists
    <3>2. CASE k # l
      BY <1>1, <1>2, <3>2
      DEF RowsAreLinked, ListingsAreLinked, T!ListingExists, T!CategoryExists, T!SubcategoryExists
    <3>3. QED
      BY <3>1, <3>2
  <2>2. QED
    BY <2>1 DEF ListingsAreLinked
<1>5. SavedAreLinked'
  BY <1>1, <1>2 DEF RowsAreLinked, SavedAreLinked, CatalogueTyped, T!ListingExists
<1>6. T!TreeIsKept'
  <2>1. ASSUME NEW k \in Listings \ disturbed'
        PROVE  /\ k \notin lost
               /\ listing'[k].subcategory # None =>
                    subcategory[listing'[k].subcategory].of = listing'[k].category
    <3>1. k \notin disturbed
      BY <2>1
    <3>2. CASE k = l
      BY <1>1, <1>2, <2>1, <3>1, <3>2 DEF T!TreeIsKept
    <3>3. CASE k # l
      BY <1>1, <1>2, <2>1, <3>1, <3>3 DEF T!TreeIsKept
    <3>4. QED
      BY <3>2, <3>3
  <2>2. QED
    BY <2>1 DEF T!TreeIsKept
<1>7. QED
  BY <1>2, <1>3, <1>4, <1>5, <1>6 DEF RowsAreLinked

\* What an existing listing's row, changed but for its place, needs of RowWritten.
LEMMA PlaceStays ==
  ASSUME CatalogueInv, NEW l \in Listings, T!ListingExists(l)
  PROVE  /\ listing[l] \in CatalogueRow /\ listing[l].status # "none"
         /\ T!CategoryExists(listing[l].category)
         /\ listing[l].subcategory # None => T!SubcategoryExists(listing[l].subcategory)
         /\ l \notin disturbed /\ listing[l].subcategory # None =>
              subcategory[listing[l].subcategory].of = listing[l].category
  BY DEF CatalogueInv, CatalogueTyped, RowsAreLinked, ListingsAreLinked, T!TreeIsKept,
         T!ListingExists

\* A handler ends its request.
LEMMA CatalogueFinish ==
  ASSUME CatalogueInv, NEW h \in Handlers, T!Finish(h)
  PROVE  /\ task' \in [Handlers -> CatalogueTask] /\ task'[h] = T!Idle
         /\ \A g \in Handlers : task'[g] \in {task[g], T!Idle}
  BY CatalogueIdle DEF CatalogueInv, CatalogueTyped, T!Finish

LEMMA CommitCreatePreservesInv ==
  ASSUME CatalogueInv, NEW h \in Handlers, NEW t \in Traits, NEW m \in Figures \cup {None},
         NEW n \in Figures, T!CommitCreate(h, t, m, n)
  PROVE  CatalogueInv'
<1>1. /\ task[h] \in CatalogueTask /\ task[h].pc = "create" /\ CatalogueShape(task[h])
      /\ CatalogueCurrent(task[h]) /\ CatalogueTyped /\ RowsAreLinked /\ T!VisitsAndTogglesCount
  BY DEF CatalogueInv, CatalogueTyped, CatalogueTasksAreSound, T!CommitCreate, T!At
<1>2. PICK l \in Listings : l = task[h].row /\ l \in task[h].on
  BY <1>1 DEF CatalogueShape, SavesListing
<1>3. PICK c \in Categories : c = task[h].category
  BY <1>1 DEF CatalogueShape
<1>4. PICK s \in Subcategories \cup {None} : s = task[h].subcategory /\ (s # None => s \in task[h].on)
  BY <1>1 DEF CatalogueShape
<1>5. ~T!ListingExists(l) /\ InPlace(c, s)
  BY <1>1, <1>2, <1>3, <1>4 DEF CatalogueCurrent
<1>6. listing[l] = T!NoListing
  BY <1>1, <1>5 DEF RowsAreLinked, ListingsAreLinked
<1>7. PICK new \in CatalogueRow :
        /\ new = T!Row("DRAFT", c, s, t, m, n, n) /\ new.status = "DRAFT"
        /\ new.category = c /\ new.subcategory = s /\ new.flags = {} /\ new.views = 0
  <2> DEFINE new == T!Row("DRAFT", c, s, t, m, n, n)
  <2>1. n \in Int /\ m \in Int \cup {None} /\ {} \in SUBSET T!Flags
    BY CatalogueBounds
  <2>2. new \in CatalogueRow
    BY <2>1 DEF T!Row, CatalogueRow
  <2>3. /\ new.status = "DRAFT" /\ new.category = c /\ new.subcategory = s
        /\ new.flags = {} /\ new.views = 0
    BY DEF T!Row
  <2> HIDE DEF new
  <2>4. QED
    BY <2>2, <2>3 DEF new
<1>8. /\ listing' = [listing EXCEPT ![l] = new] /\ T!Finish(h)
      /\ UNCHANGED <<category, subcategory, saved, toggled, visits, lost>>
      /\ T!CategoryExists(c) /\ (s # None => T!SubcategoryExists(s))
      /\ disturbed' = IF task[h].alone THEN disturbed ELSE disturbed \cup (task[h].on \cap Listings)
  <2>1. listing' = [listing EXCEPT ![l] = new]
    BY <1>2, <1>3, <1>4, <1>7 DEF T!CommitCreate
  <2>2. QED
    BY <1>2, <1>3, <1>4, <2>1 DEF T!CommitCreate, T!Disturb
<1>9. disturbed \subseteq disturbed' /\ (task[h].alone \/ l \in disturbed')
  BY <1>2, <1>8
<1>10. /\ listing' \in [Listings -> CatalogueRow] /\ listing'[l] = new
       /\ \A k \in Listings \ {l} : listing'[k] = listing[k]
       /\ RowsAreLinked' /\ T!TreeIsKept'
  <2>1. new.status # "none" /\ new.category = c /\ new.subcategory = s
    BY <1>7
  <2>2. new.subcategory # None => subcategory[new.subcategory].of = new.category
    BY <1>5, <2>1 DEF InPlace
  <2>3. T!CategoryExists(new.category) /\ (new.subcategory # None => T!SubcategoryExists(new.subcategory))
    BY <1>8, <2>1
  <2>4. UNCHANGED <<category, subcategory, saved, lost>> /\ listing' = [listing EXCEPT ![l] = new]
    BY <1>8
  <2>5. QED
    BY <1>9, <2>1, <2>2, <2>3, <2>4, RowWritten
<1>11. /\ task' \in [Handlers -> CatalogueTask] /\ task'[h] = T!Idle
       /\ \A g \in Handlers : task'[g] \in {task[g], T!Idle}
  BY <1>8, CatalogueFinish
<1>12. CatalogueTasksAreSound'
  <2>1. \A k \in Listings \ {l} : RowKeeps(k)
    BY <1>10 DEF RowKeeps, T!ListingExists
  <2>2. RowSaved(h, l)
    BY <1>1, <1>2, <1>4, <1>7, <1>9, <1>10, <1>11 DEF RowSaved, SavesListing
  <2>3. \A z \in Subcategories : subcategory[z].state # "unused" =>
          subcategory'[z].of = subcategory[z].of /\ subcategory'[z].state # "unused"
    BY <1>8
  <2>4. QED
    BY <1>9, <1>11, <2>1, <2>2, <2>3, CatalogueTasksStay
<1>13. CatalogueTyped'
  BY <1>1, <1>8, <1>10, <1>11 DEF CatalogueTyped
<1>14. T!VisitsAndTogglesCount'
  <2>1. listing'[l].views = listing[l].views /\ listing'[l].flags = listing[l].flags
    BY <1>6, <1>7, <1>10, NoListingIs
  <2>2. QED
    BY <1>1, <1>8, <1>9, <1>10, <2>1 DEF T!VisitsAndTogglesCount
<1>15. QED
  BY <1>10, <1>12, <1>13, <1>14 DEF CatalogueInv

LEMMA CommitEditPreservesInv ==
  ASSUME CatalogueInv, NEW h \in Handlers, T!CommitEdit(h)
  PROVE  CatalogueInv'
<1>1. /\ task[h] \in CatalogueTask /\ task[h].pc = "edit" /\ CatalogueShape(task[h])
      /\ CatalogueCurrent(task[h]) /\ CatalogueTyped /\ T!VisitsAndTogglesCount
  BY DEF CatalogueInv, CatalogueTyped, CatalogueTasksAreSound, T!CommitEdit, T!At
<1>2. PICK l \in Listings : l = task[h].row /\ l \in task[h].on
  BY <1>1 DEF CatalogueShape, SavesListing
<1>3. listing[l] \in CatalogueRow
  BY <1>1 DEF CatalogueTyped
<1>4. PICK c \in Categories \cup {None} :
        c = NewCategory(task[h]) /\ c = T!Or(task[h].category, listing[l].category)
  BY <1>1, <1>2, <1>3 DEF NewCategory, T!Or, CatalogueTask, CatalogueRow
<1>5. PICK s \in Subcategories \cup {None} :
        /\ s = NewSubcategory(task[h])
        /\ s = IF task[h].subcategory = "empty" THEN None
               ELSE T!Or(task[h].subcategory, listing[l].subcategory)
  BY <1>1, <1>2, <1>3 DEF NewSubcategory, T!Or, CatalogueTask, CatalogueRow
<1>6. PICK new \in CatalogueRow : new = [listing[l] EXCEPT !.category = c, !.subcategory = s]
  BY <1>3 DEF CatalogueRow
<1>7. /\ new.category = c /\ new.subcategory = s /\ new.status = listing[l].status
      /\ new.flags = listing[l].flags /\ new.views = listing[l].views
  BY <1>3, <1>6 DEF CatalogueRow
<1>8. /\ listing' = [listing EXCEPT ![l] = new] /\ T!Finish(h) /\ T!ListingExists(l)
      /\ UNCHANGED <<category, subcategory, saved, toggled, visits, lost>>
      /\ task[h].category # None => T!CategoryExists(task[h].category)
      /\ task[h].subcategory \in Subcategories => T!SubcategoryExists(task[h].subcategory)
      /\ disturbed' = IF task[h].alone THEN disturbed ELSE disturbed \cup (task[h].on \cap Listings)
  <2>1. listing' = [listing EXCEPT
          ![l].category = T!Or(task[h].category, @),
          ![l].subcategory = IF task[h].subcategory = "empty" THEN None
                             ELSE T!Or(task[h].subcategory, @)]
    BY <1>2 DEF T!CommitEdit
  <2>2. listing' = [listing EXCEPT ![l] = new]
    BY <1>1, <1>3, <1>4, <1>5, <1>6, <2>1 DEF CatalogueTyped, CatalogueRow
  <2>3. QED
    BY <1>2, <2>2 DEF T!CommitEdit, T!Disturb
<1>9. disturbed \subseteq disturbed' /\ (task[h].alone \/ l \in disturbed')
  BY <1>2, <1>8
<1>10. s \in {None, listing[l].subcategory} \cup task[h].on
  BY <1>1, <1>5 DEF CatalogueShape, CatalogueTask, T!Or
<1>11. /\ listing' \in [Listings -> CatalogueRow] /\ listing'[l] = new
       /\ \A k \in Listings \ {l} : listing'[k] = listing[k]
       /\ RowsAreLinked' /\ T!TreeIsKept'
  <2>1. new.status # "none"
    BY <1>7, <1>8 DEF T!ListingExists
  <2>2. T!CategoryExists(new.category)
    BY <1>4, <1>7, <1>8, PlaceStays DEF T!Or
  <2>3. new.subcategory # None => T!SubcategoryExists(new.subcategory)
    BY <1>1, <1>5, <1>7, <1>8, PlaceStays DEF T!Or, CatalogueTask
  <2>4. l \notin disturbed' /\ new.subcategory # None =>
          subcategory[new.subcategory].of = new.category
    BY <1>1, <1>2, <1>4, <1>5, <1>7, <1>8, <1>9 DEF CatalogueCurrent, InPlace
  <2>5. UNCHANGED <<category, subcategory, saved, lost>> /\ listing' = [listing EXCEPT ![l] = new]
    BY <1>8
  <2>6. QED
    BY <1>9, <2>1, <2>2, <2>3, <2>4, <2>5, RowWritten
<1>12. /\ task' \in [Handlers -> CatalogueTask] /\ task'[h] = T!Idle
       /\ \A g \in Handlers : task'[g] \in {task[g], T!Idle}
  BY <1>8, CatalogueFinish
<1>13. CatalogueTasksAreSound'
  <2>1. \A k \in Listings \ {l} : RowKeeps(k)
    BY <1>11 DEF RowKeeps, T!ListingExists
  <2>2. RowSaved(h, l)
    BY <1>1, <1>2, <1>7, <1>8, <1>9, <1>10, <1>11, <1>12 DEF RowSaved, SavesListing
  <2>3. \A z \in Subcategories : subcategory[z].state # "unused" =>
          subcategory'[z].of = subcategory[z].of /\ subcategory'[z].state # "unused"
    BY <1>8
  <2>4. QED
    BY <1>9, <1>12, <2>1, <2>2, <2>3, CatalogueTasksStay
<1>14. CatalogueTyped'
  BY <1>1, <1>8, <1>11, <1>12 DEF CatalogueTyped
<1>15. T!VisitsAndTogglesCount'
  BY <1>1, <1>7, <1>8, <1>9, <1>11 DEF T!VisitsAndTogglesCount
<1>16. QED
  BY <1>11, <1>13, <1>14, <1>15 DEF CatalogueInv

(* Deletions in the tree *)

LEMMA UnlinkedRows ==
  ASSUME CatalogueInv, NEW gone \in SUBSET Subcategories, T!Unlink(gone)
  PROVE  /\ listing' \in [Listings -> CatalogueRow]
         /\ \A l \in Listings :
              /\ RowKeeps(l) /\ listing'[l].status = listing[l].status
              /\ listing'[l].views = listing[l].views
              /\ listing[l].subcategory \in gone => listing'[l].subcategory = None
              /\ listing[l].subcategory \notin gone => listing'[l] = listing[l]
<1>1. /\ listing \in [Listings -> CatalogueRow]
      /\ listing' = [l \in Listings |-> IF listing[l].subcategory \in gone
                                        THEN [listing[l] EXCEPT !.subcategory = None] ELSE listing[l]]
  BY DEF CatalogueInv, CatalogueTyped, T!Unlink
<1>2. ASSUME NEW l \in Listings
      PROVE  /\ listing'[l] \in CatalogueRow /\ listing'[l].category = listing[l].category
             /\ listing'[l].flags = listing[l].flags /\ listing'[l].status = listing[l].status
             /\ listing'[l].views = listing[l].views
             /\ listing[l].subcategory \in gone => listing'[l].subcategory = None
             /\ listing[l].subcategory \notin gone => listing'[l] = listing[l]
  <2>1. CASE listing[l].subcategory \in gone
    <3>1. listing[l] \in CatalogueRow /\ listing'[l] = [listing[l] EXCEPT !.subcategory = None]
      BY <1>1, <2>1
    <3>2. QED
      BY <2>1, <3>1 DEF CatalogueRow
  <2>2. CASE listing[l].subcategory \notin gone
    BY <1>1, <2>2
  <2>3. QED
    BY <2>1, <2>2
<1>3. listing' \in [Listings -> CatalogueRow]
  BY <1>1, <1>2
<1>4. QED
  BY <1>2, <1>3 DEF RowKeeps, T!ListingExists

\* Subcategories are deleted, alone or with their category, and listings lose them; only those
\* do whose saving overlapped the deletion.
LEMMA CutPreservesInv ==
  ASSUME CatalogueInv, NEW h \in Handlers, T!Finish(h),
         NEW gone \in SUBSET Subcategories, T!Unlink(gone),
         UNCHANGED <<saved, toggled, visits, disturbed>>,
         \A l \in Listings : listing[l].subcategory \in gone => l \in disturbed,
         category' \in [Categories -> TreeStates], subcategory' \in [Subcategories -> SubcategoryRow],
         \A s \in gone : subcategory[s].state # "unused" /\ subcategory'[s].state = "deleted",
         \A s \in Subcategories : subcategory'[s].of = subcategory[s].of,
         \A s \in Subcategories \ gone : subcategory'[s] = subcategory[s],
         \A c \in Categories : T!CategoryExists(c) =>
           \/ T!CategoryExists(c)'
           \/ /\ \A l \in Listings : listing[l].category # c
              /\ \A s \in Subcategories : T!SubcategoryExists(s) /\ subcategory[s].of = c => s \in gone
  PROVE  CatalogueInv'
<1>1. /\ CatalogueTyped /\ SubcategoriesAreLinked /\ ListingsAreLinked /\ SavedAreLinked
      /\ T!TreeIsKept /\ T!VisitsAndTogglesCount
  BY DEF CatalogueInv, RowsAreLinked
<1>2. /\ listing' \in [Listings -> CatalogueRow]
      /\ \A l \in Listings :
           /\ RowKeeps(l) /\ listing'[l].status = listing[l].status
           /\ listing'[l].views = listing[l].views
           /\ listing[l].subcategory \in gone => listing'[l].subcategory = None
           /\ listing[l].subcategory \notin gone => listing'[l] = listing[l]
  BY UnlinkedRows
<1>3. /\ task' \in [Handlers -> CatalogueTask] /\ task'[h] = T!Idle
      /\ \A g \in Handlers : task'[g] \in {task[g], T!Idle}
  BY CatalogueFinish
<1>4. CatalogueTyped'
  BY <1>1, <1>2, <1>3 DEF CatalogueTyped
<1>5. SubcategoriesAreLinked'
  <2>1. ASSUME NEW s \in Subcategories, T!SubcategoryExists(s)'
        PROVE  T!CategoryExists(subcategory[s].of)'
    <3>1. s \notin gone
      BY <2>1 DEF T!SubcategoryExists
    <3>2. T!SubcategoryExists(s) /\ subcategory'[s] = subcategory[s]
      BY <2>1, <3>1 DEF T!SubcategoryExists
    <3>3. PICK c \in Categories : c = subcategory[s].of /\ T!CategoryExists(c)
      BY <1>1, <3>2 DEF SubcategoriesAreLinked, T!CategoryExists
    <3>4. T!CategoryExists(c)'
      BY <3>1, <3>2, <3>3
    <3>5. QED
      BY <3>2, <3>3, <3>4
  <2>2. QED
    BY <2>1 DEF SubcategoriesAreLinked
<1>6. ListingsAreLinked'
  <2>1. ASSUME NEW l \in Listings
        PROVE  /\ T!ListingExists(l)' => T!CategoryExists(listing[l].category)'
               /\ listing'[l].subcategory # None => T!SubcategoryExists(listing[l].subcategory)'
               /\ ~T!ListingExists(l)' => listing'[l] = T!NoListing
    <3>1. ASSUME T!ListingExists(l)'
          PROVE  T!CategoryExists(listing[l].category)'
      <4>1. T!ListingExists(l) /\ listing'[l].category = listing[l].category
        BY <1>2, <3>1 DEF RowKeeps
      <4>2. PICK c \in Categories : c = listing[l].category /\ T!CategoryExists(c)
        BY <1>1, <4>1 DEF ListingsAreLinked, T!CategoryExists
      <4>3. T!CategoryExists(c)'
        BY <4>2
      <4>4. QED
        BY <4>1, <4>2, <4>3
    <3>2. ASSUME listing'[l].subcategory # None
          PROVE  T!SubcategoryExists(listing[l].subcategory)'
      <4>1. listing[l].subcategory \notin gone /\ listing'[l] = listing[l]
        BY <1>2, <3>2
      <4>2. T!SubcategoryExists(listing[l].subcategory)
        BY <1>1, <3>2, <4>1 DEF ListingsAreLinked
      <4>3. QED
        BY <4>1, <4>2 DEF T!SubcategoryExists
    <3>3. ASSUME ~T!ListingExists(l)'
          PROVE  listing'[l] = T!NoListing
      <4>1. listing[l] = T!NoListing
        BY <1>1, <1>2, <3>3 DEF ListingsAreLinked, T!ListingExists
      <4>2. listing[l].subcategory \notin gone
        BY <4>1, NoListingIs, CatalogueBounds
      <4>3. QED
        BY <1>2, <4>1, <4>2
    <3>4. QED
      BY <3>1, <3>2, <3>3
  <2>2. QED
    BY <2>1 DEF ListingsAreLinked
<1>7. SavedAreLinked'
  BY <1>1, <1>2 DEF SavedAreLinked, CatalogueTyped, T!ListingExists
<1>8. T!TreeIsKept'
  <2>1. ASSUME NEW l \in Listings \ disturbed'
        PROVE  /\ l \notin lost'
               /\ listing'[l].subcategory # None =>
                    subcategory'[listing'[l].subcategory].of = listing'[l].category
    <3>1. l \notin disturbed /\ listing[l].subcategory \notin gone /\ listing'[l] = listing[l]
      BY <1>2, <2>1
    <3>2. l \notin lost'
      BY <1>1, <2>1, <3>1 DEF T!TreeIsKept, T!Unlink
    <3>3. listing[l].subcategory \in Subcategories \cup {None}
      BY <1>1 DEF CatalogueTyped, CatalogueRow
    <3>4. QED
      BY <1>1, <2>1, <3>1, <3>2, <3>3 DEF T!TreeIsKept
  <2>2. QED
    BY <2>1 DEF T!TreeIsKept
<1>9. CatalogueTasksAreSound'
  <2>1. \A s \in Subcategories : subcategory[s].state # "unused" =>
          subcategory'[s].of = subcategory[s].of /\ subcategory'[s].state # "unused"
    <3>1. ASSUME NEW s \in Subcategories, subcategory[s].state # "unused"
          PROVE  subcategory'[s].of = subcategory[s].of /\ subcategory'[s].state # "unused"
      BY <3>1
    <3>2. QED
      BY <3>1
  <2>2. QED
    BY <1>2, <1>3, <2>1, CatalogueTasksStay
<1>10. T!VisitsAndTogglesCount'
  BY <1>1, <1>2 DEF T!VisitsAndTogglesCount, RowKeeps
<1>11. QED
  BY <1>4, <1>5, <1>6, <1>7, <1>8, <1>9, <1>10 DEF CatalogueInv, RowsAreLinked

\* The category had no listing, so that a listing in one of its subcategories was out of place.
LEMMA CommitHardDeletePreservesInv ==
  ASSUME CatalogueInv, NEW h \in Handlers, T!CommitHardDelete(h)
  PROVE  CatalogueInv'
<1>1. task[h] \in CatalogueTask /\ task[h].pc = "deleteCategory" /\ CatalogueTyped /\ T!TreeIsKept
      /\ CatalogueShape(task[h])
  BY DEF CatalogueInv, CatalogueTyped, CatalogueTasksAreSound, T!CommitHardDelete, T!At
<1>2. PICK c \in Categories : c = task[h].row
  BY <1>1 DEF CatalogueShape
<1>3. PICK gone \in SUBSET Subcategories :
        gone = {s \in Subcategories : T!SubcategoryExists(s) /\ subcategory[s].of = c}
  OBVIOUS
<1>4. /\ \A l \in Listings : listing[l].category # c
      /\ category' = [category EXCEPT ![c] = "deleted"]
      /\ subcategory' = [s \in Subcategories |->
           IF s \in gone THEN [subcategory[s] EXCEPT !.state = "deleted"] ELSE subcategory[s]]
      /\ T!Unlink(gone) /\ T!Finish(h) /\ UNCHANGED <<saved, toggled, visits, disturbed>>
  BY <1>2, <1>3 DEF T!CommitHardDelete
<1>5. ASSUME NEW l \in Listings, listing[l].subcategory \in gone
      PROVE  l \in disturbed
  BY <1>1, <1>3, <1>4, <1>5, CatalogueBounds DEF T!TreeIsKept
<1>6. category' \in [Categories -> TreeStates]
  BY <1>1, <1>4 DEF CatalogueTyped, TreeStates
<1>7. ASSUME NEW s \in Subcategories
      PROVE  /\ subcategory'[s] \in SubcategoryRow /\ subcategory'[s].of = subcategory[s].of
             /\ s \in gone => subcategory[s].state # "unused" /\ subcategory'[s].state = "deleted"
             /\ s \notin gone => subcategory'[s] = subcategory[s]
  <2>1. CASE s \in gone
    <3>1. /\ subcategory[s] \in SubcategoryRow /\ subcategory[s].state # "unused"
          /\ subcategory'[s] = [subcategory[s] EXCEPT !.state = "deleted"]
      BY <1>1, <1>3, <1>4, <2>1 DEF CatalogueTyped, T!SubcategoryExists
    <3>2. QED
      BY <2>1, <3>1 DEF SubcategoryRow, TreeStates
  <2>2. CASE s \notin gone
    BY <1>1, <1>4, <2>2 DEF CatalogueTyped
  <2>3. QED
    BY <2>1, <2>2
<1>8. subcategory' \in [Subcategories -> SubcategoryRow]
  BY <1>4, <1>7
<1>9. ASSUME NEW k \in Categories, T!CategoryExists(k)
      PROVE  \/ T!CategoryExists(k)'
             \/ /\ \A l \in Listings : listing[l].category # k
                /\ \A s \in Subcategories :
                     T!SubcategoryExists(s) /\ subcategory[s].of = k => s \in gone
  BY <1>1, <1>3, <1>4, <1>9 DEF CatalogueTyped, T!CategoryExists
<1>10. QED
  BY <1>4, <1>5, <1>6, <1>7, <1>8, <1>9, CutPreservesInv

LEMMA CommitDeleteSubcategoryPreservesInv ==
  ASSUME CatalogueInv, NEW h \in Handlers, T!CommitDeleteSubcategory(h)
  PROVE  CatalogueInv'
<1>1. /\ task[h] \in CatalogueTask /\ task[h].pc = "deleteSubcategory" /\ CatalogueTyped
      /\ CatalogueShape(task[h]) /\ CatalogueCurrent(task[h])
  BY DEF CatalogueInv, CatalogueTyped, CatalogueTasksAreSound, T!CommitDeleteSubcategory, T!At
<1>2. PICK z \in Subcategories : z = task[h].row
  BY <1>1 DEF CatalogueShape
<1>3. /\ T!SubcategoryExists(z) /\ subcategory' = [subcategory EXCEPT ![z].state = "deleted"]
      /\ T!Unlink({z}) /\ T!Finish(h) /\ UNCHANGED <<category, saved, toggled, visits, disturbed>>
  BY <1>2 DEF T!CommitDeleteSubcategory
<1>4. \A l \in Listings : listing[l].subcategory \in {z} => l \in disturbed
  BY <1>1, <1>2 DEF CatalogueCurrent
<1>5. ASSUME NEW s \in Subcategories
      PROVE  /\ subcategory'[s] \in SubcategoryRow /\ subcategory'[s].of = subcategory[s].of
             /\ s = z => subcategory[s].state # "unused" /\ subcategory'[s].state = "deleted"
             /\ s # z => subcategory'[s] = subcategory[s]
  <2>1. subcategory[s] \in SubcategoryRow
    BY <1>1 DEF CatalogueTyped
  <2>2. CASE s = z
    <3>1. subcategory[z].state # "unused" /\ subcategory'[z] = [subcategory[z] EXCEPT !.state = "deleted"]
      BY <1>1, <1>3 DEF CatalogueTyped, T!SubcategoryExists
    <3>2. QED
      BY <2>1, <2>2, <3>1 DEF SubcategoryRow, TreeStates
  <2>3. CASE s # z
    BY <1>1, <1>3, <2>1, <2>3 DEF CatalogueTyped
  <2>4. QED
    BY <2>2, <2>3
<1>6. subcategory' \in [Subcategories -> SubcategoryRow]
  BY <1>1, <1>3, <1>5 DEF CatalogueTyped
<1>7. category' \in [Categories -> TreeStates] /\ {z} \in SUBSET Subcategories
  BY <1>1, <1>3 DEF CatalogueTyped
<1>8. \A c \in Categories : T!CategoryExists(c) => T!CategoryExists(c)'
  BY <1>3 DEF T!CategoryExists
<1>9. /\ \A s \in {z} : subcategory[s].state # "unused" /\ subcategory'[s].state = "deleted"
      /\ \A s \in Subcategories : subcategory'[s].of = subcategory[s].of
      /\ \A s \in Subcategories \ {z} : subcategory'[s] = subcategory[s]
  BY <1>5
<1>10. QED
  BY <1>3, <1>4, <1>6, <1>7, <1>8, <1>9, CutPreservesInv

(* Flags, views, wishlists *)

\* A handler that is alone finds the flag as it read it.
LEMMA CommitTogglePreservesInv ==
  ASSUME CatalogueInv, NEW h \in Handlers, T!CommitToggle(h)
  PROVE  CatalogueInv'
<1>1. /\ task[h] \in CatalogueTask /\ task[h].pc = "toggle" /\ CatalogueShape(task[h])
      /\ CatalogueCurrent(task[h]) /\ CatalogueTyped /\ T!VisitsAndTogglesCount
  BY DEF CatalogueInv, CatalogueTyped, CatalogueTasksAreSound, T!CommitToggle, T!At
<1>2. PICK l \in Listings : l = task[h].row /\ l \in task[h].on
  BY <1>1 DEF CatalogueShape, SavesListing
<1>3. PICK f \in T!Flags : f = task[h].flag
  BY <1>1 DEF CatalogueShape
<1>4. listing[l] \in CatalogueRow /\ toggled[l] \in SUBSET T!Flags
  BY <1>1 DEF CatalogueTyped
<1>5. PICK flags \in SUBSET T!Flags :
        flags = IF task[h].was THEN listing[l].flags \ {f} ELSE listing[l].flags \cup {f}
  BY <1>4 DEF CatalogueRow
<1>6. PICK new \in CatalogueRow : new = [listing[l] EXCEPT !.flags = flags]
  BY <1>4 DEF CatalogueRow
<1>7. /\ new.category = listing[l].category /\ new.subcategory = listing[l].subcategory
      /\ new.status = listing[l].status /\ new.flags = flags /\ new.views = listing[l].views
  BY <1>4, <1>6 DEF CatalogueRow
<1>8. /\ listing' = [listing EXCEPT ![l] = new] /\ T!Finish(h) /\ T!ListingExists(l)
      /\ toggled' = [toggled EXCEPT ![l] = T!SymDiff(toggled[l], {f})]
      /\ UNCHANGED <<category, subcategory, saved, visits, lost>>
      /\ disturbed' = IF task[h].alone THEN disturbed ELSE disturbed \cup (task[h].on \cap Listings)
  <2>1. listing' = [listing EXCEPT
          ![l].flags = IF task[h].was THEN @ \ {f} ELSE @ \cup {f}]
    BY <1>2, <1>3 DEF T!CommitToggle
  <2>2. listing' = [listing EXCEPT ![l] = new]
    BY <1>1, <1>5, <1>6, <2>1 DEF CatalogueTyped
  <2>3. QED
    BY <1>1, <1>2, <1>3, <2>2 DEF T!CommitToggle, T!Disturb, CatalogueTyped
<1>9. disturbed \subseteq disturbed' /\ (task[h].alone \/ l \in disturbed')
  BY <1>2, <1>8
<1>10. T!SymDiff(toggled[l], {f}) = IF f \in toggled[l] THEN toggled[l] \ {f} ELSE toggled[l] \cup {f}
  BY DEF T!SymDiff
<1>11. /\ toggled' \in [Listings -> SUBSET T!Flags] /\ toggled'[l] = T!SymDiff(toggled[l], {f})
       /\ \A k \in Listings \ {l} : toggled'[k] = toggled[k]
  <2>1. T!SymDiff(toggled[l], {f}) \in SUBSET T!Flags
    BY <1>4, <1>10
  <2>2. QED
    BY <1>1, <1>8, <2>1 DEF CatalogueTyped
<1>12. /\ listing' \in [Listings -> CatalogueRow] /\ listing'[l] = new
       /\ \A k \in Listings \ {l} : listing'[k] = listing[k]
       /\ RowsAreLinked' /\ T!TreeIsKept'
  <2>1. /\ new.status # "none" /\ T!CategoryExists(new.category)
        /\ new.subcategory # None => T!SubcategoryExists(new.subcategory)
        /\ l \notin disturbed' /\ new.subcategory # None =>
             subcategory[new.subcategory].of = new.category
    BY <1>7, <1>8, <1>9, PlaceStays
  <2>2. UNCHANGED <<category, subcategory, saved, lost>> /\ listing' = [listing EXCEPT ![l] = new]
    BY <1>8
  <2>3. QED
    BY <1>9, <2>1, <2>2, RowWritten
<1>13. /\ task' \in [Handlers -> CatalogueTask] /\ task'[h] = T!Idle
       /\ \A g \in Handlers : task'[g] \in {task[g], T!Idle}
  BY <1>8, CatalogueFinish
<1>14. CatalogueTasksAreSound'
  <2>1. \A k \in Listings \ {l} : RowKeeps(k)
    BY <1>12 DEF RowKeeps, T!ListingExists
  <2>2. RowSaved(h, l)
    BY <1>1, <1>2, <1>7, <1>8, <1>9, <1>12, <1>13 DEF RowSaved, SavesListing
  <2>3. \A z \in Subcategories : subcategory[z].state # "unused" =>
          subcategory'[z].of = subcategory[z].of /\ subcategory'[z].state # "unused"
    BY <1>8
  <2>4. QED
    BY <1>9, <1>13, <2>1, <2>2, <2>3, CatalogueTasksStay
<1>15. CatalogueTyped'
  BY <1>1, <1>8, <1>11, <1>12, <1>13 DEF CatalogueTyped
<1>16. ASSUME l \notin disturbed'
       PROVE  flags = T!SymDiff(toggled[l], {f})
  <2>1. task[h].was <=> f \in listing[l].flags
    BY <1>1, <1>2, <1>3, <1>8, <1>9, <1>16 DEF CatalogueCurrent
  <2>2. listing[l].flags = toggled[l]
    BY <1>1, <1>9, <1>16 DEF T!VisitsAndTogglesCount
  <2>3. QED
    BY <1>5, <1>10, <2>1, <2>2
<1>17. T!VisitsAndTogglesCount'
  <2>1. ASSUME NEW k \in Listings
        PROVE  listing'[k].views = visits'[k] /\ (k \notin disturbed' => listing'[k].flags = toggled'[k])
    <3>1. CASE k = l
      BY <1>1, <1>7, <1>8, <1>11, <1>12, <1>16, <3>1 DEF T!VisitsAndTogglesCount
    <3>2. CASE k # l
      BY <1>1, <1>8, <1>9, <1>11, <1>12, <3>2 DEF T!VisitsAndTogglesCount
    <3>3. QED
      BY <3>1, <3>2
  <2>2. QED
    BY <2>1 DEF T!VisitsAndTogglesCount
<1>18. QED
  BY <1>12, <1>14, <1>15, <1>17 DEF CatalogueInv

LEMMA CommitVisitPreservesInv ==
  ASSUME CatalogueInv, NEW h \in Handlers, T!CommitVisit(h)
  PROVE  CatalogueInv'
<1>1. /\ task[h] \in CatalogueTask /\ task[h].pc = "visit" /\ CatalogueShape(task[h])
      /\ CatalogueTyped /\ T!VisitsAndTogglesCount
  BY DEF CatalogueInv, CatalogueTyped, CatalogueTasksAreSound, T!CommitVisit, T!At
<1>2. PICK l \in Listings : l = task[h].row
  BY <1>1 DEF CatalogueShape
<1>3. listing[l] \in CatalogueRow /\ listing[l].views = visits[l] /\ visits[l] \in Nat
  BY <1>1 DEF CatalogueTyped, T!VisitsAndTogglesCount
<1>4. PICK new \in CatalogueRow : new = [listing[l] EXCEPT !.views = @ + 1]
  <2>1. PICK n \in Nat : n = listing[l].views + 1
    BY <1>3
  <2>2. PICK new \in CatalogueRow : new = [listing[l] EXCEPT !.views = n]
    BY <1>3 DEF CatalogueRow
  <2>3. QED
    BY <2>1, <2>2
<1>5. /\ new.category = listing[l].category /\ new.subcategory = listing[l].subcategory
      /\ new.status = listing[l].status /\ new.flags = listing[l].flags /\ new.views = visits[l] + 1
  BY <1>3, <1>4 DEF CatalogueRow
<1>6. /\ listing' = [listing EXCEPT ![l] = new] /\ T!Finish(h) /\ T!ListingExists(l)
      /\ visits' = [visits EXCEPT ![l] = visits[l] + 1]
      /\ UNCHANGED <<category, subcategory, saved, toggled, lost, disturbed>>
  <2>1. listing' = [listing EXCEPT ![l].views = @ + 1] /\ visits' = [visits EXCEPT ![l] = @ + 1]
    BY <1>2 DEF T!CommitVisit
  <2>2. QED
    BY <1>1, <1>2, <1>4, <2>1 DEF T!CommitVisit, CatalogueTyped
<1>7. /\ listing' \in [Listings -> CatalogueRow] /\ listing'[l] = new
      /\ \A k \in Listings \ {l} : listing'[k] = listing[k]
      /\ RowsAreLinked' /\ T!TreeIsKept'
  <2>1. /\ new.status # "none" /\ T!CategoryExists(new.category)
        /\ new.subcategory # None => T!SubcategoryExists(new.subcategory)
        /\ l \notin disturbed' /\ new.subcategory # None =>
             subcategory[new.subcategory].of = new.category
    BY <1>5, <1>6, PlaceStays
  <2>2. /\ UNCHANGED <<category, subcategory, saved, lost>> /\ disturbed \subseteq disturbed'
        /\ listing' = [listing EXCEPT ![l] = new]
    BY <1>6
  <2>3. QED
    BY <2>1, <2>2, RowWritten
<1>8. /\ task' \in [Handlers -> CatalogueTask] /\ task'[h] = T!Idle
      /\ \A g \in Handlers : task'[g] \in {task[g], T!Idle}
  BY <1>6, CatalogueFinish
<1>9. CatalogueTasksAreSound'
  <2>1. \A k \in Listings : RowKeeps(k)
    BY <1>5, <1>6, <1>7 DEF RowKeeps, T!ListingExists
  <2>2. /\ disturbed \subseteq disturbed'
        /\ \A z \in Subcategories : subcategory[z].state # "unused" =>
             subcategory'[z].of = subcategory[z].of /\ subcategory'[z].state # "unused"
    BY <1>6
  <2>3. QED
    BY <1>8, <2>1, <2>2, CatalogueTasksStay
<1>10. CatalogueTyped'
  BY <1>1, <1>3, <1>6, <1>7, <1>8 DEF CatalogueTyped
<1>11. T!VisitsAndTogglesCount'
  BY <1>1, <1>5, <1>6, <1>7 DEF T!VisitsAndTogglesCount, CatalogueTyped
<1>12. QED
  BY <1>7, <1>9, <1>10, <1>11 DEF CatalogueInv

LEMMA CommitAddToWishlistPreservesInv ==
  ASSUME CatalogueInv, NEW h \in Handlers, NEW u \in Users, T!CommitAddToWishlist(h, u)
  PROVE  CatalogueInv'
<1>1. /\ task[h] \in CatalogueTask /\ task[h].pc = "wish" /\ CatalogueShape(task[h])
      /\ CatalogueTyped /\ RowsAreLinked /\ T!TreeIsKept /\ T!VisitsAndTogglesCount
  BY DEF CatalogueInv, CatalogueTyped, CatalogueTasksAreSound, T!CommitAddToWishlist, T!At
<1>2. PICK l \in Listings : l = task[h].row
  BY <1>1 DEF CatalogueShape
<1>3. /\ saved' = saved \cup {<<u, l>>} /\ T!ListingExists(l) /\ T!Finish(h)
      /\ UNCHANGED <<category, subcategory, listing, toggled, visits, lost, disturbed>>
  BY <1>2 DEF T!CommitAddToWishlist
<1>4. /\ task' \in [Handlers -> CatalogueTask] /\ task'[h] = T!Idle
      /\ \A g \in Handlers : task'[g] \in {task[g], T!Idle}
  BY <1>3, CatalogueFinish
<1>5. CatalogueTyped'
  BY <1>1, <1>3, <1>4 DEF CatalogueTyped
<1>6. RowsAreLinked'
  <2>1. SubcategoriesAreLinked' /\ ListingsAreLinked'
    BY <1>1, <1>3
    DEF RowsAreLinked, SubcategoriesAreLinked, ListingsAreLinked, T!SubcategoryExists,
        T!CategoryExists, T!ListingExists
  <2>2. SavedAreLinked'
    BY <1>1, <1>3 DEF RowsAreLinked, SavedAreLinked, T!ListingExists
  <2>3. QED
    BY <2>1, <2>2 DEF RowsAreLinked
<1>7. CatalogueTasksAreSound'
  <2>1. \A k \in Listings : RowKeeps(k)
    BY <1>3 DEF RowKeeps, T!ListingExists
  <2>2. /\ disturbed \subseteq disturbed'
        /\ \A z \in Subcategories : subcategory[z].state # "unused" =>
             subcategory'[z].of = subcategory[z].of /\ subcategory'[z].state # "unused"
    BY <1>3
  <2>3. QED
    BY <1>4, <2>1, <2>2, CatalogueTasksStay
<1>8. T!TreeIsKept' /\ T!VisitsAndTogglesCount'
  BY <1>1, <1>3 DEF T!TreeIsKept, T!VisitsAndTogglesCount
<1>9. QED
  BY <1>5, <1>6, <1>7, <1>8 DEF CatalogueInv

(* Steps of no request *)

\* Categories are created, deactivated and reactivated.
LEMMA CategoriesChangePreservesInv ==
  ASSUME CatalogueInv, category' \in [Categories -> TreeStates],
         \A c \in Categories : T!CategoryExists(c) => T!CategoryExists(c)',
         UNCHANGED <<subcategory, listing, saved, toggled, visits, lost, task, disturbed>>
  PROVE  CatalogueInv'
<1>1. /\ CatalogueTyped /\ SubcategoriesAreLinked /\ ListingsAreLinked /\ SavedAreLinked
      /\ T!TreeIsKept /\ T!VisitsAndTogglesCount
  BY DEF CatalogueInv, RowsAreLinked
<1>2. CatalogueTyped'
  BY <1>1 DEF CatalogueTyped
<1>3. SubcategoriesAreLinked' /\ ListingsAreLinked' /\ SavedAreLinked'
  <2>1. ASSUME NEW c, T!CategoryExists(c)
        PROVE  T!CategoryExists(c)'
    BY <2>1 DEF T!CategoryExists
  <2>2. SubcategoriesAreLinked'
    BY <1>1, <2>1 DEF SubcategoriesAreLinked, T!SubcategoryExists
  <2>3. ListingsAreLinked'
    BY <1>1, <2>1 DEF ListingsAreLinked, T!SubcategoryExists, T!ListingExists
  <2>4. SavedAreLinked'
    BY <1>1 DEF SavedAreLinked, T!ListingExists
  <2>5. QED
    BY <2>2, <2>3, <2>4
<1>4. CatalogueTasksAreSound'
  <2>1. \A k \in Listings : RowKeeps(k)
    BY DEF RowKeeps, T!ListingExists
  <2>2. task' \in [Handlers -> CatalogueTask] /\ \A g \in Handlers : task'[g] \in {task[g], T!Idle}
    BY <1>1 DEF CatalogueTyped
  <2>3. QED
    BY <2>1, <2>2, CatalogueTasksStay
<1>5. T!TreeIsKept' /\ T!VisitsAndTogglesCount'
  BY <1>1 DEF T!TreeIsKept, T!VisitsAndTogglesCount
<1>6. QED
  BY <1>2, <1>3, <1>4, <1>5 DEF CatalogueInv, RowsAreLinked

LEMMA CategoryStepsPreserveInv ==
  ASSUME CatalogueInv, NEW c \in Categories,
         T!CreateCategory(c) \/ T!Deactivate(c) \/ T!Reactivate(c)
  PROVE  CatalogueInv'
<1>1. category \in [Categories -> TreeStates]
  BY DEF CatalogueInv, CatalogueTyped
<1>2. PICK state \in {"active", "inactive"} :
        /\ category' = [category EXCEPT ![c] = state]
        /\ UNCHANGED <<subcategory, listing, saved, toggled, visits, lost, task, disturbed>>
  BY DEF T!CreateCategory, T!Deactivate, T!Reactivate, T!SetCategory
<1>3. category' \in [Categories -> TreeStates]
  BY <1>1, <1>2 DEF TreeStates
<1>4. \A k \in Categories : T!CategoryExists(k) => T!CategoryExists(k)'
  BY <1>1, <1>2 DEF T!CategoryExists
<1>5. QED
  BY <1>2, <1>3, <1>4, CategoriesChangePreservesInv

\* Nothing refers to a subcategory that was not there.
LEMMA AddSubcategoryPreservesInv ==
  ASSUME CatalogueInv, NEW c \in Categories, NEW s \in Subcategories, T!AddSubcategory(c, s)
  PROVE  CatalogueInv'
<1>1. /\ CatalogueTyped /\ SubcategoriesAreLinked /\ ListingsAreLinked /\ SavedAreLinked
      /\ T!TreeIsKept /\ T!VisitsAndTogglesCount
  BY DEF CatalogueInv, RowsAreLinked
<1>2. /\ T!CategoryExists(c) /\ subcategory[s].state = "unused"
      /\ subcategory' = [subcategory EXCEPT ![s] = [state |-> "active", of |-> c]]
      /\ UNCHANGED <<category, listing, saved, toggled, visits, lost, task, disturbed>>
  BY DEF T!AddSubcategory
<1>3. /\ subcategory' \in [Subcategories -> SubcategoryRow]
      /\ subcategory'[s] = [state |-> "active", of |-> c]
      /\ \A z \in Subcategories \ {s} : subcategory'[z] = subcategory[z]
  BY <1>1, <1>2 DEF CatalogueTyped, SubcategoryRow, TreeStates
<1>4. CatalogueTyped'
  BY <1>1, <1>2, <1>3 DEF CatalogueTyped
<1>5. ASSUME NEW z, T!SubcategoryExists(z)
      PROVE  z \in Subcategories /\ z # s /\ T!SubcategoryExists(z)'
  BY <1>2, <1>3, <1>5 DEF T!SubcategoryExists
<1>6. SubcategoriesAreLinked' /\ ListingsAreLinked' /\ SavedAreLinked'
  <2>1. ASSUME NEW z \in Subcategories, T!SubcategoryExists(z)'
        PROVE  T!CategoryExists(subcategory[z].of)'
    <3>1. CASE z = s
      BY <1>2, <1>3, <3>1 DEF T!CategoryExists
    <3>2. CASE z # s
      BY <1>1, <1>2, <1>3, <2>1, <3>2
      DEF SubcategoriesAreLinked, T!SubcategoryExists, T!CategoryExists
    <3>3. QED
      BY <3>1, <3>2
  <2>2. ListingsAreLinked'
    BY <1>1, <1>2, <1>5 DEF ListingsAreLinked, T!CategoryExists, T!ListingExists
  <2>3. SavedAreLinked'
    BY <1>1, <1>2 DEF SavedAreLinked, T!ListingExists
  <2>4. QED
    BY <2>1, <2>2, <2>3 DEF SubcategoriesAreLinked
<1>7. CatalogueTasksAreSound'
  <2>1. \A k \in Listings : RowKeeps(k)
    BY <1>2 DEF RowKeeps, T!ListingExists
  <2>2. task' \in [Handlers -> CatalogueTask] /\ \A g \in Handlers : task'[g] \in {task[g], T!Idle}
    BY <1>1, <1>2 DEF CatalogueTyped
  <2>3. \A z \in Subcategories : subcategory[z].state # "unused" =>
          subcategory'[z].of = subcategory[z].of /\ subcategory'[z].state # "unused"
    BY <1>2, <1>3
  <2>4. disturbed \subseteq disturbed'
    BY <1>2
  <2>5. QED
    BY <2>1, <2>2, <2>3, <2>4, CatalogueTasksStay
<1>8. T!TreeIsKept'
  <2>1. ASSUME NEW l \in Listings \ disturbed'
        PROVE  /\ l \notin lost'
               /\ listing'[l].subcategory # None =>
                    subcategory'[listing'[l].subcategory].of = listing'[l].category
    <3>1. ASSUME listing[l].subcategory # None
          PROVE  listing[l].subcategory \in Subcategories \ {s}
      BY <1>1, <1>5, <2>1, <3>1 DEF ListingsAreLinked
    <3>2. QED
      BY <1>1, <1>2, <1>3, <2>1, <3>1 DEF T!TreeIsKept
  <2>2. QED
    BY <2>1 DEF T!TreeIsKept
<1>9. T!VisitsAndTogglesCount'
  BY <1>1, <1>2 DEF T!VisitsAndTogglesCount
<1>10. QED
  BY <1>4, <1>6, <1>7, <1>8, <1>9 DEF CatalogueInv, RowsAreLinked

\* A listing is moved on or withdrawn.
LEMMA StatusChangePreservesInv ==
  ASSUME CatalogueInv, NEW l \in Listings, T!ListingExists(l), NEW new \in CatalogueRow,
         new.category = listing[l].category, new.subcategory = listing[l].subcategory,
         new.flags = listing[l].flags, new.views = listing[l].views, new.status # "none",
         listing' = [listing EXCEPT ![l] = new],
         UNCHANGED <<category, subcategory, saved, toggled, visits, lost, task, disturbed>>
  PROVE  CatalogueInv'
<1>1. CatalogueTyped /\ T!VisitsAndTogglesCount
  BY DEF CatalogueInv
<1>2. /\ listing' \in [Listings -> CatalogueRow] /\ listing'[l] = new
      /\ \A k \in Listings \ {l} : listing'[k] = listing[k]
      /\ RowsAreLinked' /\ T!TreeIsKept'
  <2>1. /\ T!CategoryExists(new.category)
        /\ new.subcategory # None => T!SubcategoryExists(new.subcategory)
        /\ l \notin disturbed' /\ new.subcategory # None =>
             subcategory[new.subcategory].of = new.category
    BY PlaceStays
  <2>2. UNCHANGED <<category, subcategory, saved, lost>> /\ disturbed \subseteq disturbed'
    OBVIOUS
  <2>3. QED
    BY <2>1, <2>2, RowWritten
<1>3. CatalogueTasksAreSound'
  <2>1. \A k \in Listings : RowKeeps(k)
    BY <1>2 DEF RowKeeps, T!ListingExists
  <2>2. task' \in [Handlers -> CatalogueTask] /\ \A g \in Handlers : task'[g] \in {task[g], T!Idle}
    BY <1>1 DEF CatalogueTyped
  <2>3. QED
    BY <2>1, <2>2, CatalogueTasksStay
<1>4. CatalogueTyped'
  BY <1>1, <1>2 DEF CatalogueTyped
<1>5. T!VisitsAndTogglesCount'
  BY <1>1, <1>2 DEF T!VisitsAndTogglesCount
<1>6. QED
  BY <1>2, <1>3, <1>4, <1>5 DEF CatalogueInv

LEMMA ListingStepsPreserveInv ==
  ASSUME CatalogueInv, NEW l \in Listings,
         (\E to \in {m[2] : m \in T!Moves} : T!Move(l, to)) \/ T!Withdraw(l)
  PROVE  CatalogueInv'
<1>1. listing[l] \in CatalogueRow
  BY DEF CatalogueInv, CatalogueTyped
<1>2. ASSUME NEW to \in {m[2] : m \in T!Moves}, T!Move(l, to)
      PROVE  CatalogueInv'
  <2>1. to \in {"PUBLISHED", "RESERVED", "SOLD", "ARCHIVED"}
    BY DEF T!Moves
  <2>2. PICK new \in CatalogueRow : new = [listing[l] EXCEPT !.status = to]
    BY <1>1, <2>1 DEF CatalogueRow
  <2>3. /\ new.category = listing[l].category /\ new.subcategory = listing[l].subcategory
        /\ new.flags = listing[l].flags /\ new.views = listing[l].views /\ new.status # "none"
    BY <1>1, <2>1, <2>2 DEF CatalogueRow
  <2>4. listing' = [listing EXCEPT ![l] = new]
    BY <1>2, <2>2 DEF T!Move
  <2>5. /\ T!ListingExists(l)
        /\ UNCHANGED <<category, subcategory, saved, toggled, visits, lost, task, disturbed>>
    BY <1>2 DEF T!Move, T!Live
  <2>6. QED
    BY <2>3, <2>4, <2>5, StatusChangePreservesInv
<1>3. ASSUME T!Withdraw(l)
      PROVE  CatalogueInv'
  <2>1. PICK new \in CatalogueRow : new = [listing[l] EXCEPT !.deleted = TRUE]
    BY <1>1 DEF CatalogueRow
  <2>2. /\ new.category = listing[l].category /\ new.subcategory = listing[l].subcategory
        /\ new.flags = listing[l].flags /\ new.views = listing[l].views
        /\ new.status = listing[l].status
    BY <1>1, <2>1 DEF CatalogueRow
  <2>3. /\ listing' = [listing EXCEPT ![l] = new] /\ T!ListingExists(l)
        /\ UNCHANGED <<category, subcategory, saved, toggled, visits, lost, task, disturbed>>
    BY <1>3, <2>1 DEF T!Withdraw, T!Live
  <2>4. QED
    BY <2>2, <2>3, StatusChangePreservesInv DEF T!ListingExists
<1>4. QED
  BY <1>2, <1>3

\* The rate is set, which displays the prices that were left in dollars.
LEMMA RedisplayPreservesInv ==
  ASSUME CatalogueInv, T!Redisplay
  PROVE  CatalogueInv'
<1>1. /\ CatalogueTyped /\ SubcategoriesAreLinked /\ ListingsAreLinked /\ SavedAreLinked
      /\ T!TreeIsKept /\ T!VisitsAndTogglesCount
  BY DEF CatalogueInv, RowsAreLinked
<1>2. /\ listing' = [l \in Listings |->
           IF l \in T!NotDisplayed THEN [listing[l] EXCEPT !.display = listing[l].final]
                                   ELSE listing[l]]
      /\ UNCHANGED <<category, subcategory, saved, toggled, visits, lost, task, disturbed>>
  BY DEF T!Redisplay
<1>3. ASSUME NEW l \in Listings
      PROVE  /\ listing'[l] \in CatalogueRow /\ listing'[l].status = listing[l].status
             /\ listing'[l].category = listing[l].category
             /\ listing'[l].subcategory = listing[l].subcategory
             /\ listing'[l].flags = listing[l].flags /\ listing'[l].views = listing[l].views
             /\ listing[l].status = "none" => listing'[l] = listing[l]
  <2>1. listing[l] \in CatalogueRow
    BY <1>1 DEF CatalogueTyped
  <2>2. CASE l \in T!NotDisplayed
    <3>1. listing'[l] = [listing[l] EXCEPT !.display = listing[l].final]
      BY <1>2, <2>2
    <3>2. listing[l].status # "none"
      BY <2>2 DEF T!NotDisplayed, T!ListingExists
    <3>3. QED
      BY <2>1, <3>1, <3>2 DEF CatalogueRow
  <2>3. CASE l \notin T!NotDisplayed
    BY <1>2, <2>1, <2>3
  <2>4. QED
    BY <2>2, <2>3
<1>4. listing' \in [Listings -> CatalogueRow]
  <2>1. DOMAIN listing' = Listings /\ listing' = [l \in Listings |-> listing'[l]]
    BY <1>2
  <2>2. QED
    BY <1>3, <2>1
<1>5. CatalogueTyped'
  BY <1>1, <1>2, <1>4 DEF CatalogueTyped
<1>6. SubcategoriesAreLinked'
  BY <1>1, <1>2 DEF SubcategoriesAreLinked, T!SubcategoryExists, T!CategoryExists
<1>7. ListingsAreLinked'
  BY <1>1, <1>2, <1>3
  DEF ListingsAreLinked, T!ListingExists, T!CategoryExists, T!SubcategoryExists
<1>8. SavedAreLinked'
  BY <1>1, <1>2, <1>3 DEF SavedAreLinked, CatalogueTyped, T!ListingExists
<1>9. CatalogueTasksAreSound'
  <2>1. \A k \in Listings : RowKeeps(k)
    BY <1>3 DEF RowKeeps, T!ListingExists
  <2>2. task' \in [Handlers -> CatalogueTask] /\ \A g \in Handlers : task'[g] \in {task[g], T!Idle}
    BY <1>1, <1>2 DEF CatalogueTyped
  <2>3. /\ disturbed \subseteq disturbed'
        /\ \A z \in Subcategories : subcategory[z].state # "unused" =>
             subcategory'[z].of = subcategory[z].of /\ subcategory'[z].state # "unused"
    BY <1>2
  <2>4. QED
    BY <2>1, <2>2, <2>3, CatalogueTasksStay
<1>10. T!TreeIsKept' /\ T!VisitsAndTogglesCount'
  BY <1>1, <1>2, <1>3 DEF T!TreeIsKept, T!VisitsAndTogglesCount
<1>11. QED
  BY <1>5, <1>6, <1>7, <1>8, <1>9, <1>10 DEF CatalogueInv, RowsAreLinked

\* The wishlists that hold a listing lose it with the listing.
LEMMA DeleteListingPreservesInv ==
  ASSUME CatalogueInv, NEW l \in Listings, T!DeleteListing(l)
  PROVE  CatalogueInv'
<1>1. /\ CatalogueTyped /\ SubcategoriesAreLinked /\ ListingsAreLinked /\ SavedAreLinked
      /\ T!TreeIsKept /\ T!VisitsAndTogglesCount
  BY DEF CatalogueInv, RowsAreLinked
<1>2. /\ listing' = [listing EXCEPT ![l] = T!NoListing] /\ saved' = {w \in saved : w[2] # l}
      /\ toggled' = [toggled EXCEPT ![l] = {}] /\ visits' = [visits EXCEPT ![l] = 0]
      /\ UNCHANGED <<category, subcategory, lost, task, disturbed>>
  BY DEF T!DeleteListing
<1>3. /\ listing' \in [Listings -> CatalogueRow] /\ listing'[l] = T!NoListing
      /\ \A k \in Listings \ {l} : listing'[k] = listing[k]
  BY <1>1, <1>2, NoListingIs DEF CatalogueTyped
<1>4. CatalogueTyped'
  BY <1>1, <1>2, <1>3 DEF CatalogueTyped
<1>5. SubcategoriesAreLinked'
  BY <1>1, <1>2 DEF SubcategoriesAreLinked, T!SubcategoryExists, T!CategoryExists
<1>6. ListingsAreLinked'
  <2>1. ASSUME NEW k \in Listings
        PROVE  /\ T!ListingExists(k)' => T!CategoryExists(listing[k].category)'
               /\ listing'[k].subcategory # None => T!SubcategoryExists(listing[k].subcategory)'
               /\ ~T!ListingExists(k)' => listing'[k] = T!NoListing
    <3>1. CASE k = l
      BY <1>3, <3>1, NoListingIs DEF T!ListingExists
    <3>2. CASE k # l
      BY <1>1, <1>2, <1>3, <3>2
      DEF ListingsAreLinked, T!ListingExists, T!CategoryExists, T!SubcategoryExists
    <3>3. QED
      BY <3>1, <3>2
  <2>2. QED
    BY <2>1 DEF ListingsAreLinked
<1>7. SavedAreLinked'
  <2>1. ASSUME NEW w \in saved'
        PROVE  T!ListingExists(w[2])'
    <3>1. w \in saved /\ w[2] \in Listings \ {l}
      BY <1>1, <1>2, <2>1 DEF CatalogueTyped
    <3>2. QED
      BY <1>1, <1>3, <3>1 DEF SavedAreLinked, T!ListingExists
  <2>2. QED
    BY <2>1 DEF SavedAreLinked
<1>8. T!TreeIsKept'
  <2>1. ASSUME NEW k \in Listings \ disturbed'
        PROVE  /\ k \notin lost'
               /\ listing'[k].subcategory # None =>
                    subcategory'[listing'[k].subcategory].of = listing'[k].category
    <3>1. CASE k = l
      BY <1>1, <1>2, <1>3, <2>1, <3>1, NoListingIs DEF T!TreeIsKept
    <3>2. CASE k # l
      BY <1>1, <1>2, <1>3, <2>1, <3>2 DEF T!TreeIsKept
    <3>3. QED
      BY <3>1, <3>2
  <2>2. QED
    BY <2>1 DEF T!TreeIsKept
<1>9. CatalogueTasksAreSound'
  <2>1. ASSUME NEW k \in Listings
        PROVE  RowKeeps(k) \/ (~T!ListingExists(k)' /\ listing'[k].subcategory = None)
    <3>1. CASE k = l
      BY <1>3, <3>1, NoListingIs DEF T!ListingExists
    <3>2. CASE k # l
      BY <1>3, <3>2 DEF RowKeeps, T!ListingExists
    <3>3. QED
      BY <3>1, <3>2
  <2>2. task' \in [Handlers -> CatalogueTask] /\ \A g \in Handlers : task'[g] \in {task[g], T!Idle}
    BY <1>1, <1>2 DEF CatalogueTyped
  <2>3. /\ disturbed \subseteq disturbed'
        /\ \A z \in Subcategories : subcategory[z].state # "unused" =>
             subcategory'[z].of = subcategory[z].of /\ subcategory'[z].state # "unused"
    BY <1>2
  <2>4. QED
    BY <2>1, <2>2, <2>3, CatalogueTasksStay
<1>10. T!VisitsAndTogglesCount'
  <2>1. ASSUME NEW k \in Listings
        PROVE  listing'[k].views = visits'[k] /\ (k \notin disturbed' => listing'[k].flags = toggled'[k])
    <3>1. CASE k = l
      BY <1>1, <1>2, <1>3, <3>1, NoListingIs DEF CatalogueTyped
    <3>2. CASE k # l
      BY <1>1, <1>2, <1>3, <3>2 DEF T!VisitsAndTogglesCount, CatalogueTyped
    <3>3. QED
      BY <3>1, <3>2
  <2>2. QED
    BY <2>1 DEF T!VisitsAndTogglesCount
<1>11. QED
  BY <1>4, <1>5, <1>6, <1>7, <1>8, <1>9, <1>10 DEF CatalogueInv, RowsAreLinked

\* A wishlist loses a listing, a handler fails, or nothing happens.
LEMMA CatalogueOtherStepsPreserveInv ==
  ASSUME CatalogueInv,
         \/ \E u \in Users, l \in Listings : T!RemoveFromWishlist(u, l)
         \/ \E h \in Handlers : T!Crash(h)
         \/ UNCHANGED <<category, subcategory, listing, saved, toggled, visits, lost, task, disturbed>>
  PROVE  CatalogueInv'
<1>1. /\ CatalogueTyped /\ SubcategoriesAreLinked /\ ListingsAreLinked /\ SavedAreLinked
      /\ T!TreeIsKept /\ T!VisitsAndTogglesCount
  BY DEF CatalogueInv, RowsAreLinked
<1>2. /\ UNCHANGED <<category, subcategory, listing, toggled, visits, lost, disturbed>>
      /\ saved' \subseteq saved
      /\ task' \in [Handlers -> CatalogueTask] /\ \A g \in Handlers : task'[g] \in {task[g], T!Idle}
  <2>1. CASE \E u \in Users, l \in Listings : T!RemoveFromWishlist(u, l)
    BY <1>1, <2>1 DEF T!RemoveFromWishlist, CatalogueTyped
  <2>2. ASSUME NEW h \in Handlers, T!Crash(h)
        PROVE  /\ UNCHANGED <<category, subcategory, listing, toggled, visits, lost, disturbed>>
               /\ saved' \subseteq saved
               /\ task' \in [Handlers -> CatalogueTask]
               /\ \A g \in Handlers : task'[g] \in {task[g], T!Idle}
    BY <2>2, CatalogueFinish DEF T!Crash, T!rows
  <2>3. CASE UNCHANGED <<category, subcategory, listing, saved, toggled, visits, lost, task, disturbed>>
    BY <1>1, <2>3 DEF CatalogueTyped
  <2>4. QED
    BY <2>1, <2>2, <2>3
<1>3. CatalogueTyped'
  BY <1>1, <1>2 DEF CatalogueTyped
<1>4. SubcategoriesAreLinked' /\ ListingsAreLinked' /\ SavedAreLinked'
  BY <1>1, <1>2
  DEF SubcategoriesAreLinked, ListingsAreLinked, SavedAreLinked, T!SubcategoryExists,
      T!CategoryExists, T!ListingExists
<1>5. CatalogueTasksAreSound'
  <2>1. \A k \in Listings : RowKeeps(k)
    BY <1>2 DEF RowKeeps, T!ListingExists
  <2>2. /\ disturbed \subseteq disturbed'
        /\ \A z \in Subcategories : subcategory[z].state # "unused" =>
             subcategory'[z].of = subcategory[z].of /\ subcategory'[z].state # "unused"
    BY <1>2
  <2>3. QED
    BY <1>2, <2>1, <2>2, CatalogueTasksStay
<1>6. T!TreeIsKept' /\ T!VisitsAndTogglesCount'
  BY <1>1, <1>2 DEF T!TreeIsKept, T!VisitsAndTogglesCount
<1>7. QED
  BY <1>3, <1>4, <1>5, <1>6 DEF CatalogueInv, RowsAreLinked

LEMMA CatalogueNextPreservesInv == CatalogueInv /\ T!Next => CatalogueInv'
<1> SUFFICES ASSUME CatalogueInv, T!Next
             PROVE  CatalogueInv'
  OBVIOUS
<1>1. ASSUME NEW h \in Handlers, T!Commit(h)
      PROVE  CatalogueInv'
  <2>1. CASE T!CommitHardDelete(h)
    BY <2>1, CommitHardDeletePreservesInv
  <2>2. CASE T!CommitDeleteSubcategory(h)
    BY <2>2, CommitDeleteSubcategoryPreservesInv
  <2>3. CASE \E t \in Traits, m \in Figures \cup {None}, n \in Figures : T!CommitCreate(h, t, m, n)
    BY <2>3, CommitCreatePreservesInv
  <2>4. CASE T!CommitEdit(h)
    BY <2>4, CommitEditPreservesInv
  <2>5. CASE T!CommitToggle(h)
    BY <2>5, CommitTogglePreservesInv
  <2>6. CASE T!CommitVisit(h)
    BY <2>6, CommitVisitPreservesInv
  <2>7. CASE \E u \in Users : T!CommitAddToWishlist(h, u)
    BY <2>7, CommitAddToWishlistPreservesInv
  <2>8. QED
    BY <1>1, <2>1, <2>2, <2>3, <2>4, <2>5, <2>6, <2>7 DEF T!Commit
<1>2. CASE \E h \in Handlers : T!Begin(h) \/ T!Commit(h) \/ T!Crash(h)
  BY <1>1, <1>2, CatalogueBeginPreservesInv, CatalogueOtherStepsPreserveInv
<1>3. CASE \E c \in Categories : T!CreateCategory(c) \/ T!Deactivate(c) \/ T!Reactivate(c)
  BY <1>3, CategoryStepsPreserveInv
<1>4. CASE \E c \in Categories, s \in Subcategories : T!AddSubcategory(c, s)
  BY <1>4, AddSubcategoryPreservesInv
<1>5. CASE \E l \in Listings, to \in {m[2] : m \in T!Moves} : T!Move(l, to)
  BY <1>5, ListingStepsPreserveInv
<1>6. CASE \E l \in Listings : T!Withdraw(l) \/ T!DeleteListing(l)
  BY <1>6, ListingStepsPreserveInv, DeleteListingPreservesInv
<1>7. CASE \E u \in Users, l \in Listings : T!RemoveFromWishlist(u, l)
  BY <1>7, CatalogueOtherStepsPreserveInv
<1>8. CASE T!Redisplay
  BY <1>8, RedisplayPreservesInv
<1>9. QED
  BY <1>2, <1>3, <1>4, <1>5, <1>6, <1>7, <1>8 DEF T!Next

(* The lists *)

\* Min and Max of the figures of a finite set of listings bound them.
LEMMA FiguresAreBounded ==
  ASSUME NEW D, IsFiniteSet(D), D # {}, NEW f \in [D -> Int]
  PROVE  /\ T!Min({f[d] : d \in D}) \in Int /\ T!Max({f[d] : d \in D}) \in Int
         /\ \A l \in D : f[l] >= T!Min({f[d] : d \in D}) /\ f[l] <= T!Max({f[d] : d \in D})
<1> DEFINE F == {f[d] : d \in D}
<1>1. F \subseteq Int
  OBVIOUS
<1>2. PICK k \in D : \A l \in D : f[l] <= f[k]
  BY HighestExists
<1>3. PICK j \in D : \A l \in D : f[j] <= f[l]
  <2> DEFINE g == [d \in D |-> -f[d]]
  <2>1. g \in [D -> Int]
    OBVIOUS
  <2>2. PICK j \in D : \A l \in D : g[l] <= g[j]
    BY <2>1, HighestExists
  <2>3. \A l \in D : f[j] <= f[l]
    BY <2>2
  <2>4. QED
    BY <2>3
<1>4. \E x \in F : \A y \in F : x >= y
  BY <1>2
<1>5. \E x \in F : \A y \in F : x =< y
  BY <1>3
<1> HIDE DEF F
<1>6. T!Max(F) \in F /\ \A y \in F : T!Max(F) >= y
  BY <1>4 DEF T!Max
<1>7. T!Min(F) \in F /\ \A y \in F : T!Min(F) =< y
  BY <1>5 DEF T!Min
<1>8. ASSUME NEW l \in D
      PROVE  f[l] >= T!Min(F) /\ f[l] <= T!Max(F)
  <2>1. f[l] \in F
    BY DEF F
  <2>2. T!Max(F) \in Int /\ T!Min(F) \in Int /\ f[l] \in Int
    BY <1>1, <1>6, <1>7
  <2>3. QED
    BY <1>6, <1>7, <2>1, <2>2
<1>9. QED
  BY <1>1, <1>6, <1>7, <1>8 DEF F

\* The range of the figures of a finite set holds them all.
LEMMA SpanIs ==
  ASSUME NEW D, IsFiniteSet(D), NEW f \in [D -> Int], T!Span({f[d] : d \in D}) # None
  PROVE  \E low, high \in Int : /\ T!Span({f[d] : d \in D}) = [min |-> low, max |-> high]
                                /\ \A d \in D : low <= f[d] /\ f[d] <= high
<1> DEFINE F == {f[d] : d \in D}
<1>1. F # {} /\ D # {} /\ T!Span(F) = [min |-> T!Min(F), max |-> T!Max(F)]
  BY DEF T!Span
<1>2. /\ T!Min(F) \in Int /\ T!Max(F) \in Int
      /\ \A d \in D : f[d] >= T!Min(F) /\ f[d] <= T!Max(F)
  BY <1>1, FiguresAreBounded
<1>3. QED
  BY <1>1, <1>2

\* A range of figures finds the rows that have one, if it holds them all.
LEMMA RangeFinds ==
  ASSUME NEW low \in Int, NEW high \in Int, NEW x \in Int \cup {None},
         x # None => low <= x /\ x <= high
  PROVE  T!Within(x, [min |-> low, max |-> high]) <=> x # None
<1>1. [min |-> low, max |-> high] # T!Any
  <2>1. [min |-> low, max |-> high].min # T!Any.min
    BY CatalogueBounds DEF T!Any
  <2>2. QED
    BY <2>1
<1>2. QED
  BY <1>1, CatalogueBounds DEF T!Within

LEMMA BrowsedAre ==
  ASSUME NEW c, NEW t, NEW m, NEW p
  PROVE  T!Browse([category |-> c, subcategories |-> {}, trait |-> t, mileage |-> m, price |-> p])
           = {l \in Listings :
                /\ listing[l].status \in T!PUBLIC_BROWSE_STATUSES /\ ~listing[l].deleted
                /\ c \in {None, listing[l].category} /\ t \in {None, listing[l].trait}
                /\ T!Within(listing[l].mileage, m) /\ T!Within(listing[l].display, p)}
  BY DEF T!Browse, T!Where

LEMMA ListedOpensHolds ==
  ASSUME CatalogueTyped
  PROVE  T!ListedOpens
<1> DEFINE seen == T!Browse(T!NoFilter) \cup T!Featured \cup T!HotDeals \cup T!NewArrivals
                      \cup T!RecentlyReduced(Listings) \cup UNION {T!Wishlist(u) : u \in Users}
<1>1. ASSUME NEW l \in seen
      PROVE  T!Opens(l) /\ l \in T!AdminList(None) \cap T!AdminList(listing[l].status)
  <2>1. /\ l \in Listings /\ ~listing[l].deleted
        /\ listing[l].status \in {"PUBLISHED", "RESERVED", "SOLD"}
    <3>1. CASE l \in T!Browse(T!NoFilter) \cup T!Featured \cup T!HotDeals \cup T!NewArrivals
      BY <3>1
      DEF T!Browse, T!Featured, T!HotDeals, T!NewArrivals, T!Curated, T!Where,
          T!PUBLIC_BROWSE_STATUSES, T!PUBLIC_CURATED_STATUSES
    <3>2. CASE l \in T!RecentlyReduced(Listings)
      BY <3>2 DEF T!RecentlyReduced, T!Live
    <3>3. CASE \E u \in Users : l \in T!Wishlist(u)
      BY <3>3 DEF T!Wishlist, T!Live
    <3>4. QED
      BY <1>1, <3>1, <3>2, <3>3
  <2>2. T!Live(l)
    BY <2>1 DEF T!Live, T!ListingExists
  <2>3. QED
    BY <2>1, <2>2 DEF T!Opens, T!AdminList, T!PUBLIC_MARKETPLACE_STATUSES
<1>2. ASSUME NEW c \in Categories
      PROVE  LET f == [T!NoFilter EXCEPT !.category = c]
                 offered == T!FilterOptions(c)
             IN /\ \A t \in offered.traits : T!Browse([f EXCEPT !.trait = t]) # {}
                /\ offered.mileage # None =>
                     T!Browse([f EXCEPT !.mileage = offered.mileage])
                       = {l \in T!Browse(f) : listing[l].mileage # None}
                /\ offered.price # None =>
                     T!Browse([f EXCEPT !.price = offered.price])
                       = {l \in T!Browse(f) : listing[l].display # None}
  <2> DEFINE Filter(t, m, p) ==
               [category |-> c, subcategories |-> {}, trait |-> t, mileage |-> m, price |-> p]
  <2> DEFINE all == Filter(None, T!Any, T!Any)
  <2> DEFINE found == T!Browse(all)
  <2> DEFINE miles == T!Span({listing[l].mileage : l \in found} \ {None})
  <2> DEFINE money == T!Span({T!ShownPrice(l) : l \in found})
  <2>1. [T!NoFilter EXCEPT !.category = c] = all
    BY DEF T!NoFilter
  <2>2. T!FilterOptions(c) =
          [traits |-> {listing[l].trait : l \in found}, mileage |-> miles, price |-> money]
    BY <2>1 DEF T!FilterOptions
  <2>3. \A x : T!Within(x, T!Any)
    BY DEF T!Within
  <2>4. /\ found = {l \in Listings :
                    /\ listing[l].status \in T!PUBLIC_BROWSE_STATUSES /\ ~listing[l].deleted
                    /\ c \in {None, listing[l].category}}
        /\ IsFiniteSet(found)
    <3>1. found = {l \in Listings :
                    /\ listing[l].status \in T!PUBLIC_BROWSE_STATUSES /\ ~listing[l].deleted
                    /\ c \in {None, listing[l].category}}
      BY <2>3, BrowsedAre
    <3>2. found \subseteq Listings
      BY <3>1
    <3>3. QED
      BY <3>1, <3>2, FS_Subset, CatalogueBounds
  <2>5. \A l \in found : listing[l] \in CatalogueRow
    BY <2>4 DEF CatalogueTyped
  <2>6. ASSUME NEW t \in T!FilterOptions(c).traits
        PROVE  T!Browse([all EXCEPT !.trait = t]) # {}
    <3>1. [all EXCEPT !.trait = t] = Filter(t, T!Any, T!Any)
      OBVIOUS
    <3>2. PICK l \in found : t = listing[l].trait
      BY <2>2, <2>6
    <3>3. l \in T!Browse(Filter(t, T!Any, T!Any))
      BY <2>3, <2>4, <3>2, BrowsedAre
    <3>4. QED
      BY <3>1, <3>3
  <2>7. ASSUME miles # None
        PROVE  T!Browse([all EXCEPT !.mileage = miles]) = {l \in found : listing[l].mileage # None}
    <3> DEFINE D == {l \in found : listing[l].mileage # None}
    <3> DEFINE f == [l \in D |-> listing[l].mileage]
    <3>1. f \in [D -> Int]
      BY <2>5 DEF CatalogueRow
    <3>2. IsFiniteSet(D)
      BY <2>4, FS_Subset
    <3>3. {f[l] : l \in D} = {listing[l].mileage : l \in found} \ {None}
      OBVIOUS
    <3>4. PICK low, high \in Int :
            /\ miles = [min |-> low, max |-> high] /\ \A l \in D : low <= f[l] /\ f[l] <= high
      <4> HIDE DEF D, f, found
      <4>1. T!Span({f[l] : l \in D}) = miles
        BY <3>3
      <4>2. QED
        BY <2>7, <3>1, <3>2, <4>1, SpanIs
    <3>5. ASSUME NEW l \in found
          PROVE  T!Within(listing[l].mileage, miles) <=> listing[l].mileage # None
      <4>1. PICK x \in Int \cup {None} : x = listing[l].mileage
        BY <2>5 DEF CatalogueRow
      <4>2. x # None => low <= x /\ x <= high
        <5> HIDE DEF found, miles
        <5>1. QED
          BY <3>4, <4>1
      <4>3. T!Within(x, [min |-> low, max |-> high]) <=> x # None
        BY <4>2, RangeFinds
      <4>4. QED
        BY <3>4, <4>1, <4>3, Zenon
    <3>6. [all EXCEPT !.mileage = miles] = Filter(None, miles, T!Any)
      <4> HIDE DEF miles
      <4>1. QED
        OBVIOUS
    <3> HIDE DEF miles
    <3>7. T!Browse(Filter(None, miles, T!Any))
            = {l \in Listings :
                 /\ listing[l].status \in T!PUBLIC_BROWSE_STATUSES /\ ~listing[l].deleted
                 /\ c \in {None, listing[l].category} /\ T!Within(listing[l].mileage, miles)}
      BY <2>3, BrowsedAre
    <3> HIDE DEF found
    <3>8. QED
      BY <2>4, <3>5, <3>6, <3>7
  <2>8. ASSUME money # None
        PROVE  T!Browse([all EXCEPT !.price = money]) = {l \in found : listing[l].display # None}
    <3> DEFINE f == [l \in found |-> T!ShownPrice(l)]
    <3>1. f \in [found -> Int]
      BY <2>5 DEF T!ShownPrice, T!Or, CatalogueRow
    <3>2. PICK low, high \in Int :
            /\ money = [min |-> low, max |-> high] /\ \A l \in found : low <= f[l] /\ f[l] <= high
      <4>1. {f[l] : l \in found} = {T!ShownPrice(l) : l \in found}
        <5> HIDE DEF found
        <5>1. QED
          OBVIOUS
      <4>2. T!Span({f[l] : l \in found}) = money
        BY <4>1
      <4> HIDE DEF f, found, money
      <4>3. T!Span({f[l] : l \in found}) # None
        BY <2>8, <4>2
      <4>4. \E low, high \in Int :
              /\ T!Span({f[l] : l \in found}) = [min |-> low, max |-> high]
              /\ \A l \in found : low <= f[l] /\ f[l] <= high
        BY <2>4, <3>1, <4>3, SpanIs
      <4>5. QED
        BY <4>2, <4>4
    <3>3. ASSUME NEW l \in found
          PROVE  T!Within(listing[l].display, money) <=> listing[l].display # None
      <4>1. PICK x \in Int \cup {None} : x = listing[l].display
        BY <2>5 DEF CatalogueRow
      <4>2. x # None => low <= x /\ x <= high
        <5>1. x # None => f[l] = x
          BY <4>1 DEF T!ShownPrice, T!Or
        <5> HIDE DEF found, money, f
        <5>2. QED
          BY <3>2, <5>1
      <4>3. T!Within(x, [min |-> low, max |-> high]) <=> x # None
        BY <4>2, RangeFinds
      <4>4. QED
        BY <3>2, <4>1, <4>3, Zenon
    <3>4. [all EXCEPT !.price = money] = Filter(None, T!Any, money)
      <4> HIDE DEF money
      <4>1. QED
        OBVIOUS
    <3> HIDE DEF money
    <3>5. T!Browse(Filter(None, T!Any, money))
            = {l \in Listings :
                 /\ listing[l].status \in T!PUBLIC_BROWSE_STATUSES /\ ~listing[l].deleted
                 /\ c \in {None, listing[l].category} /\ T!Within(listing[l].display, money)}
      BY <2>3, BrowsedAre
    <3> HIDE DEF found
    <3>6. QED
      BY <2>4, <3>3, <3>4, <3>5
  <2>9. T!FilterOptions(c).mileage = miles /\ T!FilterOptions(c).price = money
    BY <2>2
  <2> HIDE DEF all, miles, money
  <2>10. QED
    BY <2>1, <2>6, <2>7, <2>8, <2>9, Zenon
<1>3. \A l \in seen : T!Opens(l) /\ l \in T!AdminList(None) \cap T!AdminList(listing[l].status)
  BY <1>1, Zenon
<1> HIDE DEF seen
<1>4. QED
  BY <1>2, <1>3, Zenon DEF T!ListedOpens, seen

LEMMA CatalogueInvHolds ==
  CatalogueInv => T!TypeOK /\ T!TreeIsKept /\ T!ListedOpens /\ T!VisitsAndTogglesCount
<1> SUFFICES ASSUME CatalogueInv
             PROVE  T!TypeOK /\ T!TreeIsKept /\ T!ListedOpens /\ T!VisitsAndTogglesCount
  OBVIOUS
<1>1. T!TypeOK
  BY DEF CatalogueInv, CatalogueTyped, TreeStates, RowsAreLinked, SubcategoriesAreLinked,
         ListingsAreLinked, SavedAreLinked, T!TypeOK
<1>2. QED
  BY <1>1, ListedOpensHolds DEF CatalogueInv

-----------------------------------------------------------------------------
(* The invariants of the parts hold in every state *)

\* Prices, rules and the rate are sound in every state: PricingService, listing-pricing.util.
THEOREM PricesAlwaysSound == Spec => []PricesIInv
<1>1. Init => PricesIInv
  BY PricesInitInv DEF Init, PricesIInv
<1>2. ASSUME PricesIInv, [Next]_vars
      PROVE  PricesIInv'
  <2>1. CASE work = "prices" /\ P!Next /\ work' = work
    BY <1>2, <2>1, PricesNextPreservesInv DEF PricesIInv
  <2>2. CASE UNCHANGED vars
    <3>1. work' = work /\ UNCHANGED <<type, country, rule, pricing, rate, priced, task, disturbed>>
      BY <2>2 DEF vars, ofPrices
    <3>2. QED
      BY <1>2, <3>1, PricesStutter DEF PricesIInv
  <2>3. CASE work # "prices" /\ work' = work
    BY <2>3 DEF PricesIInv
  <2>4. QED
    BY <1>2, <2>1, <2>2, <2>3 DEF Next
<1>3. QED
  BY <1>1, <1>2, PTL DEF Spec

\* Promotions are sound in every state: PromotionsService and its nightly job.
THEOREM PromotionsAlwaysSound == Spec => []PromotionsIInv
<1>1. Init => PromotionsIInv
  BY PromotionsInitInv DEF Init, PromotionsIInv
<1>2. ASSUME PromotionsIInv, [Next]_vars
      PROVE  PromotionsIInv'
  <2>1. CASE work = "promotions" /\ C!Next /\ work' = work
    BY <1>2, <2>1, PromotionsNextPreservesInv DEF PromotionsIInv
  <2>2. CASE UNCHANGED vars
    <3>1. work' = work /\ UNCHANGED <<promotion, attached, rate, now, swept, late, task>>
      BY <2>2 DEF vars, ofPromotions
    <3>2. QED
      BY <1>2, <3>1, PromotionOtherStepsPreserveInv DEF PromotionsIInv
  <2>3. CASE work # "promotions" /\ work' = work
    BY <2>3 DEF PromotionsIInv
  <2>4. QED
    BY <1>2, <2>1, <2>2, <2>3 DEF Next
<1>3. QED
  BY <1>1, <1>2, PTL DEF Spec

\* Promoted listings keep the cents of their francs at the rate of their pricing.
THEOREM PromotedPricesAlwaysSound == Spec => []PromotedPricesIInv
<1>1. Init => PromotedPricesIInv
  BY PromotedPricesInit DEF Init, PromotedPricesIInv
<1>2. ASSUME PromotedPricesIInv, [Next]_vars
      PROVE  PromotedPricesIInv'
  <2>1. CASE work = "promotions" /\ C!Next /\ work' = work
    BY <1>2, <2>1, PromotedPricesStep DEF PromotedPricesIInv
  <2>2. CASE UNCHANGED vars
    BY <1>2, <2>2 DEF vars, ofPromotions, PromotedPricesIInv, PromotedPrices
  <2>3. CASE work # "promotions" /\ work' = work
    BY <2>3 DEF PromotedPricesIInv
  <2>4. QED
    BY <1>2, <2>1, <2>2, <2>3 DEF Next
<1>3. QED
  BY <1>1, <1>2, PTL DEF Spec

\* Categories, subcategories, listings and wishlists are sound in every state:
\* CategoriesService, ListingsService, SearchService.
THEOREM CatalogueAlwaysSound == Spec => []CatalogueIInv
<1>1. Init => CatalogueIInv
  BY CatalogueInitInv DEF Init, CatalogueIInv
<1>2. ASSUME CatalogueIInv, [Next]_vars
      PROVE  CatalogueIInv'
  <2>1. CASE work = "catalogue" /\ T!Next /\ work' = work
    BY <1>2, <2>1, CatalogueNextPreservesInv DEF CatalogueIInv
  <2>2. CASE UNCHANGED vars
    <3>1. /\ work' = work
          /\ UNCHANGED <<category, subcategory, listing, saved, toggled, visits, lost, task, disturbed>>
      BY <2>2 DEF vars, ofCatalogue
    <3>2. QED
      BY <1>2, <3>1, CatalogueOtherStepsPreserveInv DEF CatalogueIInv
  <2>3. CASE work # "catalogue" /\ work' = work
    BY <2>3 DEF CatalogueIInv
  <2>4. QED
    BY <1>2, <2>1, <2>2, <2>3 DEF Next
<1>3. QED
  BY <1>1, <1>2, PTL DEF Spec

-----------------------------------------------------------------------------
(* The properties of the run *)

\* A listing that is linked to the rule its price was computed with, and is in the channel
\* the rule is for, has the price the rule gives now, wherever it moved before, unless
\* requests about it overlapped or died, or the update of a rule is in progress.
THEOREM PricesAlwaysFollowTheirRule == Spec => []PricesFollowTheirRule
<1>1. PricesIInv => PricesFollowTheirRule
  BY PricesInvHolds DEF PricesIInv, PricesFollowTheirRule
<1>2. QED
  BY <1>1, PricesAlwaysSound, PTL

\* Prices left in dollars are shown at the frozen rate, prices in francs as computed.
THEOREM DisplayAlwaysFollowsRate == Spec => []DisplayFollowsRate
<1>1. PricesIInv => DisplayFollowsRate
  BY PricesInvHolds DEF PricesIInv, DisplayFollowsRate
<1>2. QED
  BY <1>1, PricesAlwaysSound, PTL

\* A promotion that had ended when the nightly job last ran is not active.
THEOREM EndedIsAlwaysInactive == Spec => []EndedIsInactive
<1>1. PromotionsIInv => EndedIsInactive
  BY PromotionsInvHolds DEF PromotionsIInv, EndedIsInactive
<1>2. QED
  BY <1>1, PromotionsAlwaysSound, PTL

\* Whatever the order of the rows, the promotional price of a listing priced at the rate of
\* today is the lowest that its promotions in force give: above its price by no more than
\* half a cent and half a franc are worth, not above it once half a cent is saved, and below
\* it once half a cent and half a franc are.
THEOREM BestIsAlwaysShown == Spec => []BestIsShown
<1>1. PromotionsIInv /\ PromotedPricesIInv => BestIsShown
  BY BestIsShownHolds DEF PromotionsIInv, PromotionsInv, PromotedPricesIInv, BestIsShown
<1>2. QED
  BY <1>1, PromotionsAlwaysSound, PromotedPricesAlwaysSound, PTL

\* Changes of categories and subcategories leave every listing in a place that fits, unless
\* its saving overlapped another request about the same rows.  What a list of the
\* marketplace shows can be opened, each attribute its filters offer finds a listing, and the
\* ranges they offer find the listings that have the number the search looks at, no others.
THEOREM TreeIsAlwaysKept == Spec => []TreeIsKept
<1>1. CatalogueIInv => TreeIsKept
  BY CatalogueInvHolds DEF CatalogueIInv, TreeIsKept
<1>2. QED
  BY <1>1, CatalogueAlwaysSound, PTL

\* No visit of a listing is lost, and no toggle of a flag unless two overlapped.
THEOREM VisitsAndTogglesAlwaysCount == Spec => []VisitsAndTogglesCount
<1>1. CatalogueIInv => VisitsAndTogglesCount
  BY CatalogueInvHolds DEF CatalogueIInv, VisitsAndTogglesCount
<1>2. QED
  BY <1>1, CatalogueAlwaysSound, PTL

\* The rows and tasks of every part are well formed.
THEOREM MarketTypeCorrect == Spec => []TypeOK
<1>1. SessionsIInv /\ GuestsIInv /\ PricesIInv /\ PromotionsIInv /\ AccessIInv /\ CatalogueIInv
        => TypeOK
  BY SessionsInvHolds, GuestsInvHolds, PricesInvHolds, PromotionsInvHolds, AccessInvHolds,
     CatalogueInvHolds
  DEF SessionsIInv, GuestsIInv, PricesIInv, PromotionsIInv, AccessIInv, CatalogueIInv, TypeOK
<1>2. QED
  BY <1>1, SessionsAlwaysSound, GuestsAlwaysSound, PricesAlwaysSound, PromotionsAlwaysSound,
     AccessAlwaysSound, CatalogueAlwaysSound, PTL
=============================================================================
