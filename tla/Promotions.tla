----------------------------- MODULE Promotions -----------------------------
(***************************************************************************)
(* PromotionsService and the price of a promoted listing: campaigns with a *)
(* period, the listings attached to them, the nightly job that switches    *)
(* ended campaigns off, and the best discount shown beside the price.      *)
(*                                                                         *)
(* A listing is priced in francs; its price in dollars is computed at the  *)
(* rate of that moment (module Prices), in whole cents.  A promotion takes *)
(* any percentage or amount off the dollars, nothing is rounded then, and  *)
(* the mapper turns the result into whole francs at the rate of the moment *)
(* it is shown.  So that savings are exact, percentages are counted in     *)
(* parts of which Fine make one, amounts in parts of which 100 * Fine make *)
(* a cent: usd cents at d parts of a percentage save usd * d of these.     *)
(*                                                                         *)
(* late holds the promotions whose dates were set into the past, or whose  *)
(* activation overlapped another change of them.                           *)
(***************************************************************************)
EXTENDS Integers, SequencesExt

CONSTANTS
  Promotions, Listings,
  Discounts,    \* discounts of promotions (bound): [percent, amount], either may be None
  Fine,         \* how finely discounts are given (bound)
  Prices,       \* prices of listings, in francs (bound)
  Rates,        \* frozen rates, francs per dollar (bound)
  MaxTime,      \* the last day (bound)
  MaxRequests,  \* changes of promotions and prices in one behaviour (bound)
  Handlers,     \* requests that may be in progress at once
  None          \* SQL null

Days == 0 .. MaxTime

VARIABLES
  promotion,  \* Promotion rows
  attached,   \* ListingPromotion rows: <<listing, promotion>>
  price,      \* ListingPricing rows: francs and cents
  rate,       \* the frozen rate
  now,        \* today
  swept,      \* the day the nightly job last ran
  pricedAt,   \* history: the rate each listing was priced at
  late, task, started

vars == <<promotion, attached, price, rate, now, swept, pricedAt, late, task, started>>

NoPromotion == [exists |-> FALSE, active |-> FALSE, start |-> 0, end |-> 0,
                discount |-> [percent |-> None, amount |-> None]]
NoChange == [c \in {} |-> None]
Idle == [pc |-> "idle", on |-> None, start |-> None, end |-> None, given |-> NoChange,
         alone |-> TRUE]

\* Math.round of x / n.
Round(x, n) == (2 * x + n) \div (2 * n)
RwfToUsd(francs) == Round(francs * 100, rate)
Cent == 100 * Fine
UsdtToRwf(parts) == Round(parts * rate, 100 * Cent)

Init ==
  /\ promotion = [p \in Promotions |-> NoPromotion]
  /\ attached = {}
  /\ rate = CHOOSE first \in Rates : TRUE
  /\ \E francs \in Prices :
       price = [l \in Listings |-> [rwf |-> francs, usd |-> RwfToUsd(francs)]]
  /\ pricedAt = [l \in Listings |-> rate]
  /\ now = 0 /\ swept = 0
  /\ late = {}
  /\ task = [h \in Handlers |-> Idle]
  /\ started = 0

-----------------------------------------------------------------------------
(* The price shown *)

HasDiscountValue(p) ==
  promotion[p].discount.percent # None \/ promotion[p].discount.amount # None

\* What promotion p takes off a price of usd cents, in parts of a cent: its percentage, else
\* its amount.
Saving(usd, p) ==
  LET d == promotion[p].discount IN
  IF d.percent # None THEN usd * d.percent
  ELSE IF d.amount # None THEN IF d.amount < usd * Cent THEN d.amount ELSE usd * Cent
  ELSE 0

EffectivePrice(usd, p) ==
  IF Saving(usd, p) > usd * Cent THEN 0 ELSE usd * Cent - Saving(usd, p)

\* pickBestDiscountPromotion: the first of those that save most, if it saves anything.
PickBestLast(usd, ps) ==   \* faulty: the last that saves anything
  FoldLeft(LAMBDA best, p : IF Saving(usd, p) > 0 THEN p ELSE best, None, ps)

PickBest(usd, ps) ==
  LET best[k \in 0 .. Len(ps)] ==   \* after the first k rows
        IF k = 0 THEN None
        ELSE IF Saving(usd, ps[k]) > (IF best[k - 1] = None THEN 0 ELSE Saving(usd, best[k - 1]))
          THEN ps[k] ELSE best[k - 1]
  IN best[Len(ps)]

\* activePromotionWhere and discountPromotionWhere, whatever the type of the promotion.
InForce(p) ==
  promotion[p].active /\ promotion[p].start <= now /\ now <= promotion[p].end

DiscountPromotions(l) ==
  {p \in Promotions : <<l, p>> \in attached /\ InForce(p) /\ HasDiscountValue(p)}

\* The promotional prices of l, in francs: the query returns the rows in any order.
PromotionalPrices(l) ==
  LET usd == price[l].usd
      best == {PickBest(usd, ps) : ps \in SetToSeqs(DiscountPromotions(l))} \ {None}
  IN {UsdtToRwf(EffectivePrice(usd, p)) : p \in best}

-----------------------------------------------------------------------------
(* Requests of administrators *)

At(h, pc) == task[h].pc = pc
Finish(h) == task' = [task EXCEPT ![h] = Idle]
Spend == started < MaxRequests /\ started' = started + 1

\* Dates that are over when they are set are not for the nightly job to have seen.
SetLate(p, end) == late' = IF end < now THEN late \cup {p} ELSE late

Create(p, start, end, discount) ==
  /\ ~promotion[p].exists
  /\ start < end
  /\ Spend
  /\ promotion' = [promotion EXCEPT ![p] =
       [exists |-> TRUE, active |-> TRUE, start |-> start, end |-> end, discount |-> discount]]
  /\ SetLate(p, end)
  /\ UNCHANGED <<attached, price, rate, now, swept, pricedAt, task>>

\* Handler h takes up request t about a promotion; it and those it meets are not alone.
Start(h, t) ==
  /\ At(h, "idle") /\ promotion[t.on].exists
  /\ Spend
  /\ task' = [g \in Handlers |->
       CASE g = h -> [t EXCEPT !.alone = \A k \in Handlers : task[k].on # t.on]
         [] g # h /\ task[g].on = t.on -> [task[g] EXCEPT !.alone = FALSE]
         [] OTHER -> task[g]]
  /\ UNCHANGED <<promotion, attached, price, rate, now, swept, pricedAt, late>>

\* A date that is not given is taken from the row for the check, and left alone; given holds
\* the columns of the discount that are.
BeginUpdate(h, p, start, end, given) ==
  /\ {start, end} # {None} =>
       (IF start = None THEN promotion[p].start ELSE start)
         < (IF end = None THEN promotion[p].end ELSE end)
  /\ Start(h, [Idle EXCEPT !.pc = "update", !.on = p, !.start = start, !.end = end,
                           !.given = given])

CommitUpdate(h) ==
  LET t == task[h]
      row == promotion[t.on]
      end == IF t.end = None THEN row.end ELSE t.end
  IN
  /\ At(h, "update")
  /\ promotion' = [promotion EXCEPT ![t.on] =
       [exists |-> row.exists, active |-> row.active,
        start |-> IF t.start = None THEN row.start ELSE t.start, end |-> end,
        discount |-> [c \in DOMAIN row.discount |->
                        IF c \in DOMAIN t.given THEN t.given[c] ELSE row.discount[c]]]]
  /\ late' = IF ~t.alone \/ end < now THEN late \cup {t.on} ELSE late
  /\ Finish(h)
  /\ UNCHANGED <<attached, price, rate, now, swept, pricedAt, started>>

BeginActivateEnded(h, p) ==   \* faulty: brings an ended promotion back
  /\ ~promotion[p].active
  /\ Start(h, [Idle EXCEPT !.pc = "activate", !.on = p])

BeginActivate(h, p) ==
  /\ ~promotion[p].active /\ promotion[p].end >= now
  /\ Start(h, [Idle EXCEPT !.pc = "activate", !.on = p])

CommitActivate(h) ==
  LET p == task[h].on IN
  /\ At(h, "activate")
  /\ promotion' = [promotion EXCEPT ![p].active = TRUE]
  /\ late' = IF task[h].alone THEN late ELSE late \cup {p}
  /\ Finish(h)
  /\ UNCHANGED <<attached, price, rate, now, swept, pricedAt, started>>

\* Promotions are never deleted: what these three requests read does not matter.
Deactivate(p) ==
  /\ promotion[p].exists /\ promotion[p].active
  /\ Spend
  /\ promotion' = [promotion EXCEPT ![p].active = FALSE]
  /\ UNCHANGED <<attached, price, rate, now, swept, pricedAt, late, task>>

AttachListings(p, ls) ==
  /\ promotion[p].exists /\ ls # {}
  /\ Spend
  /\ attached' = attached \cup (ls \X {p})
  /\ UNCHANGED <<promotion, price, rate, now, swept, pricedAt, late, task>>

DetachListing(p, l) ==
  /\ <<l, p>> \in attached
  /\ Spend
  /\ attached' = attached \ {<<l, p>>}
  /\ UNCHANGED <<promotion, price, rate, now, swept, pricedAt, late, task>>

-----------------------------------------------------------------------------
(* Prices, and time *)

\* A pricing of listing l, and a change of the frozen rate (module Prices).
Reprice(l, francs) ==
  /\ Spend
  /\ price' = [price EXCEPT ![l] = [rwf |-> francs, usd |-> RwfToUsd(francs)]]
  /\ pricedAt' = [pricedAt EXCEPT ![l] = rate]
  /\ UNCHANGED <<promotion, attached, rate, now, swept, late, task>>

SetFrozenRate(n) ==
  /\ n # rate
  /\ Spend
  /\ rate' = n
  /\ UNCHANGED <<promotion, attached, price, now, swept, pricedAt, late, task>>

\* deactivateExpired, in one statement.  Whatever request is in progress meets it.
NightlyJob ==
  /\ promotion' = [p \in Promotions |->
       IF promotion[p].active /\ promotion[p].end < now
         THEN [promotion[p] EXCEPT !.active = FALSE] ELSE promotion[p]]
  /\ late' = {p \in late : promotion[p].end >= now}
  /\ swept' = now
  /\ task' = [h \in Handlers |-> IF At(h, "idle") THEN Idle ELSE [task[h] EXCEPT !.alone = FALSE]]
  /\ UNCHANGED <<attached, price, rate, now, pricedAt, started>>

\* The job may miss a night.
NextDay ==
  /\ now < MaxTime
  /\ now' = now + 1
  /\ UNCHANGED <<promotion, attached, price, rate, swept, pricedAt, late, task, started>>

Crash(h) ==
  /\ ~At(h, "idle")
  /\ Finish(h)
  /\ UNCHANGED <<promotion, attached, price, rate, now, swept, pricedAt, late, started>>

\* Some columns of some discount.  An update changes dates or the discount (bound).
Changes ==
  {[c \in names |-> d[c]] : names \in SUBSET {"percent", "amount"} \ {{}}, d \in Discounts}

Request(p) ==
  \/ \E start, end \in Days, d \in Discounts : Create(p, start, end, d)
  \/ Deactivate(p)
  \/ \E ls \in SUBSET Listings : AttachListings(p, ls)
  \/ \E l \in Listings : DetachListing(p, l)

Begin(h, p) ==
  \/ \E start, end \in Days \cup {None} :
       {start, end} # {None} /\ BeginUpdate(h, p, start, end, NoChange)
  \/ \E given \in Changes : BeginUpdate(h, p, None, None, given)
  \/ BeginActivate(h, p)

Next ==
  \/ started < MaxRequests /\ \E p \in Promotions :
       Request(p) \/ \E h \in Handlers : At(h, "idle") /\ Begin(h, p)
  \/ \E h \in Handlers : CommitUpdate(h) \/ CommitActivate(h) \/ Crash(h)
  \/ \E l \in Listings, francs \in Prices : Reprice(l, francs)
  \/ \E n \in Rates : SetFrozenRate(n)
  \/ NightlyJob \/ NextDay

Spec == Init /\ [][Next]_vars

-----------------------------------------------------------------------------
(* Properties *)

\* Only promotions that exist are active or have listings, and requests are about them.
TypeOK ==
  /\ \A p \in Promotions :
       /\ promotion[p].active => promotion[p].exists
       /\ promotion[p].start \in Days /\ promotion[p].end \in Days
  /\ \A link \in attached : promotion[link[2]].exists
  /\ \A h \in Handlers : ~At(h, "idle") => promotion[task[h].on].exists
  /\ swept <= now /\ rate \in Rates

\* A promotion that had ended when the nightly job last ran is not active, however it was
\* switched on, off and moved since, unless its dates were set into the past or its
\* activation overlapped another change of it.
EndedIsInactive ==
  \A p \in Promotions :
    promotion[p].active /\ promotion[p].end < swept => p \in late

\* A listing that was priced at the rate of today shows a promotional price as soon as a
\* promotion in force saves anything.  Whatever the order of the rows, no promotion in force
\* gives a lower one, and it is not below zero.  The price in dollars was rounded to cents
\* and the promotional one is rounded to francs, so that a tiny saving may be shown as a
\* higher price: higher by at most what half a cent and half a franc are worth, not higher
\* once half a cent is saved, and lower once half a cent and half a franc are.
BestIsShown ==
  \A l \in Listings : pricedAt[l] = rate =>
    /\ \A p \in DiscountPromotions(l) :
         Saving(price[l].usd, p) > 0 => PromotionalPrices(l) # {}
    /\ \A shown \in PromotionalPrices(l) :
         /\ 0 <= shown /\ 200 * (shown - price[l].rwf) <= rate + 100
         /\ \A p \in DiscountPromotions(l) :
              LET saving == Saving(price[l].usd, p) IN
              /\ shown <= UsdtToRwf(EffectivePrice(price[l].usd, p))
              /\ 2 * saving >= Cent => shown <= price[l].rwf
              /\ 2 * saving * rate > Cent * (rate + 100) => shown < price[l].rwf
=============================================================================
