# A verification of the UZA Mobility backend

TLA+ models of the NestJS backend in `src/`, checked with TLC on small instances
and, for every safety property and every refinement, proved with TLAPS for every instance.

## 1. The system

A marketplace for electric vehicles. Every component is a service over shared
PostgreSQL tables (Prisma); requests, administrators and two nightly cron jobs run
their handlers concurrently in one or more Node processes. There are no queues and
no locks of the program's own: components interact through the tables and by
awaiting each other's methods.

The pattern that makes the system hard is the same everywhere. A handler

 1. reads a row and checks its status,
 2. awaits other queries or services (numbers, fees, counts, mails),
 3. writes with `update where id`, which does not recheck what step 1 read,
 4. does follow-up work outside the transaction (an order, a metric, a mail).

Between any two of these, other handlers run, and the process may die.

| component | state | operations | hard behaviour | correct when |
|---|---|---|---|---|
| invoices | `Invoice` | request, fleet invoice, cancel (buyer, administrator), nightly expiry | stale expiry and cancellation, number races | only unpaid invoices end, each overdue one does |
| payments | `Payment` | submit, confirm, reject, mark partial | rival decisions, order created after the commit | decisions are final, a confirmed payment gets its order |
| orders | `Order`, `OrderTrackingEvent`, `Shipment` | create from invoice, advance, cancel, ship, assign | duplicate creation, stale advance, delivery counted after the commit | backed by a payment, one per invoice, walks its stages |
| bookings | `VehicleBooking` | request, submit, cancel, confirm, reject, change fee | as payments | confirmed ones were paid, one active per buyer and vehicle |
| listings | `Listing`, photos, pricing | create, edit, submit, review, publish, inventory stages | edits racing reviews, transition table bypassed | the public sees only reviewed vehicles |
| charging stations | operator, station, port, tariff, photos | apply, approve, register, submit, review, suspend; ports, tariffs, photos | stale port counts, an unreachable status | counts agree, stations follow their table |
| sellers, parts | `Seller`, `Part` | register, verify, suspend, reactivate; offer, change, review | approval or verification of what was read earlier | buyers see parts as they were approved, a suspended seller does not trade |
| requests | inquiries, fleet, financing, energy requests, banks, charging products | submit, administrator workflow, assignment, outcome; offer a product, add photos | decisions on a status read earlier | follow their tables, outcomes are final |
| accounts | `User`, roles, `RefreshToken`, `AuthToken` | register, sign in (password, portal, Google), refresh, sign out, reset, verify, roles, (de)activate | sessions replaced in two statements, links used twice | one session, ended when it must, links work once |
| guests | `Inquiry`, `FleetRequest` without a user | submit, link at sign-in, invoice once there is a profile | a profile created during a sign-in, numbers taken | every wish to buy becomes an invoice |
| rights, notifications | access tokens, sockets, `Notification` | the guards of a request, codes, store, push, mail, read | tokens outlive changes, an account changes between its check and the answer, pushes and lists cross | rights are those of the request's time, nothing pushed or listed is missing |
| pricing, exchange rate | `PricingRule`, `ListingPricing`, settings | calculate, choose and update a rule, move a listing to another channel, freeze a rate | updates from stale rows, links to rules of other channels, rounding, order of nulls | a price is its rule's, the display its rate's |
| promotions | `Promotion`, `ListingPromotion` | create, change, attach, (de)activate, nightly job, best discount | an activation racing the night, savings smaller than the rounding | ended ones are off, the best is shown |
| catalogue | `Category`, `Subcategory`, `SavedListing`, flags, views | keep the tree, browse, filter, save, open, toggle | pairs checked on stale rows, columns that are null | listings fit the tree, filters find what they offer as far as the columns go, no visit is lost |
| audit, uploads, PDF, reports | — | output or reads only | — | not modelled |

`PROJECT.json` lists each component with its sources, and the hazards with their lines.

## 2. How the models are made

A handler in progress is a **task**: a record with a program counter and what the
handler has read so far. Each action is one step between two `await`s on the
database, so all interleavings of the steps of `Handlers` tasks are explored. The
writes of one `$transaction` are one step. Two exceptions are refined:

* a release of a listing (`executeInvoiceCancellation`, and the loop of
  `expireDueInvoices`) reads the listing inside the transaction at READ COMMITTED and
  writes it later: `OpenRelease` and `CommitRelease`, between which the invoice row is
  locked (`InvoiceFree`);
* two reads of a handler are one step where the second can only refuse more than an
  earlier one would: the payment count of `cancelInvoiceByBuyer` (payments are never
  deleted), and the two numbers of an invoice, which can only be inserted when both
  were read between the same two inserts (`Bookings` keeps the two reads apart and
  checks `NumbersAgree`).

Row ids are the sequence numbers of the human-readable numbers, so that the race for
them is visible. Money is modelled in `Prices` and `Promotions` only; names, the text of
mails, audit entries and pagination are left out; a failing mail is one of the ways a
handler dies (`Crash`).

## 3. Modules

| module | models |
|---|---|
| `Commerce` | invoices, payments, `createFromInvoice` and the listing status they touch |
| `Purchase` | the abstract life of a purchase: none, issued, paid, ordered, one way only |
| `Bookings`, `BookingsProofs` | `BookingsService`; theorems about it |
| `Reservation` | the abstract life of a booking: asked for, claimed, refused, held or dropped, with one party and one fee |
| `Fulfilment`, `FulfilmentProofs` | `OrdersService` after payment and `recordDelivery`; theorems about them |
| `Sales` | composes `Commerce` and `Fulfilment`, which write one `Order` table |
| `Sale` | the abstract life of a sale: a purchase whose order is delivered, and then counted |
| `CommerceProofs` | theorems about `Commerce` and `Sales` |
| `Listings` | `ListingsService`: drafts, review, photos, inventory stages |
| `ListingsProofs`, `ListingRaceProofs` | theorems about `Listings` |
| `Charging` | `ChargingStationsService` |
| `Parts` | `SellersService`, the registration of sellers, `PartsService` |
| `Requests` | `FleetService`, `FinancingService`, `EnergyService`, the statuses of inquiries |
| `Partners`, `PartnersProofs` | composes the three; theorems about them |
| `Sessions` | `AuthService` and what `UsersService` does to accounts |
| `Guests` | what becomes of a visitor's inquiries (`linkGuestActivityToUser`, `fulfillPendingBuyInquiries`, `createBuyerProfile`) |
| `Routes` | the seeded permissions of the roles, and what the routes of every controller ask for |
| `Access` | the guards of a request, the codes of `GoogleOAuthService`, `NotificationsService` and its gateway |
| `Prices` | `PricingService`, `ExchangeRateService`, the pricing of a listing |
| `Promotions` | `PromotionsService`, its nightly job, the promotional price |
| `Catalogue` | `CategoriesService`, `SearchService`, the public lists, wishlists, views and flags |
| `Market` | composes these six |
| `AccountProofs`, `OfferProofs` | theorems about `Sessions`, `Guests` and `Access`; about `Prices`, `Promotions` and `Catalogue` |
| `MC_*` | model values' symmetry for TLC |

Definitions marked `faulty` are the variants a plausible slip in the code would
give; each property is broken by one of them, so that none holds for the model's
shape alone.

**Commerce.** `listing`, `invoice`, `payment`, `order` are the tables (an order is its
number, in the row of its invoice); `verified` records the payments some confirmation
committed, whatever overwrote them later. `Begin…` actions are the reads and guards of
a handler, `Commit…` its transaction; after `CommitConfirmPayment` the task goes on to
`PrepareOrder`, `TakeOrderNumber` and `CreateOrder`, which the code awaits after its transaction.

**Bookings.** One row per booking with the flags the guards read: `paid` (a payment was
ever submitted), `proofs`, `reason` (of an earlier rejection). Two history variables,
`contended` and `rushed`, tell the bookings and vehicles on which requests overlapped;
the properties of an uncontended booking hold whatever else the server is doing, which
is more than a run with one handler would show. `BookingPlace` reads the abstract
reservation off a row: the status gives the stage, and the party, the fee and whether there
are proofs are its columns. A booking two requests were on at once is `disputed`, of which
`Reservation` promises nothing.

**Fulfilment.** `order`, the timeline `track`, the number of recorded metrics, and the
shipments. `contended` as above; `uncounted` are the orders whose handler died between
the delivery and its metric.

**Sales.** An order is two things in the parts: `Commerce` knows that the row of an invoice
exists and its number, `Fulfilment` its stage (`progress`), timeline and shipment. In `Sales`
both are one table. `createFromInvoice` inserts the row with its number, its first stage and
first event in one transaction, so the step of `Commerce` that writes a number is the step
`CreateOrder` of `Fulfilment` for that order (`CommerceStep`); every other step of either
part leaves the other's variables alone (`FulfilmentStep`), since nothing in `OrdersService`
after the insert reads or writes an invoice or a payment. The requests about invoices and
payments are one set, those about orders another (`Couriers`). `MC_Sales` takes the view of
`Fulfilment`: its properties and fairness stand in the run as they do in that module.
`SaleStage` reads a sale off both: the stage of its purchase, then delivered, then counted.

**Listings.** A row holds the status, who made the listing (`maker`), the sales channel
(`sellerType`), the seller it belongs to (`profile`: a platform profile or `market`), the
inventory stage, `withdrawn` (soft deletion), its photos, the primary ones, and `priced`,
the price inputs its pricing row has. `Begin…` and `Commit…` are as in `Commerce`.
`updateCreatedByAdmin` writes several tables in one interactive transaction, so its
task stays `open` between its statements and its commit: the rows written meanwhile are
locked (`RowFree`, `PhotosFree`), every other row is free, and what the transaction read
may become stale. A stage move reprices the listing after its own commit (`Reprice`).

What a handler relies on is either the status (and with it the photos) or the channel
(and with it the stage): `Concerns`. `contended` records on which of the two the tasks
of a listing overlapped, and `Quiet(c)` are the listings where none did, so a seller's
upload racing a stage move weakens nothing. `revised` are the listings changed since their
dealer last submitted them, `died` those whose handler died before it repriced them. A stage
move that writes the channel, seller, place and prices of a listing revises it as an edit
does: what `SubmissionHolds` says of a dealer's listing ends when the platform takes it over
(`profile` is then the platform's).

**Partners and Market.** The parts they compose share no row that both write: where one
needs another it holds what it needs of it (`Parts` the role of a seller's user, `Guests`
the number of the latest invoice, `Promotions` the prices and the rate, `Catalogue` the
status of a listing), and that changes there in any way the other part could change it.
So every behaviour of one part is a behaviour of the whole beside which the others may do
anything, and a product of their states would only repeat it. In a behaviour of `Partners`
or `Market` one part is at `work`, chosen at the start; `task`, `started`, `disturbed` and
`rate` are shared names, and the variables of the parts that rest are `None`.

In each of them a task carries `alone`: whether another request about the same row and
matter has been in progress beside it; `disturbed` keeps the rows where two were, or where
one died between two of its writes. Properties are stated for undisturbed rows where the
code guarantees no more; they hold beside any number of requests about other rows.

**Charging.** Rows of operators and stations with the counts and the number of photos and
primary photos; `port` and `tariff` are per station. The four matters of a station
(`status`, `ports`, `tariff`, `photos`) are disturbed separately, since their handlers write
different columns. A port change commits, then counts twice and writes the counts:
`CountPorts`, `CountFreePorts`, `CommitPortCounts`. The owner may also state one or both counts
when a station is created or updated (`StatesCounts`; `Unstated` is a figure left out): that
disturbs the ports of the station until one of them is changed again.

**Parts.** `changed` holds the parts whose content changed since a decision on them was made,
on the row it read itself; which content the administrator had looked at before, the code does
not ask. An administrator's creation checks the seller, if one is named, and inserts
the part later (`BeginAdminCreate`). **Requests.** One table of statuses for four kinds of request; `quoted` and
`bank` are the columns the workflows depend on. Of a charging product, `photos` keeps whether
it has photos and how many are primary.

**Sessions.** A session is a `RefreshToken` row; its token is signed from the user, the
roles and the `second`, so that two sign-ins within one second collide on the unique
column, as they do in the code. `epoch` counts how often a user's sessions were to end;
`raced` marks a session whose handler had read the account before. **Guests.** `served`
and `missed` remember what was invoiced and what a handler gave up or died on.

**Access.** A request arrives with its token (`Arrive`), reads its account (`Validate`), and
is served or refused by the guards on what it read (`Serve`); `could` is whether the account
could have had what it asks at any moment since it arrived. A socket is let in before it joins
its room (`BeginConnect`, `Join`), and nobody tells its client when it has. A list is asked
for, read and answered in three steps, by a client whose socket may have joined or not;
`received` is what a client was pushed or listed, all of which it displays if it adds a list to
what was pushed before, and `listed` whether a list was read since it joined. A mail is set
off, reads its account (`ReadForMail`) and goes out (`SendMail`); `fit` are those whose account
was active at a moment since. Codes, sockets and mails under way live in the process and are
lost at `Restart`. `breach` records what was done for an account that could not have it. `Held`
bounds the roles that accounts get; what they let through is computed from `Routes`, which
lists every role, so that the assumptions there are about the whole table.

**Prices.** The four formulas of `calculatePrice` in millionths of a franc, the rule chosen
by PostgreSQL's order of nulls, the update of a rule (any of its columns) as the loop over the
listings of its channel that it has read, and the change of the rate as its two statements. A
listing changes its channel and country by a dealer's edit, with a price (`BeginPrice`) or
without (`BeginRelabel`), and by a stage move (`CommitMove`) with the migration of its price
after it (`ReadForMigration`, `FindRule`, `CommitMigration`). Its row keeps an amount for each
channel and the `link` to a rule in its notes; `priced` is the rule its price was computed with
for the channel it is in. **Promotions.** Dollars in cents, discounts as percentage or amount
of any fineness (`Fine`), nothing rounded before the francs that are shown; `now` is the day
and `swept` the day the nightly job last ran; `PromotionalPrices` is the set of prices the
possible orders of the rows yield.

**Catalogue.** A listing is its place in the tree, its status, one attribute, a mileage that may
be missing, and the price that is displayed (missing in seeded rows until the rate is set,
`Redisplay`) beside the one it comes from. A dealer's edit and an administrator's check the
pair of category and subcategory differently (`BeginUpdateOwn`, `BeginUpdateByAdmin`).
`toggled`, `visits` and `lost` are histories of what was asked for.

## 4. Runs

| run | bounds | shows |
|---|---|---|
| `commerce_overlap` | 1 buyer, 1 vehicle, 2 invoices, 2 payments, 2 handlers, crashes | all that holds under any overlap; refinement of `Purchase` |
| `commerce_serial` | 1 handler, no crash, administrators set listing statuses | what holds without overlap, with liveness |
| `bookings_overlap` | 1 buyer, 1 vehicle, 2 bookings, 2 fees, 2 handlers, crashes | as above for bookings; refinement of `Reservation` |
| `sales_overlap` | 1 invoice, 1 payment, its order, 1 clerk, 2 handlers, crashes, timelines of 6 events, 2 shipments | as above for orders, which come of confirmed payments; refinement of `Sale` |
| `listings_overlap` | 1 listing, 1 photo, 2 handlers, crashes, one kind of change per edit | what quiet listings keep beside any other request, and the seller profile, which no overlap breaks |
| `listings_serial` | 1 listing, 3 photos (limit 2), 1 handler, crashes, two kinds of change per edit | photos, the transition table, repricing |
| `partners` | 1 operator, station, seller, part and bank, 2 ports, 2 tariffs, 3 requests, 2 handlers, crashes | what partners and administrators can rely on while their requests overlap |
| `market` | 1 account, 2 links, 1 listing (2 vehicles wished for), 2 rules, promotions, inquiries and categories, 3 or 4 requests, 2 handlers, crashes | the same for accounts, prices, promotions and the catalogue |
| `commerce_stranded`, `commerce_reactivated`, `stations`, `prices` | as small as the counterexample needs | one documented promise each that the code does not keep (section 7) |

Several properties of one idea are checked as one conjunction (`BookingsAreSound`,
`ClaimsAreBacked`, `DeliveriesAreCounted`, `EndsUnpaidOnly`, `SubmissionHolds`,
`PlatformStockFits`, `OneOfEach`, `WorkflowsHold`, `SessionsEnd`, `TreeIsKept` and others);
the invariants `TasksAreSound`, `PaymentsAreSound`, `OrderNumbersUnique`, the property
`OrderIsPermanent` and `StatusFollowsTable`, and also `SettledStays` (which `RefinesReservation`
says more of), `CancelledIsFinal` and `OnlyPaidIsDelivered`, are proved for every instance
(section 5) and need no run. What `SessionsEnd` says of one session per account starts when a sign-in or
refresh has run by itself and ends when two that overlapped have opened theirs; until then
an account may have none or the several it had before.

Why the bounds are enough: every guard compares one task with at most one other row or
task. Two handlers give every pairwise race; two invoices of one buyer and vehicle give
the "already active" rule and its reactivation, two payments of one invoice a second
confirmation, two bookings the number race. In `sales_overlap` one
order is enough: no guard compares two, and `upsertShipment` writes each order it is given
as it would that order alone; and one clerk, since rival decisions on a payment are in `commerce_overlap` and the parts meet in one row. No guard of `Listings` compares two
listings, three photos with room for two give an upload beyond the limit and a
choice of the next primary photo, and two kinds of change in one edit give every pair
of its statements. One buyer is enough for the runs because no
guard compares two buyers (one would have to, to keep `OneHolder`, section 7). The theorems
remove the bounds for the properties they cover. Bounds are named in the modules'
`CONSTANTS`; a request beyond `MaxInvoices`, `Payments`, `MaxBookings` or `MaxShipments`
is dropped, one beyond `MaxEvents` waits; an edit of more than `MaxChanges` kinds does not
come.

In `Partners` and `Market` no guard compares two stations, parts, accounts or listings;
what is compared (ports of a station, tariffs, links of an account, rules, promotions of a
listing, categories) there are two of. Three or four requests in a behaviour
(`MaxRequests`, `MaxCalls`, `MaxVisits`, `MaxSignIns`, `MaxPricings`, `MaxCampaigns`) are the
two that race, what they race on and what comes after. The percentages of `MCTerms`
are such that a price in millionths has no further fraction, so that the arithmetic is exact
but for the roundings the code makes.

In `Prices` two channels to start in and to have rules for are enough to make a link cross
channels, and a move brings the third (`Channels`); `Columns` keeps the edits of the run to the
channel of a listing or a rule and the terms of a rule, the ones a price depends on. In
`Promotions` the price (`Francs`, 14008), the two rates (`Quotes`, 1398 and 1400) and a discount
of a tenth of a cent (`MCDiscounts`, `Fine`) meet the numeric edge: the discounted price is
rounded to 14013 francs, five above the price. `Figures` needs one number, since a listing may
be without it. `Asked` are the routes of three kinds of guard: by role, by permission, and for
any account.

`CHECK_DEADLOCK FALSE` is set because the bounded system stops when its rows are used up.

**Fairness.** `WF(Continue(h))`: the Node event loop resumes every handler whose query
has been answered. `SF(BeginExpiry(h))`: the cron starts the expiry every midnight, also
when requests keep the handlers busy in between. No request is assumed to arrive.
Liveness is checked without crashes in `commerce_serial`, and in `sales_overlap`
up to the orders whose handler died; in `listings_serial` up to the listings whose handler
died. `stations` assumes more, to the code's credit: administrators
approve every station they may again and again, and their requests get through
(`ApprovingSpec`). The station does not appear all the same, because the transition table
refuses, not because nobody asks.

## 5. Proofs

Every invariant, action property and refinement of the passing runs is proved for every value
of the constants; only liveness is not (below). Each proof module states its inductive invariant at
the top or at the head of its part; each was checked by TLC on the run's instance first.

**Commerce.** `CommerceProofs` proves, for every number of buyers, vehicles, payments, invoices and
handlers, six invariants (`commerce_overlap` runs three of them, two as `ClaimsAreBacked`), two action
properties and the refinement of `Purchase`. None of the invariants is inductive alone. That an order is
backed needs what the handler that inserts it learned four steps earlier, hence
`TasksAreSound` (what a suspended task carries stays true); that in turn needs
`PaymentsAreSound` (payments belong to issued invoices and never move), and the
evidence of a status needs all three. The inductive invariant is therefore their
conjunction `IInv`. The frame lemmas (`RowsAreKept`, `OnlyOwnTask`, `SoundTaskFrame`)
say that no step takes away what another task relies on; there is one lemma for each
variable a step may write and `StepIInv` puts them together.

Under the assumption `OneHandler` three properties that overlap breaks are proved:
`SerialPayments`, `SerialExpiry`, `SerialCancellation` (the last two together
`EndsUnpaidOnly`), from the additional invariant
that what a task checked is still current.

**Sales.** `SalesIsOfParts` shows that every behaviour of `Sales` is one of `Commerce` and one
of `Fulfilment`. The theorems about `Fulfilment` are brought in by instantiating
`FulfilmentProofs` with the variables of `Sales` (what it assumes of its constants is
`SaleBoundsOK`, which the theorems take as a hypothesis and `MC_Sales` has evaluated), so that both inductive invariants hold in `Sales` without being proved again. One fact joins
them, `OrdersAgree`: an invoice has its order in both parts or in neither; it is inductive
because the one step that inserts an order is the same in both. From these follow

* `SalesRefined`: `Sales` implements `Sale`. Each step of `Commerce` is mapped as in
  `PurchaseRefined`, and the lemmas on what becomes of an order (`InsertStep`, `RequestStep`:
  a request about orders moves at most one of them, from not delivered to delivered or from
  delivered to counted) give the rest;
* `OnlyPaidIsAlwaysDelivered`: what was delivered or counted is the order of an invoice of which a
  payment was confirmed. This crosses both services and is checked nowhere in the code:
  `advanceOrderStatus` reads no payment.

**Listings.** `ListingsProofs` proves the type invariant of `Listings` and `PlatformIsSeller`, which no
overlap breaks. Two edits of one listing may be open at once, so that a primary photo is
on its listing is inductive only with `OpenEditsAreApart`: the row locks keep what two open
edits have written disjoint. `ListingRaceProofs` proves the properties of the listings no
two requests have raced on, beside any number of handlers that race elsewhere.
`RacesAreRecorded` says that of two tasks with the same concern on one listing `contended`
knows; hence on a quiet listing nobody has written what a task has read
(`ReadsAreCurrent`, proved by `LeavesAlone`: a step writes only what its task is concerned
with), and the guards checked at the start of a handler still hold at its write.
`PhotosAreSound` adds what a task has counted (`PhotosSeen`): an upload fits until it is
committed, and `StatementsFit` says that the statements of an edit, whatever they remove, add
and pick, leave a photo, at most the limit, and one primary one. It needs
`StockIsThePlatforms`: no seller can upload to what an administrator made, because its
first file would become a second primary photo.

**One form for the rest.** The other proofs follow one pattern, with a different notion of row:

1. *shape*: what a task carries whatever the others do (its row exists, its target status is
   one of the table's, the numbers below the one it took are used);
2. *current*: what a task that is alone on its row has read is still so there;
3. *meet*: two tasks on one row and matter know of each other;
4. what a task that is not alone writes is recorded (`contended`, `disturbed`, `rushed`), so
   that the properties, which speak of the other rows, are the write of a task whose reads
   are current.

On top of it each part needs facts of its own.

| proof | besides the pattern |
|---|---|
| `FulfilmentProofs` | `DeliveryIsLast`: after its delivery an order that nobody contends for can only be cancelled; a handler about to record the metric has delivered, and none is recorded yet |
| `BookingsProofs` | rows are numbered without gaps, so that a number read is the next one or used by now, and one under verification was paid for; a handler about to insert a booking knows that no quiet one is active for its buyer and vehicle, unless the pair is `rushed` |
| `PartnersProofs` | `Parts`: an approved part nobody disturbed is not `changed`. `Requests`: each handler adds at most one primary photo to a product, and none before its first photo. `Charging`: a station that is not there has no ports, tariffs and photos; an operator is verified as long as it is active; the counts are of finite sets |
| `AccountProofs` | `Sessions`: tokens are unique, a handler alone with an account that is about to open a session finds none, a used link is gone or marked. `Access`: a request that would be served could have been (`RequestIsSound`: before its account is read by what the account is, then by what was read); a mail handed over is `fit`; a list that was read since its client joined is complete, together with what was pushed meanwhile, but for what is pending or dropped, and stays so until it is answered (`ListsAreComplete`); a socket is joined by one handler; a code that has signed somebody in no longer waits. `Guests`: what an account with a profile wants is invoiced, given up, or a handler is due to come to it |
| `OfferProofs` | `Prices`: a price that does not follow its rule has an update in progress that will reach its listing, or was disturbed; a request that writes a price holds, while it is alone, the amounts, the channel and the rule as they are. `Promotions`: an activation that is alone found that the promotion had not ended when the nightly job last ran. `Catalogue`: every listing is linked to rows that exist, and one whose subcategory is deleted had been disturbed before; that the least and greatest figure offered by a filter exist follows from well-foundedness on finite sets, and a range between them finds exactly the rows that have a figure (`SpanIs`, `RangeFinds`) |

**Bookings as reservations.** `ReservationRefined` needs, besides the inductive invariant, that
a booking in the table has a buyer, a vehicle and a fee that may be asked
(`PartiesAreKnown`). A booking nobody contends for moves along one edge of `Reservation`,
because what its request read is current; the step in which a second request begins on it
makes it `disputed`, and steps on a disputed one are stutters.

**One request at a time.** Where overlap breaks a rule the code states, the rule is proved for a
server that handles one request at a time (`OneHandler`), from the theorem that holds under any
overlap and the fact that nothing is contended for then: `SerialBookings` (one active booking
for each buyer and vehicle), `SerialCancelled` (a cancelled order stays so, from
`CancelledIsAlwaysFinal` and `NothingContended`), and those of `Commerce` above. A process that
dies is among the steps in all of them.

**The promotional price.** `BestIsShown` speaks of the loop over the promotions of a listing
(`pickBestDiscountPromotion`), a recursive function over rows of any number. Instead of induction over the
rows, `KeptExists` and `BestIsKept` take the least number of rows after which the claim would fail
and refute it, as `LeastExists` provides it. So the loop ends with a row that saves something, and
none saves more, or no row saves anything (`PickBestIsBest`). That a better saving is not a higher price in francs needs that
rounding is monotone (`FrancsAreMonotone`), and that the price shown at the rate of the listing's
pricing is the one computed from its dollars needs `PromotedPricesAlwaysSound`. The bounds of the
property, half a cent and half a franc, are those of the two roundings (`RoundedIsLess`, `ReducedIsLess`);
they hold for every positive rate and every fineness of the discounts.

In `Partners` and `Market` the invariant of the whole is the conjunction of `work = part => Inv` over
the parts, and a step of the whole is a step of the part at work.

Assumptions: `NoneIsNoRow`, `BoundsOK`, `AdminStatusesOK`, `FleetListingsOK`, `NoneIsNew`,
`ListingBoundsOK`, `NoneIsNoBuyer`, `BookingBoundsOK`, `SellersOK`, `NoneIsNoOrder`, `EventBoundsOK`,
`PartnersBoundsOK`, `MarketBoundsOK` (null is no row, bounds are numbers, constants have
their types), evaluated by the runs of their modules. Those that are more than types: the
sets that are counted or searched for a least element are finite (`Photos`, `Ports` and
`Handlers` of `Partners`, `Listings` and `Campaigns` of `Market`), as the rows of a table are; ids of different tables that
share a set `disturbed` differ (`Users` and `Links`); there is a rate, and it is positive; an emptied
field (`"empty"`) is no row.
`RoutesAreReachable` and `FourAreNamedInVain` are statements about the table of routes that
TLC evaluates; the proofs do not use them.

**Only model-checked:**

* the liveness properties `ConfirmedIsOrdered`, `OverdueIsEnded` and `StockGetsPriced`, and of
  `DeliveriesAreCounted` the half that each delivery is counted in the end (that no more are
  counted than happened is `CountedWasDelivered`): the prover has neither fairness nor ENABLED
  within reach.

The four violation runs stay with TLC, which shows the behaviour.

## 6. Not modelled

Outputs (the text and delivery of mail, audit, PDF, uploads), read-only reports and the
dashboard, and the supersede helpers, which are dead code. Of listings: the verification
report, slugs and the order of the photos. Of searches: order and pages. Of fleet requests
and inquiries: the associations with their members, which are plain inserts, the documents
made for requests after the row is written, and the column with
their address. Of settings: everything but the frozen rate. Passwords, signatures and the
exchanges with Google and the exchange-rate service are taken to work; a failing one is a
handler that ends. Of notifications: the pages after the first, the counts beside a list, and
the switches that suppress a push or a mail, which nothing sets. The string order of reference
numbers matters after a million of one kind only.

The client that retries is not modelled as such: every request may come at any time, hence
again. No queue, lock or cache of the program's own is left out, there is none but the map of
pending codes (`Access`).

## 7. Disagreements met

Each of these is a violation run with the line it contradicts (`PROJECT.json`, findings):

* a confirmation can be left without its order (`NoStrandedPayment`);
* a decision on a payment revives a cancelled invoice (`OneActiveInvoice`);
* a station under review can never be approved or shown (`ApprovedAppears`);
* the rule for any country is preferred to the rule for the vehicle's (`SpecificRuleWins`).

These are properties of the modules that TLC refutes as easily; add the property to the
configuration named and the trace appears:

* two decisions on one payment overwrite each other, against the table of doc-03:583
  (`PaymentStatusMachine` in `Commerce_overlap.cfg`);
* two buyers' bookings of one vehicle are both confirmed, though `booking.constants.ts:8`
  says a confirmed one holds the vehicle (`OneHolder` in `Bookings_overlap.cfg`, two buyers);
* an order cancelled while it is advanced comes back, against `orders.service.ts:163`
  (`CancelledStaysCancelled` in `Sales_overlap.cfg`; with one request at a time it holds,
  `SerialCancelled`);
* a dealer's rejected listing cannot be resubmitted, against doc-02:64
  (`RejectedCanBeResubmitted` under `EagerSpec` in `Listings_serial.cfg`);

Seen while modelling, in the properties' own words:

* **Promotional prices.** One can exceed the price, where doc-05:50 promises a "reduced price
  display": a saving below half a cent disappears in the rounding of the price to cents
  (`BestIsShown` states by how much; a price of 14008 francs at a rate of 1400, less a tenth of a
  cent, is shown as 14013), and a listing's price in francs stays at the rate of its pricing
  (`priceDisplay` of `listing.mapper.ts:87`) while the discounted one is shown at the rate of today.
* **Prices and channels.** A stage move or a dealer's edit leaves the link to the old rule in the
  notes. A vehicle that came to Rwanda keeps the price it had in francs; the update of a rule
  passes over the listings of other channels (`pricing.service.ts:305-311`), so a listing linked
  across channels keeps its price whatever becomes of the rule. An unlinked listing whose new
  channel has no amount of its own is recalculated from nothing. A listing in dollars that moves
  to Rwanda has its price in francs multiplied by the rate once more
  (`listings.service.ts:2262-2275`, under the comment "Keep the buyer list price stable").
  `updateRule` takes another seller type for a rule that listings are linked to.
* **Submitted listings.** A stage move takes any listing, a dealer's submitted or published one
  included, over to the platform and writes its channel, seller, place and prices
  (`listings.service.ts:2086-2204`); `SubmissionHolds` speaks of the listings still with their dealer.
* **Port counts.** An owner writes `totalPorts` and `availablePorts` of a station by hand
  (`charging-stations.service.ts:222-223`, `283-284`); the next change of a port overwrites them.
* **Parts.** An approval names the part only by its id and reads it again
  (`parts.service.ts:285`), while its seller may edit it under review (`145-173`): what is approved
  may be newer than what the administrator's list showed (`213-227`). `PublicPartIsAsApproved`
  speaks of what changes after the approval.
* **Notifications.** A client is not told when it has joined its room, so it cannot know whether a
  list was read before: it must fetch again, and add lists to what was pushed, to miss nothing. The
  count of the unread comes from a query of its own and may disagree with the list beside it. A
  joined socket of a deactivated account stays joined and keeps receiving pushes.
* **Filters.** The range of prices is offered from the price that is shown, computed where no
  display price is stored (`listings.service.ts:166-175`), while the search reads the stored
  column only (`search.service.ts:95-104`): seeded listings have none until the rate is set. A
  range of mileages drops the listings without one (`106-111`).
* **Subcategories.** A dealer's edit that empties the subcategory is accepted unchecked
  (`listings.service.ts:825-829`); an administrator's that also moves the listing to another
  category is refused, because the old subcategory is checked.

Seen while reading: the repair path of `advanceInventoryStage` also takes a dealer's local
listing in Kigali, which has no base price, though its comment (`listings.service.ts:2105`)
speaks of listings "that still show the China sourcing channel", and makes it platform
stock; `updateOwn` can change a dealer's channel without the price input the new channel
needs; an upload makes its first photo primary (`listings.controller.ts:314`) where
doc-02:407 says "First photo auto-set as isPrimary if none exists"; no code takes a listing
to RESERVED or SOLD on an invoice or a payment, as doc-02 says; promotions of type banner
"do not affect pricing" (doc-05:538), but the query for the best discount takes every type;
an edit of a price without a rule leaves the link to the old rule in the notes, so that the
next update of that rule reprices the listing; `JwtRefreshStrategy` is
used by no route; the sustainability report of a fleet client filters by a name that no
recorded delivery has (`sustainability.service.ts:199`); four routes name a role that lacks
the permission they ask for as well and refuse it all the same (`FourAreNamedInVain`:
FLEET_ADMIN at `admin-invoices.controller.ts:110` and `admin-buyers.controller.ts:14`,
MARKETPLACE_ADMIN at `discount-sales.controller.ts:22`, LOGISTICS_ADMIN at
`admin-listings.controller.ts:361`); and seven seeded permissions are asked for by no route
(listings:read, listings:approve and listings:reject, payments:refund, users:read, inquiries:read-own,
sustainability:manage).

## 8. Order of work

The modules were written from the centre outwards, each with its run before its proofs:

1. `Commerce` with `Purchase`, `Bookings`, `Fulfilment`.
2. `Listings`.
3. `Charging`, `Parts`, `Requests` and `Partners`; `Sessions`, `Guests`, `Access`, `Prices`,
   `Promotions`, `Catalogue` and `Market`.
4. The proofs of every invariant and action property.
5. `Reservation`, `Sales` and `Sale` with their refinements.

What would come next: abstract forms of what the public sees of a listing (only reviewed
content) and of a session (opened, ended, never reopened), with their refinements.
