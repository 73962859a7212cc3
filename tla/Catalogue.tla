----------------------------- MODULE Catalogue -----------------------------
(***************************************************************************)
(* What visitors find listings by, and what is counted of them: the        *)
(* categories and subcategories administrators keep (CategoriesService),   *)
(* the lists, filters and home page sections of the marketplace            *)
(* (SearchService and the queries of ListingsService), wishlists, views,   *)
(* and the flags administrators toggle.                                    *)
(*                                                                         *)
(* A listing is reduced to what these read: its place in the tree, its     *)
(* status (DRAFT stands for all before it is published), whether it is     *)
(* withdrawn, one text attribute (trait: brand, model, colour, ...), one   *)
(* number (mileage, which a dealer may leave out) and its price: the       *)
(* column that is displayed and sorted by, and the price it comes from.    *)
(***************************************************************************)
EXTENDS Integers, FiniteSets, FiniteSetsExt

CONSTANTS
  Categories, Subcategories, Listings, Buyers,
  Traits, Figures,  \* attributes a listing may have (bound)
  MaxRequests,      \* requests started in one behaviour (bound)
  Handlers,         \* requests that may be in progress at once
  None              \* SQL null, an absent parameter

PUBLIC_MARKETPLACE_STATUSES == {"PUBLISHED", "RESERVED", "SOLD"}
PUBLIC_BROWSE_STATUSES == {"PUBLISHED", "RESERVED"}
PUBLIC_CURATED_STATUSES == {"PUBLISHED", "RESERVED"}

Flags == {"isFeatured", "isHotDeal"}

VARIABLES
  category,     \* Category rows: "unused", "active", "inactive" or "deleted"
  subcategory,  \* Subcategory rows: the same, and the category they are in
  listing,      \* Listing rows
  saved,        \* SavedListing rows
  toggled,      \* history: the flags toggled an odd number of times
  visits,       \* history: completed visits of each listing
  lost,         \* history: listings a deletion took the subcategory from
  task, started, disturbed

vars == <<category, subcategory, listing, saved, toggled, visits, lost, task, started, disturbed>>
rows == <<category, subcategory, listing, saved, toggled, visits, lost>>

NoListing == [status |-> "none", deleted |-> FALSE, category |-> None, subcategory |-> None,
              trait |-> None, mileage |-> None, display |-> None, final |-> 0,
              flags |-> {}, views |-> 0]
Idle == [pc |-> "idle", on |-> {}, row |-> None, category |-> None, subcategory |-> None,
         flag |-> "none", was |-> FALSE, alone |-> TRUE]

\* The places a listing may have in the tree.
Pairs == {p \in Categories \X (Subcategories \cup {None}) :
            category[p[1]] = "active" /\ (p[2] # None => subcategory[p[2]].of = p[1])}

\* A tree, and in it drafts and the published vehicles of the seed, which have no price to
\* display yet; their subcategory, if any, is one of their category.
FirstSubcategories ==
  {[state |-> "unused", of |-> None]} \cup
  {[state |-> "active", of |-> c] : c \in {k \in Categories : category[k] = "active"}}
Row(status, c, s, trait, mileage, display, final) ==
  [status |-> status, deleted |-> FALSE, category |-> c, subcategory |-> s, trait |-> trait,
   mileage |-> mileage, display |-> display, final |-> final, flags |-> {}, views |-> 0]
FirstListings ==
  {NoListing} \cup
  UNION {{Row("DRAFT", p[1], p[2], t, m, n, n), Row("PUBLISHED", p[1], p[2], t, m, None, n)} :
           p \in Pairs, t \in Traits, m \in Figures \cup {None}, n \in Figures}

Init ==
  /\ category \in [Categories -> {"unused", "active"}]
  /\ subcategory \in [Subcategories -> FirstSubcategories]
  /\ listing \in [Listings -> FirstListings]
  /\ saved = {}
  /\ toggled = [l \in Listings |-> {}]
  /\ visits = [l \in Listings |-> 0]
  /\ lost = {}
  /\ task = [h \in Handlers |-> Idle]
  /\ started = 0
  /\ disturbed = {}

-----------------------------------------------------------------------------
(* Requests; disturbed holds the listings one of whose writers was not alone *)

At(h, pc) == task[h].pc = pc
Finish(h) == task' = [task EXCEPT ![h] = Idle]
Spend == started < MaxRequests /\ started' = started + 1

\* Handler h takes up request t, which relies on the rows t.on.
Start(h, t) ==
  /\ At(h, "idle")
  /\ Spend
  /\ task' = [g \in Handlers |->
       CASE g = h -> [t EXCEPT !.alone = \A k \in Handlers : task[k].on \cap t.on = {}]
         [] g # h /\ task[g].on \cap t.on # {} -> [task[g] EXCEPT !.alone = FALSE]
         [] OTHER -> task[g]]
  /\ UNCHANGED <<rows, disturbed>>

Disturb(h) ==
  disturbed' = IF task[h].alone THEN disturbed ELSE disturbed \cup (task[h].on \cap Listings)

CategoryExists(c) == c \in Categories /\ category[c] \in {"active", "inactive"}
SubcategoryExists(s) == s \in Subcategories /\ subcategory[s].state \in {"active", "inactive"}
ListingExists(l) == listing[l].status # "none"
Live(l) == ListingExists(l) /\ ~listing[l].deleted

-----------------------------------------------------------------------------
(* Categories *)

CreateCategory(c) ==
  /\ category[c] = "unused"
  /\ Spend
  /\ category' = [category EXCEPT ![c] = "active"]
  /\ UNCHANGED <<subcategory, listing, saved, toggled, visits, lost, task, disturbed>>

SetCategory(c, state) ==
  /\ CategoryExists(c) /\ category[c] # state
  /\ Spend
  /\ category' = [category EXCEPT ![c] = state]
  /\ UNCHANGED <<subcategory, listing, saved, toggled, visits, lost, task, disturbed>>

Deactivate(c) == SetCategory(c, "inactive")
Reactivate(c) == SetCategory(c, "active")

\* The listings of the category are counted, withdrawn ones included.
BeginHardDelete(h, c) ==
  /\ CategoryExists(c)
  /\ \A l \in Listings : listing[l].category # c
  /\ Start(h, [Idle EXCEPT !.pc = "deleteCategory", !.row = c,
       !.on = {c} \cup {s \in Subcategories : subcategory[s].of = c}])

\* ON DELETE SET NULL of listings.subcategoryId.
Unlink(gone) ==
  /\ listing' = [l \in Listings |->
       IF listing[l].subcategory \in gone THEN [listing[l] EXCEPT !.subcategory = None]
                                          ELSE listing[l]]
  /\ lost' = lost \cup {l \in Listings : listing[l].subcategory \in gone}

\* ON DELETE RESTRICT refuses a category with listings; its subcategories go with it.
CommitHardDelete(h) ==
  LET c == task[h].row
      gone == {s \in Subcategories : SubcategoryExists(s) /\ subcategory[s].of = c}
  IN
  /\ At(h, "deleteCategory")
  /\ CategoryExists(c) /\ \A l \in Listings : listing[l].category # c
  /\ category' = [category EXCEPT ![c] = "deleted"]
  /\ subcategory' = [s \in Subcategories |->
       IF s \in gone THEN [subcategory[s] EXCEPT !.state = "deleted"] ELSE subcategory[s]]
  /\ Unlink(gone)
  /\ Finish(h)
  /\ UNCHANGED <<saved, toggled, visits, started, disturbed>>

-----------------------------------------------------------------------------
(* Subcategories: getSubcategoryInCategoryOrThrow finds them in their category *)

AddSubcategory(c, s) ==
  /\ CategoryExists(c) /\ subcategory[s].state = "unused"
  /\ Spend
  /\ subcategory' = [subcategory EXCEPT ![s] = [state |-> "active", of |-> c]]
  /\ UNCHANGED <<category, listing, saved, toggled, visits, lost, task, disturbed>>

BeginDeleteUncounted(h, s) ==   \* faulty: does not count the listings
  /\ SubcategoryExists(s)
  /\ Start(h, [Idle EXCEPT !.pc = "deleteSubcategory", !.row = s, !.on = {s}])

BeginDeleteSubcategory(h, s) ==
  /\ SubcategoryExists(s)
  /\ \A l \in Listings : listing[l].subcategory # s
  /\ Start(h, [Idle EXCEPT !.pc = "deleteSubcategory", !.row = s, !.on = {s}])

CommitDeleteSubcategory(h) ==
  LET s == task[h].row IN
  /\ At(h, "deleteSubcategory") /\ SubcategoryExists(s)
  /\ subcategory' = [subcategory EXCEPT ![s].state = "deleted"]
  /\ Unlink({s})
  /\ Finish(h)
  /\ UNCHANGED <<category, saved, toggled, visits, started, disturbed>>

-----------------------------------------------------------------------------
(* Listings are put into the tree *)

\* validateCategoryRefs
Fits(c, s) ==
  /\ c \in Categories /\ category[c] = "active"
  /\ s # None => SubcategoryExists(s) /\ subcategory[s] = [state |-> "active", of |-> c]

Save(pc, l, c, s) ==
  [Idle EXCEPT !.pc = pc, !.row = l, !.category = c, !.subcategory = s,
               !.on = {l, c, s} \ {None, "empty"}]

BeginCreate(h, l, c, s) ==
  /\ ~ListingExists(l) /\ \A g \in Handlers : task[g].row # l
  /\ Fits(c, s)
  /\ Start(h, Save("create", l, c, s))

CommitCreate(h, trait, mileage, price) ==
  LET t == task[h] IN
  /\ At(h, "create")
  /\ CategoryExists(t.category) /\ (t.subcategory # None => SubcategoryExists(t.subcategory))
  /\ listing' = [listing EXCEPT ![t.row] =
       Row("DRAFT", t.category, t.subcategory, trait, mileage, price, price)]
  /\ Disturb(h)
  /\ Finish(h)
  /\ UNCHANGED <<category, subcategory, saved, toggled, visits, lost, started>>

Or(given, old) == IF given = None THEN old ELSE given

\* updateOwn: a dealer edits drafts.  The pair that results is checked if the edit names a
\* row; an emptied subcategory ("") is no row, and nothing is checked of it.
BeginUpdateOwn(h, l, c, s) ==
  LET old == listing[l]
      left == IF s = "empty" THEN None ELSE Or(s, old.subcategory)
  IN
  /\ Live(l) /\ (c # None \/ s # None)
  /\ old.status = "DRAFT"
  /\ c # None \/ s \in Subcategories => Fits(Or(c, old.category), left)
  /\ Start(h, Save("edit", l, c, s))

\* updateCreatedByAdmin: an administrator edits any listing of the platform.  The pair is
\* checked, but an emptied subcategory counts as the one the listing had.
BeginUpdateByAdmin(h, l, c, s) ==
  LET old == listing[l]
      named == IF s = "empty" THEN old.subcategory ELSE Or(s, old.subcategory)
  IN
  /\ Live(l) /\ (c # None \/ s # None)
  /\ Fits(Or(c, old.category), named)
  /\ Start(h, Save("edit", l, c, s))

CommitEdit(h) ==
  LET t == task[h] IN
  /\ At(h, "edit")
  /\ ListingExists(t.row)
  /\ t.category # None => CategoryExists(t.category)
  /\ t.subcategory \in Subcategories => SubcategoryExists(t.subcategory)
  /\ listing' = [listing EXCEPT
       ![t.row].category = Or(t.category, @),
       ![t.row].subcategory = IF t.subcategory = "empty" THEN None ELSE Or(t.subcategory, @)]
  /\ Disturb(h)
  /\ Finish(h)
  /\ UNCHANGED <<category, subcategory, saved, toggled, visits, lost, started>>

\* setFrozenRate (module Prices): prices that are left in dollars are displayed at the rate.
NotDisplayed == {l \in Listings : ListingExists(l) /\ listing[l].display = None}

Redisplay ==
  /\ NotDisplayed # {}
  /\ listing' = [l \in Listings |->
       IF l \in NotDisplayed THEN [listing[l] EXCEPT !.display = listing[l].final]
                             ELSE listing[l]]
  /\ UNCHANGED <<category, subcategory, saved, toggled, visits, lost, task, started, disturbed>>

\* What reviews, orders and dealers do to a listing elsewhere.
Moves == {<<"DRAFT", "PUBLISHED">>, <<"PUBLISHED", "RESERVED">>, <<"RESERVED", "PUBLISHED">>,
          <<"RESERVED", "SOLD">>, <<"SOLD", "ARCHIVED">>}

Move(l, to) ==
  /\ Live(l) /\ <<listing[l].status, to>> \in Moves
  /\ listing' = [listing EXCEPT ![l].status = to]
  /\ UNCHANGED <<category, subcategory, saved, toggled, visits, lost, task, started, disturbed>>

\* A dealer withdraws what is a draft when it is read; it may be published by then.
Withdraw(l) ==
  /\ Live(l) /\ listing[l].status \in {"DRAFT", "PUBLISHED"}
  /\ listing' = [listing EXCEPT ![l].deleted = TRUE]
  /\ UNCHANGED <<category, subcategory, saved, toggled, visits, lost, task, started, disturbed>>

-----------------------------------------------------------------------------
(* Flags, views, wishlists *)

\* toggleFlag writes the opposite of the flag it read.
BeginToggle(h, l, flag) ==
  /\ Live(l)
  /\ Start(h, [Idle EXCEPT !.pc = "toggle", !.row = l, !.on = {l}, !.flag = flag,
                           !.was = flag \in listing[l].flags])

CommitToggleOn(h) ==   \* faulty: sets the flag
  LET t == task[h] IN
  /\ At(h, "toggle") /\ ListingExists(t.row)
  /\ listing' = [listing EXCEPT ![t.row].flags = @ \cup {t.flag}]
  /\ toggled' = [toggled EXCEPT ![t.row] = SymDiff(@, {t.flag})]
  /\ Disturb(h)
  /\ Finish(h)
  /\ UNCHANGED <<category, subcategory, saved, visits, lost, started>>

CommitToggle(h) ==
  LET t == task[h] IN
  /\ At(h, "toggle") /\ ListingExists(t.row)
  /\ listing' = [listing EXCEPT
       ![t.row].flags = IF t.was THEN @ \ {t.flag} ELSE @ \cup {t.flag}]
  /\ toggled' = [toggled EXCEPT ![t.row] = SymDiff(@, {t.flag})]
  /\ Disturb(h)
  /\ Finish(h)
  /\ UNCHANGED <<category, subcategory, saved, visits, lost, started>>

Opens(l) == Live(l) /\ listing[l].status \in PUBLIC_MARKETPLACE_STATUSES

\* findBySlug; the view of a sold listing is not counted.
BeginVisit(h, l) ==
  /\ Opens(l) /\ listing[l].status # "SOLD"
  /\ Start(h, [Idle EXCEPT !.pc = "visit", !.row = l])

\* The database increments the counter.
CommitVisit(h) ==
  LET l == task[h].row IN
  /\ At(h, "visit") /\ ListingExists(l)
  /\ listing' = [listing EXCEPT ![l].views = @ + 1]
  /\ visits' = [visits EXCEPT ![l] = @ + 1]
  /\ Finish(h)
  /\ UNCHANGED <<category, subcategory, saved, toggled, lost, started, disturbed>>

BeginAddToWishlist(h, l) ==
  /\ Live(l) /\ listing[l].status = "PUBLISHED"
  /\ Start(h, [Idle EXCEPT !.pc = "wish", !.row = l])

CommitAddToWishlist(h, u) ==
  /\ At(h, "wish") /\ ListingExists(task[h].row)
  /\ saved' = saved \cup {<<u, task[h].row>>}
  /\ Finish(h)
  /\ UNCHANGED <<category, subcategory, listing, toggled, visits, lost, started, disturbed>>

RemoveFromWishlist(u, l) ==
  /\ <<u, l>> \in saved
  /\ Spend
  /\ saved' = saved \ {<<u, l>>}
  /\ UNCHANGED <<category, subcategory, listing, toggled, visits, lost, task, disturbed>>

\* adminHardDelete; the wishlists that hold the listing lose it.
DeleteListing(l) ==
  /\ Live(l)
  /\ Spend
  /\ listing' = [listing EXCEPT ![l] = NoListing]
  /\ saved' = {w \in saved : w[2] # l}
  /\ toggled' = [toggled EXCEPT ![l] = {}]
  /\ visits' = [visits EXCEPT ![l] = 0]
  /\ UNCHANGED <<category, subcategory, lost, task, disturbed>>

\* A statement fails or is refused, or the process dies.
Crash(h) ==
  /\ ~At(h, "idle")
  /\ Finish(h)
  /\ UNCHANGED <<rows, started, disturbed>>

Begin(h) ==
  /\ At(h, "idle") /\ started < MaxRequests
  /\ \/ \E c \in Categories : BeginHardDelete(h, c)
     \/ \E s \in Subcategories : BeginDeleteSubcategory(h, s)
     \/ \E l \in Listings, c \in Categories, s \in Subcategories \cup {None} :
          BeginCreate(h, l, c, s)
     \/ \E l \in Listings, c \in Categories \cup {None}, s \in Subcategories \cup {None, "empty"} :
          BeginUpdateOwn(h, l, c, s) \/ BeginUpdateByAdmin(h, l, c, s)
     \/ \E l \in Listings : BeginVisit(h, l) \/ BeginAddToWishlist(h, l)
     \/ \E l \in Listings, flag \in Flags : BeginToggle(h, l, flag)

Commit(h) ==
  \/ CommitHardDelete(h) \/ CommitDeleteSubcategory(h)
  \/ \E trait \in Traits, mileage \in Figures \cup {None}, price \in Figures :
       CommitCreate(h, trait, mileage, price)
  \/ CommitEdit(h) \/ CommitToggle(h) \/ CommitVisit(h)
  \/ \E u \in Buyers : CommitAddToWishlist(h, u)

Next ==
  \/ \E h \in Handlers : Begin(h) \/ Commit(h) \/ Crash(h)
  \/ \E c \in Categories : CreateCategory(c) \/ Deactivate(c) \/ Reactivate(c)
  \/ \E c \in Categories, s \in Subcategories : AddSubcategory(c, s)
  \/ \E l \in Listings, to \in {m[2] : m \in Moves} : Move(l, to)
  \/ \E l \in Listings : Withdraw(l) \/ DeleteListing(l)
  \/ \E u \in Buyers, l \in Listings : RemoveFromWishlist(u, l)
  \/ Redisplay

Spec == Init /\ [][Next]_vars

-----------------------------------------------------------------------------
(* The lists *)

Any == [min |-> None, max |-> None]
NoFilter == [category |-> None, subcategories |-> {}, trait |-> None, mileage |-> Any,
             price |-> Any]

\* A range finds no row without the number.
Within(x, range) ==
  range # Any => /\ x # None
                 /\ range.min # None => range.min <= x
                 /\ range.max # None => x <= range.max

\* buildWhereClause: a parameter that is absent asks for nothing.
Where(f, statuses) ==
  {l \in Listings : LET r == listing[l] IN
     /\ r.status \in statuses /\ ~r.deleted
     /\ f.category \in {None, r.category}
     /\ f.subcategories = {} \/ r.subcategory \in f.subcategories
     /\ f.trait \in {None, r.trait}
     /\ Within(r.mileage, f.mileage) /\ Within(r.display, f.price)}

Browse(f) == Where(f, PUBLIC_BROWSE_STATUSES)

\* findPublishedCollection
Curated(extra) == Where(NoFilter, PUBLIC_CURATED_STATUSES) \cap extra

Featured == Curated({l \in Listings : "isFeatured" \in listing[l].flags})
HotDeals == Curated({l \in Listings : "isHotDeal" \in listing[l].flags})
NewArrivals == Curated(Listings)

\* Of the listings promotions name.
RecentlyReduced(ids) == {l \in ids : Live(l) /\ listing[l].status = "PUBLISHED"}

Wishlist(u) == {l \in Listings : <<u, l>> \in saved /\ Live(l) /\ listing[l].status = "PUBLISHED"}

AdminList(status) == {l \in Listings : Live(l) /\ status \in {None, listing[l].status}}

ShownPrice(l) == Or(listing[l].display, listing[l].final)

Span(figures) ==
  IF figures = {} THEN None ELSE [min |-> Min(figures), max |-> Max(figures)]

\* getBrowseFilterOptions: what the filters of a category offer.
FilterOptions(c) ==
  LET found == Browse([NoFilter EXCEPT !.category = c]) IN
  [traits |-> {listing[l].trait : l \in found},
   mileage |-> Span({listing[l].mileage : l \in found} \ {None}),
   price |-> Span({ShownPrice(l) : l \in found})]

-----------------------------------------------------------------------------
(* Properties *)

\* Rows are well formed, and a row that refers to another refers to one that exists.
TypeOK ==
  /\ \A c \in Categories : category[c] \in {"unused", "active", "inactive", "deleted"}
  /\ \A s \in Subcategories : SubcategoryExists(s) => CategoryExists(subcategory[s].of)
  /\ \A l \in Listings : ListingExists(l) => CategoryExists(listing[l].category)
  /\ \A l \in Listings : listing[l].subcategory # None => SubcategoryExists(listing[l].subcategory)
  /\ \A w \in saved : ListingExists(w[2])

\* A listing with a subcategory has one of its own category, and no deletion in the tree
\* takes its subcategory from it, unless the saving of the listing overlapped another
\* request about the same rows.  Its category and subcategory are checked as a pair, but
\* the half the form left out is the one read before.
TreeIsKept ==
  \A l \in Listings \ disturbed :
    /\ l \notin lost
    /\ listing[l].subcategory # None
         => subcategory[listing[l].subcategory].of = listing[l].category

\* What any list or wishlist of the marketplace shows can be opened, and administrators find
\* all of it: the three sets of statuses agree.  Every value the filters of a category offer
\* finds something in it; the range of mileages finds the listings that state theirs, and
\* the range of prices those whose price is displayed, and no other: the offer is made from
\* the price they show, the search looks at the column.
ListedOpens ==
  LET listed == Browse(NoFilter) \cup Featured \cup HotDeals \cup NewArrivals
                  \cup RecentlyReduced(Listings) \cup UNION {Wishlist(u) : u \in Buyers}
  IN
  /\ \A l \in listed : Opens(l) /\ l \in AdminList(None) \cap AdminList(listing[l].status)
  /\ \A c \in Categories :
       LET f == [NoFilter EXCEPT !.category = c]
           offered == FilterOptions(c)
       IN /\ \A t \in offered.traits : Browse([f EXCEPT !.trait = t]) # {}
          /\ offered.mileage # None =>
               Browse([f EXCEPT !.mileage = offered.mileage])
                 = {l \in Browse(f) : listing[l].mileage # None}
          /\ offered.price # None =>
               Browse([f EXCEPT !.price = offered.price])
                 = {l \in Browse(f) : listing[l].display # None}

\* Every completed visit of a listing is in its view count, however visits overlap; a flag
\* is set when it was toggled an odd number of times, unless two toggles overlapped.
VisitsAndTogglesCount ==
  \A l \in Listings :
    /\ listing[l].views = visits[l]
    /\ l \notin disturbed => listing[l].flags = toggled[l]
=============================================================================
