------------------------------- MODULE Market -------------------------------
(***************************************************************************)
(* Accounts and what visitors are offered: signing in (module Sessions),   *)
(* what an account may then do and is told (Access), what becomes of a     *)
(* visitor's requests (Guests), the pricing of listings (Prices), their    *)
(* promotions (Promotions), and how they are found (Catalogue).  Where one *)
(* of them needs another it holds what it needs of it: a sign-in is one    *)
(* action of Guests and of Access, a pricing one of Promotions, the life   *)
(* of a listing one of Catalogue.  They share no other row, so that in a   *)
(* behaviour one of them is at work, chosen at the start, and the          *)
(* variables of the others stay None.                                      *)
(***************************************************************************)
EXTENDS Integers, FiniteSets, Routes

CONSTANTS
  Users, Links, MaxSecond,
  Vehicles, Inquiries, MaxInvoices,
  Listings,
  Rules, Terms, Inputs, Amounts, Rates, Places, Origins, Channels, Columns,
  Campaigns, Discounts, Fine, Francs, Quotes, MaxDay,
  Held, Asked, Codes, Sockets, Notes,
  Categories, Subcategories, Traits, Figures,
  MaxCalls, MaxVisits, MaxSignIns, MaxPricings, MaxCampaigns, Handlers, None

VARIABLES
  work,                                                      \* the part at work
  user, session, link, second, epoch, uses,                  \* Sessions
  request, profile, open, invoiced, number, served, missed,  \* Guests
  type, country, rule, pricing, priced,                      \* Prices
  promotion, attached, price, now, swept, pricedAt, late,    \* Promotions
  account, token, exchange, completed, socket, received, listed,   \* Access
  note, mailing, posting, fit, dropped, breach,
  category, subcategory, listing, saved, toggled, visits, lost,  \* Catalogue
  rate, task, started, disturbed

ofSessions == <<user, session, link, second, epoch, uses>>
ofGuests == <<request, profile, open, invoiced, number, served, missed>>
ofPrices == <<type, country, rule, pricing, priced>>
ofPromotions == <<promotion, attached, price, now, swept, pricedAt, late>>
ofAccess == <<account, token, exchange, completed, socket, received, listed,
              note, mailing, posting, fit, dropped, breach>>
ofCatalogue == <<category, subcategory, listing, saved, toggled, visits, lost>>
vars == <<work, ofSessions, ofGuests, ofPrices, ofPromotions, ofAccess, ofCatalogue, rate,
          task, started, disturbed>>

S == INSTANCE Sessions WITH MaxTime <- MaxSecond, MaxRequests <- MaxSignIns
G == INSTANCE Guests WITH Accounts <- Users, Listings <- Vehicles, Requests <- Inquiries
P == INSTANCE Prices WITH Discounts <- Amounts, MaxRequests <- MaxPricings
C == INSTANCE Promotions WITH Promotions <- Campaigns, Prices <- Francs, Rates <- Quotes,
                              MaxTime <- MaxDay, MaxRequests <- MaxCampaigns
A == INSTANCE Access WITH MaxRequests <- MaxCalls
T == INSTANCE Catalogue WITH Buyers <- Users, MaxRequests <- MaxVisits

ASSUME MarketBoundsOK ==
  /\ {MaxSecond, MaxInvoices, MaxDay, MaxSignIns, MaxPricings, MaxCampaigns,
      MaxCalls, MaxVisits} \subseteq Nat
  /\ Terms \subseteq P!TermsType /\ Terms # {} /\ Channels \subseteq P!SellerType
  /\ Columns \subseteq {"type", "country", "active", "terms"}
  /\ Held \subseteq Roles /\ None \notin Asked
  /\ Inputs \cup Amounts \cup Francs \cup Figures \subseteq Nat
  /\ Rates \cup Quotes \cup {Fine} \subseteq Nat \ {0} /\ Rates # {} /\ Quotes # {}
  /\ Discounts \subseteq [percent : Nat \cup {None}, amount : Nat \cup {None}]
  /\ Users \cap Links = {} /\ IsFiniteSet(Listings) /\ IsFiniteSet(Campaigns)
  /\ "empty" \notin Categories \cup Subcategories \cup Listings
  /\ None \notin Int
  /\ None \notin Users \cup Links \cup Vehicles \cup Listings \cup Inquiries \cup Rules
                   \cup Campaigns \cup Sockets \cup Notes \cup Categories
                   \cup Subcategories

NoSessions == /\ user = None /\ session = None /\ link = None
              /\ second = None /\ epoch = None /\ uses = None
NoGuests == /\ request = None /\ profile = None /\ open = None /\ invoiced = None
            /\ number = None /\ served = None /\ missed = None
NoPrices == type = None /\ country = None /\ rule = None /\ pricing = None /\ priced = None
NoPromotions == /\ promotion = None /\ attached = None /\ price = None /\ now = None
                /\ swept = None /\ pricedAt = None /\ late = None

NoAccess == /\ account = None /\ token = None /\ exchange = None /\ completed = None
            /\ socket = None /\ received = None /\ listed = None /\ note = None
            /\ mailing = None /\ posting = None /\ fit = None /\ dropped = None /\ breach = None
NoCatalogue == /\ category = None /\ subcategory = None /\ listing = None /\ saved = None
               /\ toggled = None /\ visits = None /\ lost = None

Init ==
  \/ /\ work = "sessions" /\ S!Init /\ rate = None
     /\ NoGuests /\ NoPrices /\ NoPromotions /\ NoAccess /\ NoCatalogue
  \/ /\ work = "guests" /\ G!Init /\ rate = None /\ started = 0 /\ disturbed = {}
     /\ NoSessions /\ NoPrices /\ NoPromotions /\ NoAccess /\ NoCatalogue
  \/ /\ work = "prices" /\ P!Init
     /\ NoSessions /\ NoGuests /\ NoPromotions /\ NoAccess /\ NoCatalogue
  \/ /\ work = "promotions" /\ C!Init /\ disturbed = {}
     /\ NoSessions /\ NoGuests /\ NoPrices /\ NoAccess /\ NoCatalogue
  \/ /\ work = "access" /\ A!Init /\ rate = None /\ disturbed = {}
     /\ NoSessions /\ NoGuests /\ NoPrices /\ NoPromotions /\ NoCatalogue
  \/ /\ work = "catalogue" /\ T!Init /\ rate = None
     /\ NoSessions /\ NoGuests /\ NoPrices /\ NoPromotions /\ NoAccess

Next ==
  \/ /\ work = "sessions" /\ S!Next
     /\ UNCHANGED <<work, rate, ofGuests, ofPrices, ofPromotions, ofAccess, ofCatalogue>>
  \/ /\ work = "guests" /\ G!Next
     /\ UNCHANGED <<work, rate, started, disturbed,
                    ofSessions, ofPrices, ofPromotions, ofAccess, ofCatalogue>>
  \/ /\ work = "prices" /\ P!Next
     /\ UNCHANGED <<work, ofSessions, ofGuests, ofPromotions, ofAccess, ofCatalogue>>
  \/ /\ work = "promotions" /\ C!Next
     /\ UNCHANGED <<work, disturbed, ofSessions, ofGuests, ofPrices, ofAccess, ofCatalogue>>
  \/ /\ work = "access" /\ A!Next
     /\ UNCHANGED <<work, rate, disturbed, ofSessions, ofGuests, ofPrices, ofPromotions, ofCatalogue>>
  \/ /\ work = "catalogue" /\ T!Next
     /\ UNCHANGED <<work, rate, ofSessions, ofGuests, ofPrices, ofPromotions, ofAccess>>

Spec == Init /\ [][Next]_vars

-----------------------------------------------------------------------------
(* Properties of the part at work; its module says what they are about *)

\* The rows and tasks of the part at work are well formed: Sessions!TypeOK, Guests!TypeOK,
\* Prices!TypeOK, Promotions!TypeOK, Access!TypeOK, Catalogue!TypeOK.
TypeOK ==
  /\ work = "sessions" => S!TypeOK
  /\ work = "guests" => G!TypeOK
  /\ work = "prices" => P!TypeOK
  /\ work = "promotions" => C!TypeOK
  /\ work = "access" => A!TypeOK
  /\ work = "catalogue" => T!TypeOK

\* An account has one session at most, unless requests about it overlap, and a reset of
\* the password, a change of roles and a deactivation end every open session.
SessionsEnd == work = "sessions" => S!SessionsEnd /\ S!OneSession

\* A link sent by e-mail works once, unless two requests with it overlap; a code of the
\* sign-in through Google works once.
LinksWorkOnce ==
  /\ work = "sessions" => S!LinksWorkOnce
  /\ work = "access" => A!CodesWorkOnce

\* A visitor's inquiries to buy become invoices when it has an account and a profile.
BuyersAreInvoiced == work = "guests" => G!BuyersAreInvoiced

\* A listing linked to a pricing rule has the price the rule gives now.
PricesFollowTheirRule == work = "prices" => P!PricesFollowTheirRule

\* Prices left in dollars are shown at the frozen rate, prices in francs as computed.
DisplayFollowsRate == work = "prices" => P!DisplayFollowsRate

\* A promotion that had ended when the nightly job last ran is not active.
EndedIsInactive == work = "promotions" => C!EndedIsInactive

\* The promotional price of a listing is the lowest its promotions in force give.
BestIsShown == work = "promotions" => C!BestIsShown

\* Requests are served and mails sent by what the account has been since they came up, not
\* by what its token says.
RightsAreCurrent == work = "access" => A!RightsAreCurrent

\* A connected client that has fetched its list was told every notification of its user.
InboxIsComplete == work = "access" => A!InboxIsComplete

\* Changes of categories and subcategories leave every listing in a place that fits, and
\* what a list of the marketplace shows can be opened and found.
TreeIsKept == work = "catalogue" => T!TreeIsKept /\ T!ListedOpens

\* No visit and no toggle of a flag is lost.
VisitsAndTogglesCount == work = "catalogue" => T!VisitsAndTogglesCount
=============================================================================
