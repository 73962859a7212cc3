------------------------------ MODULE Listings ------------------------------
(***************************************************************************)
(* ListingsService: the life of a vehicle listing, from the draft through  *)
(* review to the marketplace, with its photos, its inventory stage, and    *)
(* the sales channel and price inputs that follow the stage.               *)
(*                                                                         *)
(* As in Commerce a handler is a task that reads, awaits and writes later  *)
(* by id.  updateCreatedByAdmin writes in a READ COMMITTED transaction of  *)
(* several statements: its task is "open" while its writes wait for the    *)
(* commit, and holds the locks of the rows it has written.                 *)
(***************************************************************************)
EXTENDS Integers, FiniteSets

CONSTANTS
  Listings,
  Photos,      \* ids of photo rows
  PhotoLimit,  \* most photos of a listing (20 in the code)
  MaxChanges,  \* kinds of change in one administrator's edit (bound)
  Handlers,    \* requests that may be in progress at once
  None         \* no photo, no listing

ASSUME NoneIsNew == None \notin Photos \cup Listings
ASSUME ListingBoundsOK ==
  PhotoLimit \in Nat \ {0} /\ MaxChanges \in Nat /\ IsFiniteSet(Photos)

ListingStatus ==
  {"DRAFT", "PENDING_REVIEW", "APPROVED", "PUBLISHED", "RESERVED", "SOLD",
   "REJECTED", "SUSPENDED", "EXPIRED", "ARCHIVED"}

MARKETPLACE_SELLER_TYPES == {"LOCAL_SELLER", "INTERNATIONAL_SELLER"}
ADMIN_ONLY_SELLER_TYPES == {"UZA_RWANDA_STOCK", "UZA_CHINA_SOURCING"}
SellerType == MARKETPLACE_SELLER_TYPES \cup ADMIN_ONLY_SELLER_TYPES

ALLOWED_TRANSITIONS ==
  [DRAFT |-> {"PENDING_REVIEW"},
   PENDING_REVIEW |-> {"APPROVED", "REJECTED"},
   APPROVED |-> {"PUBLISHED", "REJECTED"},
   PUBLISHED |-> {"RESERVED", "SOLD", "SUSPENDED", "EXPIRED", "ARCHIVED"},
   RESERVED |-> {"PUBLISHED", "SOLD"},
   REJECTED |-> {"DRAFT"},
   SUSPENDED |-> {"PUBLISHED"},
   SOLD |-> {"ARCHIVED"},
   EXPIRED |-> {"DRAFT"},
   ARCHIVED |-> {}]

\* assertAdminManualStatusChange: an administrator's edit may also resubmit.
AdminMayChange(from, to) ==
  to \in ALLOWED_TRANSITIONS[from] \/ <<from, to>> = <<"REJECTED", "PENDING_REVIEW">>

STAGE_ORDER == <<"CHINA_UNPAID", "IN_TRANSIT", "AT_PORT", "KIGALI_STOCK">>
ListingInventoryStage == {STAGE_ORDER[k] : k \in 1 .. 4}

DefaultInventoryStage(channel) ==
  IF channel \in {"UZA_RWANDA_STOCK", "LOCAL_SELLER"} THEN "KIGALI_STOCK"
                                                      ELSE "CHINA_UNPAID"

\* assertInventoryStageTransition: one stage forwards or backwards.
IsStageMove(from, to) ==
  \E k \in 1 .. 3 : {STAGE_ORDER[k], STAGE_ORDER[k + 1]} = {from, to} /\ from # to

\* assertListingPricingInput: the price a listing of a channel is computed from.
PriceInputOf(channel) ==
  CASE channel = "UZA_RWANDA_STOCK" -> "base"
    [] channel = "LOCAL_SELLER" -> "payout"
    [] OTHER -> "fob"

VARIABLES
  listing,    \* rows of the listing table, with their photos and pricing
  task,       \* the handlers in progress
  revised,    \* history: listings changed (stage aside) since their dealer submitted them
  contended,  \* history: what two tasks of a listing were at work on at once
  died        \* history: listings whose repricing a handler died before

vars == <<listing, task, revised, contended, died>>
history == <<revised, contended, died>>

Absent ==
  [status |-> "ABSENT", maker |-> "none", channel |-> "none", profile |-> "none",
   stage |-> "none", withdrawn |-> FALSE, photos |-> {},
   primary |-> {}, priced |-> {}]

Idle ==
  [pc |-> "idle", on |-> None, to |-> "none", channel |-> "none", same |-> FALSE,
   fields |-> FALSE, prices |-> FALSE, remove |-> {}, add |-> {}, pick |-> None, unset |-> {},
   set |-> {}]

Init ==
  /\ listing = [l \in Listings |-> Absent]
  /\ task = [h \in Handlers |-> Idle]
  /\ revised = {}
  /\ contended = [l \in Listings |-> {}]
  /\ died = {}

-----------------------------------------------------------------------------
At(h, pc) == task[h].pc = pc
Finish(h) == task' = [task EXCEPT ![h] = Idle]
Goto(h, pc) == task' = [task EXCEPT ![h].pc = pc]

Exists(l) == listing[l].status \in ListingStatus
Live(l) == Exists(l) /\ ~listing[l].withdrawn
\* getOwnedListing: the seller finds it through the marketplace profile.
Owned(l) == Live(l) /\ listing[l].profile = "market"

Busy(l) == {h \in Handlers : task[h].on = l}

\* What a task in control state pc relies on between its reads and its writes: the
\* status (and with it the photos) or the sales channel (and with it the stage).
Concerns(pc) ==
  {c \in {"status", "channel"} :
     \/ c = "status" /\ pc \notin {"idle", "delete", "advance", "reprice"}
     \/ c = "channel" /\ pc \in {"update", "advance", "reprice"}}

Contend(l, concerns) ==
  contended' = [contended EXCEPT
    ![l] = @ \cup (concerns \cap UNION {Concerns(task[g].pc) : g \in Busy(l)})]

\* Handler h starts the task t, which works on a listing.
Start(h, t) ==
  /\ At(h, "idle")
  /\ task' = [task EXCEPT ![h] = t]
  /\ Contend(t.on, Concerns(t.pc))
  /\ UNCHANGED <<listing, revised, died>>

WritesFields(t) == t.fields \/ ~t.same

\* The row lock of listing l: an open edit that changes its fields has taken it.
RowFree(h, l) ==
  \A g \in Busy(l) \ {h} : ~(At(g, "open") /\ WritesFields(task[g]))

PhotoRows(t) == t.remove \cup t.unset \cup t.set

\* The row locks of the photos: no other open edit of the listing has written them.
PhotosFree(h, l, rows) ==
  \A g \in Busy(l) \ {h} : At(g, "open") => PhotoRows(task[g]) \cap rows = {}

\* Handler h writes row to its listing, if that has not been deleted meanwhile.
Write(h, row) ==
  LET l == task[h].on IN
  /\ RowFree(h, l)
  /\ listing' = IF Exists(l) THEN [listing EXCEPT ![l] = row] ELSE listing

Row(h) == listing[task[h].on]

\* Ids that no photo and no request in progress uses.
FreshPhotos ==
  Photos \ UNION ({listing[l].photos : l \in Listings}
                  \cup {task[h].add \cup task[h].remove \cup {task[h].pick} : h \in Handlers})
Upto(n, S) == {T \in SUBSET S : Cardinality(T) <= n}

-----------------------------------------------------------------------------
(* createForSeller and createByAdmin *)

NewRow(maker, channel, profile, status) ==
  [Absent EXCEPT !.status = status, !.maker = maker, !.channel = channel,
     !.profile = profile, !.stage = DefaultInventoryStage(channel),
     !.priced = {PriceInputOf(channel)}]

CreateForSeller(l) ==
  /\ listing[l] = Absent
  /\ \E channel \in MARKETPLACE_SELLER_TYPES :
       listing' = [listing EXCEPT ![l] = NewRow("seller", channel, "market", "DRAFT")]
  /\ UNCHANGED <<task, history>>

CreateByAdmin(l) ==
  /\ listing[l] = Absent
  /\ \E channel \in ADMIN_ONLY_SELLER_TYPES, status \in {"DRAFT", "PENDING_REVIEW"},
        ps \in Upto(PhotoLimit, FreshPhotos) :
       /\ status = "PENDING_REVIEW" => ps # {}
       /\ \E first \in IF ps = {} THEN {{}} ELSE {{p} : p \in ps} :
            listing' = [listing EXCEPT ![l] =
              [NewRow("admin", channel, channel, status)
                 EXCEPT !.photos = ps, !.primary = first]]
  /\ UNCHANGED <<task, history>>

-----------------------------------------------------------------------------
(* The seller's handlers: updateOwn, deleteOwn, addPhotos, submitForReview *)

BeginUpdateOwnAny(h, l) ==   \* faulty: edits a listing under review
  /\ Owned(l) /\ listing[l].status \in {"DRAFT", "REJECTED", "PENDING_REVIEW"}
  /\ Start(h, [Idle EXCEPT !.pc = "update", !.on = l, !.same = TRUE])

\* The edit keeps the channel (same) or names another, and computes the prices, if it
\* gives any, for that channel.
BeginUpdateOwn(h, l) ==
  /\ Owned(l) /\ listing[l].status \in {"DRAFT", "REJECTED"}
  /\ \E channel \in MARKETPLACE_SELLER_TYPES, same, prices \in BOOLEAN :
       /\ same => channel = listing[l].channel
       /\ Start(h, [Idle EXCEPT !.pc = "update", !.on = l, !.same = same, !.prices = prices,
                      !.channel = IF same /\ ~prices THEN "none" ELSE channel])

CommitUpdateOwn(h) ==
  /\ At(h, "update")
  /\ LET t == task[h] IN
     Write(h, [Row(h) EXCEPT
       !.channel = IF t.same THEN @ ELSE t.channel,
       !.priced = IF t.prices THEN @ \cup {PriceInputOf(t.channel)} ELSE @])
  /\ revised' = revised \cup {task[h].on}
  /\ Finish(h)
  /\ UNCHANGED <<contended, died>>

BeginDeleteOwn(h, l) ==
  /\ Owned(l) /\ listing[l].status = "DRAFT"
  /\ Start(h, [Idle EXCEPT !.pc = "withdraw", !.on = l])

CommitDeleteOwn(h) ==
  /\ At(h, "withdraw")
  /\ Write(h, [Row(h) EXCEPT !.withdrawn = TRUE])
  /\ Finish(h)
  /\ UNCHANGED history

BeginAddPhotos(h, l) ==
  /\ Owned(l) /\ listing[l].status \in {"DRAFT", "REJECTED"}
  /\ \E ps \in Upto(PhotoLimit, FreshPhotos) \ {{}} :
       Start(h, [Idle EXCEPT !.pc = "countPhotos", !.on = l, !.add = ps])

CountPhotos(h) ==
  /\ At(h, "countPhotos")
  /\ IF Cardinality(Row(h).photos) + Cardinality(task[h].add) > PhotoLimit
       THEN Finish(h) ELSE Goto(h, "addPhotos")
  /\ UNCHANGED <<listing, history>>

\* The controller marks the first file of an upload primary, whatever is there.
CommitAddPhotos(h) ==
  /\ At(h, "addPhotos")
  /\ \E first \in task[h].add :
       listing' = IF Exists(task[h].on)
         THEN [listing EXCEPT ![task[h].on].photos = @ \cup task[h].add,
                              ![task[h].on].primary = @ \cup {first}]
         ELSE listing
  /\ revised' = revised \cup {task[h].on}
  /\ Finish(h)
  /\ UNCHANGED <<contended, died>>

BeginSubmitForReview(h, l) ==
  /\ Owned(l)
  /\ "PENDING_REVIEW" \in ALLOWED_TRANSITIONS[listing[l].status]
  /\ Start(h, [Idle EXCEPT !.pc = "countSubmit", !.on = l])

CountSubmit(h) ==
  /\ At(h, "countSubmit")
  /\ IF Row(h).photos = {} THEN Finish(h) ELSE Goto(h, "submit")
  /\ UNCHANGED <<listing, history>>

CommitSubmitForReview(h) ==
  /\ At(h, "submit")
  /\ Write(h, [Row(h) EXCEPT !.status = "PENDING_REVIEW"])
  /\ revised' = revised \ {task[h].on}
  /\ Finish(h)
  /\ UNCHANGED <<contended, died>>

-----------------------------------------------------------------------------
(* The administrator's decisions: adminApprove, adminPublish, adminUnpublish, *)
(* adminReject, and adminHardDelete                                           *)

Decisions == {"APPROVED", "PUBLISHED", "SUSPENDED", "REJECTED"}

BeginDecision(h, l) ==
  /\ Live(l)
  /\ \E to \in Decisions \cap ALLOWED_TRANSITIONS[listing[l].status] :
       Start(h, [Idle EXCEPT !.pc = "decide", !.on = l, !.to = to])

CommitDecision(h) ==
  /\ At(h, "decide")
  /\ Write(h, [Row(h) EXCEPT !.status = task[h].to])
  /\ Finish(h)
  /\ UNCHANGED history

BeginHardDelete(h, l) ==
  /\ Live(l)
  /\ Start(h, [Idle EXCEPT !.pc = "delete", !.on = l])

\* The photos, specs and pricing go with the row; its id is never used again.
CommitHardDelete(h) ==
  /\ At(h, "delete")
  /\ PhotosFree(h, task[h].on, Row(h).photos)
  /\ Write(h, [Absent EXCEPT !.status = "GONE"])
  /\ Finish(h)
  /\ UNCHANGED history

\* Cancelling or expiring an invoice releases the listing it had reserved.
ReleaseListing(l) ==
  /\ Exists(l) /\ listing[l].status = "RESERVED"
  /\ RowFree(None, l)
  /\ listing' = [listing EXCEPT ![l].status = "PUBLISHED"]
  /\ Contend(l, {"status"})
  /\ UNCHANGED <<task, revised, died>>

-----------------------------------------------------------------------------
(* updateCreatedByAdmin: the administrator edits a platform listing *)

ChangeKinds == {"fields", "status", "prices", "remove", "add", "pick"}
EditKinds == Upto(MaxChanges, ChangeKinds) \ {{}}

\* The listing is read and the changes worked out: its fields, a status (to), the prices
\* (for the channel read), photos to remove and to add, a new primary photo to pick.
BeginEdit(h, l) ==
  LET row == listing[l] IN
  /\ Live(l)
  /\ row.maker = "admin" /\ row.channel \in ADMIN_ONLY_SELLER_TYPES
  /\ row.status # "SOLD"
  /\ \E kinds \in EditKinds :
       /\ \E to \in IF "status" \in kinds
                    THEN {s \in ListingStatus : AdminMayChange(row.status, s)}
                    ELSE {row.status},
             remove \in IF "remove" \in kinds THEN (SUBSET row.photos) \ {{}} ELSE {{}},
             add \in IF "add" \in kinds THEN Upto(PhotoLimit, FreshPhotos) \ {{}} ELSE {{}},
             pick \in IF "pick" \in kinds THEN {p \in row.photos : row.primary # {p}}
                                         ELSE {None} :
            Start(h, [Idle EXCEPT !.pc = "edit", !.on = l, !.to = to,
                        !.same = ("status" \notin kinds), !.fields = ("fields" \in kinds),
                        !.prices = ("prices" \in kinds),
                        !.channel = IF "prices" \in kinds THEN row.channel ELSE "none",
                        !.remove = remove, !.add = add, !.pick = pick])

\* The primary flags an edit clears and sets when its statements leave the photos
\* left: a picked photo takes the flag; removing the primary photo moves the flag to
\* another one; an added photo gets it when no photo has it.
ClearedFlags(t, left, primary) ==
  IF t.pick # None \/ primary \cap t.remove # {} THEN left ELSE {}

\* The choices for the flag an edit sets: which photo comes first is not modelled.
NewFlags(t, left, primary) ==
  LET takers == IF left = {} THEN t.add
                ELSE IF t.pick # None THEN {t.pick}
                ELSE IF primary \cap t.remove # {} THEN left
                ELSE IF primary = {} THEN t.add ELSE {}
  IN IF takers = {} THEN {{}} ELSE {{p} : p \in takers}

\* The statements of the transaction, on the rows committed so far; it aborts when a
\* photo is gone, or there would be too many, or fewer than atLeast would be left.
\* Changes to the listing's own fields come first and take its row lock.
EditOf(h, atLeast) ==
  /\ At(h, "edit")
  /\ LET t == task[h]
         left == Row(h).photos \ t.remove
         primary == Row(h).primary
         count == Cardinality(left) + Cardinality(t.add)
         unset == ClearedFlags(t, left, primary)
     IN /\ WritesFields(t) => RowFree(h, t.on)
        /\ IF /\ Exists(t.on)
              /\ t.remove \subseteq Row(h).photos
              /\ left # {} => t.pick \in left \cup {None}
              /\ t.add # {} => count <= PhotoLimit
              /\ count >= atLeast
           THEN \E set \in NewFlags(t, left, primary) :
                  /\ PhotosFree(h, t.on, t.remove \cup unset \cup set)
                  /\ task' = [task EXCEPT ![h] =
                       [t EXCEPT !.pc = "open", !.unset = unset, !.set = set]]
           ELSE Finish(h)
  /\ UNCHANGED <<listing, history>>

OpenEditUncounted(h) == EditOf(h, 0)   \* faulty: may remove every photo

OpenEdit(h) == EditOf(h, 1)

CommitEditFlagged(h) ==   \* faulty: a removed photo stays the primary one
  /\ At(h, "open")
  /\ LET t == task[h] IN
     Write(h, [Row(h) EXCEPT !.photos = (@ \ t.remove) \cup t.add,
                             !.primary = (@ \ t.unset) \cup t.set])
  /\ Finish(h)
  /\ UNCHANGED history

\* The last statement stamps the listing when nothing had locked it yet; then commit.
CommitEdit(h) ==
  /\ At(h, "open")
  /\ LET t == task[h] IN
     Write(h, [Row(h) EXCEPT
       !.status = IF t.same THEN @ ELSE t.to,
       !.priced = IF t.prices THEN @ \cup {PriceInputOf(t.channel)} ELSE @,
       !.photos = (@ \ t.remove) \cup t.add,
       !.primary = (@ \ (t.remove \cup t.unset)) \cup t.set])
  /\ Finish(h)
  /\ UNCHANGED history

-----------------------------------------------------------------------------
(* advanceInventoryStage and migratePricingForInventoryChannel *)

\* The channel a stage move takes a listing to.
ChannelAfter(row, stage) ==
  CASE stage = "KIGALI_STOCK" -> "UZA_RWANDA_STOCK"
    [] stage # "KIGALI_STOCK" /\ row.stage = "KIGALI_STOCK" -> "UZA_CHINA_SOURCING"
    [] OTHER -> "unchanged"

\* A request for the stage a Kigali listing is in repairs its channel and prices.
NeedsHealing(row) ==
  /\ row.stage = "KIGALI_STOCK"
  /\ row.channel = "UZA_CHINA_SOURCING" \/ "base" \notin row.priced

\* The task keeps the stage, whether it is the present one (same), and the channel.
BeginAdvance(h, l) ==
  /\ Live(l)
  /\ \E stage \in ListingInventoryStage :
       /\ \/ IsStageMove(listing[l].stage, stage)
          \/ stage = "KIGALI_STOCK" /\ NeedsHealing(listing[l])
       /\ Start(h, [Idle EXCEPT !.pc = "advance", !.on = l, !.to = stage,
                      !.same = (stage = listing[l].stage),
                      !.channel = ChannelAfter(listing[l], stage)])

Moves(h) == task[h].channel # "unchanged"
NewChannel(h) == IF Moves(h) THEN task[h].channel ELSE Row(h).channel
NewProfile(h) == IF Moves(h) THEN task[h].channel ELSE Row(h).profile

\* The update of the listing, which then reprices it or is done.  A move rewrites its
\* channel, seller and place, whoever made the listing and whatever its status.
WriteStage(h, channel, profile, reprices) ==
  /\ At(h, "advance")
  /\ Write(h, [Row(h) EXCEPT !.stage = IF task[h].same THEN @ ELSE task[h].to,
                             !.channel = channel, !.profile = profile])
  /\ IF reprices /\ Exists(task[h].on) THEN Goto(h, "reprice") ELSE Finish(h)
  /\ revised' = IF Moves(h) THEN revised \cup {task[h].on} ELSE revised
  /\ UNCHANGED <<contended, died>>

CommitAdvanceUnsold(h) ==   \* faulty: keeps the seller profile the listing had
  WriteStage(h, NewChannel(h), Row(h).profile, Moves(h))

CommitAdvanceUnpriced(h) ==   \* faulty: never migrates the pricing
  WriteStage(h, NewChannel(h), NewProfile(h), FALSE)

\* The platform's Seller profile of the new channel becomes the seller of the listing.
CommitAdvance(h) == WriteStage(h, NewChannel(h), NewProfile(h), Moves(h))

\* The pricing row is read and written without the listing.  A new price keeps every
\* input the row has, so the read and the write are one step.
Reprice(h) ==
  /\ At(h, "reprice")
  /\ LET t == task[h] IN
     listing' = IF Exists(t.on)
       THEN [listing EXCEPT ![t.on].priced = @ \cup {PriceInputOf(t.channel)}]
       ELSE listing
  /\ Finish(h)
  /\ UNCHANGED history

\* A failing query or process ends a handler; an open transaction is rolled back.
Crash(h) ==
  /\ ~At(h, "idle")
  /\ Finish(h)
  /\ died' = IF At(h, "reprice") THEN died \cup {task[h].on} ELSE died
  /\ UNCHANGED <<listing, revised, contended>>

-----------------------------------------------------------------------------
Begin(h) ==
  \E l \in Listings :
    \/ BeginUpdateOwn(h, l) \/ BeginDeleteOwn(h, l) \/ BeginAddPhotos(h, l)
    \/ BeginSubmitForReview(h, l) \/ BeginDecision(h, l) \/ BeginHardDelete(h, l)
    \/ BeginEdit(h, l) \/ BeginAdvance(h, l)

Continue(h) ==
  \/ CommitUpdateOwn(h) \/ CommitDeleteOwn(h) \/ CountPhotos(h) \/ CommitAddPhotos(h)
  \/ CountSubmit(h) \/ CommitSubmitForReview(h) \/ CommitDecision(h)
  \/ CommitHardDelete(h) \/ OpenEdit(h) \/ CommitEdit(h)
  \/ CommitAdvance(h) \/ Reprice(h)

Next ==
  \/ \E l \in Listings : CreateForSeller(l) \/ CreateByAdmin(l) \/ ReleaseListing(l)
  \/ \E h \in Handlers : Begin(h) \/ Continue(h) \/ Crash(h)

Spec == Init /\ [][Next]_vars

\* The event loop resumes every pending await.
FairSpec == Spec /\ \A h \in Handlers : WF_vars(Continue(h))

\* Moreover a seller submits what may be submitted, and retries a request that failed.
EagerSpec ==
  /\ FairSpec
  /\ \A l \in Listings :
       /\ SF_vars(\E h \in Handlers : BeginSubmitForReview(h, l))
       /\ SF_vars(\E h \in Handlers : task[h].on = l /\ CountSubmit(h))
       /\ SF_vars(\E h \in Handlers : task[h].on = l /\ CommitSubmitForReview(h))

-----------------------------------------------------------------------------
(* Properties *)

RowType ==
  [status : ListingStatus \cup {"ABSENT", "GONE"}, maker : {"none", "seller", "admin"},
   channel : SellerType \cup {"none"},
   profile : ADMIN_ONLY_SELLER_TYPES \cup {"none", "market"},
   stage : ListingInventoryStage \cup {"none"}, withdrawn : BOOLEAN,
   photos : SUBSET Photos, primary : SUBSET Photos,
   priced : SUBSET {"base", "fob", "payout"}]

TaskType ==
  [pc : {"idle", "update", "withdraw", "countPhotos", "addPhotos", "countSubmit",
         "submit", "decide", "delete", "edit", "open", "advance", "reprice"},
   on : Listings \cup {None},
   to : ListingStatus \cup ListingInventoryStage \cup {"none"},
   channel : SellerType \cup {"none", "unchanged"},
   same : BOOLEAN, fields : BOOLEAN, prices : BOOLEAN,
   remove : SUBSET Photos, add : SUBSET Photos, pick : Photos \cup {None},
   unset : SUBSET Photos, set : SUBSET Photos]

\* The rows and the tasks are well formed, and a primary photo is on its listing.
TypeOK ==
  /\ listing \in [Listings -> RowType]
  /\ task \in [Handlers -> TaskType]
  /\ revised \subseteq Listings
  /\ contended \in [Listings -> SUBSET {"status", "channel"}]
  /\ died \subseteq Listings
  /\ \A l \in Listings : listing[l].primary \subseteq listing[l].photos

\* The listings that no two requests have raced on in the matter c.
Quiet(c) == {l \in Listings : c \notin contended[l]}

\* What a dealer submitted is what is reviewed and then shown in the dealer's name:
\* fields, channel, prices and photos of a dealer's listing stay as submitted from then
\* on, but for overlapping requests.  One thing changes them: a stage move into or out
\* of Kigali, which may hit any listing and makes it stock of the platform, sold by a
\* platform profile.
ShownAsSubmitted ==
  \A l \in Quiet("status") :
    listing[l].maker = "seller" /\ listing[l].profile = "market"
      /\ Exists(l) /\ listing[l].status \notin {"DRAFT", "REJECTED"}
        => l \notin revised

\* A listing that has left the draft has a photo and never more than the limit; a
\* platform listing with photos has exactly one primary, whatever was removed.
PhotosAreSound ==
  \A l \in Quiet("status") :
    /\ Exists(l) /\ listing[l].status # "DRAFT" => listing[l].photos # {}
    /\ Cardinality(listing[l].photos) <= PhotoLimit
    /\ listing[l].maker = "admin" /\ listing[l].photos # {}
         => Cardinality(listing[l].primary) = 1

\* The sales channel of platform stock says where the vehicle is: Rwanda stock is in
\* Kigali and China sourcing is not.
ChannelFitsStage ==
  \A l \in Quiet("channel") :
    /\ listing[l].channel = "UZA_RWANDA_STOCK" => listing[l].stage = "KIGALI_STOCK"
    /\ listing[l].channel = "UZA_CHINA_SOURCING" => listing[l].stage # "KIGALI_STOCK"

\* A listing in a platform channel is sold by the platform's profile of that channel,
\* whichever requests overlap.
PlatformIsSeller ==
  \A l \in Listings :
    listing[l].channel \in ADMIN_ONLY_SELLER_TYPES
      => listing[l].profile = listing[l].channel

Repricing(l) == \E h \in Busy(l) : At(h, "reprice")

\* Platform stock has the price its channel is computed from, except while the handler
\* that moved it is about to reprice it, or has died before it did.
PlatformIsPriced ==
  \A l \in Quiet("channel") \ died :
    Exists(l) /\ listing[l].channel \in ADMIN_ONLY_SELLER_TYPES /\ ~Repricing(l)
      => PriceInputOf(listing[l].channel) \in listing[l].priced

\* A listing its seller has deleted is still a draft: nobody reviews or publishes it.
WithdrawnIsDraft ==
  \A l \in Quiet("status") : listing[l].withdrawn => listing[l].status = "DRAFT"

\* Nothing changes between the submission of a listing and its end as a dealer's offer,
\* not even by a deletion that was under way.
SubmissionHolds == ShownAsSubmitted /\ WithdrawnIsDraft

\* Channel, inventory stage, seller and price of platform stock fit together, along
\* whatever sequence of moves.
PlatformStockFits == ChannelFitsStage /\ PlatformIsSeller /\ PlatformIsPriced

StatusStep ==
  \A l \in Quiet("status")' :
    LET from == listing[l].status
        to == listing'[l].status
    IN from \in ListingStatus /\ to \in ListingStatus /\ from # to
         => IF listing[l].maker = "admin" THEN AdminMayChange(from, to)
                                          ELSE to \in ALLOWED_TRANSITIONS[from]

\* A listing goes through its statuses along the table, and only an administrator's
\* listing goes back from REJECTED to review.
StatusFollowsTable == [][StatusStep]_vars

\* A vehicle that becomes Rwanda stock gets its Rwanda price, unless the handler dies
\* or the listing is deleted.
StockGetsPriced ==
  \A l \in Listings :
    listing[l].channel = "UZA_RWANDA_STOCK"
      ~> ("base" \in listing[l].priced \/ l \in died \/ ~Exists(l))

\* "seller can fix and resubmit": a dealer's rejected listing gets out of REJECTED
\* when its dealer keeps submitting it, unless it is taken away.
RejectedCanBeResubmitted ==
  \A l \in Listings :
    listing[l].status = "REJECTED" /\ Owned(l)
      ~> (listing[l].status # "REJECTED" \/ ~Owned(l))
=============================================================================
