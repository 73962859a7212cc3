------------------------------- MODULE Parts --------------------------------
(***************************************************************************)
(* SellersService (registration by UsersService, verification, suspension) *)
(* and PartsService: what a verified seller offers, what an administrator  *)
(* reviews and what buyers then see.                                       *)
(*                                                                         *)
(* A part's content is what its row and photos show.  The history variable *)
(* changed holds the parts whose content their sellers have changed since  *)
(* a decision about them last read the row: not since an administrator     *)
(* looked at it, which the server is not told (an approval names the part, *)
(* not the content).  disturbed holds the rows two requests have           *)
(* overlapped on.                                                          *)
(***************************************************************************)
EXTENDS Integers

CONSTANTS
  Sellers, PartRows,
  MaxRequests,  \* requests sellers start in one behaviour (bound)
  Handlers,     \* requests that may be in progress at once
  None          \* SQL null: no seller, a part of the platform

SellerStatus == {"PENDING", "ACTIVE", "SUSPENDED", "REJECTED"}
PartStatus == {"PENDING_REVIEW", "APPROVED", "REJECTED"}

VARIABLES
  seller,     \* Seller rows and the role of their users
  part,       \* Part rows; "GONE" after the deletion
  changed,    \* history: parts changed since a decision read them
  task, started, disturbed

vars == <<seller, part, changed, task, started, disturbed>>

NoSeller == [status |-> "NONE", verified |-> FALSE, role |-> FALSE]
NoPart == [status |-> "ABSENT", active |-> FALSE, seller |-> None]
Idle == [pc |-> "idle", on |-> None, alone |-> TRUE, seller |-> None,
         photos |-> FALSE, verified |-> FALSE, to |-> "none", active |-> FALSE]

\* Nobody is registered yet, or every seller is verified.
Init ==
  /\ seller \in {[s \in Sellers |-> NoSeller],
                 [s \in Sellers |-> [status |-> "ACTIVE", verified |-> TRUE, role |-> TRUE]]}
  /\ part = [p \in PartRows |-> NoPart]
  /\ changed = {}
  /\ task = [h \in Handlers |-> Idle]
  /\ started = 0
  /\ disturbed = {}

-----------------------------------------------------------------------------
(* Requests *)

At(h, pc) == task[h].pc = pc
Goto(h, pc) == task' = [task EXCEPT ![h].pc = pc]
Finish(h) == task' = [task EXCEPT ![h] = Idle]

\* Handler h takes up request t; it and the ones on the same row are no longer alone.
Start(h, t) ==
  /\ At(h, "idle")
  /\ task' = [g \in Handlers |->
       CASE g = h -> [t EXCEPT !.alone = \A k \in Handlers : task[k].on # t.on]
         [] g # h /\ task[g].on = t.on -> [task[g] EXCEPT !.alone = FALSE]
         [] OTHER -> task[g]]
  /\ UNCHANGED <<seller, part, disturbed>>

StartRequest(h, t) ==
  /\ started < MaxRequests /\ started' = started + 1
  /\ Start(h, t)
  /\ UNCHANGED changed

StartDecision(h, t) == UNCHANGED started /\ Start(h, t)

Request(pc, on) == [Idle EXCEPT !.pc = pc, !.on = on]

Touch(h) ==
  disturbed' = IF task[h].alone THEN disturbed ELSE disturbed \cup {task[h].on}

WriteSeller(h, row) ==
  /\ seller' = [seller EXCEPT ![task[h].on] = row]
  /\ Finish(h) /\ Touch(h)
  /\ UNCHANGED <<part, changed, started>>

Fail(h) ==
  /\ Finish(h)
  /\ UNCHANGED <<seller, part, changed, started, disturbed>>

-----------------------------------------------------------------------------
(* Sellers *)

BeginRegisterSeller(h, s) ==
  /\ seller[s].status = "NONE"
  /\ StartRequest(h, Request("addRole", s))

\* The role is added before the profile exists.
AddSellerRole(h) ==
  /\ At(h, "addRole")
  /\ seller' = [seller EXCEPT ![task[h].on].role = TRUE]
  /\ Goto(h, "register")
  /\ UNCHANGED <<part, changed, started, disturbed>>

\* The unique channel key refuses a second profile.
CommitRegisterSeller(h) ==
  /\ At(h, "register")
  /\ IF seller[task[h].on].status = "NONE"
       THEN WriteSeller(h, [seller[task[h].on] EXCEPT !.status = "PENDING"])
       ELSE Fail(h)

BeginVerifySuspended(h, s) ==   \* faulty: verifies a suspended seller, too
  /\ seller[s].status # "NONE"
  /\ StartDecision(h, Request("verify", s))
  /\ UNCHANGED changed

BeginVerifySeller(h, s) ==
  /\ seller[s].status \in SellerStatus \ {"SUSPENDED"}
  /\ StartDecision(h, Request("verify", s))
  /\ UNCHANGED changed

CommitVerifySeller(h) ==
  /\ At(h, "verify")
  /\ WriteSeller(h, [status |-> "ACTIVE", verified |-> TRUE, role |-> TRUE])

BeginSuspendSeller(h, s) ==
  /\ seller[s].status \in SellerStatus \ {"SUSPENDED"}
  /\ StartDecision(h, Request("suspend", s))
  /\ UNCHANGED changed

CommitSuspendStatus(h) ==   \* faulty: leaves the seller verified
  /\ At(h, "suspend")
  /\ WriteSeller(h, [seller[task[h].on] EXCEPT !.status = "SUSPENDED"])

CommitSuspendSeller(h) ==
  /\ At(h, "suspend")
  /\ WriteSeller(h, [seller[task[h].on] EXCEPT !.status = "SUSPENDED", !.verified = FALSE])

BeginReactivateSeller(h, s) ==
  /\ seller[s].status = "SUSPENDED"
  /\ StartDecision(h, [Request("reactivate", s) EXCEPT !.verified = seller[s].verified])
  /\ UNCHANGED changed

CommitReactivateSeller(h) ==
  /\ At(h, "reactivate")
  /\ WriteSeller(h, [seller[task[h].on] EXCEPT
                       !.status = "ACTIVE", !.verified = task[h].verified])

\* assertSellerCanTrade
CanTrade(s) == seller[s].status = "ACTIVE" /\ seller[s].verified

-----------------------------------------------------------------------------
(* Parts *)

Exists(p) == part[p].status \in PartStatus

WritePart(h, p, row) ==
  /\ part' = [part EXCEPT ![p] = row]
  /\ UNCHANGED <<seller, started>>

\* The row is inserted a query after the seller has been checked.
BeginCreatePart(h, s, p) ==
  /\ CanTrade(s)
  /\ part[p].status = "ABSENT"
  /\ StartRequest(h, [Request("create", p) EXCEPT !.seller = s])

\* An administrator may create a part of the platform, or of any seller, suspended or not.
BeginAdminCreate(h, s, p) ==
  /\ s # None => seller[s].status # "NONE"
  /\ part[p].status = "ABSENT"
  /\ StartRequest(h, [Request("create", p) EXCEPT !.seller = s])

CommitCreateApproved(h) ==   \* faulty: what a verified seller offers is shown at once
  LET p == task[h].on IN
  /\ At(h, "create")
  /\ part[p].status = "ABSENT"
  /\ WritePart(h, p, [status |-> "APPROVED", active |-> TRUE, seller |-> task[h].seller])
  /\ changed' = changed \cup {p}
  /\ Finish(h) /\ UNCHANGED disturbed

CommitCreatePart(h) ==
  LET p == task[h].on IN
  /\ At(h, "create")
  /\ part[p].status = "ABSENT"
  /\ WritePart(h, p, [status |-> "PENDING_REVIEW", active |-> FALSE, seller |-> task[h].seller])
  /\ changed' = changed \cup {p}
  /\ Finish(h) /\ UNCHANGED disturbed

BeginUpdateOwn(h, p, photos) ==
  /\ part[p].seller # None /\ CanTrade(part[p].seller)
  /\ part[p].status \in {"PENDING_REVIEW", "REJECTED"}
  /\ StartRequest(h, [Request("update", p) EXCEPT !.photos = photos])

\* Handler h has written the part; its photos, if any, follow in a statement of their own.
ThenPhotos(h) == IF task[h].photos THEN Goto(h, "photos") ELSE Finish(h)

CommitUpdateOwn(h) ==
  LET p == task[h].on IN
  /\ At(h, "update") /\ Exists(p)
  /\ WritePart(h, p, [part[p] EXCEPT !.status = "PENDING_REVIEW", !.active = FALSE])
  /\ changed' = changed \cup {p}
  /\ ThenPhotos(h) /\ Touch(h)

AppendPhotos(h) ==
  /\ At(h, "photos") /\ Exists(task[h].on)
  /\ changed' = changed \cup {task[h].on}
  /\ Finish(h) /\ Touch(h)
  /\ UNCHANGED <<seller, part, started>>

BeginDeleteOwn(h, p) ==
  /\ part[p].seller # None /\ CanTrade(part[p].seller)
  /\ Exists(p)
  /\ StartRequest(h, Request("withdraw", p))

\* Only the visibility changes: the part stays in its status.
CommitDeleteOwn(h) ==
  LET p == task[h].on IN
  /\ At(h, "withdraw") /\ Exists(p)
  /\ WritePart(h, p, [part[p] EXCEPT !.active = FALSE])
  /\ Finish(h) /\ Touch(h) /\ UNCHANGED changed

\* adminApprove and adminReject read the row and its status; what the administrator saw is
\* an earlier answer, which a pending part may have left behind.
BeginReviewPart(h, p, to) ==
  /\ part[p].status = "PENDING_REVIEW"
  /\ StartDecision(h, [Request("review", p) EXCEPT !.to = to])
  /\ changed' = changed \ {p}

CommitReviewPart(h) ==
  LET p == task[h].on IN
  /\ At(h, "review") /\ Exists(p)
  /\ WritePart(h, p, [part[p] EXCEPT !.status = task[h].to,
                                     !.active = (task[h].to = "APPROVED")])
  /\ Finish(h) /\ Touch(h) /\ UNCHANGED changed

BeginSetActive(h, p, active) ==
  /\ Exists(p) /\ part[p].active # active
  /\ active => part[p].status = "APPROVED"
  /\ StartDecision(h, [Request("setActive", p) EXCEPT !.active = active])
  /\ UNCHANGED changed

CommitSetActive(h) ==
  LET p == task[h].on IN
  /\ At(h, "setActive") /\ Exists(p)
  /\ WritePart(h, p, [part[p] EXCEPT !.active = task[h].active])
  /\ Finish(h) /\ Touch(h) /\ UNCHANGED changed

\* What an administrator writes needs no review; it may hand the part to another seller.
BeginAdminUpdate(h, p, s) ==
  /\ Exists(p) /\ s # part[p].seller
  /\ s # None => seller[s].status # "NONE"
  /\ StartRequest(h, [Request("adminUpdate", p) EXCEPT !.seller = s])

CommitAdminUpdate(h) ==
  LET p == task[h].on IN
  /\ At(h, "adminUpdate") /\ Exists(p)
  /\ WritePart(h, p, [part[p] EXCEPT !.seller = IF task[h].seller = None THEN @
                                                ELSE task[h].seller])
  /\ Finish(h) /\ Touch(h) /\ UNCHANGED changed

BeginAdminDelete(h, p) ==
  /\ Exists(p)
  /\ StartDecision(h, Request("delete", p))
  /\ UNCHANGED changed

CommitAdminDelete(h) ==
  LET p == task[h].on IN
  /\ At(h, "delete") /\ Exists(p)
  /\ WritePart(h, p, [NoPart EXCEPT !.status = "GONE"])
  /\ changed' = changed \ {p}
  /\ Finish(h) /\ Touch(h)

\* An update by id of a part that has been deleted fails.
FailOnGone(h) ==
  /\ task[h].on \in PartRows /\ part[task[h].on].status = "GONE"
  /\ Fail(h)

\* findById: what a buyer is shown.
PublicParts == {p \in PartRows : part[p].status = "APPROVED" /\ part[p].active}

-----------------------------------------------------------------------------
(* The server *)

Crash(h) == ~At(h, "idle") /\ Fail(h)

BeginSellerStep(h, s) ==
  \/ BeginRegisterSeller(h, s) \/ BeginVerifySeller(h, s)
  \/ BeginSuspendSeller(h, s) \/ BeginReactivateSeller(h, s)

BeginPartStep(h, p) ==
  \/ \E s \in Sellers : BeginCreatePart(h, s, p)
  \/ \E s \in Sellers \cup {None} : BeginAdminCreate(h, s, p) \/ BeginAdminUpdate(h, p, s)
  \/ \E photos \in BOOLEAN : BeginUpdateOwn(h, p, photos)
  \/ BeginDeleteOwn(h, p)
  \/ \E to \in {"APPROVED", "REJECTED"} : BeginReviewPart(h, p, to)
  \/ \E active \in BOOLEAN : BeginSetActive(h, p, active)
  \/ BeginAdminDelete(h, p)

Continue(h) ==
  \/ AddSellerRole(h) \/ CommitRegisterSeller(h) \/ CommitVerifySeller(h)
  \/ CommitSuspendSeller(h) \/ CommitReactivateSeller(h)
  \/ CommitCreatePart(h) \/ CommitUpdateOwn(h) \/ AppendPhotos(h) \/ CommitDeleteOwn(h)
  \/ CommitReviewPart(h) \/ CommitSetActive(h) \/ CommitAdminUpdate(h)
  \/ CommitAdminDelete(h) \/ FailOnGone(h)

Next ==
  \E h \in Handlers :
    \/ \E s \in Sellers : BeginSellerStep(h, s)
    \/ \E p \in PartRows : BeginPartStep(h, p)
    \/ Continue(h)
    \/ Crash(h)

Spec == Init /\ [][Next]_vars

-----------------------------------------------------------------------------
(* Properties *)

TaskType ==
  [pc : {"idle", "addRole", "register", "verify", "suspend", "reactivate", "create",
         "update", "photos", "withdraw", "review", "setActive", "adminUpdate", "delete"},
   on : Sellers \cup PartRows \cup {None}, alone : BOOLEAN,
   seller : Sellers \cup {None}, photos : BOOLEAN, verified : BOOLEAN,
   to : PartStatus \cup {"none"}, active : BOOLEAN]

\* Rows and tasks are well formed, and a verified seller is active and holds the role.
TypeOK ==
  /\ seller \in [Sellers -> [status : SellerStatus \cup {"NONE"}, verified : BOOLEAN,
                             role : BOOLEAN]]
  /\ \A s \in Sellers : seller[s].verified => seller[s].status = "ACTIVE" /\ seller[s].role
  /\ part \in [PartRows -> [status : PartStatus \cup {"ABSENT", "GONE"}, active : BOOLEAN,
                            seller : Sellers \cup {None}]]
  /\ task \in [Handlers -> TaskType]

\* What buyers see of a part is the content its approval read, since a seller's change takes
\* the part off the market, unless another request on that part overlapped the decision.
PublicPartIsAsApproved == PublicParts \cap changed \subseteq disturbed

SuspensionStep ==
  \A s \in Sellers :
    seller[s].status = "SUSPENDED" /\ s \notin disturbed' => ~CanTrade(s)'

\* A suspended seller never trades again in one step: reactivation leaves it unverified, so
\* that an administrator has to verify it anew, unless a verification begun before the
\* suspension ends after it.
SuspensionHolds == [][SuspensionStep]_vars
=============================================================================
