------------------------------- MODULE Guests -------------------------------
(***************************************************************************)
(* What becomes of the inquiries and fleet requests visitors submit with   *)
(* their e-mail address: every registration and sign-in attaches them to   *)
(* the account with that address (AuthService.linkGuestActivityToUser),    *)
(* and a linked inquiry to buy becomes an invoice once the account has a   *)
(* buyer profile (InvoicesService.fulfillPendingBuyInquiries, called by    *)
(* linkGuestActivityToUser and by UsersService.createBuyerProfile).        *)
(*                                                                         *)
(* An account stands for its address.  requestInvoice is told in full in   *)
(* module Commerce; here only its result, and the number it may lose to    *)
(* another request, matter.                                                *)
(***************************************************************************)
EXTENDS Integers

CONSTANTS
  Accounts, Listings,
  Requests,     \* rows of Inquiry and FleetRequest that may ever be created (bound)
  MaxInvoices,  \* invoices that may ever be created (bound)
  Handlers,     \* requests that may be in progress at once
  None          \* SQL null

Kinds == {"BUY", "BOOK", "fleet"}

VARIABLES
  request,    \* the rows: their kind, address, listing and user
  profile,    \* the accounts with a buyer profile
  open,       \* the listings that are PUBLISHED
  invoiced,   \* <<account, listing>> with an active invoice
  number,     \* the latest invoice number
  served,     \* history: <<account, listing>> ever invoiced
  missed,     \* history: <<account, listing>> a handler gave up or died on
  task

vars == <<request, profile, open, invoiced, number, served, missed, task>>

NoRequest == [kind |-> "none", email |-> None, listing |-> None, user |-> None]
Idle == [pc |-> "idle", user |-> None, left |-> {}, todo |-> {}, listing |-> None, no |-> 0]

Init ==
  /\ request = [r \in Requests |-> NoRequest]
  /\ profile = {}
  /\ open = Listings
  /\ invoiced = {}
  /\ number = 0
  /\ served = {}
  /\ missed = {}
  /\ task = [h \in Handlers |-> Idle]

-----------------------------------------------------------------------------
At(h, pc) == task[h].pc = pc
Goto(h, pc) == task' = [task EXCEPT ![h].pc = pc]
Finish(h) == task' = [task EXCEPT ![h] = Idle]

\* InquiriesService.submit and FleetService.submitRequest of a visitor.
SubmitAsGuest(r, kind, e, l) ==
  /\ request[r].kind = "none"
  /\ IF kind = "fleet" THEN l = None ELSE l \in open
  /\ request' = [request EXCEPT ![r] = [kind |-> kind, email |-> e, listing |-> l,
                                        user |-> None]]
  /\ UNCHANGED <<profile, open, invoiced, number, served, missed, task>>

-----------------------------------------------------------------------------
(* linkGuestActivityToUser *)

\* A registration or sign-in of account u has come to its guest activity.
BeginLink(h, u) ==
  /\ At(h, "idle")
  /\ task' = [task EXCEPT ![h] = [Idle EXCEPT !.pc = "link", !.user = u,
                                              !.left = {"inquiry", "fleet"}]]
  /\ UNCHANGED <<request, profile, open, invoiced, number, served, missed>>

Table(r) == IF request[r].kind = "fleet" THEN "fleet" ELSE "inquiry"

\* One of the two updates of the Promise.all.
LinkTable(h, table) ==
  LET u == task[h].user IN
  /\ At(h, "link") /\ table \in task[h].left
  /\ request' = [r \in Requests |->
       IF request[r].email = u /\ request[r].user = None /\ Table(r) = table
         THEN [request[r] EXCEPT !.user = u] ELSE request[r]]
  /\ task' = [task EXCEPT ![h].left = @ \ {table},
                          ![h].pc = IF task[h].left = {table} THEN "profile" ELSE "link"]
  /\ UNCHANGED <<profile, open, invoiced, number, served, missed>>

-----------------------------------------------------------------------------
(* createBuyerProfile *)

BeginCreateProfile(h, u) ==
  /\ At(h, "idle")
  /\ u \notin profile
  /\ task' = [task EXCEPT ![h] = [Idle EXCEPT !.pc = "create", !.user = u]]
  /\ UNCHANGED <<request, profile, open, invoiced, number, served, missed>>

CommitCreateProfileOnly(h) ==   \* faulty: leaves the inquiries to the next sign-in
  /\ At(h, "create")
  /\ Finish(h)
  /\ profile' = profile \cup {task[h].user}
  /\ UNCHANGED <<request, open, invoiced, number, served, missed>>

\* The unique userId refuses a second profile.
CommitCreateProfile(h) ==
  /\ At(h, "create")
  /\ IF task[h].user \in profile
       THEN Finish(h) /\ UNCHANGED profile
       ELSE Goto(h, "profile") /\ profile' = profile \cup {task[h].user}
  /\ UNCHANGED <<request, open, invoiced, number, served, missed>>

-----------------------------------------------------------------------------
(* fulfillPendingBuyInquiries *)

FindProfile(h) ==
  /\ At(h, "profile")
  /\ IF task[h].user \in profile THEN Goto(h, "inquiries") ELSE Finish(h)
  /\ UNCHANGED <<request, profile, open, invoiced, number, served, missed>>

\* Listings of the linked inquiries to buy.
Wanted(u) == {request[r].listing : r \in {q \in Requests : /\ request[q].user = u
                                                           /\ request[q].kind = "BUY"}}

FindInquiries(h) ==
  /\ At(h, "inquiries")
  /\ IF Wanted(task[h].user) = {} THEN Finish(h)
     ELSE task' = [task EXCEPT ![h].pc = "each", ![h].todo = Wanted(task[h].user)]
  /\ UNCHANGED <<request, profile, open, invoiced, number, served, missed>>

\* Handler h is done with listing l of its list.
GoOn(h, l) ==
  LET rest == task[h].todo \ {l} IN
  IF rest = {} THEN Finish(h)
  ELSE task' = [task EXCEPT ![h].pc = "each", ![h].todo = rest, ![h].listing = None,
                            ![h].no = 0]

\* A listing with an active invoice, or no longer published, is passed over.
CheckInvoice(h, l) ==
  LET u == task[h].user IN
  /\ At(h, "each") /\ l \in task[h].todo
  /\ IF <<u, l>> \in invoiced \/ l \notin open
       THEN GoOn(h, l)
       ELSE task' = [task EXCEPT ![h].pc = "invoice", ![h].listing = l, ![h].no = number + 1]
  /\ UNCHANGED <<request, profile, open, invoiced, number, served, missed>>

\* The unique number refuses an invoice whose number another request has taken; the error
\* is swallowed and the list goes on.
CommitInvoice(h) ==
  LET u == task[h].user  l == task[h].listing IN
  /\ At(h, "invoice")
  /\ IF task[h].no = number + 1
       THEN /\ number < MaxInvoices /\ number' = number + 1
            /\ invoiced' = invoiced \cup {<<u, l>>}
            /\ served' = served \cup {<<u, l>>}
            /\ UNCHANGED missed
       ELSE /\ missed' = missed \cup {<<u, l>>}
            /\ UNCHANGED <<number, invoiced, served>>
  /\ GoOn(h, l)
  /\ UNCHANGED <<request, profile, open>>

-----------------------------------------------------------------------------
(* The rest of the system *)

\* An invoice is cancelled or expires.
EndInvoice(u, l) ==
  /\ <<u, l>> \in invoiced
  /\ invoiced' = invoiced \ {<<u, l>>}
  /\ UNCHANGED <<request, profile, open, number, served, missed, task>>

\* A listing is suspended; it stays so (bound).
CloseListing(l) ==
  /\ l \in open
  /\ open' = open \ {l}
  /\ UNCHANGED <<request, profile, invoiced, number, served, missed, task>>

\* The process or a query fails: whatever the account still wants is left to its next
\* sign-in.
Crash(h) ==
  /\ ~At(h, "idle")
  /\ missed' = missed \cup {<<task[h].user, l>> : l \in Listings}
  /\ Finish(h)
  /\ UNCHANGED <<request, profile, open, invoiced, number, served>>

Continue(h) ==
  \/ \E table \in {"inquiry", "fleet"} : LinkTable(h, table)
  \/ CommitCreateProfile(h) \/ FindProfile(h) \/ FindInquiries(h)
  \/ \E l \in Listings : CheckInvoice(h, l)
  \/ CommitInvoice(h)

Begin(h) == \E u \in Accounts : BeginLink(h, u) \/ BeginCreateProfile(h, u)

Submit ==
  \E r \in Requests, kind \in Kinds, e \in Accounts, l \in Listings \cup {None} :
    SubmitAsGuest(r, kind, e, l)

Next ==
  \/ Submit
  \/ \E h \in Handlers : Begin(h) \/ Continue(h) \/ Crash(h)
  \/ \E u \in Accounts, l \in Listings : EndInvoice(u, l)
  \/ \E l \in Listings : CloseListing(l)

Spec == Init /\ [][Next]_vars

-----------------------------------------------------------------------------
(* Properties *)

\* A request is linked to the account with its own address only, and only listings are
\* invoiced that their account asked to buy.
TypeOK ==
  /\ \A r \in Requests :
       /\ request[r].kind \in Kinds \cup {"none"}
       /\ request[r].user \in {None, request[r].email}
  /\ profile \subseteq Accounts /\ open \subseteq Listings
  /\ invoiced \subseteq served
  /\ \A u \in Accounts, l \in Listings : <<u, l>> \in served => l \in Wanted(u) /\ u \in profile
  /\ number \in 0 .. MaxInvoices

Busy(u) == \E h \in Handlers : task[h].user = u

\* "buy inquiries become invoices once the buyer profile exists": whichever of a sign-in
\* and the creation of the profile sees the other, a linked inquiry to buy a published
\* listing has been invoiced when neither is in progress any more, unless a request for the
\* account died or lost its invoice number.
BuyersAreInvoiced ==
  \A u \in profile : ~Busy(u) =>
    \A l \in Wanted(u) \cap open : <<u, l>> \in served \cup missed
=============================================================================
