------------------------------ MODULE Requests ------------------------------
(***************************************************************************)
(* What administrators do with the requests of visitors and buyers: fleet  *)
(* requests (FleetService), financing requests (FinancingService), energy  *)
(* requests (EnergyService) and inquiries (InquiriesService); and what     *)
(* they offer for them, banks and charging products.  Whose a guest's      *)
(* request is, is the matter of module Guests.                             *)
(*                                                                         *)
(* Every decision reads the row, checks its status where the code does,    *)
(* and updates it by id a query later.  disturbed holds the requests on    *)
(* which two decisions overlapped.                                         *)
(***************************************************************************)
EXTENDS Integers, FiniteSets

CONSTANTS
  Banks,        \* Bank rows, each active or not
  MaxRequests,  \* rows of each table that may ever be created (bound)
  MaxTables,    \* tables that get rows in one behaviour (bound)
  Handlers,     \* requests that may be in progress at once
  None          \* SQL null

FleetRequestStatus == {"SUBMITTED", "UNDER_REVIEW", "QUOTED", "APPROVED", "IN_PROGRESS",
                       "COMPLETED", "CANCELLED"}
FinancingStatus == {"SUBMITTED", "UNDER_REVIEW", "SENT_TO_BANK", "BANK_APPROVED",
                    "BANK_REJECTED", "CANCELLED"}
FinancingOutcome == {"BANK_APPROVED", "BANK_REJECTED"}
EnergyStatus == {"SUBMITTED", "UNDER_REVIEW", "QUOTED", "IN_PROGRESS", "COMPLETED",
                 "CANCELLED"}
InquiryStatus == {"RECEIVED", "CONTACTED", "QUOTED", "CONVERTED", "CLOSED"}

\* A fleet request and an inquiry are known by the number generated for them.
Rows == 1 .. MaxRequests
Tables == {"fleet", "financing", "energy", "inquiry", "product"}

VARIABLES
  request,    \* the status of each row of each table, "ABSENT" before the insert
  quoted,     \* the fleet requests with a quotedAt
  bank,       \* the bank assigned to each financing request
  active,     \* the banks that are active
  photos,     \* whether each charging product has photos, and how many are primary
  task, disturbed

vars == <<request, quoted, bank, active, photos, task, disturbed>>

Idle == [pc |-> "idle", table |-> "none", row |-> 0, alone |-> TRUE, to |-> "none",
         quoted |-> FALSE, bank |-> None, pictured |-> FALSE]

Init ==
  /\ request = [t \in Tables |-> [r \in Rows |-> "ABSENT"]]
  /\ quoted = {}
  /\ bank = [r \in Rows |-> None]
  /\ active \in SUBSET Banks
  /\ photos = [r \in Rows |-> [some |-> FALSE, primary |-> 0]]
  /\ task = [h \in Handlers |-> Idle]
  /\ disturbed = {}

-----------------------------------------------------------------------------
(* Handlers *)

At(h, pc) == task[h].pc = pc
Status(t, r) == request[t][r]
Exists(t, r) == Status(t, r) # "ABSENT"

\* Another row of table t keeps within MaxTables.
Room(t) ==
  Cardinality({t} \cup {u \in Tables : \/ \E r \in Rows : Exists(u, r)
                                        \/ \E h \in Handlers : task[h].table = u}) <= MaxTables

SameRow(t, g) == task[g].table = t.table /\ task[g].row = t.row

Start(h, t) ==
  /\ At(h, "idle")
  /\ task' = [g \in Handlers |->
       CASE g = h -> [t EXCEPT !.alone = \A k \in Handlers : ~SameRow(t, k)]
         [] g # h /\ SameRow(t, g) -> [task[g] EXCEPT !.alone = FALSE]
         [] OTHER -> task[g]]
  /\ UNCHANGED <<request, quoted, bank, active, photos, disturbed>>

Decision(pc, t, r, to) == [Idle EXCEPT !.pc = pc, !.table = t, !.row = r, !.to = to]

Finish(h) == task' = [task EXCEPT ![h] = Idle]

\* Handler h is done; the row is disturbed when another decision about it overlapped.
Complete(h) ==
  /\ Finish(h)
  /\ disturbed' = IF task[h].alone THEN disturbed
                  ELSE disturbed \cup {<<task[h].table, task[h].row>>}

\* Handler h writes the status it decided on.
WriteStatus(h) ==
  /\ request' = [request EXCEPT ![task[h].table][task[h].row] = task[h].to]
  /\ Complete(h)
  /\ UNCHANGED <<active, photos>>

-----------------------------------------------------------------------------
(* Submission *)

\* submitRequest and submit: the number is one more than the latest.
BeginSubmitNumbered(h, t) ==
  /\ t \in {"fleet", "inquiry"} /\ Room(t)
  /\ \E r \in Rows :
       /\ ~Exists(t, r) /\ \A n \in Rows : n < r <=> Exists(t, n)
       /\ Start(h, Decision("insert", t, r, IF t = "fleet" THEN "SUBMITTED" ELSE "RECEIVED"))

\* The unique number refuses a second row; the other tables need no number.
CommitSubmitNumbered(h) ==
  /\ At(h, "insert")
  /\ IF Exists(task[h].table, task[h].row)
       THEN /\ Finish(h)
            /\ UNCHANGED <<request, quoted, bank, active, photos, disturbed>>
       ELSE /\ request' = [request EXCEPT ![task[h].table][task[h].row] = task[h].to]
            /\ Finish(h)
            /\ UNCHANGED <<quoted, bank, active, photos, disturbed>>

SubmitFinancing(h, r) ==
  /\ At(h, "idle") /\ ~Exists("financing", r) /\ Room("financing")
  /\ request' = [request EXCEPT !["financing"][r] = "SUBMITTED"]
  /\ UNCHANGED <<quoted, bank, active, photos, task, disturbed>>

SubmitEnergy(h, r) ==
  /\ At(h, "idle") /\ ~Exists("energy", r) /\ Room("energy")
  /\ request' = [request EXCEPT !["energy"][r] = "SUBMITTED"]
  /\ UNCHANGED <<quoted, bank, active, photos, task, disturbed>>

-----------------------------------------------------------------------------
(* Fleet requests *)

FLEET_TRANSITIONS ==
  [SUBMITTED |-> {"UNDER_REVIEW", "CANCELLED"}, UNDER_REVIEW |-> {"QUOTED", "CANCELLED"},
   QUOTED |-> {"APPROVED", "CANCELLED"}, APPROVED |-> {"IN_PROGRESS"},
   IN_PROGRESS |-> {"COMPLETED", "CANCELLED"}, COMPLETED |-> {}, CANCELLED |-> {}]

CanFleetTransition(from, to) == to \in FLEET_TRANSITIONS[from]

BeginFleetDecision(h, r, to) ==
  /\ Exists("fleet", r)
  /\ CanFleetTransition(Status("fleet", r), to)
  /\ Start(h, [Decision("fleet", "fleet", r, to) EXCEPT !.quoted = r \in quoted])

CommitFleetForgetful(h) ==   \* faulty: only the quotation itself keeps its date
  /\ At(h, "fleet")
  /\ WriteStatus(h)
  /\ quoted' = IF task[h].to = "QUOTED" THEN quoted \cup {task[h].row}
                                        ELSE quoted \ {task[h].row}
  /\ UNCHANGED bank

\* quotedAt is written back as it was read.
CommitFleetDecision(h) ==
  /\ At(h, "fleet")
  /\ WriteStatus(h)
  /\ quoted' = IF task[h].to = "QUOTED" \/ task[h].quoted
                 THEN quoted \cup {task[h].row} ELSE quoted \ {task[h].row}
  /\ UNCHANGED bank

-----------------------------------------------------------------------------
(* Financing requests *)

BeginAssignBank(h, r, b) ==
  /\ Status("financing", r) \in {"SUBMITTED", "UNDER_REVIEW"}
  /\ Start(h, [Decision("findBank", "financing", r, "SENT_TO_BANK") EXCEPT !.bank = b])

FindBank(h) ==
  /\ At(h, "findBank")
  /\ IF task[h].bank \in active THEN task' = [task EXCEPT ![h].pc = "assign"] ELSE Finish(h)
  /\ UNCHANGED <<request, quoted, bank, active, photos, disturbed>>

CommitAssignBank(h) ==
  /\ At(h, "assign")
  /\ WriteStatus(h)
  /\ bank' = [bank EXCEPT ![task[h].row] = task[h].bank]
  /\ UNCHANGED quoted

\* A new bank is active, and stays so.
CreateBank(h, b) ==
  /\ At(h, "idle") /\ b \notin active
  /\ active' = active \cup {b}
  /\ UNCHANGED <<request, quoted, bank, photos, task, disturbed>>

BeginRecordOutcome(h, r, to) ==
  /\ Status("financing", r) = "SENT_TO_BANK"
  /\ Start(h, Decision("outcome", "financing", r, to))

CommitRecordOutcome(h) ==
  /\ At(h, "outcome")
  /\ WriteStatus(h)
  /\ UNCHANGED <<quoted, bank>>

-----------------------------------------------------------------------------
(* Energy requests and inquiries: any status at any time *)

BeginSetStatus(h, t, r, to) ==
  /\ \/ t = "energy" /\ to \in EnergyStatus
     \/ t = "inquiry" /\ to \in InquiryStatus
  /\ Exists(t, r)
  /\ Start(h, Decision("set", t, r, to))

CommitSetStatus(h) ==
  /\ At(h, "set")
  /\ WriteStatus(h)
  /\ UNCHANGED <<quoted, bank>>

-----------------------------------------------------------------------------
(* Charging products *)

\* The first photo of a new product is its primary one.
CreateProduct(h, r, pictures) ==
  /\ At(h, "idle") /\ ~Exists("product", r) /\ Room("product")
  /\ request' = [request EXCEPT !["product"][r] = "ACTIVE"]
  /\ photos' = [photos EXCEPT ![r] = [some |-> pictures, primary |-> IF pictures THEN 1 ELSE 0]]
  /\ UNCHANGED <<quoted, bank, active, task, disturbed>>

\* The update of the other columns tells whether the product has photos.
BeginUpdateProduct(h, r) ==
  /\ Exists("product", r)
  /\ Start(h, [Decision("photos", "product", r, "ACTIVE") EXCEPT !.pictured = photos[r].some])

\* The photos are inserted in a statement of their own.
CommitUpdateProduct(h) ==
  /\ At(h, "photos")
  /\ photos' = [photos EXCEPT ![task[h].row] =
       [some |-> TRUE, primary |-> IF task[h].pictured THEN @.primary ELSE @.primary + 1]]
  /\ Complete(h)
  /\ UNCHANGED <<request, quoted, bank, active>>

-----------------------------------------------------------------------------
(* The server *)

Crash(h) ==
  /\ ~At(h, "idle")
  /\ Finish(h)
  /\ UNCHANGED <<request, quoted, bank, active, photos, disturbed>>

Begin(h, r) ==
  \/ SubmitFinancing(h, r) \/ SubmitEnergy(h, r)
  \/ \E pictures \in BOOLEAN : CreateProduct(h, r, pictures)
  \/ BeginUpdateProduct(h, r)
  \/ \E to \in FleetRequestStatus : BeginFleetDecision(h, r, to)
  \/ \E b \in Banks : BeginAssignBank(h, r, b)
  \/ \E to \in FinancingOutcome : BeginRecordOutcome(h, r, to)
  \/ \E t \in Tables, to \in EnergyStatus \cup InquiryStatus : BeginSetStatus(h, t, r, to)

Continue(h) ==
  \/ CommitSubmitNumbered(h) \/ CommitFleetDecision(h) \/ FindBank(h)
  \/ CommitAssignBank(h) \/ CommitRecordOutcome(h) \/ CommitSetStatus(h)
  \/ CommitUpdateProduct(h)

Next ==
  \E h \in Handlers :
    \/ \E t \in Tables : BeginSubmitNumbered(h, t)
    \/ \E b \in Banks : CreateBank(h, b)
    \/ \E r \in Rows : Begin(h, r)
    \/ Continue(h)
    \/ Crash(h)

Spec == Init /\ [][Next]_vars

-----------------------------------------------------------------------------
(* Properties *)

StatusesOf(t) ==
  CASE t = "fleet" -> FleetRequestStatus
    [] t = "financing" -> FinancingStatus
    [] t = "energy" -> EnergyStatus
    [] t = "inquiry" -> InquiryStatus
    [] t = "product" -> {"ACTIVE"}

\* Rows and tasks are well formed, and no handler ever waits or cancels a financing
\* request.
TypeOK ==
  /\ \A t \in Tables, r \in Rows : Status(t, r) \in StatusesOf(t) \cup {"ABSENT"}
  /\ \A r \in Rows : Status("financing", r) \notin {"UNDER_REVIEW", "CANCELLED"}
  /\ quoted \subseteq Rows
  /\ bank \in [Rows -> Banks \cup {None}]
  /\ task \in [Handlers ->
       [pc : {"idle", "insert", "fleet", "findBank", "assign", "outcome", "set", "photos"},
        table : Tables \cup {"none"}, row : Rows \cup {0}, alone : BOOLEAN,
        to : FleetRequestStatus \cup FinancingStatus \cup EnergyStatus \cup InquiryStatus
               \cup {"ACTIVE", "none"},
        quoted : BOOLEAN, bank : Banks \cup {None}, pictured : BOOLEAN]]
  /\ photos \in [Rows -> [some : BOOLEAN, primary : 0 .. Cardinality(Handlers)]]

\* A fleet request that was quoted keeps the date, and a financing request has a bank as
\* soon as it has been sent to one, unless decisions about it overlap.  A charging product
\* with photos has a primary one, and only one unless two updates of it overlapped.
RequestsAreSound ==
  \A r \in Rows :
    /\ Status("fleet", r) \in {"QUOTED", "APPROVED", "IN_PROGRESS", "COMPLETED"}
         => r \in quoted \/ <<"fleet", r>> \in disturbed
    /\ Status("financing", r) \in {"SENT_TO_BANK"} \cup FinancingOutcome => bank[r] \in active
    /\ photos[r].some => photos[r].primary >= 1
    /\ photos[r].primary <= 1 \/ <<"product", r>> \in disturbed

RequestStep ==
  \A r \in Rows :
    /\ <<"fleet", r>> \notin disturbed' /\ Exists("fleet", r)
         /\ Status("fleet", r) # Status("fleet", r)'
         => CanFleetTransition(Status("fleet", r), Status("fleet", r)')
    /\ <<"financing", r>> \notin disturbed' /\ Status("financing", r) \in FinancingOutcome
         => Status("financing", r)' = Status("financing", r) /\ bank'[r] = bank[r]

\* A fleet request goes along its table, and the outcome a bank gave is final together
\* with the bank that gave it, unless decisions about the request overlap.
DecisionsHold == [][RequestStep]_vars
=============================================================================
