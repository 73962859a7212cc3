------------------------------ MODULE Charging ------------------------------
(***************************************************************************)
(* ChargingStationsService: operators apply and are approved, approved     *)
(* operators keep stations with ports, tariffs and photos, administrators  *)
(* review the stations.                                                    *)
(*                                                                         *)
(* A request in progress is a task: what its first step read is checked    *)
(* there, and later steps write by id whatever has happened since.  The    *)
(* check of the owner (requireActiveOperator) is part of the first step.   *)
(*                                                                         *)
(* The history variable disturbed holds <<row, matter>> where two requests *)
(* about one matter overlapped, or one died between two of its writes, and *)
(* <<station, "ports">> where its owner wrote the counts by hand.          *)
(***************************************************************************)
EXTENDS Integers, FiniteSets

CONSTANTS
  Operators, Stations, Ports,
  Tariffs,      \* rows of StationPricing that may ever be created (bound)
  MaxPhotos,    \* photos of a station (bound)
  MaxRequests,  \* requests users start in one behaviour (bound)
  Handlers,     \* requests that may be in progress at once
  None          \* SQL null

OperatorStatus == {"PENDING", "ACTIVE", "SUSPENDED", "REJECTED"}
StationStatus == {"DRAFT", "PENDING_REVIEW", "APPROVED", "ACTIVE", "SUSPENDED",
                  "REJECTED", "CLOSED"}
\* isActive and PortStatus of a port: "busy" is active with a status that is not AVAILABLE.
PortState == {"inactive", "busy", "free"}

VARIABLES
  operator,   \* OperatorProfile rows and the role of their users
  station,    \* ChargingStation rows with the number of their photos
  port,       \* the ports of each station, "none" where there is no row
  tariff,     \* the active StationPricing rows of each station
  task, started, disturbed

vars == <<operator, station, port, tariff, task, started, disturbed>>

Unstated == -1   \* a count the request leaves out, or SQL null in the row

NoOperator == [status |-> "NONE", verified |-> FALSE, role |-> FALSE, edited |-> FALSE]
NoStation == [status |-> "ABSENT", owner |-> None, operational |-> "OPERATIONAL",
              located |-> FALSE, published |-> FALSE, total |-> 0, available |-> Unstated,
              photos |-> 0, primaries |-> 0]
Idle == [pc |-> "idle", on |-> None, matter |-> "none", alone |-> TRUE, to |-> "none",
         port |-> None, total |-> Unstated, available |-> Unstated, old |-> {}, read |-> 0,
         add |-> 0]

\* Nothing is registered yet, or an approved operator has a station that it may submit.
Init ==
  /\ \/ /\ operator = [o \in Operators |-> NoOperator]
        /\ station = [s \in Stations |-> NoStation]
        /\ port = [s \in Stations |-> [p \in Ports |-> "none"]]
     \/ \E o \in Operators, first \in Ports :
          /\ operator = [n \in Operators |->
               [status |-> "ACTIVE", verified |-> TRUE, role |-> TRUE, edited |-> FALSE]]
          /\ station = [s \in Stations |->
               [NoStation EXCEPT !.status = "DRAFT", !.owner = o, !.located = TRUE,
                                 !.total = 1, !.available = 1,
                                 !.photos = 1, !.primaries = 1]]
          /\ port = [s \in Stations |-> [p \in Ports |-> IF p = first THEN "free" ELSE "none"]]
  /\ tariff = [s \in Stations |-> {}]
  /\ task = [h \in Handlers |-> Idle]
  /\ started = 0
  /\ disturbed = {}

-----------------------------------------------------------------------------
(* Requests *)

At(h, pc) == task[h].pc = pc
Goto(h, pc) == task' = [task EXCEPT ![h].pc = pc]
Finish(h) == task' = [task EXCEPT ![h] = Idle]

Meets(t, g) == task[g].on = t.on /\ task[g].matter = t.matter

\* Handler h takes up request t; it and the ones it meets are no longer alone.
Start(h, t) ==
  /\ At(h, "idle")
  /\ task' = [g \in Handlers |->
       CASE g = h -> [t EXCEPT !.alone = \A k \in Handlers : ~Meets(t, k)]
         [] g # h /\ Meets(t, g) -> [task[g] EXCEPT !.alone = FALSE]
         [] OTHER -> task[g]]
  /\ UNCHANGED <<operator, station, port, tariff, disturbed>>

\* Requests of applicants and operators count towards the bound, decisions do not.
StartRequest(h, t) == started < MaxRequests /\ started' = started + 1 /\ Start(h, t)
StartDecision(h, t) == started' = started /\ Start(h, t)

Request(pc, on, matter) == [Idle EXCEPT !.pc = pc, !.on = on, !.matter = matter]

\* Handler h is done; what it wrote is disturbed if it was not alone.
Conclude(h) ==
  /\ Finish(h)
  /\ disturbed' = IF task[h].alone THEN disturbed
                  ELSE disturbed \cup {<<task[h].on, task[h].matter>>}
  /\ started' = started

WriteStation(h, row) ==
  /\ station' = [station EXCEPT ![task[h].on] = row]
  /\ Conclude(h)
  /\ UNCHANGED <<operator, port, tariff>>

WriteOperator(h, row) ==
  /\ operator' = [operator EXCEPT ![task[h].on] = row]
  /\ Conclude(h)
  /\ UNCHANGED <<station, port, tariff>>

\* The request fails, having written nothing.
Fail(h) == Conclude(h) /\ UNCHANGED <<operator, station, port, tariff>>

-----------------------------------------------------------------------------
(* Operators *)

BeginApply(h, o) ==
  /\ operator[o].status = "NONE"
  /\ StartRequest(h, Request("apply", o, "operator"))

\* The unique userId refuses a second profile.
CommitApply(h) ==
  /\ At(h, "apply")
  /\ IF operator[task[h].on].status = "NONE"
       THEN WriteOperator(h, [NoOperator EXCEPT !.status = "PENDING",
                                                !.role = operator[task[h].on].role])
       ELSE Fail(h)

\* The details of an active operator need the permission its role brings.
BeginUpdateOperator(h, o) ==
  /\ \/ operator[o].status = "ACTIVE" /\ operator[o].role
     \/ operator[o].status \in OperatorStatus \ {"ACTIVE", "SUSPENDED"}
  /\ StartRequest(h, Request("edit", o, "operator"))

CommitUpdateOperator(h) ==
  /\ At(h, "edit")
  /\ WriteOperator(h, [operator[task[h].on] EXCEPT !.edited = TRUE])

BeginApproveOperator(h, o) ==
  /\ operator[o].status \in OperatorStatus \ {"ACTIVE"}
  /\ StartDecision(h, Request("approve", o, "operator"))

CommitApproveOperator(h) ==
  /\ At(h, "approve")
  /\ WriteOperator(h, [operator[task[h].on] EXCEPT
                         !.status = "ACTIVE", !.verified = TRUE, !.role = TRUE])

\* The code rejects in any status; a second rejection changes nothing.
BeginRejectOperator(h, o) ==
  /\ operator[o].status \in OperatorStatus \ {"REJECTED"}
  /\ StartDecision(h, Request("reject", o, "operator"))

\* The role stays with the user.
CommitRejectOperator(h) ==
  /\ At(h, "reject")
  /\ WriteOperator(h, [operator[task[h].on] EXCEPT
                         !.status = "REJECTED", !.verified = FALSE])

-----------------------------------------------------------------------------
(* Stations *)

IsActiveOperator(o) == operator[o].status = "ACTIVE" /\ operator[o].verified

\* getStationOwnedBy: the station exists and its owner may manage it.
MayManage(s) == station[s].status # "ABSENT" /\ IsActiveOperator(station[s].owner)

ActivePorts(s) == {p \in Ports : port[s][p] \in {"busy", "free"}}
FreePorts(s) == {p \in Ports : port[s][p] = "free"}

\* ports, free: totalPorts, 0 by default, and availablePorts as the operator states them.
CreateStation(h, o, s, ports, free, located) ==
  /\ IsActiveOperator(o)
  /\ station[s].status = "ABSENT"
  /\ At(h, "idle") /\ started < MaxRequests
  /\ started' = started + 1
  /\ station' = [station EXCEPT ![s] =
       [NoStation EXCEPT !.status = "DRAFT", !.owner = o, !.located = located,
                         !.total = ports, !.available = free]]
  /\ disturbed' = IF ports = 0 /\ free = Unstated THEN disturbed
                                                  ELSE disturbed \cup {<<s, "ports">>}
  /\ UNCHANGED <<operator, port, tariff, task>>

\* to: the new operational status; ports, free: the counts the owner states or leaves.
BeginUpdateStation(h, s, to, ports, free) ==
  /\ MayManage(s)
  /\ StartRequest(h, [Request("update", s, "details") EXCEPT
                        !.to = to, !.total = ports, !.available = free])

StatesCounts(t) == t.total # Unstated \/ t.available # Unstated

CommitUpdateStation(h) ==
  LET s == task[h].on IN
  /\ At(h, "update")
  /\ \E located \in BOOLEAN :
       station' = [station EXCEPT ![s].operational = task[h].to, ![s].located = @ \/ located,
                                  ![s].total = IF task[h].total < 0 THEN @ ELSE task[h].total,
                                  ![s].available = IF task[h].available < 0 THEN @
                                                   ELSE task[h].available]
  /\ disturbed' = IF StatesCounts(task[h]) THEN disturbed \cup {<<s, "ports">>} ELSE disturbed
  /\ Finish(h)
  /\ UNCHANGED <<operator, port, tariff, started>>

BeginSubmitStation(h, s) ==
  /\ MayManage(s)
  /\ station[s].status \in {"DRAFT", "REJECTED"}
  /\ ActivePorts(s) # {} /\ station[s].photos > 0 /\ station[s].located
  /\ StartRequest(h, Request("submit", s, "status"))

CommitSubmitStation(h) ==
  /\ At(h, "submit")
  /\ WriteStation(h, [station[task[h].on] EXCEPT !.status = "PENDING_REVIEW"])

ALLOWED_STATION_TRANSITIONS ==
  [DRAFT |-> {"PENDING_REVIEW"}, PENDING_REVIEW |-> {"APPROVED", "REJECTED"},
   APPROVED |-> {"ACTIVE", "REJECTED"}, ACTIVE |-> {"SUSPENDED", "CLOSED"},
   SUSPENDED |-> {"ACTIVE"}, REJECTED |-> {"DRAFT", "PENDING_REVIEW"}, CLOSED |-> {}]

CanStationTransition(from, to) == to \in ALLOWED_STATION_TRANSITIONS[from]

\* What an administrator may decide: approve, reject, suspend.
StationDecisions == {"ACTIVE", "REJECTED", "SUSPENDED"}

BeginReviewStation(h, s, to) ==
  /\ station[s].status \in StationStatus
  /\ CanStationTransition(station[s].status, to)
  /\ StartDecision(h, [Request("review", s, "status") EXCEPT !.to = to])

CommitReviewStation(h) ==
  /\ At(h, "review")
  /\ WriteStation(h, [station[task[h].on] EXCEPT
                        !.status = task[h].to,
                        !.published = @ \/ task[h].to = "ACTIVE"])

\* buildStationWhere for the public: what anybody may find.
PublicStations ==
  {s \in Stations : station[s].status = "ACTIVE" /\ station[s].operational # "OFFLINE"}

-----------------------------------------------------------------------------
(* Ports: the change and the counts on the station are separate statements *)

BeginAddPort(h, s, to) ==
  /\ MayManage(s)
  /\ \E p \in Ports : port[s][p] = "none"
  /\ StartRequest(h, [Request("addPort", s, "ports") EXCEPT !.to = to])

BeginUpdatePort(h, s, p, to) ==
  /\ MayManage(s)
  /\ port[s][p] # "none"
  /\ StartRequest(h, [Request("setPort", s, "ports") EXCEPT !.port = p, !.to = to])

BeginRemovePort(h, s, p) ==
  /\ MayManage(s)
  /\ port[s][p] # "none"
  /\ StartRequest(h, [Request("setPort", s, "ports") EXCEPT !.port = p, !.to = "none"])

SetPort(h, p) ==
  /\ port' = [port EXCEPT ![task[h].on][p] = task[h].to]
  /\ Goto(h, "count")
  /\ UNCHANGED <<operator, station, tariff, started, disturbed>>

CommitAddPort(h) ==
  /\ At(h, "addPort")
  /\ \E p \in Ports : port[task[h].on][p] = "none" /\ SetPort(h, p)

\* An update and a removal fail when the port has been removed meanwhile.
CommitChangePort(h) ==
  /\ At(h, "setPort")
  /\ IF port[task[h].on][task[h].port] = "none" THEN Fail(h) ELSE SetPort(h, task[h].port)

\* refreshPortCounts: two counts in one Promise.all, in either order.
CountPorts(h) ==
  /\ At(h, "count") /\ task[h].total < 0
  /\ task' = [task EXCEPT ![h].total = Cardinality(ActivePorts(task[h].on))]
  /\ UNCHANGED <<operator, station, port, tariff, started, disturbed>>

CountFreeForgettingInactive(h) ==   \* faulty: counts every port that is not in use
  /\ At(h, "count") /\ task[h].available < 0
  /\ task' = [task EXCEPT ![h].available =
                Cardinality({p \in Ports : port[task[h].on][p] \in {"free", "inactive"}})]
  /\ UNCHANGED <<operator, station, port, tariff, started, disturbed>>

CountFreePorts(h) ==
  /\ At(h, "count") /\ task[h].available < 0
  /\ task' = [task EXCEPT ![h].available = Cardinality(FreePorts(task[h].on))]
  /\ UNCHANGED <<operator, station, port, tariff, started, disturbed>>

\* A refresh that nothing overlapped repairs whatever was wrong before.
CommitPortCounts(h) ==
  LET s == task[h].on IN
  /\ At(h, "count") /\ task[h].total >= 0 /\ task[h].available >= 0
  /\ station' = [station EXCEPT ![s].total = task[h].total,
                                ![s].available = task[h].available]
  /\ disturbed' = IF task[h].alone THEN disturbed \ {<<s, "ports">>}
                                   ELSE disturbed \cup {<<s, "ports">>}
  /\ Finish(h)
  /\ UNCHANGED <<operator, port, tariff, started>>

-----------------------------------------------------------------------------
(* Tariffs and photos *)

UsedTariffs == UNION {tariff[s] : s \in Stations}

BeginSetTariff(h, s) ==
  /\ MayManage(s)
  /\ StartRequest(h, Request("openTariff", s, "tariff"))

\* In the transaction: the rows to deactivate are those active now.
OpenSetTariff(h) ==
  /\ At(h, "openTariff")
  /\ task' = [task EXCEPT ![h].pc = "setTariff", ![h].old = tariff[task[h].on]]
  /\ UNCHANGED <<operator, station, port, tariff, started, disturbed>>

CommitSetTariffBeside(h) ==   \* faulty: leaves the old tariff active
  /\ At(h, "setTariff")
  /\ \E t \in Tariffs \ UsedTariffs : tariff' = [tariff EXCEPT ![task[h].on] = @ \cup {t}]
  /\ Conclude(h)
  /\ UNCHANGED <<operator, station, port>>

CommitSetTariff(h) ==
  /\ At(h, "setTariff")
  /\ \E t \in Tariffs \ UsedTariffs :
       tariff' = [tariff EXCEPT ![task[h].on] = (@ \ task[h].old) \cup {t}]
  /\ Conclude(h)
  /\ UNCHANGED <<operator, station, port>>

BeginAddPhotos(h, s, n) ==
  /\ MayManage(s)
  /\ station[s].photos + n <= MaxPhotos
  /\ StartRequest(h, [Request("photos", s, "photos") EXCEPT
                        !.read = station[s].photos, !.add = n])

CommitAddPhotos(h) ==
  /\ At(h, "photos")
  /\ WriteStation(h, [station[task[h].on] EXCEPT
                        !.photos = @ + task[h].add,
                        !.primaries = IF task[h].read = 0 THEN @ + 1 ELSE @])

-----------------------------------------------------------------------------
(* The server *)

\* The process or a query fails; an open transaction is rolled back, a port that has
\* been changed stays changed.
Crash(h) ==
  /\ ~At(h, "idle")
  /\ Finish(h)
  /\ disturbed' = IF At(h, "count") THEN disturbed \cup {<<task[h].on, "ports">>}
                                    ELSE disturbed
  /\ UNCHANGED <<operator, station, port, tariff, started>>

OperatorStep(h) ==
  \/ \E o \in Operators : \/ BeginApply(h, o) \/ BeginUpdateOperator(h, o)
                          \/ BeginApproveOperator(h, o) \/ BeginRejectOperator(h, o)
  \/ CommitApply(h) \/ CommitUpdateOperator(h)
  \/ CommitApproveOperator(h) \/ CommitRejectOperator(h)

BeginStationStep(h, s) ==
  \/ \E o \in Operators, n \in {0, 1}, free \in {Unstated, 1}, located \in BOOLEAN :
       CreateStation(h, o, s, n, free, located)
  \/ \E to \in {"OPERATIONAL", "OFFLINE"}, n, free \in {Unstated, 0} :
       BeginUpdateStation(h, s, to, n, free)
  \/ BeginSubmitStation(h, s)
  \/ \E to \in StationDecisions : BeginReviewStation(h, s, to)
  \/ \E to \in PortState : BeginAddPort(h, s, to)
  \/ \E p \in Ports, to \in PortState : BeginUpdatePort(h, s, p, to)
  \/ \E p \in Ports : BeginRemovePort(h, s, p)
  \/ BeginSetTariff(h, s)
  \/ \E n \in 1 .. MaxPhotos : BeginAddPhotos(h, s, n)

ContinueStation(h) ==
  \/ CommitUpdateStation(h) \/ CommitSubmitStation(h) \/ CommitReviewStation(h)
  \/ CommitAddPort(h) \/ CommitChangePort(h)
  \/ CountPorts(h) \/ CountFreePorts(h) \/ CommitPortCounts(h)
  \/ OpenSetTariff(h) \/ CommitSetTariff(h) \/ CommitAddPhotos(h)

Next ==
  \E h \in Handlers :
    \/ OperatorStep(h)
    \/ \E s \in Stations : BeginStationStep(h, s)
    \/ ContinueStation(h)
    \/ Crash(h)

Spec == Init /\ [][Next]_vars

\* Requests in progress go on, and an administrator approves whatever may be approved.
ApprovingSpec ==
  /\ Spec
  /\ \A h \in Handlers : SF_vars(ContinueStation(h))
  /\ \A s \in Stations : SF_vars(\E h \in Handlers : BeginReviewStation(h, s, "ACTIVE"))

-----------------------------------------------------------------------------
(* Properties *)

TaskType ==
  [pc : {"idle", "apply", "edit", "approve", "reject", "update", "submit", "review",
         "addPort", "setPort", "count", "openTariff", "setTariff", "photos"},
   on : Operators \cup Stations \cup {None},
   matter : {"none", "operator", "details", "status", "ports", "tariff", "photos"},
   alone : BOOLEAN,
   to : StationStatus \cup PortState \cup {"none", "OPERATIONAL", "OFFLINE"},
   port : Ports \cup {None}, total : -1 .. Cardinality(Ports),
   available : -1 .. Cardinality(Ports), old : SUBSET Tariffs,
   read : 0 .. MaxPhotos, add : 0 .. MaxPhotos]

\* Rows and tasks are well formed, and the operators that are active are the verified
\* ones, who hold the role.
TypeOK ==
  /\ \A o \in Operators :
       /\ operator[o].status \in OperatorStatus \cup {"NONE"}
       /\ operator[o].verified = (operator[o].status = "ACTIVE")
       /\ operator[o].verified => operator[o].role
  /\ \A s \in Stations :
       /\ station[s].status \in StationStatus \cup {"ABSENT"}
       /\ station[s].owner \in Operators \cup {None}
       /\ station[s].photos \in Nat /\ station[s].primaries \in Nat
  /\ port \in [Stations -> [Ports -> PortState \cup {"none"}]]
  /\ task \in [Handlers -> TaskType]

Undisturbed(s, matter) ==
  /\ <<s, matter>> \notin disturbed
  /\ \A h \in Handlers : task[h].on = s /\ task[h].matter = matter => task[h].alone

CountsAreRight(s) ==
  /\ station[s].total = Cardinality(ActivePorts(s))
  /\ \/ station[s].available = Cardinality(FreePorts(s))
     \/ station[s].available = Unstated /\ ActivePorts(s) = {}

\* The port counts buyers read are those of the ports, whenever no port change is in
\* progress, unless changes of ports overlapped, one died, or the owner wrote counts of
\* his own since the ports were last counted: each change that runs undisturbed repairs
\* all of it.  A station without ports may not have been counted at all.
CountsAgree ==
  \A s \in Stations :
    <<s, "ports">> \notin disturbed /\ (\A h \in Handlers : ~(At(h, "count") /\ task[h].on = s))
      => CountsAreRight(s)

\* A station whose tariffs and photos were changed one request at a time has at most one
\* active tariff, and one primary photo as soon as it has photos.
OneOfEach ==
  \A s \in Stations :
    /\ Undisturbed(s, "tariff") => Cardinality(tariff[s]) <= 1
    /\ Undisturbed(s, "photos") => station[s].primaries = IF station[s].photos = 0 THEN 0 ELSE 1

StationStep ==
  \A s \in Stations :
    LET from == station[s].status
        to == station'[s].status
    IN <<s, "status">> \notin disturbed' /\ from \in StationStatus /\ from # to
         => CanStationTransition(from, to)

\* A station moves along the transition table unless two requests about its status overlap.
StationFollowsTable == [][StationStep]_vars

\* "Admin approves -> station goes ACTIVE and appears publicly": a submitted station
\* appears when administrators approve what they may, unless they reject it or its owner
\* takes it offline.
ApprovedAppears ==
  \A s \in Stations :
    station[s].status = "PENDING_REVIEW"
      ~> (s \in PublicStations \/ station[s].status = "REJECTED"
            \/ station[s].operational = "OFFLINE")
=============================================================================
