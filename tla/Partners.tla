------------------------------ MODULE Partners ------------------------------
(***************************************************************************)
(* The parts of the platform where applicants, operators and sellers ask   *)
(* and administrators decide: charging stations (module Charging), sellers *)
(* and spare parts (Parts), fleet, financing and energy requests and       *)
(* inquiries (Requests).  They share no row, so that what one of them does *)
(* is all there is to see of it: in a behaviour one of them is at work,    *)
(* chosen at the start, and the variables of the others stay None.         *)
(***************************************************************************)
EXTENDS Integers, FiniteSets

CONSTANTS
  Operators, Stations, Ports, Tariffs, MaxPhotos,
  Sellers, PartRows,
  Banks, MaxRows, MaxTables,
  MaxRequests, Handlers, None

ASSUME PartnersBoundsOK ==
  /\ {MaxPhotos, MaxRows, MaxTables, MaxRequests} \subseteq Nat
  /\ IsFiniteSet(Ports) /\ IsFiniteSet(Handlers)
  /\ None \notin Operators \cup Stations \cup Ports \cup Tariffs
                   \cup Sellers \cup PartRows \cup Banks

VARIABLES
  work,                               \* the part at work
  operator, station, port, tariff,    \* Charging
  seller, part, changed,              \* Parts
  request, quoted, bank, active, photos,   \* Requests
  task, started, disturbed

ofCharging == <<operator, station, port, tariff>>
ofParts == <<seller, part, changed>>
ofRequests == <<request, quoted, bank, active, photos>>
vars == <<work, ofCharging, ofParts, ofRequests, task, started, disturbed>>

C == INSTANCE Charging
P == INSTANCE Parts
R == INSTANCE Requests WITH MaxRequests <- MaxRows

NoCharging == operator = None /\ station = None /\ port = None /\ tariff = None
NoParts == seller = None /\ part = None /\ changed = None
NoRequests ==
  /\ request = None /\ quoted = None /\ bank = None /\ active = None
  /\ photos = None

Init ==
  \/ work = "charging" /\ C!Init /\ NoParts /\ NoRequests
  \/ work = "parts" /\ P!Init /\ NoCharging /\ NoRequests
  \/ work = "requests" /\ R!Init /\ started = 0 /\ NoCharging /\ NoParts

Next ==
  \/ work = "charging" /\ C!Next /\ UNCHANGED <<work, ofParts, ofRequests>>
  \/ work = "parts" /\ P!Next /\ UNCHANGED <<work, ofCharging, ofRequests>>
  \/ work = "requests" /\ R!Next /\ UNCHANGED <<work, started, ofCharging, ofParts>>

Spec == Init /\ [][Next]_vars

-----------------------------------------------------------------------------
(* Properties of the part at work; its module says what they are about *)

\* The rows and tasks of the part at work are well formed: Charging!TypeOK,
\* Parts!TypeOK, Requests!TypeOK.
TypeOK ==
  /\ work = "charging" => C!TypeOK
  /\ work = "parts" => P!TypeOK
  /\ work = "requests" => R!TypeOK

\* The port counts buyers read on a station are those of its ports, whenever no change
\* of a port is in progress, unless the last one overlapped another or died, or the owner
\* has written counts of his own since.
CountsAgree == work = "charging" => C!CountsAgree

\* A station has at most one active tariff and one primary photo, unless two requests
\* about its tariff or its photos overlapped.
OneOfEach == work = "charging" => C!OneOfEach

\* What buyers see of a part is what its approval read, whatever its seller asks afterwards.
PublicPartIsAsApproved == work = "parts" => P!PublicPartIsAsApproved

\* A fleet request keeps the date of its quotation, a financing request sent to a bank
\* has one, a charging product with photos has one primary photo.
RequestsAreSound == work = "requests" => R!RequestsAreSound

PartnerStep ==
  /\ work = "charging" => C!StationStep
  /\ work = "parts" => P!SuspensionStep
  /\ work = "requests" => R!RequestStep

\* Whatever the order in which the steps of two decisions come, unless the two are about
\* one row: a station goes along its transition table, a fleet request along its own, the
\* outcome a bank gave is final, a suspended seller trades again only when it is verified
\* anew.
WorkflowsHold == [][PartnerStep]_vars
=============================================================================
