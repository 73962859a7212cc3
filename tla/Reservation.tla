---------------------------- MODULE Reservation ----------------------------
(***************************************************************************)
(* What the booking services promise about one booking, whatever the       *)
(* other bookings and the queries in between do: it is asked for once, for *)
(* one buyer and one vehicle and a fee; a claim to have paid is refused or *)
(* makes it held; it may be dropped and its fee changed only while there   *)
(* is no proof of a payment; and nothing follows held or dropped.          *)
(*                                                                         *)
(* Two requests in progress on one booking make it disputed, of which      *)
(* nothing is promised.                                                    *)
(***************************************************************************)
CONSTANTS
  Places,   \* the bookings there may be
  Parties,  \* who may ask for what
  Fees

VARIABLE place

Free == [stage |-> "free"]
Disputed == [stage |-> "disputed"]
Reserved(stage, party, fee, proven) ==
  [stage |-> stage, party |-> party, fee |-> fee, proven |-> proven]

Init == place = [i \in Places |-> Free]

Becomes(i, r) == place' = [place EXCEPT ![i] = r]

\* Booking i, which party asked for, goes from one stage to the next.
Ask(i, party, fee) ==
  place[i] = Free /\ Becomes(i, Reserved("asked", party, fee, FALSE))

Claim(i, party, fee, proven, with) ==
  /\ place[i] = Reserved("asked", party, fee, proven)
  /\ Becomes(i, Reserved("claimed", party, fee, proven \/ with))

Refuse(i, party, fee, proven) ==
  /\ place[i] = Reserved("claimed", party, fee, proven)
  /\ Becomes(i, Reserved("asked", party, fee, proven))

Hold(i, party, fee, proven) ==
  /\ place[i] = Reserved("claimed", party, fee, proven)
  /\ Becomes(i, Reserved("held", party, fee, proven))

Drop(i, party, fee) ==
  /\ place[i] = Reserved("asked", party, fee, FALSE)
  /\ Becomes(i, Reserved("dropped", party, fee, FALSE))

Reprice(i, party, fee, new) ==
  /\ place[i] = Reserved("asked", party, fee, FALSE)
  /\ Becomes(i, Reserved("asked", party, new, FALSE))

Dispute(i) == place[i] # Free /\ Becomes(i, Disputed)

Next ==
  \E i \in Places :
    \/ Dispute(i)
    \/ \E party \in Parties, fee \in Fees :
         \/ Ask(i, party, fee) \/ Drop(i, party, fee)
         \/ \E new \in Fees : Reprice(i, party, fee, new)
         \/ \E proven \in BOOLEAN :
              \/ Refuse(i, party, fee, proven) \/ Hold(i, party, fee, proven)
              \/ \E with \in BOOLEAN : Claim(i, party, fee, proven, with)

Spec == Init /\ [][Next]_place
=============================================================================
