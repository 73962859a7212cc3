-------------------------- MODULE ListingRaceProofs --------------------------
(***************************************************************************)
(* What holds of the listings that no two requests have raced on, for      *)
(* every set of listings, photos and handlers: there, what a handler read  *)
(* is still so when it writes, however many awaits lie in between.         *)
(***************************************************************************)
EXTENDS ListingsProofs, FiniteSetTheorems

\* Two tasks rely on the same matter of a listing only if that is recorded.
RacesAreRecorded ==
  \A g, h \in Handlers :
    g # h /\ task[g].on = task[h].on /\ task[g].on \in Listings
      => Concerns(task[g].pc) \cap Concerns(task[h].pc) \subseteq contended[task[g].on]

\* A task works on a listing that has been created.
TasksHaveRows ==
  \A h \in Handlers : ~At(h, "idle") => listing[task[h].on].status # "ABSENT"

\* What task t read of the status of its listing, and what it is about to do about it,
\* still go together.
StatusSeen(t, row) ==
  /\ t.pc = "withdraw" => row.status = "DRAFT"
  /\ t.pc \in {"update", "countPhotos", "addPhotos"} => row.status \in {"DRAFT", "REJECTED"}
  /\ t.pc \in {"countSubmit", "submit"} => row.status = "DRAFT" /\ ~row.withdrawn
  /\ t.pc = "decide" => /\ t.to \in Decisions \cap ALLOWED_TRANSITIONS[row.status]
                        /\ ~row.withdrawn
  /\ t.pc \in {"edit", "open"} => /\ row.maker = "admin" /\ ~row.withdrawn
                                  /\ ~t.same => AdminMayChange(row.status, t.to)

\* The same for the sales channel and the inventory stage.
ChannelSeen(t, row) ==
  /\ t.pc = "advance" => /\ t.channel = ChannelAfter(row, t.to)
                         /\ t.same <=> t.to = row.stage
  /\ t.pc = "reprice" => t.channel = row.channel

IsCurrent(t) ==
  t.on \in Listings /\ Exists(t.on) =>
    /\ "status" \notin contended[t.on] => StatusSeen(t, listing[t.on])
    /\ "channel" \notin contended[t.on] => ChannelSeen(t, listing[t.on])

ReadsAreCurrent == \A h \in Handlers : IsCurrent(task[h])

RaceInv == IInv /\ RacesAreRecorded /\ TasksHaveRows /\ ReadsAreCurrent

-----------------------------------------------------------------------------
(* What a step leaves alone *)

\* A step of handler h changes its own task and listing, and of that listing only what
\* the task relies on.
LeavesAlone(h) ==
  LET l == task[h].on
      concerns == Concerns(task[h].pc)
  IN /\ \A g \in Handlers \ {h} : task'[g] = task[g]
     /\ task'[h].pc # "idle" => /\ task[h].pc # "idle" /\ task'[h].on = l
                                /\ Concerns(task'[h].pc) \subseteq concerns
     /\ contended' = contended
     /\ \A k \in Listings \ {l} : listing'[k] = listing[k]
     /\ l \in Listings =>
          /\ ~Exists(l) => listing'[l] = listing[l]
          /\ listing[l].status # "ABSENT" => listing'[l].status # "ABSENT"
          /\ listing'[l].status \in ListingStatus =>
               /\ listing'[l].maker = listing[l].maker
               /\ listing[l].priced \subseteq listing'[l].priced
               /\ "status" \notin concerns =>
                    /\ listing'[l].status = listing[l].status
                    /\ listing'[l].withdrawn = listing[l].withdrawn
               /\ "channel" \notin concerns =>
                    /\ listing'[l].channel = listing[l].channel
                    /\ listing'[l].stage = listing[l].stage

\* What is current for a task depends only on what it is concerned with.
LEMMA SeenFrame ==
  ASSUME NEW t, NEW row, NEW new, new.maker = row.maker
  PROVE  /\ /\ StatusSeen(t, row)
            /\ new.status = row.status /\ new.withdrawn = row.withdrawn
            => StatusSeen(t, new)
         /\ ChannelSeen(t, row) /\ new.channel = row.channel /\ new.stage = row.stage
            => ChannelSeen(t, new)
         /\ "status" \notin Concerns(t.pc) => StatusSeen(t, new)
         /\ "channel" \notin Concerns(t.pc) => ChannelSeen(t, new)
  BY DEF StatusSeen, ChannelSeen, Concerns, ChannelAfter

\* The other tasks keep what they know when handler h takes a step.
LEMMA StepRaceInv ==
  ASSUME RaceInv, NEW h \in Handlers, LeavesAlone(h), IInv', IsCurrent(task[h])'
  PROVE  RaceInv'
<1>1. RacesAreRecorded'
  <2>1. SUFFICES ASSUME NEW f \in Handlers, NEW g \in Handlers, f # g,
                        task'[f].on = task'[g].on, task'[f].on \in Listings
                 PROVE  Concerns(task'[f].pc) \cap Concerns(task'[g].pc)
                          \subseteq contended'[task'[f].on]
    BY DEF RacesAreRecorded
  <2>2. \A e \in Handlers : task'[e] = task[e] \/ task'[e].pc = "idle" \/
          /\ task'[e].on = task[e].on
          /\ Concerns(task'[e].pc) \subseteq Concerns(task[e].pc)
    BY DEF LeavesAlone
  <2>3. Concerns("idle") = {}
    BY DEF Concerns
  <2>4. CASE task'[f].pc = "idle" \/ task'[g].pc = "idle"
    BY <2>3, <2>4
  <2>5. CASE task'[f].pc # "idle" /\ task'[g].pc # "idle"
    <3>1. task[f].on = task[g].on /\ task[f].on = task'[f].on
      BY <2>1, <2>2, <2>5
    <3>2. Concerns(task[f].pc) \cap Concerns(task[g].pc) \subseteq contended[task[f].on]
      BY <2>1, <3>1 DEF RaceInv, RacesAreRecorded
    <3>3. Concerns(task'[f].pc) \subseteq Concerns(task[f].pc)
          /\ Concerns(task'[g].pc) \subseteq Concerns(task[g].pc)
      BY <2>2, <2>5
    <3>4. contended' = contended
      BY DEF LeavesAlone
    <3>5. QED
      BY <3>1, <3>2, <3>3, <3>4
  <2>6. QED
    BY <2>4, <2>5
<1>2. TasksHaveRows'
  BY TaskFacts DEF RaceInv, TasksHaveRows, LeavesAlone, At
<1>3. ASSUME NEW g \in Handlers, g # h
      PROVE  IsCurrent(task[g])'
  <2> DEFINE l == task[g].on
             t == task[g]
  <2>1. task'[g] = t /\ contended' = contended /\ IsCurrent(t)
    BY <1>3 DEF LeavesAlone, RaceInv, ReadsAreCurrent
  <2>2. CASE l \in Listings /\ l # task[h].on
    BY <2>1, <2>2 DEF LeavesAlone, IsCurrent, Exists
  <2>3. CASE l \in Listings /\ l = task[h].on /\ listing'[l].status \in ListingStatus
    <3>1. Exists(l) /\ listing'[l].maker = listing[l].maker
      BY <2>3 DEF LeavesAlone, Exists
    <3>2. ASSUME "status" \notin contended[l]
          PROVE  StatusSeen(t, listing'[l])
      <4>1. "status" \notin Concerns(t.pc) \/ "status" \notin Concerns(task[h].pc)
        BY <1>3, <2>3, <3>2 DEF RaceInv, RacesAreRecorded
      <4>2. StatusSeen(t, listing[l])
        BY <2>1, <2>3, <3>1, <3>2 DEF IsCurrent
      <4>3. QED
        BY <2>3, <3>1, <4>1, <4>2, SeenFrame DEF LeavesAlone
    <3>3. ASSUME "channel" \notin contended[l]
          PROVE  ChannelSeen(t, listing'[l])
      <4>1. "channel" \notin Concerns(t.pc) \/ "channel" \notin Concerns(task[h].pc)
        BY <1>3, <2>3, <3>3 DEF RaceInv, RacesAreRecorded
      <4>2. ChannelSeen(t, listing[l])
        BY <2>1, <2>3, <3>1, <3>3 DEF IsCurrent
      <4>3. QED
        BY <2>3, <3>1, <4>1, <4>2, SeenFrame DEF LeavesAlone
    <3>4. QED
      BY <2>1, <3>2, <3>3 DEF IsCurrent, Exists
  <2>4. QED
    BY <2>1, <2>2, <2>3 DEF IsCurrent, Exists
<1>4. ReadsAreCurrent'
  BY <1>3 DEF ReadsAreCurrent
<1>5. QED
  BY <1>1, <1>2, <1>4 DEF RaceInv

LEMMA Written ==
  ASSUME IInv, NEW h \in Handlers, NEW row, Write(h, row), task[h].on \in Listings
  PROVE  /\ listing'[task[h].on] = IF Exists(task[h].on) THEN row ELSE Row(h)
         /\ \A k \in Listings \ {task[h].on} : listing'[k] = listing[k]
  BY DEF Write, Row, IInv, TypeOK

LEMMA Ended ==
  ASSUME IInv, NEW h \in Handlers, Finish(h)
  PROVE  task'[h] = Idle /\ \A g \in Handlers \ {h} : task'[g] = task[g]
  BY DEF Finish, IInv, TypeOK

LEMMA WentOn ==
  ASSUME IInv, NEW h \in Handlers, NEW pc, Goto(h, pc)
  PROVE  /\ task'[h] = [task[h] EXCEPT !.pc = pc]
         /\ task'[h].pc = pc /\ task'[h].on = task[h].on
         /\ task'[h].channel = task[h].channel
         /\ \A g \in Handlers \ {h} : task'[g] = task[g]
  BY DEF Goto, IInv, TypeOK, TaskType

\* What the new row of a listing may differ in from the old one, by concerns.
OnlyConcerns(row, old, concerns) ==
  row.status \in ListingStatus =>
    /\ row.maker = old.maker /\ old.priced \subseteq row.priced
    /\ "status" \notin concerns =>
         row.status = old.status /\ row.withdrawn = old.withdrawn
    /\ "channel" \notin concerns =>
         row.channel = old.channel /\ row.stage = old.stage

LEMMA WriteLeavesAlone ==
  ASSUME IInv, NEW h \in Handlers, ~At(h, "idle"), NEW row, Write(h, row),
         contended' = contended, row.status # "ABSENT",
         OnlyConcerns(row, Row(h), Concerns(task[h].pc)),
         \/ Finish(h)
         \/ \E pc : Goto(h, pc) /\ Concerns(pc) \subseteq Concerns(task[h].pc)
  PROVE  LeavesAlone(h)
<1>1. task[h].on \in Listings
  BY TaskFacts DEF At
<1>2. /\ \A g \in Handlers \ {h} : task'[g] = task[g]
      /\ task'[h].pc # "idle" => /\ task'[h].on = task[h].on
                                 /\ Concerns(task'[h].pc) \subseteq Concerns(task[h].pc)
  BY Ended, WentOn, IdleFacts
<1>3. \A k \in Listings \ {task[h].on} : listing'[k] = listing[k]
  BY <1>1, Written
<1>4. CASE ~Exists(task[h].on)
  <2>1. listing'[task[h].on] = listing[task[h].on]
    BY <1>1, <1>4, Written DEF Row
  <2>2. QED
    BY <1>2, <1>3, <1>4, <2>1 DEF LeavesAlone, Exists, At
<1>5. CASE Exists(task[h].on)
  <2>1. listing'[task[h].on] = row
    BY <1>1, <1>5, Written
  <2>2. QED
    BY <1>2, <1>3, <1>5, <2>1 DEF LeavesAlone, OnlyConcerns, Row, At
<1>6. QED
  BY <1>4, <1>5

\* A step that writes no row.
LEMMA QuietLeavesAlone ==
  ASSUME NEW h \in Handlers, ~At(h, "idle"), listing' = listing, contended' = contended,
         \A g \in Handlers \ {h} : task'[g] = task[g],
         task'[h].pc # "idle" => /\ task'[h].on = task[h].on
                                 /\ Concerns(task'[h].pc) \subseteq Concerns(task[h].pc)
  PROVE  LeavesAlone(h)
  BY DEF LeavesAlone, At

LEMMA EndRaceInv ==
  ASSUME RaceInv, NEW h \in Handlers, LeavesAlone(h), IInv', Finish(h)
  PROVE  RaceInv'
<1>1. IsCurrent(task[h])'
  BY Ended, IdleFacts DEF RaceInv, IsCurrent, StatusSeen, ChannelSeen
<1>2. QED
  BY <1>1, StepRaceInv

\* Starting a task that has just read its listing.
LEMMA StartRaceInv ==
  ASSUME RaceInv, NEW h \in Handlers, NEW t, t.pc # "idle", t.on \in Listings, Exists(t.on),
         StatusSeen(t, listing[t.on]), ChannelSeen(t, listing[t.on]), Start(h, t), IInv'
  PROVE  RaceInv'
<1>1. /\ task'[h] = t /\ \A g \in Handlers \ {h} : task'[g] = task[g]
      /\ listing' = listing /\ contended \in [Listings -> SUBSET {"status", "channel"}]
  BY DEF Start, RaceInv, IInv, TypeOK
<1>2. /\ \A l \in Listings : contended[l] \subseteq contended'[l]
      /\ \A g \in Handlers \ {h} : task[g].on = t.on =>
           Concerns(t.pc) \cap Concerns(task[g].pc) \subseteq contended'[t.on]
  <2> DEFINE C == contended[t.on]
                    \cup (Concerns(t.pc) \cap UNION {Concerns(task[g].pc) : g \in Busy(t.on)})
  <2>1. contended' = [contended EXCEPT ![t.on] = C]
    BY DEF Start, Contend
  <2>2. contended[t.on] \subseteq C
    OBVIOUS
  <2>3. \A g \in Handlers : task[g].on = t.on =>
          Concerns(t.pc) \cap Concerns(task[g].pc) \subseteq C
    BY DEF Busy
  <2> HIDE DEF C
  <2>4. QED
    BY <1>1, <2>1, <2>2, <2>3
<1>3. RacesAreRecorded'
  <2>1. SUFFICES ASSUME NEW f \in Handlers, NEW g \in Handlers, f # g,
                        task'[f].on = task'[g].on, task'[f].on \in Listings
                 PROVE  Concerns(task'[f].pc) \cap Concerns(task'[g].pc)
                          \subseteq contended'[task'[f].on]
    BY DEF RacesAreRecorded
  <2>2. CASE f = h
    BY <1>1, <1>2, <2>1, <2>2
  <2>3. CASE g = h
    BY <1>1, <1>2, <2>1, <2>3
  <2>4. CASE f # h /\ g # h
    BY <1>1, <1>2, <2>1, <2>4 DEF RaceInv, RacesAreRecorded
  <2>5. QED
    BY <2>2, <2>3, <2>4
<1>4. TasksHaveRows'
  BY <1>1 DEF RaceInv, TasksHaveRows, At, Exists, ListingStatus
<1>5. ReadsAreCurrent'
  <2>1. IsCurrent(task[h])'
    BY <1>1 DEF IsCurrent
  <2>2. ASSUME NEW g \in Handlers \ {h}
        PROVE  IsCurrent(task[g])'
    BY <1>1, <1>2 DEF RaceInv, ReadsAreCurrent, IsCurrent, Exists
  <2>3. QED
    BY <2>1, <2>2 DEF ReadsAreCurrent
<1>6. QED
  BY <1>3, <1>4, <1>5 DEF RaceInv

-----------------------------------------------------------------------------
(* The transition table *)

LEMMA Table ==
  ASSUME NEW s \in ListingStatus
  PROVE  /\ "PENDING_REVIEW" \in ALLOWED_TRANSITIONS[s] => s = "DRAFT"
         /\ s \in {"DRAFT", "REJECTED"} => Decisions \cap ALLOWED_TRANSITIONS[s] = {}
         /\ ALLOWED_TRANSITIONS[s] \subseteq ListingStatus
<1>1. /\ ALLOWED_TRANSITIONS["DRAFT"] = {"PENDING_REVIEW"}
      /\ ALLOWED_TRANSITIONS["PENDING_REVIEW"] = {"APPROVED", "REJECTED"}
      /\ ALLOWED_TRANSITIONS["APPROVED"] = {"PUBLISHED", "REJECTED"}
      /\ ALLOWED_TRANSITIONS["PUBLISHED"] =
           {"RESERVED", "SOLD", "SUSPENDED", "EXPIRED", "ARCHIVED"}
      /\ ALLOWED_TRANSITIONS["RESERVED"] = {"PUBLISHED", "SOLD"}
      /\ ALLOWED_TRANSITIONS["REJECTED"] = {"DRAFT"}
      /\ ALLOWED_TRANSITIONS["SUSPENDED"] = {"PUBLISHED"}
      /\ ALLOWED_TRANSITIONS["SOLD"] = {"ARCHIVED"}
      /\ ALLOWED_TRANSITIONS["EXPIRED"] = {"DRAFT"}
      /\ ALLOWED_TRANSITIONS["ARCHIVED"] = {}
  BY DEF ALLOWED_TRANSITIONS
<1>2. QED
  BY <1>1 DEF ListingStatus, Decisions

-----------------------------------------------------------------------------
(* Starting a handler *)

LEMMA BeginRaceInv ==
  ASSUME RaceInv, NEW h \in Handlers, Begin(h)
  PROVE  RaceInv'
<1>1. IInv'
  BY BeginIInv DEF RaceInv
<1> USE DEF StatusSeen, ChannelSeen
<1>2. ASSUME NEW l \in Listings, BeginUpdateOwn(h, l)
      PROVE  RaceInv'
  <2>1. PICK t : t.pc = "update" /\ t.on = l /\ Start(h, t)
    BY <1>2 DEF BeginUpdateOwn, Idle
  <2>2. QED
    BY <1>1, <1>2, <2>1, StartRaceInv DEF BeginUpdateOwn, Owned, Live
<1>3. ASSUME NEW l \in Listings, BeginDeleteOwn(h, l)
      PROVE  RaceInv'
  <2>1. PICK t : t.pc = "withdraw" /\ t.on = l /\ Start(h, t)
    BY <1>3 DEF BeginDeleteOwn, Idle
  <2>2. QED
    BY <1>1, <1>3, <2>1, StartRaceInv DEF BeginDeleteOwn, Owned, Live
<1>4. ASSUME NEW l \in Listings, BeginAddPhotos(h, l)
      PROVE  RaceInv'
  <2>1. PICK t : t.pc = "countPhotos" /\ t.on = l /\ Start(h, t)
    BY <1>4 DEF BeginAddPhotos, Idle
  <2>2. QED
    BY <1>1, <1>4, <2>1, StartRaceInv DEF BeginAddPhotos, Owned, Live
<1>5. ASSUME NEW l \in Listings, BeginSubmitForReview(h, l)
      PROVE  RaceInv'
  <2>1. PICK t : t.pc = "countSubmit" /\ t.on = l /\ Start(h, t)
    BY <1>5 DEF BeginSubmitForReview, Idle
  <2>2. listing[l].status = "DRAFT" /\ ~listing[l].withdrawn /\ Exists(l)
    BY <1>5, Table DEF BeginSubmitForReview, Owned, Live, Exists
  <2>3. QED
    BY <1>1, <2>1, <2>2, StartRaceInv
<1>6. ASSUME NEW l \in Listings, BeginDecision(h, l)
      PROVE  RaceInv'
  <2>1. PICK to \in Decisions \cap ALLOWED_TRANSITIONS[listing[l].status] :
          Start(h, [Idle EXCEPT !.pc = "decide", !.on = l, !.to = to])
    BY <1>6 DEF BeginDecision
  <2> DEFINE t == [Idle EXCEPT !.pc = "decide", !.on = l, !.to = to]
  <2>2. t.pc = "decide" /\ t.on = l /\ t.to = to
    BY DEF Idle
  <2> HIDE DEF t
  <2>3. Start(h, t) /\ ~listing[l].withdrawn /\ Exists(l)
    BY <1>6, <2>1 DEF t, BeginDecision, Live
  <2>4. QED
    BY <1>1, <2>2, <2>3, StartRaceInv
<1>7. ASSUME NEW l \in Listings, BeginHardDelete(h, l)
      PROVE  RaceInv'
  <2>1. PICK t : t.pc = "delete" /\ t.on = l /\ Start(h, t)
    BY <1>7 DEF BeginHardDelete, Idle
  <2>2. QED
    BY <1>1, <1>7, <2>1, StartRaceInv DEF BeginHardDelete, Live
<1>8. ASSUME NEW l \in Listings, BeginEdit(h, l)
      PROVE  RaceInv'
  <2>1. PICK t : /\ t.pc = "edit" /\ t.on = l /\ Start(h, t)
                 /\ ~t.same => AdminMayChange(listing[l].status, t.to)
    BY <1>8, EditTask DEF RaceInv
  <2>2. QED
    BY <1>1, <1>8, <2>1, StartRaceInv DEF BeginEdit, Live
<1>9. ASSUME NEW l \in Listings, BeginAdvance(h, l)
      PROVE  RaceInv'
  <2>1. PICK stage \in ListingInventoryStage :
          Start(h, [Idle EXCEPT !.pc = "advance", !.on = l, !.to = stage,
                      !.same = (stage = listing[l].stage),
                      !.channel = ChannelAfter(listing[l], stage)])
    BY <1>9 DEF BeginAdvance
  <2> DEFINE same == (stage = listing[l].stage)
             channel == ChannelAfter(listing[l], stage)
             t == [Idle EXCEPT !.pc = "advance", !.on = l, !.to = stage,
                     !.same = same, !.channel = channel]
  <2> HIDE DEF same, channel
  <2>2. t.pc = "advance" /\ t.on = l /\ t.to = stage /\ t.same = same /\ t.channel = channel
    BY DEF Idle
  <2>3. Start(h, t)
    BY <2>1 DEF same, channel
  <2> HIDE DEF t
  <2>4. StatusSeen(t, listing[l]) /\ ChannelSeen(t, listing[l])
    BY <2>2 DEF same, channel
  <2>5. QED
    BY <1>1, <1>9, <2>2, <2>3, <2>4, StartRaceInv DEF BeginAdvance, Live
<1>10. QED
  BY <1>2, <1>3, <1>4, <1>5, <1>6, <1>7, <1>8, <1>9 DEF Begin

-----------------------------------------------------------------------------
(* Going on with a handler *)

Safe == ShownAsSubmitted /\ WithdrawnIsDraft /\ ChannelFitsStage /\ PlatformIsPriced

\* What the safety properties ask of a step of handler h, in its own listing: of the
\* status, and of the channel.
StatusGood(h) ==
  LET l == task[h].on
      from == listing[l].status
      new == listing'[l]
  IN "status" \notin contended[l] =>
       /\ new.maker = "seller" /\ new.profile = "market"
            /\ new.status \in ListingStatus \ {"DRAFT", "REJECTED"}
              => l \notin revised'
       /\ new.withdrawn => new.status = "DRAFT"
       /\ from \in ListingStatus /\ new.status \in ListingStatus /\ from # new.status
            => IF listing[l].maker = "admin" THEN AdminMayChange(from, new.status)
                                             ELSE new.status \in ALLOWED_TRANSITIONS[from]

ChannelGood(h) ==
  LET l == task[h].on
      new == listing'[l]
  IN "channel" \notin contended[l] =>
       /\ new.channel = "UZA_RWANDA_STOCK" => new.stage = "KIGALI_STOCK"
       /\ new.channel = "UZA_CHINA_SOURCING" => new.stage # "KIGALI_STOCK"
       /\ new.status \in ListingStatus /\ new.channel \in ADMIN_ONLY_SELLER_TYPES =>
            \/ PriceInputOf(new.channel) \in new.priced
            \/ l \in died'
            \/ \E g \in Handlers : task'[g].pc = "reprice" /\ task'[g].on = l

Good(h) ==
  /\ LeavesAlone(h)
  /\ revised' \subseteq revised \cup {task[h].on}
  /\ died \subseteq died'
  /\ StatusGood(h)
  /\ ChannelGood(h)

\* The other listings keep their properties.
LEMMA GoodStep ==
  ASSUME RaceInv, Safe, NEW h \in Handlers, task[h].on \in Listings, Good(h), IInv'
  PROVE  Safe' /\ StatusStep
<1> DEFINE l == task[h].on
<1>1. /\ contended' = contended /\ \A k \in Listings \ {l} : listing'[k] = listing[k]
      /\ \A g \in Handlers \ {h} : task'[g] = task[g]
  BY DEF Good, LeavesAlone
<1>2. ShownAsSubmitted'
  BY <1>1 DEF Safe, ShownAsSubmitted, Quiet, Exists, Good, StatusGood
<1>3. WithdrawnIsDraft'
  BY <1>1 DEF Safe, WithdrawnIsDraft, Quiet, Good, StatusGood
<1>4. ChannelFitsStage'
  BY <1>1 DEF Safe, ChannelFitsStage, Quiet, Good, ChannelGood
<1>5. PlatformIsPriced'
  <2>1. SUFFICES ASSUME NEW k \in Listings, "channel" \notin contended'[k], k \notin died',
                        listing'[k].status \in ListingStatus,
                        listing'[k].channel \in ADMIN_ONLY_SELLER_TYPES,
                        ~\E g \in Handlers : task'[g].pc = "reprice" /\ task'[g].on = k
                 PROVE  PriceInputOf(listing'[k].channel) \in listing'[k].priced
    BY DEF PlatformIsPriced, Quiet, Repricing, Busy, At, Exists
  <2>2. CASE k = l
    BY <1>1, <2>1, <2>2 DEF Good, ChannelGood
  <2>3. CASE k # l
    <3>1. ~Repricing(k)
      BY <1>1, <2>1, <2>3 DEF Repricing, Busy, At
    <3>2. k \in Quiet("channel") \ died
      BY <1>1, <2>1 DEF Quiet, Good
    <3>3. QED
      BY <1>1, <2>1, <2>3, <3>1, <3>2 DEF Safe, PlatformIsPriced, Exists
  <2>4. QED
    BY <2>2, <2>3
<1>6. StatusStep
  <2>1. SUFFICES ASSUME NEW k \in Listings, "status" \notin contended'[k],
                        listing[k].status \in ListingStatus,
                        listing'[k].status \in ListingStatus,
                        listing[k].status # listing'[k].status
                 PROVE  IF listing[k].maker = "admin"
                          THEN AdminMayChange(listing[k].status, listing'[k].status)
                          ELSE listing'[k].status \in ALLOWED_TRANSITIONS[listing[k].status]
    BY DEF StatusStep, Quiet
  <2>2. k = l
    BY <1>1, <2>1
  <2>3. QED
    BY <1>1, <2>1, <2>2 DEF Good, StatusGood
<1>7. QED
  BY <1>2, <1>3, <1>4, <1>5, <1>6 DEF Safe

LEMMA KeptStatus ==
  ASSUME RaceInv, Safe, NEW h \in Handlers, task[h].on \in Listings,
         listing'[task[h].on].status = Row(h).status,
         listing'[task[h].on].withdrawn = Row(h).withdrawn,
         listing'[task[h].on].maker = Row(h).maker,
         listing'[task[h].on].profile = "market" =>
           revised' = revised /\ Row(h).profile = "market"
  PROVE  StatusGood(h)
  BY DEF StatusGood, Row, Safe, ShownAsSubmitted, WithdrawnIsDraft, Quiet, Exists

LEMMA KeptChannel ==
  ASSUME RaceInv, Safe, NEW h \in Handlers, task[h].on \in Listings, died' = died,
         task[h].pc # "reprice", LeavesAlone(h),
         listing'[task[h].on].channel = Row(h).channel,
         listing'[task[h].on].stage = Row(h).stage,
         Row(h).priced \subseteq listing'[task[h].on].priced
  PROVE  ChannelGood(h)
<1> DEFINE l == task[h].on
           new == listing'[l]
<1>1. "channel" \notin contended[l] =>
        /\ new.channel = "UZA_RWANDA_STOCK" => new.stage = "KIGALI_STOCK"
        /\ new.channel = "UZA_CHINA_SOURCING" => new.stage # "KIGALI_STOCK"
  BY DEF Safe, ChannelFitsStage, Quiet, Row
<1>2. ASSUME "channel" \notin contended[l], l \notin died',
             new.status \in ListingStatus, new.channel \in ADMIN_ONLY_SELLER_TYPES,
             ~\E g \in Handlers : task'[g].pc = "reprice" /\ task'[g].on = l
      PROVE  PriceInputOf(new.channel) \in new.priced
  <2>1. ~Repricing(l)
    BY <1>2 DEF Repricing, Busy, At, LeavesAlone
  <2>2. PriceInputOf(Row(h).channel) \in Row(h).priced
    BY <1>2, <2>1 DEF Safe, PlatformIsPriced, Quiet, Row, Exists, LeavesAlone
  <2>3. QED
    BY <2>2
<1>3. QED
  BY <1>1, <1>2 DEF ChannelGood

\* A step that writes no row and ends or keeps its task is good.
LEMMA QuietGood ==
  ASSUME RaceInv, Safe, NEW h \in Handlers, ~At(h, "idle"), task[h].pc # "reprice",
         listing' = listing, UNCHANGED history, LeavesAlone(h)
  PROVE  Good(h)
<1>1. task[h].on \in Listings
  BY TaskFacts DEF At, RaceInv
<1>2. StatusGood(h) /\ ChannelGood(h)
  BY <1>1, KeptStatus, KeptChannel DEF Row, history
<1>3. QED
  BY <1>2 DEF Good, history

\* What a busy handler knows.
LEMMA Knows ==
  ASSUME RaceInv, NEW h \in Handlers, ~At(h, "idle")
  PROVE  /\ IInv /\ task[h] \in TaskType /\ task[h].on \in Listings /\ Row(h) \in RowType
         /\ Row(h).status # "ABSENT"
         /\ Exists(task[h].on) =>
              /\ Row(h).status \in ListingStatus
              /\ "status" \notin contended[task[h].on] => StatusSeen(task[h], Row(h))
              /\ "channel" \notin contended[task[h].on] => ChannelSeen(task[h], Row(h))
  BY TaskFacts DEF RaceInv, TasksHaveRows, ReadsAreCurrent, IsCurrent, At, Row, Exists

\* A write of the status, and perhaps of soft deletion, that the table and what the
\* handler saw allow.
LEMMA StatusWriteGood ==
  ASSUME RaceInv, Safe, NEW h \in Handlers, ~At(h, "idle"), task[h].pc # "reprice",
         NEW row \in RowType, Write(h, row), Finish(h), UNCHANGED <<contended, died>>,
         revised' \subseteq revised \cup {task[h].on},
         row.maker = Row(h).maker, row.channel = Row(h).channel, row.stage = Row(h).stage,
         Row(h).priced \subseteq row.priced, "status" \in Concerns(task[h].pc),
         row.status # "ABSENT",
         Exists(task[h].on) /\ "status" \notin contended[task[h].on] =>
           /\ row.maker = "seller" /\ row.profile = "market"
                /\ row.status \notin {"DRAFT", "REJECTED"}
                  => task[h].on \notin revised'
           /\ row.withdrawn => row.status = "DRAFT"
           /\ row.status # Row(h).status =>
                IF row.maker = "admin" THEN AdminMayChange(Row(h).status, row.status)
                                       ELSE row.status \in ALLOWED_TRANSITIONS[Row(h).status]
  PROVE  Good(h)
<1> DEFINE l == task[h].on
<1>1. l \in Listings /\ IInv
  BY Knows
<1>2. listing'[l] = IF Exists(l) THEN row ELSE Row(h)
  BY <1>1, Written
<1>3. LeavesAlone(h)
  BY <1>1, WriteLeavesAlone DEF OnlyConcerns
<1>4. ChannelGood(h)
  <2>1. listing'[l].channel = Row(h).channel /\ listing'[l].stage = Row(h).stage
        /\ Row(h).priced \subseteq listing'[l].priced
    BY <1>2
  <2>2. QED
    BY <1>1, <1>3, <2>1, KeptChannel
<1>5. StatusGood(h)
  <2>1. CASE Exists(l)
    <3>1. listing'[l] = row
      BY <1>2, <2>1
    <3>2. QED
      BY <2>1, <3>1 DEF StatusGood, Row
  <2>2. CASE ~Exists(l)
    <3>1. listing'[l] = listing[l]
      BY <1>2, <2>2 DEF Row
    <3>2. QED
      BY <1>1, <2>2, <3>1 DEF StatusGood, Exists, Safe, WithdrawnIsDraft, Quiet
  <2>3. QED
    BY <2>1, <2>2
<1>6. QED
  BY <1>3, <1>4, <1>5 DEF Good

LEMMA DeleteOwnGood ==
  ASSUME RaceInv, Safe, NEW h \in Handlers, CommitDeleteOwn(h)
  PROVE  Good(h)
<1> DEFINE row == [Row(h) EXCEPT !.withdrawn = TRUE]
<1>1. /\ At(h, "withdraw") /\ ~At(h, "idle") /\ Write(h, row) /\ Finish(h)
      /\ revised' = revised /\ UNCHANGED <<contended, died>>
  BY DEF CommitDeleteOwn, history, At
<1>2. Row(h) \in RowType /\ Row(h).status # "ABSENT"
  BY <1>1, Knows
<1>3. /\ row \in RowType /\ row.status = Row(h).status /\ row.maker = Row(h).maker
      /\ row.channel = Row(h).channel /\ row.stage = Row(h).stage
      /\ row.priced = Row(h).priced
  BY <1>2 DEF RowType
<1> HIDE DEF row
<1>4. Exists(task[h].on) /\ "status" \notin contended[task[h].on] => row.status = "DRAFT"
  BY <1>1, <1>3, Knows DEF StatusSeen, At
<1>5. "status" \in Concerns(task[h].pc)
  BY <1>1 DEF Concerns, At
<1>6. QED
  BY <1>1, <1>2, <1>3, <1>4, <1>5, StatusWriteGood DEF At

LEMMA SubmitGood ==
  ASSUME RaceInv, Safe, NEW h \in Handlers, CommitSubmitForReview(h)
  PROVE  Good(h)
<1> DEFINE row == [Row(h) EXCEPT !.status = "PENDING_REVIEW"]
<1>1. /\ At(h, "submit") /\ ~At(h, "idle") /\ Write(h, row) /\ Finish(h)
      /\ revised' = revised \ {task[h].on} /\ UNCHANGED <<contended, died>>
  BY DEF CommitSubmitForReview, At
<1>2. Row(h) \in RowType
  BY <1>1, Knows
<1>3. /\ row \in RowType /\ row.status = "PENDING_REVIEW" /\ row.maker = Row(h).maker
      /\ row.channel = Row(h).channel /\ row.stage = Row(h).stage
      /\ row.priced = Row(h).priced /\ row.withdrawn = Row(h).withdrawn
  BY <1>2 DEF RowType, ListingStatus
<1> HIDE DEF row
<1>4. Exists(task[h].on) /\ "status" \notin contended[task[h].on] =>
        Row(h).status = "DRAFT" /\ ~Row(h).withdrawn
  BY <1>1, Knows DEF StatusSeen, At
<1>5. "PENDING_REVIEW" \in ALLOWED_TRANSITIONS["DRAFT"]
  BY DEF ALLOWED_TRANSITIONS
<1>6. "status" \in Concerns(task[h].pc)
  BY <1>1 DEF Concerns, At
<1>7. QED
  BY <1>1, <1>2, <1>3, <1>4, <1>5, <1>6, StatusWriteGood DEF At, AdminMayChange

LEMMA DecisionGood ==
  ASSUME RaceInv, Safe, NEW h \in Handlers, CommitDecision(h)
  PROVE  Good(h)
<1> DEFINE to == task[h].to
           row == [Row(h) EXCEPT !.status = to]
<1>1. /\ At(h, "decide") /\ ~At(h, "idle") /\ Write(h, row) /\ Finish(h)
      /\ revised' = revised /\ UNCHANGED <<contended, died>>
  BY DEF CommitDecision, history, At
<1>2. Row(h) \in RowType /\ to \in ListingStatus /\ IInv
  BY <1>1, Knows, TaskFacts DEF TaskIsSound, At
<1>3. /\ row \in RowType /\ row.status = to /\ row.maker = Row(h).maker
      /\ row.channel = Row(h).channel /\ row.stage = Row(h).stage
      /\ row.priced = Row(h).priced /\ row.withdrawn = Row(h).withdrawn
      /\ row.profile = Row(h).profile
  BY <1>2 DEF RowType
<1> HIDE DEF row
<1>4. Exists(task[h].on) /\ "status" \notin contended[task[h].on] =>
        /\ to \in Decisions \cap ALLOWED_TRANSITIONS[Row(h).status] /\ ~Row(h).withdrawn
        /\ Row(h).status \in ListingStatus
  BY <1>1, Knows DEF StatusSeen, At
<1>5. Exists(task[h].on) /\ "status" \notin contended[task[h].on] =>
        (Row(h).maker = "seller" /\ Row(h).profile = "market" => task[h].on \notin revised)
  BY <1>1, <1>4, Table, Knows
  DEF Safe, ShownAsSubmitted, Quiet, Row
<1>6. "status" \in Concerns(task[h].pc) /\ to # "ABSENT"
  BY <1>1, <1>2 DEF Concerns, At, ListingStatus
<1>7. QED
  BY <1>1, <1>2, <1>3, <1>4, <1>5, <1>6, StatusWriteGood DEF At, AdminMayChange

LEMMA CommitEditGood ==
  ASSUME RaceInv, Safe, NEW h \in Handlers, CommitEdit(h)
  PROVE  Good(h)
<1> DEFINE t == task[h]
           status == IF t.same THEN Row(h).status ELSE t.to
           priced == IF t.prices THEN Row(h).priced \cup {PriceInputOf(t.channel)}
                                 ELSE Row(h).priced
           photos == (Row(h).photos \ t.remove) \cup t.add
           primary == (Row(h).primary \ (t.remove \cup t.unset)) \cup t.set
           row == [Row(h) EXCEPT !.status = status, !.priced = priced,
                                 !.photos = photos, !.primary = primary]
<1>1. /\ At(h, "open") /\ ~At(h, "idle") /\ Write(h, row) /\ Finish(h)
      /\ revised' = revised /\ UNCHANGED <<contended, died>>
  BY DEF CommitEdit, history, At
<1>2. Row(h) \in RowType /\ t \in TaskType /\ t.to \in ListingStatus
      /\ Row(h).status # "ABSENT" /\ IInv
  BY <1>1, Knows, TaskFacts DEF TaskIsSound, At
<1>3. priced \subseteq {"base", "fob", "payout"} /\ Row(h).priced \subseteq priced
  BY <1>2, PriceInputs DEF RowType
<1>4. photos \subseteq Photos /\ primary \subseteq Photos
  BY <1>2 DEF RowType, TaskType
<1>5. status \in ListingStatus \cup {"GONE"}
  BY <1>2 DEF RowType
<1>6. Exists(t.on) /\ "status" \notin contended[t.on] =>
        /\ Row(h).maker = "admin" /\ ~Row(h).withdrawn
        /\ status # Row(h).status => AdminMayChange(Row(h).status, status)
  BY <1>1, Knows DEF StatusSeen, At
<1> HIDE DEF status, priced, photos, primary
<1>7. /\ row \in RowType /\ row.status = status /\ row.maker = Row(h).maker
      /\ row.channel = Row(h).channel /\ row.stage = Row(h).stage
      /\ row.priced = priced /\ row.withdrawn = Row(h).withdrawn
  BY <1>2, <1>3, <1>4, <1>5 DEF RowType
<1>8. "status" \in Concerns(t.pc) /\ row.status # "ABSENT"
  BY <1>1, <1>5, <1>7 DEF Concerns, At, ListingStatus
<1> HIDE DEF row
<1>9. QED
  BY <1>1, <1>2, <1>3, <1>6, <1>7, <1>8, StatusWriteGood DEF At

LEMMA UpdateOwnGood ==
  ASSUME RaceInv, Safe, NEW h \in Handlers, CommitUpdateOwn(h)
  PROVE  Good(h)
<1> DEFINE t == task[h]
           l == task[h].on
           channel == IF t.same THEN Row(h).channel ELSE t.channel
           priced == IF t.prices THEN Row(h).priced \cup {PriceInputOf(t.channel)}
                                 ELSE Row(h).priced
           row == [Row(h) EXCEPT !.channel = channel, !.priced = priced]
<1>1. /\ At(h, "update") /\ ~At(h, "idle") /\ Write(h, row) /\ Finish(h)
      /\ revised' = revised \cup {l} /\ UNCHANGED <<contended, died>>
  BY DEF CommitUpdateOwn, At
<1>2. /\ l \in Listings /\ Row(h) \in RowType /\ Row(h).status # "ABSENT" /\ IInv
      /\ ~t.same => t.channel \in MARKETPLACE_SELLER_TYPES
  BY <1>1, Knows, TaskFacts DEF TaskIsSound, At
<1>3. Row(h).priced \subseteq priced
  OBVIOUS
<1> HIDE DEF priced
<1>4. /\ row.status = Row(h).status /\ row.maker = Row(h).maker
      /\ row.channel = channel /\ row.stage = Row(h).stage
      /\ row.priced = priced /\ row.withdrawn = Row(h).withdrawn
  BY <1>2 DEF RowType
<1> HIDE DEF row
<1>5. Concerns(task[h].pc) = {"status", "channel"}
  BY <1>1 DEF Concerns, At
<1>6. LeavesAlone(h)
  BY <1>1, <1>2, <1>3, <1>4, <1>5, WriteLeavesAlone DEF OnlyConcerns
<1>7. listing'[l] = IF Exists(l) THEN row ELSE Row(h)
  BY <1>1, <1>2, Written
<1>8. StatusGood(h)
  <2>1. CASE Exists(l)
    <3>1. "status" \notin contended[l] => Row(h).status \in {"DRAFT", "REJECTED"}
      BY <1>1, <2>1, Knows DEF StatusSeen, At
    <3>2. "status" \notin contended[l] => (Row(h).withdrawn => Row(h).status = "DRAFT")
      BY <1>2 DEF Safe, WithdrawnIsDraft, Quiet, Row
    <3>3. QED
      BY <1>4, <1>7, <2>1, <3>1, <3>2 DEF StatusGood, Row
  <2>2. CASE ~Exists(l)
    <3>1. listing'[l] = listing[l]
      BY <1>7, <2>2 DEF Row
    <3>2. QED
      BY <1>2, <2>2, <3>1 DEF StatusGood, Exists, Safe, WithdrawnIsDraft, Quiet
  <2>3. QED
    BY <2>1, <2>2
<1>9. ChannelGood(h)
  <2>1. CASE t.same \/ ~Exists(l)
    <3>1. listing'[l].channel = Row(h).channel /\ listing'[l].stage = Row(h).stage
          /\ Row(h).priced \subseteq listing'[l].priced
      BY <1>3, <1>4, <1>7, <2>1
    <3>2. QED
      BY <1>1, <1>2, <1>6, <3>1, KeptChannel DEF At
  <2>2. CASE ~t.same /\ Exists(l)
    BY <1>2, <1>4, <1>7, <2>2
    DEF ChannelGood, MARKETPLACE_SELLER_TYPES, ADMIN_ONLY_SELLER_TYPES
  <2>3. QED
    BY <2>1, <2>2
<1>10. QED
  BY <1>1, <1>6, <1>8, <1>9 DEF Good

LEMMA AddPhotosGood ==
  ASSUME RaceInv, Safe, NEW h \in Handlers, CommitAddPhotos(h)
  PROVE  Good(h)
<1> DEFINE l == task[h].on
           add == task[h].add
<1>1. /\ At(h, "addPhotos") /\ ~At(h, "idle") /\ Finish(h)
      /\ revised' = revised \cup {l} /\ UNCHANGED <<contended, died>>
  BY DEF CommitAddPhotos, At
<1>2. l \in Listings /\ Row(h) \in RowType /\ Row(h).status # "ABSENT" /\ IInv
  BY <1>1, Knows
<1>3. PICK row :
        /\ listing' = [listing EXCEPT ![l] = row]
        /\ row.status = Row(h).status /\ row.maker = Row(h).maker
        /\ row.channel = Row(h).channel /\ row.stage = Row(h).stage
        /\ row.priced = Row(h).priced /\ row.withdrawn = Row(h).withdrawn
  <2>1. CASE Exists(l)
    <3>1. PICK first \in add :
            listing' = [listing EXCEPT ![l].photos = @ \cup add,
                                       ![l].primary = @ \cup {first}]
      BY <2>1 DEF CommitAddPhotos
    <3> DEFINE row == [Row(h) EXCEPT !.photos = @ \cup add, !.primary = @ \cup {first}]
    <3>2. listing' = [listing EXCEPT ![l] = row]
      BY <1>2, <3>1 DEF Row, IInv, TypeOK
    <3>3. /\ row.status = Row(h).status /\ row.maker = Row(h).maker
          /\ row.channel = Row(h).channel /\ row.stage = Row(h).stage
          /\ row.priced = Row(h).priced /\ row.withdrawn = Row(h).withdrawn
      BY <1>2 DEF RowType
    <3> HIDE DEF row
    <3>4. QED
      BY <3>2, <3>3
  <2>2. CASE ~Exists(l)
    <3>1. listing' = [listing EXCEPT ![l] = Row(h)]
      BY <1>2, <2>2 DEF CommitAddPhotos, Row, IInv, TypeOK
    <3>2. QED
      BY <3>1
  <2>3. QED
    BY <2>1, <2>2
<1>4. listing'[l] = row /\ \A k \in Listings \ {l} : listing'[k] = listing[k]
  BY <1>2, <1>3 DEF IInv, TypeOK
<1>5. /\ \A g \in Handlers \ {h} : task'[g] = task[g]
      /\ task'[h].pc = "idle"
  BY <1>1, <1>2, Ended, IdleFacts
<1>6. ~Exists(l) => listing'[l] = listing[l]
  BY <1>2, <1>3 DEF CommitAddPhotos
<1>7. LeavesAlone(h)
  BY <1>1, <1>2, <1>3, <1>4, <1>5, <1>6 DEF LeavesAlone, Row, Exists
<1>8. StatusGood(h)
  <2>1. "status" \notin contended[l] /\ Exists(l) => Row(h).status \in {"DRAFT", "REJECTED"}
    BY <1>1, Knows DEF StatusSeen, At
  <2>2. "status" \notin contended[l] => (Row(h).withdrawn => Row(h).status = "DRAFT")
    BY <1>2 DEF Safe, WithdrawnIsDraft, Quiet, Row
  <2>3. QED
    BY <1>3, <1>4, <2>1, <2>2 DEF StatusGood, Row, Exists
<1>9. ChannelGood(h)
  BY <1>1, <1>2, <1>3, <1>4, <1>7, KeptChannel DEF At
<1>10. QED
  BY <1>1, <1>7, <1>8, <1>9 DEF Good

LEMMA HardDeleteGood ==
  ASSUME RaceInv, Safe, NEW h \in Handlers, CommitHardDelete(h)
  PROVE  Good(h)
<1> DEFINE l == task[h].on
           row == [Absent EXCEPT !.status = "GONE"]
<1>1. /\ At(h, "delete") /\ ~At(h, "idle") /\ Write(h, row) /\ Finish(h)
      /\ UNCHANGED <<revised, contended, died>>
  BY DEF CommitHardDelete, history, At
<1>2. l \in Listings /\ Row(h).status # "ABSENT" /\ IInv
  BY <1>1, Knows
<1>3. row.status = "GONE" /\ row.channel = "none" /\ ~row.withdrawn
  BY DEF Absent
<1> HIDE DEF row
<1>4. LeavesAlone(h)
  BY <1>1, <1>2, <1>3, WriteLeavesAlone DEF OnlyConcerns, ListingStatus
<1>5. CASE Exists(l)
  <2>1. listing'[l] = row
    BY <1>1, <1>2, <1>5, Written
  <2>2. StatusGood(h) /\ ChannelGood(h)
    BY <1>3, <2>1 DEF StatusGood, ChannelGood, ListingStatus, ADMIN_ONLY_SELLER_TYPES
  <2>3. QED
    BY <1>1, <1>4, <2>2 DEF Good
<1>6. CASE ~Exists(l)
  <2>1. listing'[l] = Row(h)
    BY <1>1, <1>2, <1>6, Written
  <2>2. StatusGood(h) /\ ChannelGood(h)
    BY <1>1, <1>2, <1>4, <2>1, KeptStatus, KeptChannel DEF At
  <2>3. QED
    BY <1>1, <1>4, <2>2 DEF Good
<1>7. QED
  BY <1>5, <1>6

\* A stage move leaves channel and stage together, and goes on to reprice a listing
\* whose channel it changed.
LEMMA AdvanceGood ==
  ASSUME RaceInv, Safe, NEW h \in Handlers, CommitAdvance(h)
  PROVE  Good(h) /\ IsCurrent(task[h])'
<1> DEFINE t == task[h]
           l == task[h].on
           stage == IF t.same THEN Row(h).stage ELSE t.to
           row == [Row(h) EXCEPT !.stage = stage, !.channel = NewChannel(h),
                                 !.profile = NewProfile(h)]
<1>1. /\ At(h, "advance") /\ ~At(h, "idle") /\ Write(h, row)
      /\ UNCHANGED <<contended, died>>
      /\ revised' = IF Moves(h) THEN revised \cup {l} ELSE revised
      /\ IF Moves(h) /\ Exists(l) THEN Goto(h, "reprice") ELSE Finish(h)
  BY DEF CommitAdvance, WriteStage, At
<1>2. /\ l \in Listings /\ Row(h) \in RowType /\ Row(h).status # "ABSENT" /\ IInv
      /\ t.to \in ListingInventoryStage
  BY <1>1, Knows, TaskFacts DEF TaskIsSound, At
<1> HIDE DEF stage
<1>3. /\ row.status = Row(h).status /\ row.maker = Row(h).maker
      /\ row.channel = NewChannel(h) /\ row.stage = stage
      /\ row.priced = Row(h).priced /\ row.withdrawn = Row(h).withdrawn
      /\ row.profile = NewProfile(h)
  BY <1>2 DEF RowType
<1> HIDE DEF row
<1>4. Concerns(t.pc) = {"channel"} /\ Concerns("reprice") = {"channel"}
  BY <1>1 DEF Concerns, At
<1>5. LeavesAlone(h)
  BY <1>1, <1>2, <1>3, <1>4, WriteLeavesAlone DEF OnlyConcerns
<1>6. listing'[l] = IF Exists(l) THEN row ELSE Row(h)
  BY <1>1, <1>2, Written
<1>7. StatusGood(h)
  <2>1. CASE ~Exists(l)
    BY <1>2, <1>6, <2>1 DEF StatusGood, Exists, Row, Safe, WithdrawnIsDraft, Quiet
  <2>2. CASE Exists(l) /\ Moves(h)
    <3>1. t.channel \in ADMIN_ONLY_SELLER_TYPES
      BY <1>1, <1>2, <2>2, TaskFacts DEF TaskIsSound, At, Moves
    <3>2. row.profile # "market"
      BY <1>3, <2>2, <3>1 DEF NewProfile, ADMIN_ONLY_SELLER_TYPES
    <3>3. QED
      BY <1>2, <1>3, <1>6, <2>2, <3>2, KeptStatus
  <2>3. CASE Exists(l) /\ ~Moves(h)
    BY <1>1, <1>2, <1>3, <1>6, <2>3, KeptStatus DEF NewProfile
  <2>4. QED
    BY <2>1, <2>2, <2>3
<1>8. ChannelGood(h)
  <2>1. CASE ~Exists(l)
    BY <1>1, <1>2, <1>5, <1>6, <2>1, KeptChannel DEF At
  <2>2. CASE Exists(l) /\ "channel" \notin contended[l]
    <3>1. t.channel = ChannelAfter(Row(h), t.to) /\ stage = t.to
      BY <1>1, <2>2, Knows DEF ChannelSeen, At, stage
    <3>2. /\ Row(h).channel = "UZA_RWANDA_STOCK" => Row(h).stage = "KIGALI_STOCK"
          /\ Row(h).channel = "UZA_CHINA_SOURCING" => Row(h).stage # "KIGALI_STOCK"
      BY <1>2, <2>2 DEF Safe, ChannelFitsStage, Quiet, Row
    <3>3. /\ row.channel = "UZA_RWANDA_STOCK" => row.stage = "KIGALI_STOCK"
          /\ row.channel = "UZA_CHINA_SOURCING" => row.stage # "KIGALI_STOCK"
      <4>1. CASE t.to = "KIGALI_STOCK"
        <5>1. t.channel = "UZA_RWANDA_STOCK"
          BY <3>1, <4>1 DEF ChannelAfter
        <5>2. QED
          BY <1>3, <3>1, <4>1, <5>1 DEF NewChannel, Moves
      <4>2. CASE t.to # "KIGALI_STOCK" /\ Row(h).stage = "KIGALI_STOCK"
        <5>1. t.channel = "UZA_CHINA_SOURCING"
          BY <3>1, <4>2 DEF ChannelAfter
        <5>2. QED
          BY <1>3, <3>1, <4>2, <5>1 DEF NewChannel, Moves
      <4>3. CASE t.to # "KIGALI_STOCK" /\ Row(h).stage # "KIGALI_STOCK"
        <5>1. t.channel = "unchanged"
          BY <3>1, <4>3 DEF ChannelAfter
        <5>2. QED
          BY <1>3, <3>1, <3>2, <4>3, <5>1 DEF NewChannel, Moves
      <4>4. QED
        BY <4>1, <4>2, <4>3
    <3>4. CASE Moves(h)
      <4>1. task'[h].pc = "reprice" /\ task'[h].on = l
        BY <1>1, <1>2, <2>2, <3>4, WentOn
      <4>2. QED
        BY <1>6, <2>2, <3>3, <4>1 DEF ChannelGood
    <3>5. CASE ~Moves(h)
      <4>1. row.channel = Row(h).channel
        BY <1>3, <3>5 DEF NewChannel
      <4>2. row.channel \in ADMIN_ONLY_SELLER_TYPES /\ l \notin died =>
              PriceInputOf(row.channel) \in row.priced \/ Repricing(l)
        BY <1>2, <1>3, <2>2, <4>1 DEF Safe, PlatformIsPriced, Quiet, Row
      <4>3. Repricing(l) => \E g \in Handlers : task'[g].pc = "reprice" /\ task'[g].on = l
        BY <1>1, <1>5 DEF Repricing, Busy, At, LeavesAlone
      <4>4. QED
        BY <1>1, <1>6, <2>2, <3>3, <4>2, <4>3 DEF ChannelGood
    <3>6. QED
      BY <3>4, <3>5
  <2>3. CASE "channel" \in contended[l]
    BY <2>3 DEF ChannelGood
  <2>4. QED
    BY <2>1, <2>2, <2>3
<1>9. IsCurrent(task[h])'
  <2>1. CASE Moves(h) /\ Exists(l)
    <3>1. task'[h].pc = "reprice" /\ task'[h].on = l /\ task'[h].channel = t.channel
      BY <1>1, <1>2, <2>1, WentOn
    <3>2. listing'[l].channel = t.channel
      BY <1>3, <1>6, <2>1 DEF NewChannel
    <3>3. QED
      BY <3>1, <3>2 DEF IsCurrent, StatusSeen, ChannelSeen
  <2>2. CASE ~(Moves(h) /\ Exists(l))
    BY <1>1, <1>2, <2>2, Ended, IdleFacts DEF IsCurrent, StatusSeen, ChannelSeen
  <2>3. QED
    BY <2>1, <2>2
<1>10. QED
  BY <1>1, <1>5, <1>7, <1>8, <1>9 DEF Good

LEMMA RepriceGood ==
  ASSUME RaceInv, Safe, NEW h \in Handlers, Reprice(h)
  PROVE  Good(h)
<1> DEFINE t == task[h]
           l == task[h].on
           priced == Row(h).priced \cup {PriceInputOf(t.channel)}
           row == [Row(h) EXCEPT !.priced = priced]
<1>1. /\ At(h, "reprice") /\ ~At(h, "idle") /\ Finish(h)
      /\ UNCHANGED <<revised, contended, died>>
  BY DEF Reprice, history, At
<1>2. l \in Listings /\ Row(h) \in RowType /\ Row(h).status # "ABSENT" /\ IInv
  BY <1>1, Knows
<1> HIDE DEF priced
<1>3. /\ row.status = Row(h).status /\ row.maker = Row(h).maker
      /\ row.channel = Row(h).channel /\ row.stage = Row(h).stage
      /\ row.priced = priced /\ row.withdrawn = Row(h).withdrawn
      /\ row.profile = Row(h).profile
  BY <1>2 DEF RowType
<1>4. /\ listing'[l] = IF Exists(l) THEN row ELSE Row(h)
      /\ \A k \in Listings \ {l} : listing'[k] = listing[k]
  BY <1>2 DEF Reprice, Row, IInv, TypeOK, priced
<1> HIDE DEF row
<1>5. Row(h).priced \subseteq priced /\ PriceInputOf(t.channel) \in priced
  BY DEF priced
<1>6. /\ \A g \in Handlers \ {h} : task'[g] = task[g]
      /\ task'[h].pc = "idle"
  BY <1>1, <1>2, Ended, IdleFacts
<1>7. LeavesAlone(h)
  BY <1>1, <1>2, <1>3, <1>4, <1>5, <1>6 DEF LeavesAlone, Row, Exists
<1>8. StatusGood(h)
  BY <1>1, <1>2, <1>3, <1>4, KeptStatus
<1>9. ChannelGood(h)
  <2>1. SUFFICES ASSUME "channel" \notin contended[l]
                 PROVE  ChannelGood(h)
    BY DEF ChannelGood
  <2>2. /\ listing'[l].channel = "UZA_RWANDA_STOCK" => listing'[l].stage = "KIGALI_STOCK"
        /\ listing'[l].channel = "UZA_CHINA_SOURCING" => listing'[l].stage # "KIGALI_STOCK"
    BY <1>2, <1>3, <1>4, <2>1 DEF Safe, ChannelFitsStage, Quiet, Row
  <2>3. Exists(l) => PriceInputOf(listing'[l].channel) \in listing'[l].priced
    BY <1>1, <1>3, <1>4, <1>5, <2>1, Knows DEF ChannelSeen, At
  <2>4. listing'[l].status \in ListingStatus => Exists(l)
    BY <1>4 DEF Exists, Row
  <2>5. QED
    BY <2>2, <2>3, <2>4 DEF ChannelGood
<1>10. QED
  BY <1>1, <1>7, <1>8, <1>9 DEF Good

LEMMA OpenEditGood ==
  ASSUME RaceInv, Safe, NEW h \in Handlers, OpenEdit(h)
  PROVE  Good(h) /\ IsCurrent(task[h])'
<1> DEFINE t == task[h]
           left == Row(h).photos \ t.remove
           unset == ClearedFlags(t, left, Row(h).primary)
<1>1. At(h, "edit") /\ ~At(h, "idle") /\ listing' = listing /\ UNCHANGED history
  BY DEF OpenEdit, EditOf, At
<1>2. IInv /\ t \in TaskType /\ IsCurrent(t)
  BY <1>1, Knows DEF RaceInv, ReadsAreCurrent
<1>3. \/ Finish(h)
      \/ \E set : task' = [task EXCEPT ![h] =
                    [t EXCEPT !.pc = "open", !.unset = unset, !.set = set]]
  BY DEF OpenEdit, EditOf
<1> HIDE DEF unset
<1>4. CASE Finish(h)
  <2>1. LeavesAlone(h)
    BY <1>1, <1>2, <1>4, Ended, IdleFacts, QuietLeavesAlone DEF history
  <2>2. IsCurrent(task[h])'
    BY <1>2, <1>4, Ended, IdleFacts DEF IsCurrent, StatusSeen, ChannelSeen
  <2>3. QED
    BY <1>1, <2>1, <2>2, QuietGood DEF At
<1>5. CASE ~Finish(h)
  <2>1. PICK set : task' = [task EXCEPT ![h] =
                     [t EXCEPT !.pc = "open", !.unset = unset, !.set = set]]
    BY <1>3, <1>5
  <2> DEFINE u == [t EXCEPT !.pc = "open", !.unset = unset, !.set = set]
  <2>2. u.pc = "open" /\ u.on = t.on /\ u.same = t.same /\ u.to = t.to
    BY <1>2 DEF TaskType
  <2> HIDE DEF u
  <2>3. task'[h] = u /\ \A g \in Handlers \ {h} : task'[g] = task[g]
    BY <1>2, <2>1 DEF u, IInv, TypeOK
  <2>4. Concerns("open") = {"status"} /\ Concerns(t.pc) = {"status"}
    BY <1>1 DEF Concerns, At
  <2>5. LeavesAlone(h)
    BY <1>1, <2>2, <2>3, <2>4, QuietLeavesAlone DEF history
  <2>6. IsCurrent(task[h])'
    BY <1>1, <1>2, <2>2, <2>3
    DEF IsCurrent, StatusSeen, ChannelSeen, At, Exists, history
  <2>7. QED
    BY <1>1, <2>5, <2>6, QuietGood DEF At
<1>6. QED
  BY <1>4, <1>5

\* The counts that come between a guard and its write change nothing of what was seen.
LEMMA CountGood ==
  ASSUME RaceInv, Safe, NEW h \in Handlers, CountPhotos(h) \/ CountSubmit(h)
  PROVE  Good(h) /\ IsCurrent(task[h])'
<1>1. ~At(h, "idle") /\ listing' = listing /\ UNCHANGED history
      /\ task[h].pc \in {"countPhotos", "countSubmit"}
  BY DEF CountPhotos, CountSubmit, At
<1>2. IInv /\ task[h] \in TaskType /\ IsCurrent(task[h])
  BY <1>1, Knows DEF RaceInv, ReadsAreCurrent
<1>3. \/ Finish(h)
      \/ At(h, "countPhotos") /\ Goto(h, "addPhotos")
      \/ At(h, "countSubmit") /\ Goto(h, "submit")
  BY DEF CountPhotos, CountSubmit
<1>4. CASE Finish(h)
  <2>1. LeavesAlone(h)
    BY <1>1, <1>2, <1>4, Ended, IdleFacts, QuietLeavesAlone DEF history
  <2>2. IsCurrent(task[h])'
    BY <1>2, <1>4, Ended, IdleFacts DEF IsCurrent, StatusSeen, ChannelSeen
  <2>3. QED
    BY <1>1, <2>1, <2>2, QuietGood
<1>5. ASSUME NEW pc, \/ At(h, "countPhotos") /\ pc = "addPhotos"
                     \/ At(h, "countSubmit") /\ pc = "submit",
             Goto(h, pc)
      PROVE  Good(h) /\ IsCurrent(task[h])'
  <2>1. task'[h].pc = pc /\ task'[h].on = task[h].on
        /\ \A g \in Handlers \ {h} : task'[g] = task[g]
    BY <1>2, <1>5, WentOn
  <2>2. Concerns(pc) = {"status"} /\ Concerns(task[h].pc) = {"status"}
    BY <1>5 DEF Concerns, At
  <2>3. LeavesAlone(h)
    BY <1>1, <2>1, <2>2, QuietLeavesAlone DEF history
  <2>4. IsCurrent(task[h])'
    BY <1>1, <1>2, <1>5, <2>1
    DEF IsCurrent, StatusSeen, ChannelSeen, At, Exists, history
  <2>5. QED
    BY <1>1, <2>3, <2>4, QuietGood
<1>6. QED
  BY <1>3, <1>4, <1>5

LEMMA CrashGood ==
  ASSUME RaceInv, Safe, NEW h \in Handlers, Crash(h)
  PROVE  Good(h) /\ IsCurrent(task[h])'
<1>1. /\ ~At(h, "idle") /\ Finish(h) /\ UNCHANGED <<listing, revised, contended>>
      /\ died' = IF At(h, "reprice") THEN died \cup {task[h].on} ELSE died
  BY DEF Crash
<1>2. IInv /\ task[h].on \in Listings
  BY <1>1, Knows
<1>3. LeavesAlone(h)
  BY <1>1, <1>2, Ended, IdleFacts, QuietLeavesAlone
<1>4. StatusGood(h)
  BY <1>1, <1>2, KeptStatus DEF Row
<1>5. ChannelGood(h)
  <2>1. CASE ~At(h, "reprice")
    BY <1>1, <1>2, <1>3, <2>1, KeptChannel DEF Row, At
  <2>2. CASE At(h, "reprice")
    BY <1>1, <1>2, <2>2 DEF ChannelGood, Safe, ChannelFitsStage, Quiet
  <2>3. QED
    BY <2>1, <2>2
<1>6. IsCurrent(task[h])'
  BY <1>1, <1>2, Ended, IdleFacts DEF IsCurrent, StatusSeen, ChannelSeen
<1>7. QED
  BY <1>1, <1>3, <1>4, <1>5, <1>6 DEF Good

LEMMA HandlerStep ==
  ASSUME RaceInv, Safe, NEW h \in Handlers, Continue(h) \/ Crash(h), IInv'
  PROVE  RaceInv' /\ Safe' /\ StatusStep
<1>1. ~At(h, "idle")
  BY DEF Continue, CommitUpdateOwn, CommitDeleteOwn, CountPhotos, CommitAddPhotos,
    CountSubmit, CommitSubmitForReview, CommitDecision, CommitHardDelete, OpenEdit, EditOf,
    CommitEdit, CommitAdvance, WriteStage, Reprice, Crash, At
<1>2. ASSUME Good(h), IsCurrent(task[h])'
      PROVE  RaceInv' /\ Safe' /\ StatusStep
  BY <1>1, <1>2, Knows, StepRaceInv, GoodStep DEF Good
<1>3. ASSUME Good(h), Finish(h)
      PROVE  RaceInv' /\ Safe' /\ StatusStep
  BY <1>1, <1>3, Knows, EndRaceInv, GoodStep DEF Good
<1>4. CASE \/ CommitUpdateOwn(h) \/ CommitDeleteOwn(h) \/ CommitAddPhotos(h)
           \/ CommitSubmitForReview(h) \/ CommitDecision(h) \/ CommitHardDelete(h)
           \/ CommitEdit(h) \/ Reprice(h)
  <2>1. Finish(h)
    BY <1>4 DEF CommitUpdateOwn, CommitDeleteOwn, CommitAddPhotos, CommitSubmitForReview,
      CommitDecision, CommitHardDelete, CommitEdit, Reprice
  <2>2. Good(h)
    BY <1>4, UpdateOwnGood, DeleteOwnGood, AddPhotosGood, SubmitGood, DecisionGood,
      HardDeleteGood, CommitEditGood, RepriceGood
  <2>3. QED
    BY <1>3, <2>1, <2>2
<1>5. CASE \/ CountPhotos(h) \/ CountSubmit(h) \/ OpenEdit(h) \/ CommitAdvance(h)
           \/ Crash(h)
  <2>1. Good(h) /\ IsCurrent(task[h])'
    BY <1>5, CountGood, OpenEditGood, AdvanceGood, CrashGood
  <2>2. QED
    BY <1>2, <2>1
<1>6. QED
  BY <1>4, <1>5 DEF Continue

-----------------------------------------------------------------------------
(* The other steps *)

LEMMA BeginSafe ==
  ASSUME RaceInv, Safe, NEW h \in Handlers, Begin(h)
  PROVE  Safe' /\ StatusStep
<1>1. PICK t : Start(h, t)
  <2>1. PICK l \in Listings :
          \/ BeginUpdateOwn(h, l) \/ BeginDeleteOwn(h, l) \/ BeginAddPhotos(h, l)
          \/ BeginSubmitForReview(h, l) \/ BeginDecision(h, l) \/ BeginHardDelete(h, l)
          \/ BeginEdit(h, l) \/ BeginAdvance(h, l)
    BY DEF Begin
  <2>2. CASE BeginEdit(h, l)
    BY <2>2, EditTask DEF RaceInv
  <2>3. CASE BeginUpdateOwn(h, l)
    BY <2>3 DEF BeginUpdateOwn
  <2>4. CASE BeginAddPhotos(h, l)
    BY <2>4 DEF BeginAddPhotos
  <2>5. CASE BeginDecision(h, l)
    BY <2>5 DEF BeginDecision
  <2>6. CASE BeginAdvance(h, l)
    BY <2>6 DEF BeginAdvance
  <2>7. CASE BeginDeleteOwn(h, l) \/ BeginSubmitForReview(h, l) \/ BeginHardDelete(h, l)
    BY <2>7 DEF BeginDeleteOwn, BeginSubmitForReview, BeginHardDelete
  <2>8. QED
    BY <2>1, <2>2, <2>3, <2>4, <2>5, <2>6, <2>7
<1>2. /\ listing' = listing /\ revised' = revised /\ died' = died /\ At(h, "idle")
      /\ \A g \in Handlers \ {h} : task'[g] = task[g]
  BY <1>1 DEF Start, RaceInv, IInv, TypeOK
<1>3. \A l \in Listings : contended[l] \subseteq contended'[l]
  BY <1>1 DEF Start, Contend, RaceInv, IInv, TypeOK
<1>4. ShownAsSubmitted' /\ WithdrawnIsDraft' /\ ChannelFitsStage'
  BY <1>2, <1>3
  DEF Safe, ShownAsSubmitted, WithdrawnIsDraft, ChannelFitsStage, Quiet, Exists
<1>5. PlatformIsPriced'
  BY <1>2, <1>3 DEF Safe, PlatformIsPriced, Quiet, Exists, Repricing, Busy, At
<1>6. StatusStep
  BY <1>2 DEF StatusStep
<1>7. QED
  BY <1>4, <1>5, <1>6 DEF Safe

\* The releases of invoices: what they race with is recorded like a race of two tasks.
LEMMA ReleaseRaceInv ==
  ASSUME RaceInv, Safe, NEW l \in Listings, ReleaseListing(l), IInv'
  PROVE  RaceInv' /\ Safe' /\ StatusStep
<1> DEFINE row == [listing[l] EXCEPT !.status = "PUBLISHED"]
<1>1. /\ UNCHANGED <<task, revised, died>> /\ listing[l].status = "RESERVED"
      /\ listing' = [listing EXCEPT ![l] = row] /\ listing[l] \in RowType
  BY DEF ReleaseListing, RaceInv, IInv, TypeOK
<1>2. /\ row.status = "PUBLISHED" /\ row.maker = listing[l].maker
      /\ row.channel = listing[l].channel /\ row.stage = listing[l].stage
      /\ row.priced = listing[l].priced /\ row.withdrawn = listing[l].withdrawn
      /\ row.profile = listing[l].profile
  BY <1>1 DEF RowType
<1> HIDE DEF row
<1>3. listing'[l] = row /\ \A k \in Listings \ {l} : listing'[k] = listing[k]
  BY <1>1 DEF RaceInv, IInv, TypeOK
<1>4. /\ \A k \in Listings : contended[k] \subseteq contended'[k]
      /\ \A g \in Handlers : task[g].on = l /\ "status" \in Concerns(task[g].pc)
           => "status" \in contended'[l]
  <2> DEFINE C == contended[l]
                    \cup ({"status"} \cap UNION {Concerns(task[g].pc) : g \in Busy(l)})
  <2>1. contended' = [contended EXCEPT ![l] = C]
    BY DEF ReleaseListing, Contend
  <2>2. contended[l] \subseteq C
    OBVIOUS
  <2>3. \A g \in Handlers : task[g].on = l /\ "status" \in Concerns(task[g].pc)
          => "status" \in C
    BY DEF Busy
  <2> HIDE DEF C
  <2>4. QED
    BY <2>1, <2>2, <2>3 DEF RaceInv, IInv, TypeOK
<1>5. RacesAreRecorded'
  BY <1>1, <1>4 DEF RaceInv, RacesAreRecorded
<1>6. TasksHaveRows'
  BY <1>1, <1>2, <1>3, TaskFacts DEF RaceInv, TasksHaveRows, At
<1>7. ASSUME NEW g \in Handlers
      PROVE  IsCurrent(task[g])'
  <2>1. IsCurrent(task[g]) /\ task'[g] = task[g]
    BY <1>1 DEF RaceInv, ReadsAreCurrent
  <2>2. CASE task[g].on # l
    BY <1>3, <1>4, <2>1, <2>2 DEF IsCurrent, Exists
  <2>3. CASE task[g].on = l
    <3>1. Exists(l)
      BY <1>1 DEF Exists, ListingStatus
    <3>2. "channel" \notin contended'[l] => ChannelSeen(task[g], row)
      BY <1>2, <1>4, <2>1, <2>3, <3>1, SeenFrame DEF IsCurrent
    <3>3. "status" \notin contended'[l] => StatusSeen(task[g], row)
      BY <1>2, <1>4, <2>3, SeenFrame
    <3>4. QED
      BY <1>3, <2>1, <2>3, <3>2, <3>3 DEF IsCurrent
  <2>4. QED
    BY <2>2, <2>3
<1>8. ShownAsSubmitted' /\ WithdrawnIsDraft'
  BY <1>1, <1>2, <1>3, <1>4
  DEF Safe, ShownAsSubmitted, WithdrawnIsDraft, Quiet, Exists, ListingStatus
<1>9. ChannelFitsStage'
  BY <1>2, <1>3, <1>4 DEF Safe, ChannelFitsStage, Quiet
<1>10. PlatformIsPriced'
  BY <1>1, <1>2, <1>3, <1>4
  DEF Safe, PlatformIsPriced, Quiet, Exists, Repricing, Busy, At, ListingStatus
<1>11. StatusStep
  <2>1. "PUBLISHED" \in ALLOWED_TRANSITIONS["RESERVED"]
    BY DEF ALLOWED_TRANSITIONS
  <2>2. QED
    BY <1>1, <1>2, <1>3, <2>1 DEF StatusStep, AdminMayChange
<1>12. QED
  BY <1>5, <1>6, <1>7, <1>8, <1>9, <1>10, <1>11 DEF RaceInv, ReadsAreCurrent, Safe

LEMMA CreateRaceInv ==
  ASSUME RaceInv, Safe, NEW l \in Listings, CreateForSeller(l) \/ CreateByAdmin(l), IInv'
  PROVE  RaceInv' /\ Safe' /\ StatusStep
<1>1. PICK row :
        /\ listing' = [listing EXCEPT ![l] = row]
        /\ row.status \in ListingStatus /\ row.maker \in {"seller", "admin"}
        /\ row.maker = "seller" => row.status = "DRAFT"
        /\ row.channel \in SellerType /\ ~row.withdrawn
        /\ row.stage = DefaultInventoryStage(row.channel)
        /\ row.priced = {PriceInputOf(row.channel)}
  <2>1. CASE CreateForSeller(l)
    <3>1. PICK channel \in MARKETPLACE_SELLER_TYPES :
            listing' = [listing EXCEPT ![l] = NewRow("seller", channel, "market", "DRAFT")]
      BY <2>1 DEF CreateForSeller
    <3> DEFINE row == NewRow("seller", channel, "market", "DRAFT")
    <3>2. /\ row.status = "DRAFT" /\ row.maker = "seller" /\ row.channel = channel
          /\ ~row.withdrawn /\ row.stage = DefaultInventoryStage(channel)
          /\ row.priced = {PriceInputOf(channel)}
      BY NewRowFacts DEF SellerType, ListingStatus
    <3> HIDE DEF row
    <3>3. listing' = [listing EXCEPT ![l] = row]
      BY <3>1 DEF row
    <3>4. QED
      BY <3>2, <3>3 DEF SellerType, ListingStatus
  <2>2. CASE CreateByAdmin(l)
    <3>1. PICK channel \in ADMIN_ONLY_SELLER_TYPES, status \in {"DRAFT", "PENDING_REVIEW"},
               ps \in Upto(PhotoLimit, FreshPhotos) :
            \E first \in IF ps = {} THEN {{}} ELSE {{p} : p \in ps} :
              listing' = [listing EXCEPT ![l] =
                [NewRow("admin", channel, channel, status)
                   EXCEPT !.photos = ps, !.primary = first]]
      BY <2>2 DEF CreateByAdmin
    <3>2. PICK first :
            listing' = [listing EXCEPT ![l] =
              [NewRow("admin", channel, channel, status)
                 EXCEPT !.photos = ps, !.primary = first]]
      BY <3>1
    <3> DEFINE new == NewRow("admin", channel, channel, status)
               row == [new EXCEPT !.photos = ps, !.primary = first]
    <3>3. /\ new \in RowType /\ new.status = status /\ new.maker = "admin"
          /\ new.channel = channel /\ ~new.withdrawn
          /\ new.stage = DefaultInventoryStage(channel)
          /\ new.priced = {PriceInputOf(channel)}
      BY NewRowFacts DEF SellerType, ListingStatus
    <3>4. listing' = [listing EXCEPT ![l] = row]
      BY <3>2
    <3> HIDE DEF new
    <3>5. /\ row.status = new.status /\ row.maker = new.maker /\ row.channel = new.channel
          /\ row.withdrawn = new.withdrawn /\ row.stage = new.stage
          /\ row.priced = new.priced
      BY <3>3 DEF RowType
    <3> HIDE DEF row
    <3>6. QED
      BY <3>3, <3>4, <3>5 DEF SellerType, ListingStatus
  <2>3. QED
    BY <2>1, <2>2
<1>2. UNCHANGED <<task, revised, contended, died>>
  BY DEF CreateForSeller, CreateByAdmin, history
<1>3. listing[l].status = "ABSENT"
  <2>1. listing[l] = Absent /\ Absent.status = "ABSENT"
    BY DEF CreateForSeller, CreateByAdmin, Absent
  <2>2. QED
    BY <2>1
<1>4. listing'[l] = row /\ \A k \in Listings \ {l} : listing'[k] = listing[k]
  BY <1>1 DEF RaceInv, IInv, TypeOK
<1>5. \A g \in Handlers : task[g].on = l => task[g].pc = "idle"
  BY <1>3 DEF RaceInv, TasksHaveRows, At
<1>6. RacesAreRecorded' /\ TasksHaveRows'
  BY <1>1, <1>2, <1>4 DEF RaceInv, RacesAreRecorded, TasksHaveRows, At, ListingStatus
<1>7. ReadsAreCurrent'
  BY <1>2, <1>4, <1>5
  DEF RaceInv, ReadsAreCurrent, IsCurrent, StatusSeen, ChannelSeen, Exists
<1>8. ShownAsSubmitted' /\ WithdrawnIsDraft'
  BY <1>1, <1>2, <1>4 DEF Safe, ShownAsSubmitted, WithdrawnIsDraft, Quiet, Exists
<1>9. ChannelFitsStage'
  BY <1>1, <1>2, <1>4 DEF Safe, ChannelFitsStage, Quiet, DefaultInventoryStage
<1>10. PlatformIsPriced'
  BY <1>1, <1>2, <1>4 DEF Safe, PlatformIsPriced, Quiet, Exists, Repricing, Busy, At
<1>11. StatusStep
  <2>1. \A k \in Listings :
          listing[k].status \in ListingStatus => listing'[k].status = listing[k].status
    BY <1>3, <1>4 DEF ListingStatus
  <2>2. QED
    BY <2>1 DEF StatusStep, Quiet
<1>12. QED
  BY <1>6, <1>7, <1>8, <1>9, <1>10, <1>11 DEF RaceInv, Safe

-----------------------------------------------------------------------------

LEMMA InitiallySafe == Init => RaceInv /\ Safe
<1> SUFFICES ASSUME Init
             PROVE  RaceInv /\ Safe
  OBVIOUS
<1>1. IInv
  BY Initially
<1>2. /\ \A h \in Handlers : task[h].pc = "idle" /\ task[h].on = None
      /\ \A l \in Listings : listing[l] = Absent
  BY DEF Init, Idle
<1>3. Absent.status = "ABSENT" /\ Absent.channel = "none" /\ ~Absent.withdrawn
  BY DEF Absent
<1>4. RaceInv
  BY <1>1, <1>2, <1>3, NoneIsNew
  DEF RaceInv, RacesAreRecorded, TasksHaveRows, ReadsAreCurrent, IsCurrent, At
<1>5. Safe
  BY <1>2, <1>3
  DEF Safe, ShownAsSubmitted, WithdrawnIsDraft, ChannelFitsStage, PlatformIsPriced, Quiet,
      Exists, ListingStatus, ADMIN_ONLY_SELLER_TYPES
<1>6. QED
  BY <1>4, <1>5

LEMMA StaysSafe == RaceInv /\ Safe /\ [Next]_vars => RaceInv' /\ Safe' /\ [StatusStep]_vars
<1> SUFFICES ASSUME RaceInv, Safe, [Next]_vars
             PROVE  RaceInv' /\ Safe' /\ [StatusStep]_vars
  OBVIOUS
<1>1. IInv'
  BY StepIInv DEF RaceInv
<1>2. CASE UNCHANGED vars
  <2>1. RaceInv'
    BY <1>1, <1>2
    DEF vars, RaceInv, RacesAreRecorded, TasksHaveRows, At, ReadsAreCurrent, IsCurrent,
        Exists, StatusSeen, ChannelSeen
  <2>2. Safe'
    BY <1>2
    DEF vars, Safe, ShownAsSubmitted, WithdrawnIsDraft, ChannelFitsStage,
        PlatformIsPriced, Quiet, Exists, Repricing, Busy, At
  <2>3. QED
    BY <1>2, <2>1, <2>2
<1>3. QED
  BY <1>1, <1>2, BeginRaceInv, BeginSafe, HandlerStep, CreateRaceInv, ReleaseRaceInv
  DEF Next

\* The marketplace shows of a dealer's listing what the dealer submitted and nobody has
\* changed since, unless two requests raced on the status of that very listing.
THEOREM Shown == Spec => []ShownAsSubmitted
<1>1. RaceInv /\ Safe => ShownAsSubmitted
  BY DEF Safe
<1>2. QED
  BY InitiallySafe, StaysSafe, <1>1, PTL DEF Spec

\* A listing its dealer has deleted is never reviewed or published, but for such a race.
THEOREM Withdrawn == Spec => []WithdrawnIsDraft
<1>1. RaceInv /\ Safe => WithdrawnIsDraft
  BY DEF Safe
<1>2. QED
  BY InitiallySafe, StaysSafe, <1>1, PTL DEF Spec

\* The channel of platform stock says where the vehicle is, unless two requests raced on
\* the channel or the stage of that listing.
THEOREM ChannelsFit == Spec => []ChannelFitsStage
<1>1. RaceInv /\ Safe => ChannelFitsStage
  BY DEF Safe
<1>2. QED
  BY InitiallySafe, StaysSafe, <1>1, PTL DEF Spec

\* Platform stock is priced as its channel asks once no handler is about to reprice it,
\* unless one died before that, or two raced.
THEOREM Priced == Spec => []PlatformIsPriced
<1>1. RaceInv /\ Safe => PlatformIsPriced
  BY DEF Safe
<1>2. QED
  BY InitiallySafe, StaysSafe, <1>1, PTL DEF Spec

\* A listing moves along the transition table, unless two requests raced on its status.
THEOREM TableIsFollowed == Spec => StatusFollowsTable
BY InitiallySafe, StaysSafe, PTL DEF Spec, StatusFollowsTable

\* What a dealer submitted is reviewed and shown as it was, and what the dealer deleted
\* is not (submitForReview, updateOwn, deleteOwn), unless two requests raced on it.
THEOREM Submissions == Spec => []SubmissionHolds
BY Shown, Withdrawn, PTL DEF SubmissionHolds

\* Channel, stage, seller and price of platform stock fit together whatever the sequence
\* of moves (advanceInventoryStage, updateCreatedByAdmin).
THEOREM PlatformStock == Spec => []PlatformStockFits
BY ChannelsFit, PlatformSeller, Priced, PTL DEF PlatformStockFits

-----------------------------------------------------------------------------
(* The photos of a listing *)

\* The photos that an open edit leaves, and the primary ones among them.
PhotosAfter(t, row) == (row.photos \ t.remove) \cup t.add
PrimaryAfter(t, row) == (row.primary \ (t.remove \cup t.unset)) \cup t.set

\* What PhotosAreSound asks of a row.
RowPhotos(row) ==
  /\ row.status \in ListingStatus \ {"DRAFT"} => row.photos # {}
  /\ Cardinality(row.photos) <= PhotoLimit
  /\ row.maker = "admin" /\ row.photos # {} => Cardinality(row.primary) = 1

\* What task t read of the photos of its listing: whose they are, how many they are, that
\* there is one, and what the statements of an open edit make of them.
PhotosSeen(t, row) ==
  /\ t.pc \in {"countPhotos", "addPhotos"} => row.maker # "admin"
  /\ t.pc = "addPhotos" => Cardinality(row.photos) + Cardinality(t.add) <= PhotoLimit
  /\ t.pc = "submit" => row.photos # {}
  /\ t.pc = "open" => /\ PhotosAfter(t, row) # {}
                      /\ Cardinality(PhotosAfter(t, row)) <= PhotoLimit
                      /\ Cardinality(PrimaryAfter(t, row)) = 1

PhotosAreCurrentFor(t) ==
  t.on \in Listings /\ Exists(t.on) /\ "status" \notin contended[t.on]
    => PhotosSeen(t, listing[t.on])

PhotosAreCurrent == \A h \in Handlers : PhotosAreCurrentFor(task[h])

\* No seller owns what an administrator made.
StockIsThePlatforms ==
  \A l \in Listings : listing[l].maker = "admin" => listing[l].profile # "market"

PhotosInv == PhotosAreSound /\ PhotosAreCurrent /\ StockIsThePlatforms

LEMMA PhotoCounts ==
  ASSUME NEW A \in SUBSET Photos, NEW B \in SUBSET Photos
  PROVE  /\ Cardinality(A) \in Nat /\ (Cardinality(A) = 0 <=> A = {})
         /\ Cardinality(A \cup B) \in Nat
         /\ Cardinality(A \cup B) <= Cardinality(A) + Cardinality(B)
         /\ A \subseteq B => Cardinality(A) <= Cardinality(B)
<1>1. IsFiniteSet(A) /\ IsFiniteSet(B)
  BY ListingBoundsOK, FS_Subset
<1>2. /\ Cardinality(A) \in Nat /\ Cardinality(B) \in Nat
      /\ Cardinality(A) = 0 <=> A = {}
  BY <1>1, FS_CardinalityType, FS_EmptySet
<1>3. /\ IsFiniteSet(A \cup B) /\ IsFiniteSet(A \cap B)
      /\ Cardinality(A \cup B) = Cardinality(A) + Cardinality(B) - Cardinality(A \cap B)
  BY <1>1, FS_Union, FS_Intersection
<1>4. Cardinality(A \cap B) \in Nat /\ Cardinality(A \cup B) \in Nat
  BY <1>3, FS_CardinalityType
<1>5. A \subseteq B => Cardinality(A) <= Cardinality(B)
  BY <1>1, FS_Subset
<1>6. QED
  BY <1>2, <1>3, <1>4, <1>5

\* What a step of handler h must make of the photos of its listing.
PhotoGood(h) ==
  LET l == task[h].on
      new == listing'[l]
  IN /\ "status" \notin contended[l] => RowPhotos(new)
     /\ "status" \notin Concerns(task[h].pc) /\ new.status \in ListingStatus =>
          new.photos = Row(h).photos /\ new.primary = Row(h).primary
     /\ new.maker = "admin" => new.profile # "market"

\* The other listings and the other tasks keep what they have and know.
LEMMA PhotoStep ==
  ASSUME RaceInv, PhotosInv, NEW h \in Handlers, task[h].on \in Listings, LeavesAlone(h),
         PhotoGood(h), PhotosAreCurrentFor(task[h])'
  PROVE  PhotosInv'
<1> DEFINE l == task[h].on
<1>1. /\ contended' = contended /\ \A k \in Listings \ {l} : listing'[k] = listing[k]
      /\ \A g \in Handlers \ {h} : task'[g] = task[g]
      /\ listing'[l].status \in ListingStatus =>
           Exists(l) /\ listing'[l].maker = listing[l].maker
  BY DEF LeavesAlone, Exists
<1>2. PhotosAreSound'
  BY <1>1 DEF PhotosInv, PhotosAreSound, Quiet, PhotoGood, RowPhotos, Exists
<1>3. StockIsThePlatforms'
  BY <1>1 DEF PhotosInv, StockIsThePlatforms, PhotoGood
<1>4. ASSUME NEW g \in Handlers, g # h
      PROVE  PhotosAreCurrentFor(task[g])'
  <2>1. task'[g] = task[g] /\ PhotosAreCurrentFor(task[g])
    BY <1>1, <1>4 DEF PhotosInv, PhotosAreCurrent
  <2>2. CASE task[g].on # l
    BY <1>1, <2>1, <2>2 DEF PhotosAreCurrentFor, Exists
  <2>3. CASE task[g].on = l /\ "status" \notin contended[l] /\ listing'[l].status \in ListingStatus
    <3>1. "status" \notin Concerns(task[g].pc) \/ "status" \notin Concerns(task[h].pc)
      BY <1>4, <2>3 DEF RaceInv, RacesAreRecorded
    <3>2. CASE "status" \notin Concerns(task[g].pc)
      BY <2>1, <3>2 DEF PhotosAreCurrentFor, PhotosSeen, Concerns
    <3>3. CASE "status" \notin Concerns(task[h].pc)
      <4>1. /\ listing'[l].photos = listing[l].photos /\ listing'[l].maker = listing[l].maker
            /\ listing'[l].primary = listing[l].primary
        BY <1>1, <2>3, <3>3 DEF PhotoGood, Row
      <4>2. PhotosSeen(task[g], listing[l])
        BY <1>1, <2>1, <2>3 DEF PhotosAreCurrentFor
      <4>3. PhotosSeen(task[g], listing'[l])
        BY <4>1, <4>2 DEF PhotosSeen, PhotosAfter, PrimaryAfter
      <4>4. QED
        BY <2>1, <2>3, <4>3 DEF PhotosAreCurrentFor
    <3>4. QED
      BY <3>1, <3>2, <3>3
  <2>4. QED
    BY <1>1, <2>1, <2>2, <2>3 DEF PhotosAreCurrentFor, Exists
<1>5. PhotosAreCurrent'
  BY <1>4 DEF PhotosAreCurrent
<1>6. QED
  BY <1>2, <1>3, <1>5 DEF PhotosInv

LEMMA NothingWritten ==
  ASSUME RaceInv, PhotosInv, NEW h \in Handlers, ~At(h, "idle"),
         listing'[task[h].on] = listing[task[h].on]
  PROVE  PhotoGood(h)
<1>1. task[h].on \in Listings /\ Row(h).status # "ABSENT" /\ Row(h) \in RowType
  BY Knows
<1>2. QED
  BY <1>1
  DEF PhotoGood, PhotosInv, PhotosAreSound, StockIsThePlatforms, Quiet, RowPhotos, Exists,
      Row

LEMMA PhotoWrite ==
  ASSUME RaceInv, PhotosInv, NEW h \in Handlers, ~At(h, "idle"), NEW row, Write(h, row),
         Exists(task[h].on) =>
           /\ "status" \notin contended[task[h].on] => RowPhotos(row)
           /\ "status" \notin Concerns(task[h].pc) /\ row.status \in ListingStatus =>
                row.photos = Row(h).photos /\ row.primary = Row(h).primary
           /\ row.maker = "admin" => row.profile # "market"
  PROVE  PhotoGood(h)
<1>1. task[h].on \in Listings /\ IInv
  BY Knows
<1>2. CASE Exists(task[h].on)
  <2>1. listing'[task[h].on] = row
    BY <1>1, <1>2, Written
  <2>2. QED
    BY <1>2, <2>1 DEF PhotoGood
<1>3. CASE ~Exists(task[h].on)
  <2>1. listing'[task[h].on] = listing[task[h].on]
    BY <1>1, <1>3, Written DEF Row
  <2>2. QED
    BY <2>1, NothingWritten
<1>4. QED
  BY <1>2, <1>3

\* A row that keeps its photos, and may get a status that asks for no more than it has.
LEMMA PhotosKept ==
  ASSUME RaceInv, PhotosInv, NEW h \in Handlers, ~At(h, "idle"), NEW row, Write(h, row),
         row.photos = Row(h).photos, row.primary = Row(h).primary,
         row.maker = Row(h).maker, row.maker = "admin" => row.profile # "market",
         /\ Exists(task[h].on) /\ "status" \notin contended[task[h].on]
         /\ row.status \in ListingStatus \ {"DRAFT"}
         => Row(h).status # "DRAFT" \/ Row(h).photos # {}
  PROVE  PhotoGood(h)
<1>1. task[h].on \in Listings
  BY Knows
<1>2. Exists(task[h].on) /\ "status" \notin contended[task[h].on] => RowPhotos(row)
  BY <1>1 DEF PhotosInv, PhotosAreSound, Quiet, RowPhotos, Exists, Row
<1>3. QED
  BY <1>2, PhotoWrite

LEMMA PlatformStockOf ==
  ASSUME RaceInv, PhotosInv, NEW h \in Handlers, ~At(h, "idle"), Row(h).maker = "admin"
  PROVE  Row(h).profile # "market"
  BY Knows DEF PhotosInv, StockIsThePlatforms, Row

\* The writes that leave the photos alone: of fields, deletion, status and stage.
LEMMA PlainPhotos ==
  ASSUME RaceInv, PhotosInv, NEW h \in Handlers,
         \/ CommitUpdateOwn(h) \/ CommitDeleteOwn(h) \/ CommitSubmitForReview(h)
         \/ CommitDecision(h) \/ CommitAdvance(h) \/ Reprice(h)
  PROVE  PhotoGood(h)
<1>1. CASE CommitUpdateOwn(h)
  <2> DEFINE t == task[h]
             channel == IF t.same THEN Row(h).channel ELSE t.channel
             priced == IF t.prices THEN Row(h).priced \cup {PriceInputOf(t.channel)}
                                   ELSE Row(h).priced
             row == [Row(h) EXCEPT !.channel = channel, !.priced = priced]
  <2>1. ~At(h, "idle") /\ Write(h, row)
    BY <1>1 DEF CommitUpdateOwn, At
  <2>2. Row(h) \in RowType
    BY <2>1, Knows
  <2> HIDE DEF channel, priced
  <2>3. /\ row.photos = Row(h).photos /\ row.primary = Row(h).primary
        /\ row.maker = Row(h).maker /\ row.profile = Row(h).profile
        /\ row.status = Row(h).status
    BY <2>2 DEF RowType
  <2> HIDE DEF row
  <2>4. QED
    BY <2>1, <2>3, PhotosKept, PlatformStockOf
<1>2. CASE CommitDeleteOwn(h)
  <2> DEFINE row == [Row(h) EXCEPT !.withdrawn = TRUE]
  <2>1. ~At(h, "idle") /\ Write(h, row)
    BY <1>2 DEF CommitDeleteOwn, At
  <2>2. Row(h) \in RowType
    BY <2>1, Knows
  <2>3. /\ row.photos = Row(h).photos /\ row.primary = Row(h).primary
        /\ row.maker = Row(h).maker /\ row.profile = Row(h).profile
        /\ row.status = Row(h).status
    BY <2>2 DEF RowType
  <2> HIDE DEF row
  <2>4. QED
    BY <2>1, <2>3, PhotosKept, PlatformStockOf
<1>3. ASSUME NEW to, \/ CommitSubmitForReview(h) /\ to = "PENDING_REVIEW"
                     \/ CommitDecision(h) /\ to = task[h].to
      PROVE  PhotoGood(h)
  <2> DEFINE row == [Row(h) EXCEPT !.status = to]
  <2>1. /\ ~At(h, "idle") /\ Write(h, row)
        /\ \/ At(h, "submit")
           \/ At(h, "decide") /\ to = task[h].to
    BY <1>3 DEF CommitSubmitForReview, CommitDecision, At
  <2>2. Row(h) \in RowType /\ task[h].on \in Listings
    BY <2>1, Knows
  <2>3. /\ row.photos = Row(h).photos /\ row.primary = Row(h).primary
        /\ row.maker = Row(h).maker /\ row.profile = Row(h).profile
    BY <2>2 DEF RowType
  <2> HIDE DEF row
  <2>4. ASSUME Exists(task[h].on), "status" \notin contended[task[h].on]
        PROVE  Row(h).status # "DRAFT" \/ Row(h).photos # {}
    <3>1. CASE At(h, "submit")
      BY <2>2, <2>4, <3>1
      DEF PhotosInv, PhotosAreCurrent, PhotosAreCurrentFor, PhotosSeen, At, Row
    <3>2. CASE At(h, "decide")
      <4>1. task[h].to \in Decisions \cap ALLOWED_TRANSITIONS[Row(h).status]
            /\ Row(h).status \in ListingStatus
        BY <2>1, <2>4, <3>2, Knows DEF StatusSeen, At
      <4>2. QED
        BY <4>1, Table
    <3>3. QED
      BY <2>1, <3>1, <3>2
  <2>5. QED
    BY <2>1, <2>3, <2>4, PhotosKept, PlatformStockOf
<1>4. CASE CommitAdvance(h)
  <2> DEFINE t == task[h]
             stage == IF t.same THEN Row(h).stage ELSE t.to
             row == [Row(h) EXCEPT !.stage = stage, !.channel = NewChannel(h),
                                   !.profile = NewProfile(h)]
  <2>1. At(h, "advance") /\ ~At(h, "idle") /\ Write(h, row)
    BY <1>4 DEF CommitAdvance, WriteStage, At
  <2>2. Row(h) \in RowType /\ t.channel \in ADMIN_ONLY_SELLER_TYPES \cup {"unchanged"}
    BY <2>1, Knows, TaskFacts DEF TaskIsSound, At
  <2> HIDE DEF stage
  <2>3. /\ row.photos = Row(h).photos /\ row.primary = Row(h).primary
        /\ row.maker = Row(h).maker /\ row.profile = NewProfile(h)
        /\ row.status = Row(h).status
    BY <2>2 DEF RowType
  <2>4. NewProfile(h) = Row(h).profile \/ NewProfile(h) \in ADMIN_ONLY_SELLER_TYPES
    BY <2>2 DEF NewProfile, Moves
  <2>5. "market" \notin ADMIN_ONLY_SELLER_TYPES
    BY DEF ADMIN_ONLY_SELLER_TYPES
  <2> HIDE DEF row
  <2>6. QED
    BY <2>1, <2>3, <2>4, <2>5, PhotosKept, PlatformStockOf
<1>5. CASE Reprice(h)
  <2> DEFINE l == task[h].on
             row == [Row(h) EXCEPT !.priced = @ \cup {PriceInputOf(task[h].channel)}]
  <2>1. ~At(h, "idle")
    BY <1>5 DEF Reprice, At
  <2>2. l \in Listings /\ Row(h) \in RowType /\ Row(h).status # "ABSENT" /\ IInv
    BY <2>1, Knows
  <2>3. CASE Exists(l)
    <3>1. listing'[l] = row
      BY <1>5, <2>2, <2>3 DEF Reprice, Row, IInv, TypeOK
    <3>2. /\ row.photos = Row(h).photos /\ row.primary = Row(h).primary
          /\ row.maker = Row(h).maker /\ row.profile = Row(h).profile
          /\ row.status = Row(h).status
      BY <2>2 DEF RowType
    <3> HIDE DEF row
    <3>3. "status" \notin contended[l] => RowPhotos(row)
      BY <2>2, <2>3, <3>2 DEF PhotosInv, PhotosAreSound, Quiet, RowPhotos, Exists, Row
    <3>4. QED
      BY <2>1, <3>1, <3>2, <3>3, PlatformStockOf DEF PhotoGood
  <2>4. CASE ~Exists(l)
    BY <1>5, <2>1, <2>4, NothingWritten DEF Reprice
  <2>5. QED
    BY <2>3, <2>4
<1>6. QED
  BY <1>1, <1>2, <1>3, <1>4, <1>5

LEMMA HardDeletePhotos ==
  ASSUME RaceInv, PhotosInv, NEW h \in Handlers, CommitHardDelete(h)
  PROVE  PhotoGood(h)
<1> DEFINE row == [Absent EXCEPT !.status = "GONE"]
<1>1. ~At(h, "idle") /\ Write(h, row)
  BY DEF CommitHardDelete, At
<1>2. row.status = "GONE" /\ row.maker = "none" /\ row.photos = {}
  BY DEF Absent
<1> HIDE DEF row
<1>3. Cardinality(row.photos) <= PhotoLimit
  BY <1>2, FS_EmptySet, ListingBoundsOK
<1>4. QED
  BY <1>1, <1>2, <1>3, PhotoWrite DEF RowPhotos, ListingStatus

\* An upload, to a listing that is a seller's, of no more than it had room for.
LEMMA AddPhotosPhotos ==
  ASSUME RaceInv, PhotosInv, NEW h \in Handlers, CommitAddPhotos(h)
  PROVE  PhotoGood(h)
<1> DEFINE l == task[h].on
           add == task[h].add
<1>1. At(h, "addPhotos") /\ ~At(h, "idle")
  BY DEF CommitAddPhotos, At
<1>2. /\ l \in Listings /\ Row(h) \in RowType /\ IInv /\ task[h] \in TaskType
  BY <1>1, Knows
<1>3. CASE ~Exists(l)
  <2>1. listing' = listing
    BY <1>3 DEF CommitAddPhotos
  <2>2. QED
    BY <1>1, <2>1, NothingWritten
<1>4. CASE Exists(l)
  <2>1. PICK first \in add :
          listing' = [listing EXCEPT ![l].photos = @ \cup add, ![l].primary = @ \cup {first}]
    BY <1>4 DEF CommitAddPhotos
  <2> DEFINE row == [Row(h) EXCEPT !.photos = @ \cup add, !.primary = @ \cup {first}]
  <2>2. listing'[l] = row
    BY <1>2, <2>1 DEF Row, IInv, TypeOK
  <2>3. /\ row.photos = Row(h).photos \cup add /\ row.status = Row(h).status
        /\ row.maker = Row(h).maker /\ row.profile = Row(h).profile
    BY <1>2 DEF RowType
  <2> HIDE DEF row
  <2>4. "status" \in Concerns(task[h].pc)
    BY <1>1 DEF Concerns, At
  <2>5. ASSUME "status" \notin contended[l]
        PROVE  RowPhotos(row)
    <3>1. /\ Row(h).maker # "admin"
          /\ Cardinality(Row(h).photos) + Cardinality(add) <= PhotoLimit
      BY <1>1, <1>2, <1>4, <2>5
      DEF PhotosInv, PhotosAreCurrent, PhotosAreCurrentFor, PhotosSeen, At, Row
    <3>2. Row(h).photos \in SUBSET Photos /\ add \in SUBSET Photos
      BY <1>2 DEF RowType, TaskType
    <3>3. Cardinality(row.photos) <= PhotoLimit
      <4>1. /\ Cardinality(Row(h).photos) \in Nat /\ Cardinality(add) \in Nat
            /\ Cardinality(row.photos) \in Nat
            /\ Cardinality(row.photos) <= Cardinality(Row(h).photos) + Cardinality(add)
        BY <2>3, <3>2, PhotoCounts
      <4>2. QED
        BY <3>1, <4>1, ListingBoundsOK
    <3>4. row.status \in ListingStatus \ {"DRAFT"} => row.photos # {}
      BY <1>2, <2>3, <2>5 DEF PhotosInv, PhotosAreSound, Quiet, Exists, Row
    <3>5. QED
      BY <2>3, <3>1, <3>3, <3>4 DEF RowPhotos
  <2>6. QED
    BY <1>1, <2>2, <2>3, <2>4, <2>5, PlatformStockOf DEF PhotoGood
<1>5. QED
  BY <1>3, <1>4

\* The commit of an edit leaves what its statements made.
LEMMA CommitEditPhotos ==
  ASSUME RaceInv, PhotosInv, NEW h \in Handlers, CommitEdit(h)
  PROVE  PhotoGood(h)
<1> DEFINE t == task[h]
           status == IF t.same THEN Row(h).status ELSE t.to
           priced == IF t.prices THEN Row(h).priced \cup {PriceInputOf(t.channel)}
                                 ELSE Row(h).priced
           photos == (Row(h).photos \ t.remove) \cup t.add
           primary == (Row(h).primary \ (t.remove \cup t.unset)) \cup t.set
           row == [Row(h) EXCEPT !.status = status, !.priced = priced,
                                 !.photos = photos, !.primary = primary]
<1>1. At(h, "open") /\ ~At(h, "idle") /\ Write(h, row)
  BY DEF CommitEdit, At
<1>2. Row(h) \in RowType /\ t.on \in Listings
  BY <1>1, Knows
<1>3. photos = PhotosAfter(t, Row(h)) /\ primary = PrimaryAfter(t, Row(h))
  BY DEF PhotosAfter, PrimaryAfter
<1> HIDE DEF status, priced, photos, primary
<1>4. /\ row.photos = photos /\ row.primary = primary
      /\ row.maker = Row(h).maker /\ row.profile = Row(h).profile
  BY <1>2 DEF RowType
<1> HIDE DEF row
<1>5. "status" \in Concerns(task[h].pc)
  BY <1>1 DEF Concerns, At
<1>6. Exists(t.on) /\ "status" \notin contended[t.on] => RowPhotos(row)
  BY <1>1, <1>2, <1>3, <1>4
  DEF PhotosInv, PhotosAreCurrent, PhotosAreCurrentFor, PhotosSeen, At, Row, RowPhotos
<1>7. QED
  BY <1>1, <1>4, <1>5, <1>6, PhotoWrite, PlatformStockOf

\* The photos that are left when an edit has removed some, the flags it clears, and the
\* conditions under which its statements do not abort.
Left(t, row) == row.photos \ t.remove
Cleared(t, row) == ClearedFlags(t, Left(t, row), row.primary)
Fits(t, left) ==
  /\ left # {} => t.pick \in left \cup {None}
  /\ t.add # {} => Cardinality(left) + Cardinality(t.add) <= PhotoLimit
  /\ Cardinality(left) + Cardinality(t.add) >= 1

\* The statements of an edit leave a photo, no more than the limit, and one primary one,
\* whatever they remove, add and pick (updateCreatedByAdmin).
LEMMA StatementsFit ==
  ASSUME NEW t \in TaskType, NEW row \in RowType, RowPhotos(row), row.maker = "admin",
         row.primary \subseteq row.photos, Fits(t, Left(t, row)),
         NEW set \in NewFlags(t, Left(t, row), row.primary)
  PROVE  /\ Left(t, row) \cup t.add # {}
         /\ Cardinality(Left(t, row) \cup t.add) <= PhotoLimit
         /\ Cardinality((row.primary \ (t.remove \cup Cleared(t, row))) \cup set) = 1
<1> DEFINE left == Left(t, row)
           unset == Cleared(t, row)
           primary == (row.primary \ (t.remove \cup unset)) \cup set
<1>1. /\ left = row.photos \ t.remove /\ unset = ClearedFlags(t, left, row.primary)
      /\ left # {} => t.pick \in left \cup {None}
      /\ t.add # {} => Cardinality(left) + Cardinality(t.add) <= PhotoLimit
      /\ Cardinality(left) + Cardinality(t.add) >= 1
      /\ set \in NewFlags(t, left, row.primary)
  BY DEF Left, Cleared, Fits
<1> SUFFICES /\ left \cup t.add # {}
             /\ Cardinality(left \cup t.add) <= PhotoLimit
             /\ Cardinality(primary) = 1
  OBVIOUS
<1>2. primary = (row.primary \ (t.remove \cup unset)) \cup set
  OBVIOUS
<1> HIDE DEF left, unset, primary
<1>3. left \in SUBSET Photos /\ t.add \in SUBSET Photos /\ row.photos \in SUBSET Photos
  BY <1>1 DEF RowType, TaskType
<1>4. left \cup t.add # {}
  <2>1. left = {} => Cardinality(left) = 0
    BY <1>3, PhotoCounts
  <2>2. t.add = {} => Cardinality(t.add) = 0
    BY <1>3, PhotoCounts
  <2>3. QED
    BY <1>1, <2>1, <2>2
<1>5. Cardinality(left \cup t.add) <= PhotoLimit
  <2>1. CASE t.add = {}
    <3>1. left \cup t.add = left /\ left \subseteq row.photos
      BY <1>1, <2>1
    <3>2. Cardinality(left) <= Cardinality(row.photos)
          /\ Cardinality(left) \in Nat /\ Cardinality(row.photos) \in Nat
      BY <1>3, <3>1, PhotoCounts
    <3>3. Cardinality(row.photos) <= PhotoLimit
      BY DEF RowPhotos
    <3>4. Cardinality(left) <= PhotoLimit
      BY <3>2, <3>3, ListingBoundsOK
    <3>5. QED
      BY <3>1, <3>4
  <2>2. CASE t.add # {}
    <3>1. /\ Cardinality(left \cup t.add) <= Cardinality(left) + Cardinality(t.add)
          /\ Cardinality(left) \in Nat /\ Cardinality(t.add) \in Nat
          /\ Cardinality(left \cup t.add) \in Nat
      BY <1>3, PhotoCounts
    <3>2. QED
      BY <1>1, <2>2, <3>1, ListingBoundsOK
  <2>3. QED
    BY <2>1, <2>2
<1> DEFINE takers == IF left = {} THEN t.add
                     ELSE IF t.pick # None THEN {t.pick}
                     ELSE IF row.primary \cap t.remove # {} THEN left
                     ELSE IF row.primary = {} THEN t.add ELSE {}
<1>6. set \in IF takers = {} THEN {{}} ELSE {{p} : p \in takers}
  BY <1>1 DEF NewFlags
<1>7. CASE left = {} \/ t.pick # None \/ row.primary \cap t.remove # {}
  <2>1. takers # {}
    BY <1>4, <1>7
  <2>2. PICK p : set = {p}
    BY <1>6, <2>1
  <2>3. row.primary \ (t.remove \cup unset) = {}
    BY <1>1, <1>7 DEF ClearedFlags
  <2>4. primary = {p}
    BY <1>2, <2>2, <2>3
  <2>5. QED
    BY <1>4, <1>5, <2>4, FS_Singleton
<1>8. CASE left # {} /\ t.pick = None /\ row.primary \cap t.remove = {}
  <2>1. row.photos # {} /\ Cardinality(row.primary) = 1
    BY <1>1, <1>8 DEF RowPhotos
  <2>2. row.primary # {}
    BY <2>1, FS_EmptySet
  <2>3. set = {}
    BY <1>6, <1>8, <2>2
  <2>4. unset = {}
    BY <1>1, <1>8 DEF ClearedFlags
  <2>5. primary = row.primary
    BY <1>2, <1>8, <2>3, <2>4
  <2>6. QED
    BY <1>4, <1>5, <2>1, <2>5
<1>9. QED
  BY <1>7, <1>8

LEMMA EndsCurrent ==
  ASSUME IInv, NEW h \in Handlers, Finish(h)
  PROVE  PhotosAreCurrentFor(task[h])'
  BY Ended, IdleFacts DEF PhotosAreCurrentFor, PhotosSeen

LEMMA OpenEditPhotos ==
  ASSUME RaceInv, PhotosInv, NEW h \in Handlers, OpenEdit(h)
  PROVE  PhotoGood(h) /\ PhotosAreCurrentFor(task[h])'
<1> DEFINE t == task[h]
           unset == Cleared(t, Row(h))
<1>1. /\ At(h, "edit") /\ ~At(h, "idle") /\ listing' = listing /\ UNCHANGED history
  BY DEF OpenEdit, EditOf, At
<1>2. IInv /\ t \in TaskType /\ t.on \in Listings /\ Row(h) \in RowType
  BY <1>1, Knows
<1>3. PhotoGood(h)
  BY <1>1, NothingWritten
<1>4. \/ Finish(h)
      \/ /\ Fits(t, Left(t, Row(h)))
         /\ \E set \in NewFlags(t, Left(t, Row(h)), Row(h).primary) :
              task' = [task EXCEPT ![h] = [t EXCEPT !.pc = "open", !.unset = unset, !.set = set]]
  BY DEF OpenEdit, EditOf, Fits, Left, Cleared
<1>5. CASE Finish(h)
  BY <1>2, <1>3, <1>5, EndsCurrent
<1>6. CASE ~Finish(h)
  <2>1. PICK set \in NewFlags(t, Left(t, Row(h)), Row(h).primary) :
          task' = [task EXCEPT ![h] = [t EXCEPT !.pc = "open", !.unset = unset, !.set = set]]
    BY <1>4, <1>6
  <2>2. Fits(t, Left(t, Row(h)))
    BY <1>4, <1>6
  <2> DEFINE u == [t EXCEPT !.pc = "open", !.unset = unset, !.set = set]
  <2> HIDE DEF unset
  <2>3. /\ u.pc = "open" /\ u.on = t.on /\ u.remove = t.remove /\ u.add = t.add
        /\ u.unset = unset /\ u.set = set
    BY <1>2 DEF TaskType
  <2>4. task'[h] = u
    BY <1>2, <2>1 DEF IInv, TypeOK
  <2> HIDE DEF u
  <2>5. ASSUME Exists(t.on), "status" \notin contended[t.on]
        PROVE  PhotosSeen(u, Row(h))
    <3>1. Row(h).maker = "admin"
      BY <1>1, <2>5, Knows DEF StatusSeen, At
    <3>2. RowPhotos(Row(h))
      BY <1>2, <2>5 DEF PhotosInv, PhotosAreSound, Quiet, RowPhotos, Exists, Row
    <3>3. Row(h).primary \subseteq Row(h).photos
      BY <1>2 DEF IInv, TypeOK, Row
    <3>4. /\ Left(t, Row(h)) \cup t.add # {}
          /\ Cardinality(Left(t, Row(h)) \cup t.add) <= PhotoLimit
          /\ Cardinality((Row(h).primary \ (t.remove \cup unset)) \cup set) = 1
      BY <1>2, <2>1, <2>2, <3>1, <3>2, <3>3, StatementsFit DEF unset
    <3>5. /\ PhotosAfter(u, Row(h)) = Left(t, Row(h)) \cup t.add
          /\ PrimaryAfter(u, Row(h)) = (Row(h).primary \ (t.remove \cup unset)) \cup set
      BY <2>3 DEF PhotosAfter, PrimaryAfter, Left
    <3>6. QED
      BY <2>3, <3>4, <3>5 DEF PhotosSeen
  <2>6. PhotosAreCurrentFor(task[h])'
    BY <1>1, <2>3, <2>4, <2>5 DEF PhotosAreCurrentFor, Exists, Row, history
  <2>7. QED
    BY <1>3, <2>6
<1>7. QED
  BY <1>5, <1>6

LEMMA CountPhotosPhotos ==
  ASSUME RaceInv, PhotosInv, NEW h \in Handlers, CountPhotos(h) \/ CountSubmit(h)
  PROVE  PhotoGood(h) /\ PhotosAreCurrentFor(task[h])'
<1>1. /\ ~At(h, "idle") /\ listing' = listing /\ UNCHANGED history
  BY DEF CountPhotos, CountSubmit, At
<1>2. IInv /\ task[h] \in TaskType /\ task[h].on \in Listings /\ Row(h) \in RowType
  BY <1>1, Knows
<1>3. PhotoGood(h)
  BY <1>1, NothingWritten
<1>4. CASE Finish(h)
  BY <1>2, <1>3, <1>4, EndsCurrent
<1>5. CASE CountPhotos(h) /\ ~Finish(h)
  <2> DEFINE u == [task[h] EXCEPT !.pc = "addPhotos"]
  <2>1. /\ At(h, "countPhotos") /\ Goto(h, "addPhotos")
        /\ ~(Cardinality(Row(h).photos) + Cardinality(task[h].add) > PhotoLimit)
    BY <1>5 DEF CountPhotos
  <2>2. task'[h] = u
    BY <1>2, <2>1, WentOn
  <2>3. u.pc = "addPhotos" /\ u.on = task[h].on /\ u.add = task[h].add
    BY <1>2 DEF TaskType
  <2> HIDE DEF u
  <2>4. Cardinality(Row(h).photos) \in Nat /\ Cardinality(task[h].add) \in Nat
    BY <1>2, PhotoCounts DEF RowType, TaskType
  <2>5. Cardinality(Row(h).photos) + Cardinality(task[h].add) <= PhotoLimit
    BY <2>1, <2>4, ListingBoundsOK
  <2>6. Exists(task[h].on) /\ "status" \notin contended[task[h].on] =>
          Row(h).maker # "admin"
    BY <1>2, <2>1
    DEF PhotosInv, PhotosAreCurrent, PhotosAreCurrentFor, PhotosSeen, At, Row
  <2>7. PhotosAreCurrentFor(task[h])'
    BY <1>1, <2>2, <2>3, <2>5, <2>6 DEF PhotosAreCurrentFor, PhotosSeen, Exists, Row, history
  <2>8. QED
    BY <1>3, <2>7
<1>6. CASE CountSubmit(h) /\ ~Finish(h)
  <2>1. Goto(h, "submit") /\ Row(h).photos # {}
    BY <1>6 DEF CountSubmit
  <2>2. task'[h].pc = "submit" /\ task'[h].on = task[h].on
    BY <1>2, <2>1, WentOn
  <2>3. PhotosAreCurrentFor(task[h])'
    BY <1>1, <2>1, <2>2 DEF PhotosAreCurrentFor, PhotosSeen, Exists, Row, history
  <2>4. QED
    BY <1>3, <2>3
<1>7. QED
  BY <1>4, <1>5, <1>6

LEMMA HandlerPhotos ==
  ASSUME RaceInv, Safe, PhotosInv, NEW h \in Handlers, Continue(h) \/ Crash(h)
  PROVE  PhotosInv'
<1>1. CASE \/ CommitUpdateOwn(h) \/ CommitDeleteOwn(h) \/ CommitAddPhotos(h)
           \/ CommitSubmitForReview(h) \/ CommitDecision(h) \/ CommitHardDelete(h)
           \/ CommitEdit(h) \/ Reprice(h)
  <2>1. Finish(h) /\ ~At(h, "idle")
    BY <1>1 DEF CommitUpdateOwn, CommitDeleteOwn, CommitAddPhotos, CommitSubmitForReview,
      CommitDecision, CommitHardDelete, CommitEdit, Reprice, At
  <2>2. LeavesAlone(h)
    BY <1>1, UpdateOwnGood, DeleteOwnGood, AddPhotosGood, SubmitGood, DecisionGood,
      HardDeleteGood, CommitEditGood, RepriceGood DEF Good
  <2>3. PhotoGood(h)
    BY <1>1, PlainPhotos, AddPhotosPhotos, HardDeletePhotos, CommitEditPhotos
  <2>4. QED
    BY <2>1, <2>2, <2>3, Knows, EndsCurrent, PhotoStep
<1>2. CASE CountPhotos(h) \/ CountSubmit(h) \/ OpenEdit(h)
  <2>1. ~At(h, "idle")
    BY <1>2 DEF CountPhotos, CountSubmit, OpenEdit, EditOf, At
  <2>2. QED
    BY <1>2, <2>1, CountGood, OpenEditGood, CountPhotosPhotos, OpenEditPhotos, Knows,
      PhotoStep DEF Good
<1>3. CASE CommitAdvance(h)
  <2>1. At(h, "advance") /\ ~At(h, "idle") /\ (Finish(h) \/ Goto(h, "reprice"))
    BY <1>3 DEF CommitAdvance, WriteStage, At
  <2>2. PhotosAreCurrentFor(task[h])'
    <3>1. CASE Finish(h)
      BY <2>1, <3>1, Knows, EndsCurrent
    <3>2. CASE Goto(h, "reprice")
      <4>1. task'[h].pc = "reprice"
        BY <2>1, <3>2, Knows, WentOn
      <4>2. QED
        BY <4>1 DEF PhotosAreCurrentFor, PhotosSeen
    <3>3. QED
      BY <2>1, <3>1, <3>2
  <2>3. QED
    BY <1>3, <2>1, <2>2, AdvanceGood, PlainPhotos, Knows, PhotoStep DEF Good
<1>4. CASE Crash(h)
  <2>1. ~At(h, "idle") /\ Finish(h) /\ listing' = listing
    BY <1>4 DEF Crash
  <2>2. QED
    BY <1>4, <2>1, CrashGood, NothingWritten, EndsCurrent, Knows, PhotoStep DEF Good
<1>5. QED
  BY <1>1, <1>2, <1>3, <1>4 DEF Continue

LEMMA StartPhotos ==
  ASSUME RaceInv, PhotosInv, NEW h \in Handlers, NEW t, t.on \in Listings,
         PhotosSeen(t, listing[t.on]), Start(h, t)
  PROVE  PhotosInv'
<1>1. /\ task'[h] = t /\ \A g \in Handlers \ {h} : task'[g] = task[g]
      /\ listing' = listing
  BY DEF Start, RaceInv, IInv, TypeOK
<1>2. \A l \in Listings : contended[l] \subseteq contended'[l]
  BY DEF Start, Contend, RaceInv, IInv, TypeOK
<1>3. PhotosAreSound' /\ StockIsThePlatforms'
  BY <1>1, <1>2 DEF PhotosInv, PhotosAreSound, StockIsThePlatforms, Quiet, Exists
<1>4. ASSUME NEW g \in Handlers
      PROVE  PhotosAreCurrentFor(task[g])'
  <2>1. CASE g = h
    BY <1>1, <1>2, <2>1 DEF PhotosAreCurrentFor
  <2>2. CASE g # h
    BY <1>1, <1>2, <2>2 DEF PhotosInv, PhotosAreCurrent, PhotosAreCurrentFor, Exists
  <2>3. QED
    BY <2>1, <2>2
<1>5. QED
  BY <1>3, <1>4 DEF PhotosInv, PhotosAreCurrent

LEMMA BeginPhotos ==
  ASSUME RaceInv, PhotosInv, NEW h \in Handlers, Begin(h)
  PROVE  PhotosInv'
<1> SUFFICES \E t : /\ t.on \in Listings /\ PhotosSeen(t, listing[t.on]) /\ Start(h, t)
  BY StartPhotos
<1>1. PICK l \in Listings :
        \/ BeginUpdateOwn(h, l) \/ BeginDeleteOwn(h, l) \/ BeginAddPhotos(h, l)
        \/ BeginSubmitForReview(h, l) \/ BeginDecision(h, l) \/ BeginHardDelete(h, l)
        \/ BeginEdit(h, l) \/ BeginAdvance(h, l)
  BY DEF Begin
<1>2. ASSUME NEW t, t.on = l, Start(h, t),
             t.pc \notin {"countPhotos", "addPhotos", "submit", "open"}
      PROVE  \E u : /\ u.on \in Listings /\ PhotosSeen(u, listing[u.on]) /\ Start(h, u)
  BY <1>2 DEF PhotosSeen
<1>3. CASE BeginUpdateOwn(h, l)
  <2>1. PICK t : t.pc = "update" /\ t.on = l /\ Start(h, t)
    BY <1>3 DEF BeginUpdateOwn, Idle
  <2>2. QED
    BY <1>2, <2>1
<1>4. CASE BeginDeleteOwn(h, l)
  <2>1. PICK t : t.pc = "withdraw" /\ t.on = l /\ Start(h, t)
    BY <1>4 DEF BeginDeleteOwn, Idle
  <2>2. QED
    BY <1>2, <2>1
<1>5. CASE BeginAddPhotos(h, l)
  <2>1. PICK t : t.pc = "countPhotos" /\ t.on = l /\ Start(h, t)
    BY <1>5 DEF BeginAddPhotos, Idle
  <2>2. listing[l].maker # "admin"
    BY <1>5 DEF BeginAddPhotos, Owned, PhotosInv, StockIsThePlatforms
  <2>3. PhotosSeen(t, listing[t.on])
    BY <2>1, <2>2 DEF PhotosSeen
  <2>4. QED
    BY <2>1, <2>3
<1>6. CASE BeginSubmitForReview(h, l)
  <2>1. PICK t : t.pc = "countSubmit" /\ t.on = l /\ Start(h, t)
    BY <1>6 DEF BeginSubmitForReview, Idle
  <2>2. QED
    BY <1>2, <2>1
<1>7. CASE BeginDecision(h, l)
  <2>1. PICK t : t.pc = "decide" /\ t.on = l /\ Start(h, t)
    BY <1>7 DEF BeginDecision, Idle
  <2>2. QED
    BY <1>2, <2>1
<1>8. CASE BeginHardDelete(h, l)
  <2>1. PICK t : t.pc = "delete" /\ t.on = l /\ Start(h, t)
    BY <1>8 DEF BeginHardDelete, Idle
  <2>2. QED
    BY <1>2, <2>1
<1>9. CASE BeginEdit(h, l)
  <2>1. PICK t : t.pc = "edit" /\ t.on = l /\ Start(h, t)
    BY <1>9, EditTask DEF RaceInv
  <2>2. QED
    BY <1>2, <2>1
<1>10. CASE BeginAdvance(h, l)
  <2>1. PICK t : t.pc = "advance" /\ t.on = l /\ Start(h, t)
    <3>1. PICK stage \in ListingInventoryStage :
            Start(h, [Idle EXCEPT !.pc = "advance", !.on = l, !.to = stage,
                        !.same = (stage = listing[l].stage),
                        !.channel = ChannelAfter(listing[l], stage)])
      BY <1>10 DEF BeginAdvance
    <3> DEFINE same == (stage = listing[l].stage)
               channel == ChannelAfter(listing[l], stage)
               t == [Idle EXCEPT !.pc = "advance", !.on = l, !.to = stage,
                       !.same = same, !.channel = channel]
    <3> HIDE DEF same, channel
    <3>2. t.pc = "advance" /\ t.on = l
      BY DEF Idle
    <3>3. Start(h, t)
      BY <3>1 DEF same, channel
    <3> HIDE DEF t
    <3>4. QED
      BY <3>2, <3>3
  <2>2. QED
    BY <1>2, <2>1
<1>11. QED
  BY <1>1, <1>3, <1>4, <1>5, <1>6, <1>7, <1>8, <1>9, <1>10

LEMMA ReleasePhotos ==
  ASSUME RaceInv, PhotosInv, NEW l \in Listings, ReleaseListing(l)
  PROVE  PhotosInv'
<1> DEFINE row == [listing[l] EXCEPT !.status = "PUBLISHED"]
<1>1. /\ task' = task /\ listing[l].status = "RESERVED"
      /\ listing' = [listing EXCEPT ![l] = row] /\ listing[l] \in RowType
  BY DEF ReleaseListing, RaceInv, IInv, TypeOK
<1>2. /\ row.status = "PUBLISHED" /\ row.maker = listing[l].maker
      /\ row.photos = listing[l].photos /\ row.primary = listing[l].primary
      /\ row.profile = listing[l].profile
  BY <1>1 DEF RowType
<1> HIDE DEF row
<1>3. listing'[l] = row /\ \A k \in Listings \ {l} : listing'[k] = listing[k]
  BY <1>1 DEF RaceInv, IInv, TypeOK
<1>4. \A k \in Listings : contended[k] \subseteq contended'[k]
  BY DEF ReleaseListing, Contend, RaceInv, IInv, TypeOK
<1>5. PhotosAreSound'
  BY <1>1, <1>2, <1>3, <1>4 DEF PhotosInv, PhotosAreSound, Quiet, Exists, ListingStatus
<1>6. StockIsThePlatforms'
  BY <1>2, <1>3 DEF PhotosInv, StockIsThePlatforms
<1>7. ASSUME NEW g \in Handlers
      PROVE  PhotosAreCurrentFor(task[g])'
  <2>1. PhotosAreCurrentFor(task[g]) /\ task'[g] = task[g]
    BY <1>1 DEF PhotosInv, PhotosAreCurrent
  <2>2. CASE task[g].on # l
    BY <1>3, <1>4, <2>1, <2>2 DEF PhotosAreCurrentFor, Exists
  <2>3. CASE task[g].on = l
    <3>1. Exists(l)
      BY <1>1 DEF Exists, ListingStatus
    <3>2. "status" \notin contended'[l] => PhotosSeen(task[g], row)
      BY <1>2, <1>4, <2>1, <2>3, <3>1
      DEF PhotosAreCurrentFor, PhotosSeen, PhotosAfter, PrimaryAfter
    <3>3. QED
      BY <1>3, <2>1, <2>3, <3>2 DEF PhotosAreCurrentFor
  <2>4. QED
    BY <2>2, <2>3
<1>8. QED
  BY <1>5, <1>6, <1>7 DEF PhotosInv, PhotosAreCurrent

LEMMA CreatePhotos ==
  ASSUME RaceInv, PhotosInv, NEW l \in Listings, CreateForSeller(l) \/ CreateByAdmin(l)
  PROVE  PhotosInv'
<1>1. PICK row :
        /\ listing' = [listing EXCEPT ![l] = row]
        /\ RowPhotos(row) /\ (row.maker = "admin" => row.profile # "market")
  <2>1. CASE CreateForSeller(l)
    <3>1. PICK channel \in MARKETPLACE_SELLER_TYPES :
            listing' = [listing EXCEPT ![l] = NewRow("seller", channel, "market", "DRAFT")]
      BY <2>1 DEF CreateForSeller
    <3> DEFINE row == NewRow("seller", channel, "market", "DRAFT")
    <3>2. row.status = "DRAFT" /\ row.maker = "seller" /\ row.photos = {}
      BY DEF NewRow, Absent
    <3> HIDE DEF row
    <3>3. RowPhotos(row)
      BY <3>2, FS_EmptySet, ListingBoundsOK DEF RowPhotos
    <3>4. listing' = [listing EXCEPT ![l] = row]
      BY <3>1 DEF row
    <3>5. QED
      BY <3>2, <3>3, <3>4
  <2>2. CASE CreateByAdmin(l)
    <3>1. PICK channel \in ADMIN_ONLY_SELLER_TYPES, status \in {"DRAFT", "PENDING_REVIEW"},
               ps \in Upto(PhotoLimit, FreshPhotos) :
            /\ status = "PENDING_REVIEW" => ps # {}
            /\ \E first \in IF ps = {} THEN {{}} ELSE {{p} : p \in ps} :
                 listing' = [listing EXCEPT ![l] =
                   [NewRow("admin", channel, channel, status)
                      EXCEPT !.photos = ps, !.primary = first]]
      BY <2>2 DEF CreateByAdmin
    <3>2. PICK first \in IF ps = {} THEN {{}} ELSE {{p} : p \in ps} :
            listing' = [listing EXCEPT ![l] =
              [NewRow("admin", channel, channel, status)
                 EXCEPT !.photos = ps, !.primary = first]]
      BY <3>1
    <3> DEFINE new == NewRow("admin", channel, channel, status)
               row == [new EXCEPT !.photos = ps, !.primary = first]
    <3>3. /\ new \in RowType /\ new.status = status /\ new.profile = channel
      BY NewRowFacts DEF SellerType, ListingStatus
    <3>4. listing' = [listing EXCEPT ![l] = row]
      BY <3>2
    <3> HIDE DEF new
    <3>5. /\ row.status = status /\ row.photos = ps /\ row.primary = first
          /\ row.profile = channel
      BY <3>3 DEF RowType
    <3> HIDE DEF row
    <3>6. Cardinality(ps) <= PhotoLimit
      BY DEF Upto
    <3>7. ps # {} => Cardinality(first) = 1
      <4>1. ps # {} => \E p : first = {p}
        BY <3>2
      <4>2. QED
        BY <4>1, FS_Singleton
    <3>8. RowPhotos(row)
      BY <3>1, <3>5, <3>6, <3>7 DEF RowPhotos
    <3>9. channel # "market"
      BY DEF ADMIN_ONLY_SELLER_TYPES
    <3>10. QED
      BY <3>4, <3>5, <3>8, <3>9
  <2>3. QED
    BY <2>1, <2>2
<1>2. /\ UNCHANGED <<task, contended>> /\ listing[l] = Absent
  BY DEF CreateForSeller, CreateByAdmin, history
<1>3. listing'[l] = row /\ \A k \in Listings \ {l} : listing'[k] = listing[k]
  BY <1>1 DEF RaceInv, IInv, TypeOK
<1>4. \A g \in Handlers : task[g].on = l => task[g].pc = "idle"
  <2>1. Absent.status = "ABSENT"
    BY DEF Absent
  <2>2. QED
    BY <1>2, <2>1 DEF RaceInv, TasksHaveRows, At
<1>5. PhotosAreSound'
  BY <1>1, <1>2, <1>3 DEF PhotosInv, PhotosAreSound, Quiet, RowPhotos, Exists
<1>6. StockIsThePlatforms'
  BY <1>1, <1>3 DEF PhotosInv, StockIsThePlatforms
<1>7. PhotosAreCurrent'
  BY <1>2, <1>3, <1>4
  DEF PhotosInv, PhotosAreCurrent, PhotosAreCurrentFor, PhotosSeen, Exists
<1>8. QED
  BY <1>5, <1>6, <1>7 DEF PhotosInv

LEMMA InitiallyPhotos == Init => PhotosInv
<1> SUFFICES ASSUME Init
             PROVE  PhotosInv
  OBVIOUS
<1>1. /\ \A h \in Handlers : task[h].pc = "idle"
      /\ \A l \in Listings : listing[l] = Absent
  BY DEF Init, Idle
<1>2. Absent.status = "ABSENT" /\ Absent.maker = "none" /\ Absent.photos = {}
  BY DEF Absent
<1>3. Cardinality({}) <= PhotoLimit
  BY FS_EmptySet, ListingBoundsOK
<1>4. PhotosAreSound /\ StockIsThePlatforms
  <2>1. Cardinality(Absent.photos) <= PhotoLimit
    BY <1>2, <1>3
  <2>2. QED
    BY <1>1, <1>2, <2>1
    DEF PhotosAreSound, StockIsThePlatforms, Quiet, Exists, ListingStatus
<1>5. PhotosAreCurrent
  BY <1>1 DEF PhotosAreCurrent, PhotosAreCurrentFor, PhotosSeen
<1>6. QED
  BY <1>4, <1>5 DEF PhotosInv

LEMMA PhotosStaySound == RaceInv /\ Safe /\ PhotosInv /\ [Next]_vars => PhotosInv'
<1> SUFFICES ASSUME RaceInv, Safe, PhotosInv, [Next]_vars
             PROVE  PhotosInv'
  OBVIOUS
<1>1. CASE UNCHANGED vars
  BY <1>1
  DEF vars, PhotosInv, PhotosAreSound, PhotosAreCurrent, PhotosAreCurrentFor,
      StockIsThePlatforms, Quiet, Exists
<1>2. QED
  BY <1>1, BeginPhotos, HandlerPhotos, CreatePhotos, ReleasePhotos DEF Next

\* A listing that has left the draft has a photo and no listing more than the limit, and
\* platform stock has one primary photo, whatever an edit removes, adds and picks
\* (submitForReview, addPhotos, updateCreatedByAdmin), unless two requests raced on it.
THEOREM PhotosAreAlwaysSound == Spec => []PhotosAreSound
<1>1. PhotosInv => PhotosAreSound
  BY DEF PhotosInv
<1>2. QED
  BY InitiallySafe, StaysSafe, InitiallyPhotos, PhotosStaySound, <1>1, PTL DEF Spec
=============================================================================
