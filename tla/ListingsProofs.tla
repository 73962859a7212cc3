--------------------------- MODULE ListingsProofs ---------------------------
(***************************************************************************)
(* Proofs about Listings, for every set of listings, photos and handlers,  *)
(* every photo limit and every size of an edit, with crashes.              *)
(***************************************************************************)
EXTENDS Listings, TLAPS

\* What a task carries between its steps.  An open edit gives the primary flag to a
\* photo that its listing will have after the commit.
TaskIsSound(t) ==
  /\ t.pc # "idle" => t.on \in Listings
  /\ t.pc \in {"decide", "edit", "open"} => t.to \in ListingStatus
  /\ t.pc = "update" /\ ~t.same => t.channel \in MARKETPLACE_SELLER_TYPES
  /\ t.pc = "advance" => /\ t.to \in ListingInventoryStage
                         /\ t.channel \in ADMIN_ONLY_SELLER_TYPES \cup {"unchanged"}
  /\ t.pc = "open" =>
       /\ listing[t.on].status # "ABSENT"
       /\ Exists(t.on) => t.set \subseteq (listing[t.on].photos \ t.remove) \cup t.add

TasksAreSound == \A h \in Handlers : TaskIsSound(task[h])

\* Two open edits of one listing have written different photos.
OpenEditsAreApart ==
  \A g, h \in Handlers :
    g # h /\ At(g, "open") /\ At(h, "open") /\ task[g].on = task[h].on
      => PhotoRows(task[g]) \cap PhotoRows(task[h]) = {}

\* The inductive invariant behind the types and the sellers of platform stock.
IInv == TypeOK /\ TasksAreSound /\ OpenEditsAreApart /\ PlatformIsSeller

-----------------------------------------------------------------------------
(* The parts of a step: starting a task, going on, ending it, writing a row *)

LEMMA IdleFacts == Idle \in TaskType /\ Idle.pc = "idle" /\ TaskIsSound(Idle)
  BY DEF Idle, TaskType, TaskIsSound

LEMMA AbsentFacts == Absent \in RowType
  BY DEF Absent, RowType

LEMMA Initially == Init => IInv
  BY IdleFacts, AbsentFacts
  DEF Init, IInv, TypeOK, TasksAreSound, OpenEditsAreApart, PlatformIsSeller, Absent, At,
      ADMIN_ONLY_SELLER_TYPES

LEMMA ContendTypes ==
  ASSUME TypeOK, NEW l, NEW S, Contend(l, S)
  PROVE  contended' \in [Listings -> SUBSET {"status", "channel"}]
<1> DEFINE C == contended[l] \cup (S \cap UNION {Concerns(task[g].pc) : g \in Busy(l)})
<1>1. l \in Listings => C \subseteq {"status", "channel"}
  BY DEF TypeOK, Concerns
<1>2. QED
  <2>1. contended' = [contended EXCEPT ![l] = C]
    BY DEF Contend
  <2> HIDE DEF C
  <2>2. QED
    BY <1>1, <2>1 DEF TypeOK

\* A task that does not start in an open transaction keeps the invariant.
LEMMA TaskIInv ==
  ASSUME IInv, NEW h \in Handlers, NEW t \in TaskType, TaskIsSound(t), t.pc # "open",
         task' = [task EXCEPT ![h] = t], listing' = listing
  PROVE  /\ task' \in [Handlers -> TaskType]
         /\ TasksAreSound' /\ OpenEditsAreApart' /\ PlatformIsSeller'
<1>1. \A g \in Handlers : task'[g] = IF g = h THEN t ELSE task[g]
  BY DEF IInv, TypeOK
<1>2. task' \in [Handlers -> TaskType]
  BY DEF IInv, TypeOK
<1>3. TasksAreSound'
  BY <1>1 DEF IInv, TasksAreSound, TaskIsSound, Exists
<1>4. OpenEditsAreApart'
  BY <1>1 DEF IInv, OpenEditsAreApart, At, PhotoRows
<1>5. PlatformIsSeller'
  BY DEF IInv, PlatformIsSeller
<1>6. QED
  BY <1>2, <1>3, <1>4, <1>5

LEMMA StartIInv ==
  ASSUME IInv, NEW h \in Handlers, NEW t \in TaskType, TaskIsSound(t), t.pc # "open",
         Start(h, t)
  PROVE  IInv'
<1>1. task' = [task EXCEPT ![h] = t] /\ listing' = listing
  BY DEF Start
<1>2. contended' \in [Listings -> SUBSET {"status", "channel"}]
  BY ContendTypes DEF Start, IInv
<1>3. QED
  BY <1>1, <1>2, TaskIInv DEF Start, IInv, TypeOK

LEMMA FinishIInv ==
  ASSUME IInv, NEW h \in Handlers, Finish(h), listing' = listing,
         UNCHANGED <<revised, contended>>, died' \subseteq Listings
  PROVE  IInv'
  BY IdleFacts, TaskIInv DEF Finish, IInv, TypeOK

LEMMA GotoIInv ==
  ASSUME IInv, NEW h \in Handlers, NEW pc \in {"addPhotos", "submit", "reprice"},
         task[h].pc # "idle", Goto(h, pc), listing' = listing, UNCHANGED history
  PROVE  IInv'
<1> DEFINE t == [task[h] EXCEPT !.pc = pc]
<1>1. t \in TaskType /\ TaskIsSound(t) /\ t.pc # "open"
  BY DEF IInv, TypeOK, TaskType, TasksAreSound, TaskIsSound
<1>2. task' = [task EXCEPT ![h] = t]
  BY DEF Goto, IInv, TypeOK
<1>3. QED
  <2> HIDE DEF t
  <2>1. QED
    BY <1>1, <1>2, TaskIInv DEF IInv, TypeOK, history

\* A new row of a listing that keeps the photos that the open edits count on.
GoodRow(row) ==
  /\ row \in RowType
  /\ row.primary \subseteq row.photos
  /\ row.channel \in ADMIN_ONLY_SELLER_TYPES => row.profile = row.channel
  /\ row.status # "ABSENT"

KeepsOpenEdits(h, l, row) ==
  row.status # "GONE" =>
    \A g \in Handlers \ {h} : At(g, "open") /\ task[g].on = l =>
      task[g].set \subseteq (row.photos \ task[g].remove) \cup task[g].add

\* The row first: the invariant holds with the new row beside the old tasks, but for
\* the open edit of the handler that wrote it, which ends or goes on elsewhere.
LEMMA RowIInv ==
  ASSUME IInv, NEW l \in Listings, NEW row, GoodRow(row),
         listing' = [listing EXCEPT ![l] = row], revised' \subseteq Listings,
         contended' \in [Listings -> SUBSET {"status", "channel"}],
         UNCHANGED died,
         NEW h, KeepsOpenEdits(h, l, row),
         NEW t \in TaskType, t.pc # "open", TaskIsSound(t),
         task' = [task EXCEPT ![h] = t]
  PROVE  IInv'
<1>1. \A k \in Listings : listing'[k] = IF k = l THEN row ELSE listing[k]
  BY DEF IInv, TypeOK
<1>2. \A g \in Handlers : task'[g] = IF g = h THEN t ELSE task[g]
  BY DEF IInv, TypeOK
<1>3. listing' \in [Listings -> RowType] /\ task' \in [Handlers -> TaskType]
  BY DEF IInv, TypeOK, GoodRow
<1>4. TypeOK'
  BY <1>1, <1>3 DEF IInv, TypeOK, GoodRow
<1>5. TasksAreSound'
  <2>1. TaskIsSound(t)'
    BY DEF TaskIsSound
  <2>2. ASSUME NEW g \in Handlers, g # h
        PROVE  TaskIsSound(task[g])'
    <3>1. TaskIsSound(task[g]) /\ task'[g] = task[g]
      BY <1>2, <2>2 DEF IInv, TasksAreSound
    <3>2. CASE task[g].pc # "open"
      BY <3>1, <3>2 DEF TaskIsSound
    <3>3. CASE task[g].pc = "open"
      <4>1. listing'[task[g].on].status # "ABSENT"
        BY <1>1, <3>1, <3>3 DEF TaskIsSound, GoodRow
      <4>2. task[g].on = l /\ row.status # "GONE" =>
              task[g].set \subseteq (row.photos \ task[g].remove) \cup task[g].add
        BY <2>2, <3>3 DEF KeepsOpenEdits, At
      <4>3. Exists(task[g].on)' =>
              task[g].set \subseteq
                (listing'[task[g].on].photos \ task[g].remove) \cup task[g].add
        BY <1>1, <3>1, <3>3, <4>2 DEF TaskIsSound, Exists, ListingStatus
      <4>4. QED
        BY <3>1, <3>3, <4>1, <4>3 DEF TaskIsSound, Exists
    <3>4. QED
      BY <3>2, <3>3
  <2>3. QED
    BY <1>2, <2>1, <2>2 DEF TasksAreSound, TaskIsSound, Exists
<1>6. OpenEditsAreApart'
  BY <1>2 DEF IInv, OpenEditsAreApart, At, PhotoRows
<1>7. PlatformIsSeller'
  BY <1>1 DEF IInv, PlatformIsSeller, GoodRow
<1>8. QED
  BY <1>4, <1>5, <1>6, <1>7 DEF IInv

\* A handler that writes its listing, if it still exists, and ends.
LEMMA WriteIInv ==
  ASSUME IInv, NEW h \in Handlers, task[h].on \in Listings, NEW row, Write(h, row),
         Exists(task[h].on) =>
           GoodRow(row) /\ KeepsOpenEdits(h, task[h].on, row),
         Finish(h), revised' \subseteq Listings, UNCHANGED <<contended, died>>
  PROVE  IInv'
<1>1. CASE Exists(task[h].on)
  BY <1>1, IdleFacts, RowIInv DEF Write, Finish, IInv, TypeOK
<1>2. CASE ~Exists(task[h].on)
  <2>1. listing' = listing
    BY <1>2 DEF Write
  <2>2. QED
    BY <2>1, IdleFacts, TaskIInv DEF Finish, IInv, TypeOK
<1>3. QED
  BY <1>1, <1>2

-----------------------------------------------------------------------------
(* The actions *)

\* The task that an administrator's edit starts.
LEMMA EditTask ==
  ASSUME IInv, NEW h \in Handlers, NEW l \in Listings, BeginEdit(h, l)
  PROVE  \E t \in TaskType :
           /\ Start(h, t) /\ TaskIsSound(t) /\ t.pc = "edit" /\ t.on = l
           /\ ~t.same => AdminMayChange(listing[l].status, t.to)
<1> USE DEF TaskType, TaskIsSound, Idle
<1> DEFINE row == listing[l]
<1>1. PICK kinds \in EditKinds :
        \E to \in IF "status" \in kinds
                 THEN {s \in ListingStatus : AdminMayChange(row.status, s)}
                 ELSE {row.status},
           remove \in IF "remove" \in kinds THEN (SUBSET row.photos) \ {{}} ELSE {{}},
           add \in IF "add" \in kinds THEN Upto(PhotoLimit, FreshPhotos) \ {{}} ELSE {{}},
           pick \in IF "pick" \in kinds THEN {p \in row.photos : row.primary # {p}}
                                       ELSE {None} :
          Start(h, [Idle EXCEPT !.pc = "edit", !.on = l, !.to = to,
                      !.same = ("status" \notin kinds), !.fields = ("fields" \in kinds),
                      !.prices = ("prices" \in kinds),
                      !.channel = IF "prices" \in kinds THEN row.channel ELSE "none",
                      !.remove = remove, !.add = add, !.pick = pick])
  BY Zenon DEF BeginEdit
<1>2. row.status \in ListingStatus /\ row.photos \subseteq Photos
  BY DEF BeginEdit, IInv, TypeOK, RowType, Live, Exists
<1>3. Upto(PhotoLimit, FreshPhotos) \subseteq SUBSET Photos
  BY DEF Upto, FreshPhotos
<1> HIDE DEF row
<1>4. PICK to \in IF "status" \in kinds
                THEN {s \in ListingStatus : AdminMayChange(row.status, s)}
                ELSE {row.status},
           remove \in IF "remove" \in kinds THEN (SUBSET row.photos) \ {{}} ELSE {{}},
           add \in IF "add" \in kinds THEN Upto(PhotoLimit, FreshPhotos) \ {{}} ELSE {{}},
           pick \in IF "pick" \in kinds THEN {p \in row.photos : row.primary # {p}}
                                       ELSE {None} :
        Start(h, [Idle EXCEPT !.pc = "edit", !.on = l, !.to = to,
                    !.same = ("status" \notin kinds), !.fields = ("fields" \in kinds),
                    !.prices = ("prices" \in kinds),
                    !.channel = IF "prices" \in kinds THEN row.channel ELSE "none",
                    !.remove = remove, !.add = add, !.pick = pick])
  BY <1>1, Zenon
<1>5. /\ to \in ListingStatus /\ remove \subseteq Photos /\ add \subseteq Photos
      /\ pick \in Photos \cup {None}
  BY <1>2, <1>3
<1> DEFINE same == "status" \notin kinds
           fields == "fields" \in kinds
           prices == "prices" \in kinds
           channel == IF prices THEN row.channel ELSE "none"
           t == [Idle EXCEPT !.pc = "edit", !.on = l, !.to = to, !.same = same,
                   !.fields = fields, !.prices = prices, !.channel = channel,
                   !.remove = remove, !.add = add, !.pick = pick]
<1>6. same \in BOOLEAN /\ fields \in BOOLEAN /\ prices \in BOOLEAN
  OBVIOUS
<1>7. channel \in SellerType \cup {"none"}
  BY DEF row, IInv, TypeOK, RowType
<1>8. Start(h, t)
  BY <1>4
<1> HIDE DEF same, fields, prices, channel
<1>9. t \in TaskType
  BY <1>5, <1>6, <1>7
<1>10. /\ TaskIsSound(t) /\ t.pc = "edit" /\ t.on = l
       /\ ~t.same => AdminMayChange(listing[l].status, t.to)
  BY <1>4, <1>5 DEF row, same
<1> HIDE DEF t, TaskType, TaskIsSound, Idle
<1>11. QED
  BY <1>8, <1>9, <1>10

LEMMA BeginIInv ==
  ASSUME IInv, NEW h \in Handlers, Begin(h)
  PROVE  IInv'
<1> USE DEF TaskType, TaskIsSound, Idle
<1>1. ASSUME NEW l \in Listings, BeginUpdateOwn(h, l)
      PROVE  IInv'
  <2>1. PICK channel \in MARKETPLACE_SELLER_TYPES, same \in BOOLEAN, prices \in BOOLEAN :
          Start(h, [Idle EXCEPT !.pc = "update", !.on = l, !.same = same, !.prices = prices,
                      !.channel = IF same /\ ~prices THEN "none" ELSE channel])
    BY <1>1 DEF BeginUpdateOwn
  <2>2. QED
    BY <2>1, StartIInv DEF MARKETPLACE_SELLER_TYPES, SellerType
<1>2. ASSUME NEW l \in Listings, NEW pc \in {"withdraw", "countSubmit", "delete"},
             Start(h, [Idle EXCEPT !.pc = pc, !.on = l])
      PROVE  IInv'
  BY <1>2, StartIInv
<1>3. ASSUME NEW l \in Listings, BeginAddPhotos(h, l)
      PROVE  IInv'
  <2>1. PICK ps \in Upto(PhotoLimit, FreshPhotos) :
          Start(h, [Idle EXCEPT !.pc = "countPhotos", !.on = l, !.add = ps])
    BY <1>3 DEF BeginAddPhotos
  <2>2. ps \subseteq Photos
    BY DEF Upto, FreshPhotos
  <2>3. QED
    BY <2>1, <2>2, StartIInv
<1>4. ASSUME NEW l \in Listings, BeginDecision(h, l)
      PROVE  IInv'
  <2>1. PICK to \in Decisions : Start(h, [Idle EXCEPT !.pc = "decide", !.on = l, !.to = to])
    BY <1>4 DEF BeginDecision
  <2>2. QED
    BY <2>1, StartIInv DEF Decisions, ListingStatus
<1>5. ASSUME NEW l \in Listings, BeginEdit(h, l)
      PROVE  IInv'
  BY <1>5, EditTask, StartIInv
<1>6. ASSUME NEW l \in Listings, BeginAdvance(h, l)
      PROVE  IInv'
  <2>1. PICK stage \in ListingInventoryStage :
          Start(h, [Idle EXCEPT !.pc = "advance", !.on = l, !.to = stage,
                      !.same = (stage = listing[l].stage),
                      !.channel = ChannelAfter(listing[l], stage)])
    BY <1>6 DEF BeginAdvance
  <2>2. ChannelAfter(listing[l], stage) \in ADMIN_ONLY_SELLER_TYPES \cup {"unchanged"}
    BY DEF ChannelAfter, ADMIN_ONLY_SELLER_TYPES
  <2>3. QED
    BY <2>1, <2>2, StartIInv DEF SellerType
<1>7. QED
  BY <1>1, <1>2, <1>3, <1>4, <1>5, <1>6
  DEF Begin, BeginDeleteOwn, BeginSubmitForReview, BeginHardDelete

\* The listing a busy handler works on.
LEMMA TaskFacts ==
  ASSUME IInv, NEW h \in Handlers
  PROVE  /\ task[h] \in TaskType /\ TaskIsSound(task[h])
         /\ task[h].pc # "idle" =>
              /\ task[h].on \in Listings
              /\ listing[task[h].on] \in RowType
              /\ listing[task[h].on].primary \subseteq listing[task[h].on].photos
              /\ listing[task[h].on].channel \in ADMIN_ONLY_SELLER_TYPES
                   => listing[task[h].on].profile = listing[task[h].on].channel
  BY DEF IInv, TypeOK, TasksAreSound, TaskIsSound, PlatformIsSeller

\* What the other open edits of a listing count on, in its present photos.
LEMMA OpenEditsFit ==
  ASSUME IInv, NEW h \in Handlers, Exists(task[h].on), NEW row,
         listing[task[h].on].photos \subseteq row.photos
  PROVE  KeepsOpenEdits(h, task[h].on, row)
  BY DEF IInv, TasksAreSound, TaskIsSound, KeepsOpenEdits, At

LEMMA PriceInputs ==
  ASSUME NEW channel
  PROVE  PriceInputOf(channel) \in {"base", "fob", "payout"}
  BY DEF PriceInputOf

\* The writes that keep the photos of the listing.
LEMMA PlainWriteIInv ==
  ASSUME IInv, NEW h \in Handlers, ~At(h, "idle"), NEW row, Write(h, row), Finish(h),
         Exists(task[h].on) => /\ row \in RowType
                               /\ row.photos = Row(h).photos /\ row.primary = Row(h).primary
                               /\ row.channel \in ADMIN_ONLY_SELLER_TYPES
                                    => row.profile = row.channel
                               /\ row.status \in ListingStatus,
         revised' \subseteq Listings, UNCHANGED <<contended, died>>
  PROVE  IInv'
<1>1. Exists(task[h].on) => GoodRow(row)
  BY TaskFacts DEF GoodRow, At, Row, ListingStatus
<1>2. Exists(task[h].on) => KeepsOpenEdits(h, task[h].on, row)
  BY OpenEditsFit DEF Row
<1>3. QED
  BY <1>1, <1>2, TaskFacts, WriteIInv DEF At

LEMMA UpdateOwnIInv ==
  ASSUME IInv, NEW h \in Handlers, CommitUpdateOwn(h)
  PROVE  IInv'
<1> DEFINE t == task[h]
           channel == IF t.same THEN Row(h).channel ELSE t.channel
           priced == IF t.prices THEN Row(h).priced \cup {PriceInputOf(t.channel)}
                                 ELSE Row(h).priced
           row == [Row(h) EXCEPT !.channel = channel, !.priced = priced]
<1>1. Write(h, row) /\ Finish(h) /\ ~At(h, "idle") /\ UNCHANGED <<contended, died>>
  BY DEF CommitUpdateOwn, At
<1>2. revised' \subseteq Listings
  BY TaskFacts DEF CommitUpdateOwn, At, IInv, TypeOK
<1>3. Row(h) \in RowType /\ t \in TaskType
  BY TaskFacts DEF CommitUpdateOwn, At, Row
<1>4. priced \subseteq {"base", "fob", "payout"}
  BY <1>3, PriceInputs DEF RowType
<1>5. /\ channel \in SellerType \cup {"none"}
      /\ channel \in ADMIN_ONLY_SELLER_TYPES => Row(h).profile = channel
  <2>1. ~t.same => t.channel \in MARKETPLACE_SELLER_TYPES
    BY TaskFacts DEF TaskIsSound, CommitUpdateOwn, At
  <2>2. t.same => channel \in SellerType \cup {"none"}
    BY <1>3 DEF RowType
  <2>3. Row(h).channel \in ADMIN_ONLY_SELLER_TYPES => Row(h).profile = Row(h).channel
    BY TaskFacts DEF CommitUpdateOwn, At, Row
  <2>4. QED
    BY <2>1, <2>2, <2>3
    DEF SellerType, MARKETPLACE_SELLER_TYPES, ADMIN_ONLY_SELLER_TYPES
<1> HIDE DEF channel, priced
<1>6. Exists(t.on) => row \in RowType /\ row.status \in ListingStatus
  BY <1>3, <1>4, <1>5 DEF RowType, Exists, Row
<1>7. row.photos = Row(h).photos /\ row.primary = Row(h).primary
      /\ row.profile = Row(h).profile /\ row.channel = channel
  BY <1>3 DEF RowType
<1> HIDE DEF row
<1>8. QED
  BY <1>1, <1>2, <1>5, <1>6, <1>7, PlainWriteIInv DEF ADMIN_ONLY_SELLER_TYPES

LEMMA DeleteOwnIInv ==
  ASSUME IInv, NEW h \in Handlers, CommitDeleteOwn(h)
  PROVE  IInv'
<1> DEFINE row == [Row(h) EXCEPT !.withdrawn = TRUE]
<1>1. Row(h) \in RowType
      /\ (Row(h).channel \in ADMIN_ONLY_SELLER_TYPES => Row(h).profile = Row(h).channel)
  BY TaskFacts DEF CommitDeleteOwn, At, Row
<1>2. Exists(task[h].on) =>
        /\ row \in RowType /\ row.status \in ListingStatus
        /\ row.photos = Row(h).photos /\ row.primary = Row(h).primary
        /\ row.channel = Row(h).channel /\ row.profile = Row(h).profile
  BY <1>1 DEF RowType, Exists, Row
<1>3. Write(h, row) /\ Finish(h) /\ ~At(h, "idle") /\ UNCHANGED history
  BY DEF CommitDeleteOwn, At
<1>4. revised' \subseteq Listings /\ UNCHANGED <<contended, died>>
  BY <1>3 DEF history, IInv, TypeOK
<1> HIDE DEF row
<1>5. QED
  BY <1>1, <1>2, <1>3, <1>4, PlainWriteIInv

\* A handler that changes nothing but the status.
LEMMA StatusIInv ==
  ASSUME IInv, NEW h \in Handlers, ~At(h, "idle"), NEW s \in ListingStatus,
         Write(h, [Row(h) EXCEPT !.status = s]), Finish(h), revised' \subseteq Listings,
         UNCHANGED <<contended, died>>
  PROVE  IInv'
<1> DEFINE row == [Row(h) EXCEPT !.status = s]
<1>1. Row(h) \in RowType
      /\ (Row(h).channel \in ADMIN_ONLY_SELLER_TYPES => Row(h).profile = Row(h).channel)
  BY TaskFacts DEF At, Row
<1>2. /\ row \in RowType /\ row.status \in ListingStatus
      /\ row.photos = Row(h).photos /\ row.primary = Row(h).primary
      /\ row.channel = Row(h).channel /\ row.profile = Row(h).profile
  BY <1>1 DEF RowType
<1> HIDE DEF row
<1>3. QED
  BY <1>1, <1>2, PlainWriteIInv DEF row

LEMMA SubmitIInv ==
  ASSUME IInv, NEW h \in Handlers, CommitSubmitForReview(h)
  PROVE  IInv'
<1>1. revised' \subseteq Listings /\ ~At(h, "idle")
  BY DEF CommitSubmitForReview, At, IInv, TypeOK
<1>2. QED
  BY <1>1, StatusIInv DEF CommitSubmitForReview, ListingStatus

LEMMA DecisionIInv ==
  ASSUME IInv, NEW h \in Handlers, CommitDecision(h)
  PROVE  IInv'
<1>1. task[h].to \in ListingStatus /\ ~At(h, "idle")
  BY TaskFacts DEF TaskIsSound, CommitDecision, At
<1>2. revised' \subseteq Listings /\ UNCHANGED <<contended, died>>
  BY DEF CommitDecision, history, IInv, TypeOK
<1>3. QED
  BY <1>1, <1>2, StatusIInv DEF CommitDecision

LEMMA HardDeleteIInv ==
  ASSUME IInv, NEW h \in Handlers, CommitHardDelete(h)
  PROVE  IInv'
<1> DEFINE row == [Absent EXCEPT !.status = "GONE"]
<1>1. GoodRow(row)
  BY DEF GoodRow, Absent, RowType, ADMIN_ONLY_SELLER_TYPES
<1>2. KeepsOpenEdits(h, task[h].on, row)
  BY DEF KeepsOpenEdits, Absent
<1>3. Write(h, row) /\ Finish(h) /\ UNCHANGED history /\ task[h].on \in Listings
  BY TaskFacts DEF CommitHardDelete, At
<1>4. revised' \subseteq Listings /\ UNCHANGED <<contended, died>>
  BY <1>3 DEF history, IInv, TypeOK
<1> HIDE DEF row
<1>5. QED
  BY <1>1, <1>2, <1>3, <1>4, WriteIInv

LEMMA AddPhotosIInv ==
  ASSUME IInv, NEW h \in Handlers, CommitAddPhotos(h)
  PROVE  IInv'
<1> DEFINE l == task[h].on
           add == task[h].add
<1>1. l \in Listings /\ Row(h) \in RowType /\ add \subseteq Photos
      /\ Row(h).primary \subseteq Row(h).photos
      /\ (Row(h).channel \in ADMIN_ONLY_SELLER_TYPES => Row(h).profile = Row(h).channel)
  BY TaskFacts DEF CommitAddPhotos, At, Row, TaskType
<1>2. revised' \subseteq Listings /\ UNCHANGED <<contended, died>> /\ Finish(h)
  BY <1>1 DEF CommitAddPhotos, IInv, TypeOK
<1>3. CASE Exists(l)
  <2>1. PICK first \in add :
          listing' = [listing EXCEPT ![l].photos = @ \cup add,
                                     ![l].primary = @ \cup {first}]
    BY <1>3 DEF CommitAddPhotos
  <2> DEFINE row == [Row(h) EXCEPT !.photos = @ \cup add, !.primary = @ \cup {first}]
  <2>2. listing' = [listing EXCEPT ![l] = row]
    BY <2>1, <1>1 DEF Row, IInv, TypeOK
  <2>3. GoodRow(row) /\ Row(h).photos \subseteq row.photos
    BY <1>1, <1>3 DEF GoodRow, RowType, Exists, ListingStatus, Row
  <2> HIDE DEF row
  <2>4. KeepsOpenEdits(h, l, row)
    BY <1>3, <2>3, OpenEditsFit DEF Row
  <2>5. QED
    BY <1>1, <1>2, <2>2, <2>3, <2>4, IdleFacts, RowIInv DEF Finish, IInv, TypeOK
<1>4. CASE ~Exists(l)
  <2>1. listing' = listing
    BY <1>4 DEF CommitAddPhotos
  <2>2. QED
    BY <1>2, <2>1, IdleFacts, TaskIInv DEF Finish, IInv, TypeOK
<1>5. QED
  BY <1>3, <1>4

\* The photo an edit makes primary is one of those it leaves or adds.
LEMMA FlagsStay ==
  ASSUME NEW t \in TaskType, NEW left, NEW primary, NEW set \in NewFlags(t, left, primary),
         left # {} => t.pick \in left \cup {None}
  PROVE  set \subseteq left \cup t.add
  BY DEF NewFlags

\* An edit that opens its transaction: another task carries no write of its photos.
LEMMA OpenIInv ==
  ASSUME IInv, NEW h \in Handlers, NEW t \in TaskType, TaskIsSound(t), t.pc = "open",
         PhotosFree(h, t.on, PhotoRows(t)), task' = [task EXCEPT ![h] = t],
         listing' = listing, UNCHANGED history
  PROVE  IInv'
<1>1. \A g \in Handlers : task'[g] = IF g = h THEN t ELSE task[g]
  BY DEF IInv, TypeOK
<1>2. TypeOK'
  BY DEF IInv, TypeOK, history
<1>3. TasksAreSound'
  BY <1>1 DEF IInv, TasksAreSound, TaskIsSound, Exists
<1>4. \A g \in Handlers \ {h} : At(g, "open") /\ task[g].on = t.on =>
        PhotoRows(task[g]) \cap PhotoRows(t) = {}
  BY DEF PhotosFree, Busy
<1>5. OpenEditsAreApart'
  BY <1>1, <1>4 DEF IInv, OpenEditsAreApart, At, PhotoRows
<1>6. PlatformIsSeller'
  BY DEF IInv, PlatformIsSeller
<1>7. QED
  BY <1>2, <1>3, <1>5, <1>6 DEF IInv

LEMMA OpenEditIInv ==
  ASSUME IInv, NEW h \in Handlers, OpenEdit(h)
  PROVE  IInv'
<1> DEFINE t == task[h]
           left == Row(h).photos \ t.remove
           unset == ClearedFlags(t, left, Row(h).primary)
<1>1. listing' = listing /\ UNCHANGED history /\ At(h, "edit")
  BY DEF OpenEdit, EditOf
<1>2. t \in TaskType /\ TaskIsSound(t) /\ Row(h) \in RowType
      /\ Row(h).primary \subseteq Row(h).photos
  BY <1>1, TaskFacts DEF At, Row
<1>3. CASE Finish(h)
  BY <1>1, <1>3, FinishIInv DEF history, IInv, TypeOK
<1>4. CASE /\ Exists(t.on)
           /\ left # {} => t.pick \in left \cup {None}
           /\ \E set \in NewFlags(t, left, Row(h).primary) :
                /\ PhotosFree(h, t.on, t.remove \cup unset \cup set)
                /\ task' = [task EXCEPT ![h] =
                     [t EXCEPT !.pc = "open", !.unset = unset, !.set = set]]
  <2>1. PICK set \in NewFlags(t, left, Row(h).primary) :
          /\ PhotosFree(h, t.on, t.remove \cup unset \cup set)
          /\ task' = [task EXCEPT ![h] =
               [t EXCEPT !.pc = "open", !.unset = unset, !.set = set]]
    BY <1>4
  <2>2. set \subseteq left \cup t.add
    BY <1>2, <1>4, FlagsStay
  <2>3. set \subseteq Photos /\ unset \subseteq Photos
    BY <1>2, <2>2 DEF ClearedFlags, TaskType, RowType
  <2> DEFINE u == [t EXCEPT !.pc = "open", !.unset = unset, !.set = set]
  <2> HIDE DEF unset
  <2>4. u \in TaskType /\ u.pc = "open" /\ u.on = t.on /\ u.remove = t.remove
        /\ u.set = set /\ u.add = t.add /\ u.to = t.to
        /\ PhotoRows(u) = t.remove \cup unset \cup set
    BY <1>2, <2>3 DEF TaskType, PhotoRows
  <2> HIDE DEF u
  <2>5. TaskIsSound(u)
    BY <1>1, <1>2, <1>4, <2>2, <2>4 DEF TaskIsSound, At, Row, Exists, ListingStatus
  <2>6. task' = [task EXCEPT ![h] = u]
    BY <2>1 DEF u
  <2>7. QED
    BY <1>1, <2>1, <2>4, <2>5, <2>6, OpenIInv
<1>5. QED
  BY <1>3, <1>4 DEF OpenEdit, EditOf

\* The commit of an edit takes no photo that another open edit counts on.
LEMMA CommitEditIInv ==
  ASSUME IInv, NEW h \in Handlers, CommitEdit(h)
  PROVE  IInv'
<1> DEFINE t == task[h]
           status == IF t.same THEN Row(h).status ELSE t.to
           priced == IF t.prices THEN Row(h).priced \cup {PriceInputOf(t.channel)}
                                 ELSE Row(h).priced
           photos == (Row(h).photos \ t.remove) \cup t.add
           primary == (Row(h).primary \ (t.remove \cup t.unset)) \cup t.set
           row == [Row(h) EXCEPT !.status = status, !.priced = priced,
                                 !.photos = photos, !.primary = primary]
<1>1. Write(h, row) /\ Finish(h) /\ At(h, "open") /\ UNCHANGED history
  BY DEF CommitEdit
<1>2. /\ t \in TaskType /\ TaskIsSound(t) /\ t.on \in Listings /\ Row(h) \in RowType
      /\ Row(h).primary \subseteq Row(h).photos
      /\ Row(h).channel \in ADMIN_ONLY_SELLER_TYPES => Row(h).profile = Row(h).channel
  BY <1>1, TaskFacts DEF At, Row
<1>3. priced \subseteq {"base", "fob", "payout"}
  BY <1>2, PriceInputs DEF RowType
<1>4. photos \subseteq Photos
  BY <1>2 DEF RowType, TaskType
<1>5. Exists(t.on) => status \in ListingStatus
  BY <1>1, <1>2 DEF TaskIsSound, At, Row, Exists
<1>6. Exists(t.on) => primary \subseteq photos
  BY <1>1, <1>2 DEF TaskIsSound, At, Row
<1>7. ASSUME Exists(t.on)
      PROVE  KeepsOpenEdits(h, t.on, row)
  <2> HIDE DEF status, priced, primary
  <2>1. SUFFICES ASSUME NEW g \in Handlers \ {h}, At(g, "open"), task[g].on = t.on
                 PROVE  task[g].set \subseteq (photos \ task[g].remove) \cup task[g].add
    BY <1>2 DEF KeepsOpenEdits, RowType
  <2>2. task[g].set \subseteq (Row(h).photos \ task[g].remove) \cup task[g].add
    BY <1>7, <2>1, TaskFacts DEF TaskIsSound, At, Row
  <2>3. task[g].set \cap t.remove = {}
    BY <1>1, <2>1 DEF IInv, OpenEditsAreApart, PhotoRows
  <2>4. QED
    BY <2>2, <2>3
<1> HIDE DEF status, priced, photos, primary
<1>8. Exists(t.on) => GoodRow(row)
  BY <1>2, <1>3, <1>4, <1>5, <1>6 DEF GoodRow, RowType, ListingStatus
<1>9. revised' \subseteq Listings /\ UNCHANGED <<contended, died>>
  BY <1>1 DEF history, IInv, TypeOK
<1> HIDE DEF row
<1>10. QED
  BY <1>1, <1>2, <1>7, <1>8, <1>9, WriteIInv

LEMMA AdvanceIInv ==
  ASSUME IInv, NEW h \in Handlers, CommitAdvance(h)
  PROVE  IInv'
<1> DEFINE t == task[h]
           stage == IF t.same THEN Row(h).stage ELSE t.to
           row == [Row(h) EXCEPT !.stage = stage, !.channel = NewChannel(h),
                                 !.profile = NewProfile(h)]
<1>1. /\ At(h, "advance") /\ Write(h, row) /\ UNCHANGED <<contended, died>>
      /\ revised' = IF Moves(h) THEN revised \cup {t.on} ELSE revised
      /\ IF Moves(h) /\ Exists(t.on) THEN Goto(h, "reprice") ELSE Finish(h)
  BY DEF CommitAdvance, WriteStage
<1>2. /\ t.on \in Listings /\ Row(h) \in RowType /\ TaskIsSound(t) /\ t \in TaskType
      /\ Row(h).primary \subseteq Row(h).photos
      /\ Row(h).channel \in ADMIN_ONLY_SELLER_TYPES => Row(h).profile = Row(h).channel
  BY <1>1, TaskFacts DEF At, Row
<1>3. stage \in ListingInventoryStage \cup {"none"}
  BY <1>1, <1>2 DEF TaskIsSound, At, RowType
<1>4. /\ NewChannel(h) \in SellerType \cup {"none"}
      /\ NewProfile(h) \in ADMIN_ONLY_SELLER_TYPES \cup {"none", "market"}
      /\ NewChannel(h) \in ADMIN_ONLY_SELLER_TYPES => NewProfile(h) = NewChannel(h)
  BY <1>1, <1>2 DEF TaskIsSound, At, RowType, NewChannel, NewProfile, Moves, SellerType
<1>5. revised' \subseteq Listings /\ UNCHANGED <<contended, died>>
      /\ contended' \in [Listings -> SUBSET {"status", "channel"}]
  BY <1>1, <1>2 DEF IInv, TypeOK
<1> HIDE DEF stage
<1>6. Exists(t.on) => GoodRow(row)
  BY <1>2, <1>3, <1>4 DEF GoodRow, RowType, Exists, ListingStatus, Row
<1>7. Row(h).photos \subseteq row.photos
  BY <1>2 DEF RowType
<1> HIDE DEF row
<1>8. Exists(t.on) => KeepsOpenEdits(h, t.on, row)
  BY <1>7, OpenEditsFit DEF Row
<1>9. CASE Moves(h) /\ Exists(t.on)
  <2> DEFINE u == [t EXCEPT !.pc = "reprice"]
  <2>1. u \in TaskType /\ TaskIsSound(u) /\ u.pc # "open"
    BY <1>2 DEF TaskType, TaskIsSound
  <2>2. task' = [task EXCEPT ![h] = u] /\ listing' = [listing EXCEPT ![t.on] = row]
    BY <1>1, <1>9 DEF Goto, Write, IInv, TypeOK
  <2> HIDE DEF u
  <2>3. QED
    BY <1>2, <1>5, <1>6, <1>8, <1>9, <2>1, <2>2, RowIInv
<1>10. CASE ~(Moves(h) /\ Exists(t.on))
  BY <1>1, <1>2, <1>5, <1>6, <1>8, <1>10, WriteIInv
<1>11. QED
  BY <1>9, <1>10

LEMMA RepriceIInv ==
  ASSUME IInv, NEW h \in Handlers, Reprice(h)
  PROVE  IInv'
<1> DEFINE t == task[h]
           row == [Row(h) EXCEPT !.priced = @ \cup {PriceInputOf(t.channel)}]
<1>1. At(h, "reprice") /\ Finish(h) /\ UNCHANGED history
  BY DEF Reprice
<1>2. /\ t.on \in Listings /\ Row(h) \in RowType
      /\ Row(h).primary \subseteq Row(h).photos
      /\ Row(h).channel \in ADMIN_ONLY_SELLER_TYPES => Row(h).profile = Row(h).channel
  BY <1>1, TaskFacts DEF At, Row
<1>3. revised' \subseteq Listings /\ UNCHANGED <<contended, died>>
      /\ contended' \in [Listings -> SUBSET {"status", "channel"}]
  BY <1>1 DEF history, IInv, TypeOK
<1>4. CASE Exists(t.on)
  <2>1. GoodRow(row) /\ Row(h).photos \subseteq row.photos
    BY <1>2, <1>4, PriceInputs DEF GoodRow, RowType, Exists, ListingStatus, Row
  <2>2. listing' = [listing EXCEPT ![t.on] = row]
    BY <1>4 DEF Reprice, Row, IInv, TypeOK
  <2> HIDE DEF row
  <2>3. KeepsOpenEdits(h, t.on, row)
    BY <1>4, <2>1, OpenEditsFit DEF Row
  <2>4. QED
    BY <1>1, <1>2, <1>3, <2>1, <2>2, <2>3, IdleFacts, RowIInv DEF Finish
<1>5. CASE ~Exists(t.on)
  <2>1. listing' = listing /\ died' \subseteq Listings /\ UNCHANGED <<revised, contended>>
    BY <1>1, <1>5 DEF Reprice, history, IInv, TypeOK
  <2>2. QED
    BY <1>1, <1>3, <2>1, FinishIInv
<1>6. QED
  BY <1>4, <1>5

LEMMA ContinueIInv ==
  ASSUME IInv, NEW h \in Handlers, Continue(h)
  PROVE  IInv'
<1>1. CASE CountPhotos(h)
  <2>1. task[h].pc # "idle" /\ listing' = listing /\ UNCHANGED history
    BY <1>1 DEF CountPhotos, At
  <2>2. Finish(h) \/ Goto(h, "addPhotos")
    BY <1>1 DEF CountPhotos
  <2>3. QED
    BY <2>1, <2>2, FinishIInv, GotoIInv DEF history, IInv, TypeOK
<1>2. CASE CountSubmit(h)
  <2>1. task[h].pc # "idle" /\ listing' = listing /\ UNCHANGED history
    BY <1>2 DEF CountSubmit, At
  <2>2. Finish(h) \/ Goto(h, "submit")
    BY <1>2 DEF CountSubmit
  <2>3. QED
    BY <2>1, <2>2, FinishIInv, GotoIInv DEF history, IInv, TypeOK
<1>3. QED
  BY <1>1, <1>2, UpdateOwnIInv, DeleteOwnIInv, AddPhotosIInv, SubmitIInv, DecisionIInv,
    HardDeleteIInv, OpenEditIInv, CommitEditIInv, AdvanceIInv, RepriceIInv DEF Continue

\* Creating a listing and releasing one write a row beside all tasks.
LEMMA FreeRowIInv ==
  ASSUME IInv, NEW l \in Listings, NEW row, GoodRow(row),
         Exists(l) => listing[l].photos \subseteq row.photos,
         listing[l].status # "GONE",
         listing' = [listing EXCEPT ![l] = row], task' = task, revised' = revised,
         died' = died, contended' \in [Listings -> SUBSET {"status", "channel"}]
  PROVE  IInv'
<1>1. \A k \in Listings : listing'[k] = IF k = l THEN row ELSE listing[k]
  BY DEF IInv, TypeOK
<1>2. TypeOK'
  BY <1>1 DEF IInv, TypeOK, GoodRow
<1>3. PlatformIsSeller' /\ OpenEditsAreApart'
  BY <1>1 DEF IInv, PlatformIsSeller, GoodRow, OpenEditsAreApart, At
<1>4. ASSUME NEW g \in Handlers
      PROVE  TaskIsSound(task[g])'
  <2>1. TaskIsSound(task[g])
    BY DEF IInv, TasksAreSound
  <2>2. CASE task[g].pc = "open" /\ task[g].on = l
    <3>1. Exists(l)
      BY <2>1, <2>2 DEF TaskIsSound, Exists, IInv, TypeOK, RowType
    <3>2. QED
      BY <1>1, <2>1, <2>2, <3>1 DEF TaskIsSound, GoodRow, Exists
  <2>3. CASE ~(task[g].pc = "open" /\ task[g].on = l)
    BY <1>1, <2>1, <2>3 DEF TaskIsSound, Exists
  <2>4. QED
    BY <2>2, <2>3
<1>5. QED
  BY <1>2, <1>3, <1>4 DEF IInv, TasksAreSound

LEMMA NewRowFacts ==
  ASSUME NEW maker \in {"seller", "admin"}, NEW channel \in SellerType,
         NEW profile \in ADMIN_ONLY_SELLER_TYPES \cup {"market"},
         NEW status \in ListingStatus
  PROVE  LET row == NewRow(maker, channel, profile, status)
         IN /\ row \in RowType /\ row.status = status /\ row.maker = maker
            /\ row.channel = channel /\ row.profile = profile
            /\ row.stage = DefaultInventoryStage(channel) /\ ~row.withdrawn
            /\ row.photos = {} /\ row.primary = {}
            /\ row.priced = {PriceInputOf(channel)}
<1>1. {"KIGALI_STOCK", "CHINA_UNPAID"} \subseteq ListingInventoryStage
  <2>1. STAGE_ORDER[1] = "CHINA_UNPAID" /\ STAGE_ORDER[4] = "KIGALI_STOCK"
    BY DEF STAGE_ORDER
  <2>2. QED
    BY <2>1 DEF ListingInventoryStage
<1>2. DefaultInventoryStage(channel) \in ListingInventoryStage
  BY <1>1 DEF DefaultInventoryStage
<1> DEFINE stage == DefaultInventoryStage(channel)
           priced == {PriceInputOf(channel)}
<1>3. priced \subseteq {"base", "fob", "payout"}
  BY PriceInputs
<1> HIDE DEF stage, priced
<1>4. NewRow(maker, channel, profile, status) =
        [Absent EXCEPT !.status = status, !.maker = maker, !.channel = channel,
           !.profile = profile, !.stage = stage, !.priced = priced]
  BY DEF NewRow, stage, priced
<1> DEFINE row == NewRow(maker, channel, profile, status)
<1>5. /\ row \in RowType /\ row.status = status /\ row.maker = maker
      /\ row.channel = channel /\ row.profile = profile /\ row.stage = stage
      /\ ~row.withdrawn /\ row.photos = {} /\ row.primary = {} /\ row.priced = priced
  BY <1>2, <1>3, <1>4 DEF Absent, RowType, stage
<1> HIDE DEF row
<1>6. QED
  BY <1>5 DEF row, stage, priced

LEMMA CreateIInv ==
  ASSUME IInv, NEW l \in Listings, CreateForSeller(l) \/ CreateByAdmin(l)
  PROVE  IInv'
<1>1. task' = task /\ revised' = revised /\ died' = died
      /\ ~Exists(l) /\ listing[l].status # "GONE"
      /\ contended' \in [Listings -> SUBSET {"status", "channel"}]
  <2>1. listing[l] = Absent /\ UNCHANGED <<task, revised, contended, died>>
    BY DEF CreateForSeller, CreateByAdmin, history
  <2>2. Absent.status = "ABSENT"
    BY DEF Absent
  <2>3. ~Exists(l) /\ listing[l].status # "GONE"
    BY <2>1, <2>2 DEF Exists, ListingStatus
  <2>4. QED
    BY <2>1, <2>3 DEF IInv, TypeOK
<1>2. ASSUME NEW channel \in MARKETPLACE_SELLER_TYPES
      PROVE  GoodRow(NewRow("seller", channel, "market", "DRAFT"))
  <2> DEFINE row == NewRow("seller", channel, "market", "DRAFT")
  <2>1. row \in RowType /\ row.status = "DRAFT" /\ row.photos = {} /\ row.primary = {}
        /\ row.channel = channel
    BY NewRowFacts DEF SellerType, ListingStatus
  <2> HIDE DEF row
  <2>2. GoodRow(row)
    BY <2>1 DEF GoodRow, MARKETPLACE_SELLER_TYPES, ADMIN_ONLY_SELLER_TYPES
  <2>3. QED
    BY <2>2 DEF row
<1>3. CASE CreateForSeller(l)
  BY <1>1, <1>2, <1>3, FreeRowIInv DEF CreateForSeller
<1>4. CASE CreateByAdmin(l)
  <2>1. PICK channel \in ADMIN_ONLY_SELLER_TYPES, status \in {"DRAFT", "PENDING_REVIEW"},
             ps \in Upto(PhotoLimit, FreshPhotos) :
          \E first \in IF ps = {} THEN {{}} ELSE {{p} : p \in ps} :
            listing' = [listing EXCEPT ![l] =
              [NewRow("admin", channel, channel, status)
                 EXCEPT !.photos = ps, !.primary = first]]
    BY <1>4 DEF CreateByAdmin
  <2>2. PICK first \in IF ps = {} THEN {{}} ELSE {{p} : p \in ps} :
          listing' = [listing EXCEPT ![l] =
            [NewRow("admin", channel, channel, status)
               EXCEPT !.photos = ps, !.primary = first]]
    BY <2>1
  <2> DEFINE row == [NewRow("admin", channel, channel, status)
                       EXCEPT !.photos = ps, !.primary = first]
  <2>3. ps \subseteq Photos /\ first \subseteq ps
    BY DEF Upto, FreshPhotos
  <2>4. GoodRow(row)
    <3> DEFINE new == NewRow("admin", channel, channel, status)
    <3>1. new \in RowType /\ new.channel = channel /\ new.profile = channel
          /\ new.status = status
      BY NewRowFacts DEF SellerType, ListingStatus
    <3> HIDE DEF new
    <3>2. row = [new EXCEPT !.photos = ps, !.primary = first]
      BY DEF new
    <3>3. QED
      BY <2>3, <3>1, <3>2 DEF GoodRow, RowType
  <2>5. listing' = [listing EXCEPT ![l] = row]
    BY <2>2 DEF row
  <2>6. QED
    BY <1>1, <2>4, <2>5, FreeRowIInv
<1>5. QED
  BY <1>3, <1>4

LEMMA ReleaseIInv ==
  ASSUME IInv, NEW l \in Listings, ReleaseListing(l)
  PROVE  IInv'
<1> DEFINE row == [listing[l] EXCEPT !.status = "PUBLISHED"]
<1>1. /\ listing' = [listing EXCEPT ![l] = row] /\ UNCHANGED <<task, revised, died>>
      /\ listing[l].status # "GONE"
  BY DEF ReleaseListing, IInv, TypeOK
<1>2. contended' \in [Listings -> SUBSET {"status", "channel"}]
  BY ContendTypes DEF ReleaseListing, IInv
<1>3. GoodRow(row) /\ listing[l].photos \subseteq row.photos
  BY DEF GoodRow, IInv, TypeOK, RowType, ListingStatus, PlatformIsSeller
<1> HIDE DEF row
<1>4. QED
  BY <1>1, <1>2, <1>3, FreeRowIInv

LEMMA StepIInv == IInv /\ [Next]_vars => IInv'
<1> SUFFICES ASSUME IInv, [Next]_vars
             PROVE  IInv'
  OBVIOUS
<1>1. ASSUME NEW h \in Handlers, Crash(h)
      PROVE  IInv'
  <2>1. died' \subseteq Listings
    BY <1>1, TaskFacts DEF Crash, At, IInv, TypeOK
  <2>2. QED
    BY <1>1, <2>1, FinishIInv DEF Crash
<1>2. CASE UNCHANGED vars
  BY <1>2 DEF vars, IInv, TypeOK, TasksAreSound, TaskIsSound, Exists, OpenEditsAreApart,
    At, PhotoRows, PlatformIsSeller
<1>3. QED
  BY <1>1, <1>2, BeginIInv, ContinueIInv, CreateIInv, ReleaseIInv DEF Next

\* Rows and tasks stay well formed and a primary photo stays on its listing, whatever
\* requests overlap, die or edit the photos of one listing at once.
THEOREM Typed == Spec => []TypeOK
<1>1. IInv => TypeOK
  BY DEF IInv
<1>2. QED
  BY Initially, StepIInv, <1>1, PTL DEF Spec

\* A listing in a platform channel is sold by the platform's profile of that channel,
\* also when a stage move overlaps a dealer's edit of the channel.
THEOREM PlatformSeller == Spec => []PlatformIsSeller
<1>1. IInv => PlatformIsSeller
  BY DEF IInv
<1>2. QED
  BY Initially, StepIInv, <1>1, PTL DEF Spec
=============================================================================
