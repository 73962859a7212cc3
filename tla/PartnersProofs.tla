--------------------------- MODULE PartnersProofs ---------------------------
(***************************************************************************)
(* Proofs about Partners, for every set of operators, stations, sellers,   *)
(* parts, banks and handlers and whatever the bounds.  Each part at work   *)
(* has an inductive invariant of its own, of one form: a handler that is   *)
(* alone on its row finds there what it read, two handlers on one row are  *)
(* not alone, and what a handler that is not alone writes is disturbed.    *)
(***************************************************************************)
EXTENDS Partners, FiniteSetTheorems, TLAPS

-----------------------------------------------------------------------------
(* Parts: sellers and their parts *)

OnSeller == {"addRole", "register", "verify", "suspend", "reactivate"}
OnPart == {"create", "update", "photos", "withdraw", "review", "setActive", "adminUpdate",
           "delete"}

\* What a task carries, whatever the others do.
PartShape(t) ==
  /\ t.pc = "idle" => t.on = None
  /\ t.pc \in OnSeller => t.on \in Sellers
  /\ t.pc \in OnPart => t.on \in PartRows
  /\ t.pc = "reactivate" => ~t.verified
  /\ t.pc = "review" => t.to \in {"APPROVED", "REJECTED"}

\* What a task that is alone on its row has read is still so.
PartCurrent(t) ==
  /\ t.pc = "verify" => seller[t.on].status # "SUSPENDED"
  /\ t.pc = "photos" => part[t.on].status # "APPROVED"
  /\ t.pc = "review" => t.on \notin changed

PartTaskIsSound(t) == PartShape(t) /\ (t.alone => PartCurrent(t))

PartTasksAreSound == \A h \in Handlers : PartTaskIsSound(task[h])

\* Two tasks on one row know of each other.
PartTasksMeet ==
  \A g, h \in Handlers : g # h /\ task[g].on = task[h].on /\ task[g].on # None
    => ~task[g].alone

\* An approved part that was changed since a decision read it is disturbed.
ApprovedIsUnchanged ==
  \A p \in PartRows : part[p].status = "APPROVED" /\ p \in changed => p \in disturbed

PartsInv == P!TypeOK /\ PartTasksAreSound /\ PartTasksMeet /\ ApprovedIsUnchanged

PartsIInv == work = "parts" => PartsInv

LEMMA PartsInitInv == P!Init => PartsInv
<1> SUFFICES ASSUME P!Init
             PROVE  PartsInv
  OBVIOUS
<1>1. P!TypeOK
  <2>1. P!Idle \in P!TaskType
    BY DEF P!Idle, P!TaskType
  <2>2. /\ P!NoSeller \in [status : P!SellerStatus \cup {"NONE"}, verified : BOOLEAN,
                            role : BOOLEAN]
        /\ ~P!NoSeller.verified
    BY DEF P!NoSeller
  <2>3. P!NoPart \in [status : P!PartStatus \cup {"ABSENT", "GONE"}, active : BOOLEAN,
                      seller : Sellers \cup {None}]
    BY DEF P!NoPart
  <2>4. PICK row : row = [status |-> "ACTIVE", verified |-> TRUE, role |-> TRUE]
    OBVIOUS
  <2>5. /\ row \in [status : P!SellerStatus \cup {"NONE"}, verified : BOOLEAN,
                    role : BOOLEAN]
        /\ row.status = "ACTIVE" /\ row.role
    BY <2>4 DEF P!SellerStatus
  <2>6. seller = [s \in Sellers |-> P!NoSeller] \/ seller = [s \in Sellers |-> row]
    BY <2>4 DEF P!Init
  <2>7. part = [p \in PartRows |-> P!NoPart] /\ task = [h \in Handlers |-> P!Idle]
    BY DEF P!Init
  <2>8. /\ seller \in [Sellers -> [status : P!SellerStatus \cup {"NONE"},
                                   verified : BOOLEAN, role : BOOLEAN]]
        /\ \A s \in Sellers : seller[s].verified
                               => seller[s].status = "ACTIVE" /\ seller[s].role
    BY <2>2, <2>5, <2>6
  <2>9. QED
    BY <2>1, <2>3, <2>7, <2>8 DEF P!TypeOK
<1>2. PartTasksAreSound /\ PartTasksMeet /\ ApprovedIsUnchanged
  BY DEF P!Init, PartTasksAreSound, PartTaskIsSound, PartShape, PartCurrent, PartTasksMeet,
         ApprovedIsUnchanged, P!Idle, P!NoPart, OnSeller, OnPart
<1>3. QED
  BY <1>1, <1>2 DEF PartsInv

LEMMA PartIdle ==
  /\ P!Idle \in P!TaskType
  /\ P!Idle.pc = "idle" /\ P!Idle.on = None
  BY DEF P!Idle, P!TaskType

\* A step writes no row but x.
PartFrame(x) ==
  /\ \A s \in Sellers \ {x} : seller'[s] = seller[s]
  /\ \A p \in PartRows \ {x} : part'[p] = part[p] /\ (p \in changed' => p \in changed)

\* Task g is what it was, but no longer alone when it is on row x.
PartBystander(g, x) ==
  /\ task'[g].pc = task[g].pc /\ task'[g].on = task[g].on
  /\ task'[g].verified = task[g].verified /\ task'[g].to = task[g].to
  /\ task'[g].alone => task[g].alone /\ task[g].on # x

LEMMA PartBystandersStaySound ==
  ASSUME PartsInv, NEW g \in Handlers, NEW x \in Sellers \cup PartRows,
         PartFrame(x), PartBystander(g, x)
  PROVE  PartTaskIsSound(task[g])'
<1>1. PartShape(task[g]) /\ (task[g].alone => PartCurrent(task[g]))
  BY DEF PartsInv, PartTasksAreSound, PartTaskIsSound
<1>2. PartShape(task[g])'
  BY <1>1 DEF PartShape, PartBystander
<1>3. ASSUME task'[g].alone
      PROVE  PartCurrent(task[g])'
  <2>1. PartCurrent(task[g]) /\ task[g].on # x
    BY <1>1, <1>3 DEF PartBystander
  <2>2. QED
    BY <1>1, <2>1 DEF PartCurrent, PartShape, PartBystander, PartFrame, OnSeller, OnPart
<1>4. QED
  BY <1>2, <1>3 DEF PartTaskIsSound

\* A handler that starts with task t on row t.on.
LEMMA PartStarts ==
  ASSUME PartsInv, NEW h \in Handlers, NEW t \in P!TaskType, P!Start(h, t),
         t.on \in Sellers \cup PartRows
  PROVE  /\ task' \in [Handlers -> P!TaskType] /\ PartTasksMeet'
         /\ task'[h].pc = t.pc /\ task'[h].on = t.on
         /\ task'[h].verified = t.verified /\ task'[h].to = t.to
         /\ \A g \in Handlers \ {h} : PartBystander(g, t.on)
<1>1. task \in [Handlers -> P!TaskType] /\ PartTasksMeet
  BY DEF PartsInv, P!TypeOK
<1>2. PICK b \in BOOLEAN : b = \A k \in Handlers : task[k].on # t.on
  OBVIOUS
<1>3. PICK u \in P!TaskType : u = [t EXCEPT !.alone = b]
  BY DEF P!TaskType
<1>4. /\ u.pc = t.pc /\ u.on = t.on /\ u.verified = t.verified /\ u.to = t.to
      /\ u.alone = b
  BY <1>3 DEF P!TaskType
<1>5. task' = [g \in Handlers |->
                 IF g = h THEN u
                 ELSE IF task[g].on = t.on THEN [task[g] EXCEPT !.alone = FALSE]
                      ELSE task[g]]
  BY <1>2, <1>3 DEF P!Start
<1>6. task'[h] = u
  BY <1>5
<1>7. ASSUME NEW g \in Handlers \ {h}
      PROVE  task'[g] \in P!TaskType /\ PartBystander(g, t.on)
  <2>1. CASE task[g].on = t.on
    <3>1. task'[g] = [task[g] EXCEPT !.alone = FALSE] /\ task[g] \in P!TaskType
      BY <1>1, <1>5, <2>1
    <3>2. QED
      BY <3>1 DEF PartBystander, P!TaskType
  <2>2. CASE task[g].on # t.on
    <3>1. task'[g] = task[g] /\ task[g] \in P!TaskType
      BY <1>1, <1>5, <2>2
    <3>2. QED
      BY <2>2, <3>1 DEF PartBystander
  <2>3. QED
    BY <2>1, <2>2
<1>8. task' \in [Handlers -> P!TaskType]
  BY <1>3, <1>5, <1>6, <1>7
<1>9. PartTasksMeet'
  <2>1. ASSUME NEW f \in Handlers, NEW g \in Handlers, f # g,
               task'[f].on = task'[g].on, task'[f].on # None
        PROVE  ~task'[f].alone
    <3>1. CASE f = h
      BY <1>2, <1>4, <1>6, <1>7, <2>1, <3>1 DEF PartBystander
    <3>2. CASE f # h /\ g = h
      BY <1>4, <1>6, <1>7, <2>1, <3>2 DEF PartBystander
    <3>3. CASE f # h /\ g # h
      BY <1>1, <1>7, <2>1, <3>3 DEF PartTasksMeet, PartBystander
    <3>4. QED
      BY <3>1, <3>2, <3>3
  <2>2. QED
    BY <2>1 DEF PartTasksMeet
<1>10. QED
  BY <1>4, <1>6, <1>7, <1>8, <1>9

\* A handler that starts writes nothing; a review takes the part from the changed ones.
LEMMA PartStartPreservesInv ==
  ASSUME PartsInv, NEW h \in Handlers, NEW t \in P!TaskType, P!Start(h, t),
         t.pc \in OnSeller \cup OnPart, PartShape(t), PartCurrent(t)',
         changed' = changed \/ changed' = changed \ {t.on}
  PROVE  PartsInv'
<1>1. UNCHANGED <<seller, part, disturbed>> /\ t.on \in Sellers \cup PartRows
  BY DEF P!Start, PartShape
<1>2. /\ task' \in [Handlers -> P!TaskType] /\ PartTasksMeet'
      /\ task'[h].pc = t.pc /\ task'[h].on = t.on
      /\ task'[h].verified = t.verified /\ task'[h].to = t.to
      /\ \A g \in Handlers \ {h} : PartBystander(g, t.on)
  BY <1>1, PartStarts
<1>3. PartFrame(t.on)
  BY <1>1 DEF PartFrame
<1>4. PartTaskIsSound(task[h])'
  BY <1>2 DEF PartTaskIsSound, PartShape, PartCurrent
<1>5. PartTasksAreSound'
  BY <1>1, <1>2, <1>3, <1>4, PartBystandersStaySound DEF PartTasksAreSound
<1>6. P!TypeOK' /\ ApprovedIsUnchanged'
  BY <1>1, <1>2 DEF PartsInv, P!TypeOK, ApprovedIsUnchanged
<1>7. QED
  BY <1>2, <1>5, <1>6 DEF PartsInv

LEMMA PartBeginPreservesInv ==
  ASSUME PartsInv, NEW h \in Handlers,
         \/ \E s \in Sellers : P!BeginSellerStep(h, s)
         \/ \E p \in PartRows : P!BeginPartStep(h, p)
  PROVE  PartsInv'
<1>1. /\ P!TypeOK /\ seller \in [Sellers -> [status : P!SellerStatus \cup {"NONE"},
                                             verified : BOOLEAN, role : BOOLEAN]]
      /\ \A s \in Sellers : seller[s].verified => seller[s].status = "ACTIVE"
  BY DEF PartsInv, P!TypeOK
<1>2. ASSUME NEW s \in Sellers, P!BeginSellerStep(h, s)
      PROVE  PartsInv'
  <2>1. ASSUME NEW t \in P!TaskType, t.pc \in OnSeller, t.on = s, P!Start(h, t),
               t.pc = "verify" => seller[s].status # "SUSPENDED",
               t.pc = "reactivate" => ~t.verified, changed' = changed
        PROVE  PartsInv'
    <3>1. PartShape(t) /\ PartCurrent(t)'
      BY <2>1 DEF PartShape, PartCurrent, P!Start, OnSeller, OnPart
    <3>2. QED
      BY <2>1, <3>1, PartStartPreservesInv
  <2>2. \A pc \in OnSeller : /\ P!Request(pc, s) \in P!TaskType
                             /\ P!Request(pc, s).pc = pc /\ P!Request(pc, s).on = s
    BY DEF P!Request, P!Idle, P!TaskType, OnSeller
  <2>3. CASE P!BeginRegisterSeller(h, s)
    <3>1. P!Start(h, P!Request("addRole", s)) /\ changed' = changed
      BY <2>3 DEF P!BeginRegisterSeller, P!StartRequest
    <3>2. QED
      BY <2>1, <2>2, <3>1 DEF OnSeller
  <2>4. CASE P!BeginVerifySeller(h, s)
    <3>1. P!Start(h, P!Request("verify", s)) /\ changed' = changed
          /\ seller[s].status # "SUSPENDED"
      BY <2>4 DEF P!BeginVerifySeller, P!StartDecision
    <3>2. QED
      BY <2>1, <2>2, <3>1 DEF OnSeller
  <2>5. CASE P!BeginSuspendSeller(h, s)
    <3>1. P!Start(h, P!Request("suspend", s)) /\ changed' = changed
      BY <2>5 DEF P!BeginSuspendSeller, P!StartDecision
    <3>2. QED
      BY <2>1, <2>2, <3>1 DEF OnSeller
  <2>6. CASE P!BeginReactivateSeller(h, s)
    <3>1. ~seller[s].verified /\ seller[s].verified \in BOOLEAN
      BY <1>1, <2>6 DEF P!BeginReactivateSeller
    <3>2. PICK v \in BOOLEAN : v = seller[s].verified
      BY <3>1
    <3>3. PICK t \in P!TaskType : t = [P!Request("reactivate", s) EXCEPT !.verified = v]
      BY DEF P!Request, P!Idle, P!TaskType
    <3>4. t.pc = "reactivate" /\ t.on = s /\ t.verified = v
      BY <3>3 DEF P!Request, P!Idle
    <3>5. P!Start(h, t) /\ changed' = changed
      BY <2>6, <3>2, <3>3 DEF P!BeginReactivateSeller, P!StartDecision
    <3>6. QED
      BY <2>1, <3>1, <3>2, <3>4, <3>5 DEF OnSeller
  <2>7. QED
    BY <1>2, <2>3, <2>4, <2>5, <2>6 DEF P!BeginSellerStep
<1>3. ASSUME NEW p \in PartRows, P!BeginPartStep(h, p)
      PROVE  PartsInv'
  <2>1. ASSUME NEW t \in P!TaskType, t.pc \in OnPart, t.on = p, P!Start(h, t),
               t.pc \notin {"review", "photos"}, changed' = changed
        PROVE  PartsInv'
    <3>1. PartShape(t) /\ PartCurrent(t)'
      BY <2>1 DEF PartShape, PartCurrent, OnSeller, OnPart
    <3>2. QED
      BY <2>1, <3>1, PartStartPreservesInv
  <2>2. ASSUME NEW s \in Sellers \cup {None}, NEW pc \in {"create", "adminUpdate"},
               P!StartRequest(h, [P!Request(pc, p) EXCEPT !.seller = s])
        PROVE  PartsInv'
    <3>1. PICK t \in P!TaskType : t = [P!Request(pc, p) EXCEPT !.seller = s]
      BY DEF P!Request, P!Idle, P!TaskType
    <3>2. t.pc = pc /\ t.on = p
      BY <3>1 DEF P!Request, P!Idle
    <3>3. QED
      BY <2>1, <2>2, <3>1, <3>2 DEF P!StartRequest, OnPart
  <2>3. ASSUME NEW photos_ \in BOOLEAN, P!BeginUpdateOwn(h, p, photos_)
        PROVE  PartsInv'
    <3>1. PICK t \in P!TaskType : t = [P!Request("update", p) EXCEPT !.photos = photos_]
      BY DEF P!Request, P!Idle, P!TaskType
    <3>2. t.pc = "update" /\ t.on = p
      BY <3>1 DEF P!Request, P!Idle
    <3>3. QED
      BY <2>1, <2>3, <3>1, <3>2 DEF P!BeginUpdateOwn, P!StartRequest, OnPart
  <2>4. CASE P!BeginDeleteOwn(h, p) \/ P!BeginAdminDelete(h, p)
    <3>1. /\ P!Request("withdraw", p) \in P!TaskType /\ P!Request("delete", p) \in P!TaskType
          /\ P!Request("withdraw", p).pc = "withdraw" /\ P!Request("withdraw", p).on = p
          /\ P!Request("delete", p).pc = "delete" /\ P!Request("delete", p).on = p
      BY DEF P!Request, P!Idle, P!TaskType
    <3>2. QED
      BY <2>1, <2>4, <3>1
      DEF P!BeginDeleteOwn, P!BeginAdminDelete, P!StartRequest, P!StartDecision, OnPart
  <2>5. ASSUME NEW to \in {"APPROVED", "REJECTED"}, P!BeginReviewPart(h, p, to)
        PROVE  PartsInv'
    <3>1. PICK t \in P!TaskType : t = [P!Request("review", p) EXCEPT !.to = to]
      BY DEF P!Request, P!Idle, P!TaskType, P!PartStatus
    <3>2. t.pc = "review" /\ t.on = p /\ t.to = to
      BY <3>1 DEF P!Request, P!Idle
    <3>3. P!Start(h, t) /\ changed' = changed \ {p}
      BY <2>5, <3>1 DEF P!BeginReviewPart, P!StartDecision
    <3>4. PartShape(t) /\ PartCurrent(t)'
      BY <3>2, <3>3 DEF PartShape, PartCurrent, OnSeller, OnPart
    <3>5. QED
      BY <3>2, <3>3, <3>4, PartStartPreservesInv DEF OnPart
  <2>6. ASSUME NEW on \in BOOLEAN, P!BeginSetActive(h, p, on)
        PROVE  PartsInv'
    <3>1. PICK t \in P!TaskType : t = [P!Request("setActive", p) EXCEPT !.active = on]
      BY DEF P!Request, P!Idle, P!TaskType
    <3>2. t.pc = "setActive" /\ t.on = p
      BY <3>1 DEF P!Request, P!Idle
    <3>3. QED
      BY <2>1, <2>6, <3>1, <3>2 DEF P!BeginSetActive, P!StartDecision, OnPart
  <2>7. QED
    BY <1>3, <2>2, <2>3, <2>4, <2>5, <2>6
    DEF P!BeginPartStep, P!BeginCreatePart, P!BeginAdminCreate, P!BeginAdminUpdate
<1>4. QED
  BY <1>2, <1>3

\* Handler h goes on with task u, on the row it is on, or is done.
PartGoesOn(h, u) ==
  /\ task' = [task EXCEPT ![h] = u]
  /\ task[h].pc # "idle"
  /\ u.on = None \/ (u.on = task[h].on /\ (u.alone => task[h].alone))

LEMMA PartGoesOnFacts ==
  ASSUME PartsInv, NEW h \in Handlers, NEW u \in P!TaskType, PartGoesOn(h, u),
         PartFrame(task[h].on), PartTaskIsSound(u)'
  PROVE  task' \in [Handlers -> P!TaskType] /\ PartTasksAreSound' /\ PartTasksMeet'
<1>1. /\ task \in [Handlers -> P!TaskType] /\ PartTasksMeet
      /\ task[h].on \in Sellers \cup PartRows /\ task[h].on # None
  <2>1. PartShape(task[h]) /\ task[h] \in P!TaskType /\ task[h].pc # "idle"
    BY DEF PartsInv, P!TypeOK, PartTasksAreSound, PartTaskIsSound, PartGoesOn
  <2>2. task[h].pc \in OnSeller \cup OnPart
    BY <2>1 DEF P!TaskType, OnSeller, OnPart
  <2>3. QED
    BY <2>1, <2>2, PartnersBoundsOK DEF PartShape, PartsInv, P!TypeOK
<1>2. /\ task' \in [Handlers -> P!TaskType] /\ task'[h] = u
      /\ \A g \in Handlers \ {h} : task'[g] = task[g]
  BY <1>1 DEF PartGoesOn
<1>3. \A g \in Handlers \ {h} : PartBystander(g, task[h].on)
  BY <1>1, <1>2 DEF PartBystander, PartTasksMeet
<1>4. PartTaskIsSound(task[h])'
  BY <1>2 DEF PartTaskIsSound, PartShape, PartCurrent
<1>5. PartTasksAreSound'
  BY <1>1, <1>3, <1>4, PartBystandersStaySound DEF PartTasksAreSound
<1>6. PartTasksMeet'
  BY <1>1, <1>2 DEF PartTasksMeet, PartGoesOn
<1>7. QED
  BY <1>2, <1>5, <1>6

PartSellerType ==
  [status : P!SellerStatus \cup {"NONE"}, verified : BOOLEAN, role : BOOLEAN]
PartPartType ==
  [status : P!PartStatus \cup {"ABSENT", "GONE"}, active : BOOLEAN,
   seller : Sellers \cup {None}]

\* Handler h, on a seller, writes its row; a verified seller is active and has the role.
LEMMA PartSellerStep ==
  ASSUME PartsInv, NEW h \in Handlers, task[h].pc \in OnSeller, NEW row \in PartSellerType,
         row.verified => row.status = "ACTIVE" /\ row.role,
         seller' = [seller EXCEPT ![task[h].on] = row], UNCHANGED <<part, changed>>,
         disturbed \subseteq disturbed',
         NEW u \in P!TaskType, PartGoesOn(h, u), PartTaskIsSound(u)'
  PROVE  PartsInv'
<1>1. /\ seller \in [Sellers -> PartSellerType] /\ task[h].on \in Sellers /\ P!TypeOK
      /\ \A s \in Sellers : seller[s].verified
                             => seller[s].status = "ACTIVE" /\ seller[s].role
  BY DEF PartsInv, P!TypeOK, PartSellerType, PartTasksAreSound, PartTaskIsSound, PartShape
<1>2. /\ seller' \in [Sellers -> PartSellerType] /\ seller'[task[h].on] = row
      /\ \A s \in Sellers \ {task[h].on} : seller'[s] = seller[s]
  BY <1>1
<1>3. PartFrame(task[h].on)
  BY <1>2 DEF PartFrame
<1>4. task' \in [Handlers -> P!TaskType] /\ PartTasksAreSound' /\ PartTasksMeet'
  BY <1>3, PartGoesOnFacts
<1>5. \A s \in Sellers : seller'[s].verified
                          => seller'[s].status = "ACTIVE" /\ seller'[s].role
  BY <1>1, <1>2
<1>6. P!TypeOK' /\ ApprovedIsUnchanged'
  BY <1>1, <1>2, <1>4, <1>5
  DEF P!TypeOK, PartSellerType, PartsInv, ApprovedIsUnchanged
<1>7. QED
  BY <1>4, <1>6 DEF PartsInv

\* Handler h, on a part, writes its row; only then may the part count as changed or not.
LEMMA PartPartStep ==
  ASSUME PartsInv, NEW h \in Handlers, task[h].pc \in OnPart, NEW row \in PartPartType,
         part' = [part EXCEPT ![task[h].on] = row], seller' = seller,
         changed' \subseteq changed \cup {task[h].on}, disturbed \subseteq disturbed',
         row.status = "APPROVED" /\ task[h].on \in changed' => task[h].on \in disturbed',
         NEW u \in P!TaskType, PartGoesOn(h, u), PartTaskIsSound(u)'
  PROVE  PartsInv'
<1>1. part \in [PartRows -> PartPartType] /\ task[h].on \in PartRows /\ P!TypeOK
  BY DEF PartsInv, P!TypeOK, PartPartType, PartTasksAreSound, PartTaskIsSound, PartShape
<1>2. /\ part' \in [PartRows -> PartPartType] /\ part'[task[h].on] = row
      /\ \A p \in PartRows \ {task[h].on} : part'[p] = part[p]
  BY <1>1
<1>3. PartFrame(task[h].on)
  BY <1>2 DEF PartFrame
<1>4. task' \in [Handlers -> P!TaskType] /\ PartTasksAreSound' /\ PartTasksMeet'
  BY <1>3, PartGoesOnFacts
<1>5. P!TypeOK'
  BY <1>1, <1>2, <1>4 DEF P!TypeOK, PartPartType
<1>6. ApprovedIsUnchanged'
  BY <1>1, <1>2 DEF PartsInv, ApprovedIsUnchanged
<1>7. QED
  BY <1>4, <1>5, <1>6 DEF PartsInv

LEMMA PartTouch ==
  ASSUME NEW h \in Handlers, P!Touch(h)
  PROVE  disturbed \subseteq disturbed' /\ (~task[h].alone => task[h].on \in disturbed')
  BY DEF P!Touch

\* The handler that is done, or dies, having written nothing.
LEMMA PartFail ==
  ASSUME PartsInv, NEW h \in Handlers, task[h].pc # "idle", P!Fail(h)
  PROVE  PartsInv'
<1>1. /\ UNCHANGED <<seller, part, changed, disturbed>> /\ PartGoesOn(h, P!Idle)
      /\ PartFrame(task[h].on)
  BY PartIdle DEF P!Fail, P!Finish, PartGoesOn, PartFrame
<1>2. PartTaskIsSound(P!Idle)'
  BY PartIdle DEF PartTaskIsSound, PartShape, PartCurrent, OnSeller, OnPart
<1>3. task' \in [Handlers -> P!TaskType] /\ PartTasksAreSound' /\ PartTasksMeet'
  BY <1>1, <1>2, PartIdle, PartGoesOnFacts
<1>4. QED
  BY <1>1, <1>3 DEF PartsInv, P!TypeOK, ApprovedIsUnchanged

LEMMA PartSellersPreserveInv ==
  ASSUME PartsInv, NEW h \in Handlers,
         \/ P!AddSellerRole(h) \/ P!CommitRegisterSeller(h) \/ P!CommitVerifySeller(h)
         \/ P!CommitSuspendSeller(h) \/ P!CommitReactivateSeller(h)
  PROVE  PartsInv'
<1>1. /\ seller \in [Sellers -> PartSellerType] /\ task[h] \in P!TaskType
      /\ PartTaskIsSound(task[h]) /\ task[h].pc \in OnSeller /\ task[h].on \in Sellers
      /\ seller[task[h].on] \in PartSellerType
      /\ seller[task[h].on].verified
           => seller[task[h].on].status = "ACTIVE" /\ seller[task[h].on].role
  <2>1. /\ seller \in [Sellers -> PartSellerType] /\ task[h] \in P!TaskType
        /\ PartTaskIsSound(task[h])
        /\ \A s \in Sellers : seller[s].verified
                               => seller[s].status = "ACTIVE" /\ seller[s].role
    BY DEF PartsInv, P!TypeOK, PartSellerType, PartTasksAreSound
  <2>2. task[h].pc \in OnSeller
    BY DEF P!AddSellerRole, P!CommitRegisterSeller, P!CommitVerifySeller,
           P!CommitSuspendSeller, P!CommitReactivateSeller, P!At, OnSeller
  <2>3. QED
    BY <2>1, <2>2 DEF PartTaskIsSound, PartShape
<1>2. PICK old \in PartSellerType : old = seller[task[h].on]
  BY <1>1
<1>3. ASSUME NEW row \in PartSellerType, P!WriteSeller(h, row),
             row.verified => row.status = "ACTIVE" /\ row.role
      PROVE  PartsInv'
  <2>1. /\ seller' = [seller EXCEPT ![task[h].on] = row] /\ UNCHANGED <<part, changed>>
        /\ disturbed \subseteq disturbed' /\ PartGoesOn(h, P!Idle)
    BY <1>1, <1>3, PartIdle, PartTouch DEF P!WriteSeller, P!Finish, PartGoesOn, OnSeller
  <2>2. PartTaskIsSound(P!Idle)'
    BY PartIdle DEF PartTaskIsSound, PartShape, PartCurrent, OnSeller, OnPart
  <2>3. QED
    BY <1>1, <1>3, <2>1, <2>2, PartIdle, PartSellerStep
<1>4. CASE P!AddSellerRole(h)
  <2>1. PICK row \in PartSellerType : row = [old EXCEPT !.role = TRUE]
    BY DEF PartSellerType
  <2>2. row.verified => row.status = "ACTIVE" /\ row.role
    BY <1>1, <1>2, <2>1 DEF PartSellerType
  <2>3. PICK u \in P!TaskType : u = [task[h] EXCEPT !.pc = "register"]
    BY <1>1 DEF P!TaskType
  <2>4. u.pc = "register" /\ u.on = task[h].on /\ u.alone = task[h].alone
    BY <1>1, <2>3 DEF P!TaskType
  <2>5. PartGoesOn(h, u)
    BY <1>1, <1>4, <2>3, <2>4 DEF P!AddSellerRole, P!Goto, PartGoesOn, OnSeller, PartsInv,
                                  P!TypeOK
  <2>6. /\ seller' = [seller EXCEPT ![task[h].on] = row] /\ UNCHANGED <<part, changed>>
        /\ disturbed \subseteq disturbed'
    BY <1>1, <1>2, <1>4, <2>1 DEF P!AddSellerRole
  <2>7. PartTaskIsSound(u)'
    BY <1>1, <2>4 DEF PartTaskIsSound, PartShape, PartCurrent, OnSeller, OnPart
  <2>8. QED
    BY <1>1, <2>2, <2>5, <2>6, <2>7, PartSellerStep
<1>5. CASE P!CommitRegisterSeller(h)
  <2>1. CASE old.status = "NONE"
    <3>1. PICK row \in PartSellerType : row = [old EXCEPT !.status = "PENDING"]
      BY DEF PartSellerType, P!SellerStatus
    <3>2. ~row.verified
      BY <1>1, <1>2, <2>1, <3>1 DEF PartSellerType
    <3>3. QED
      BY <1>2, <1>3, <1>5, <2>1, <3>1, <3>2 DEF P!CommitRegisterSeller
  <2>2. CASE old.status # "NONE"
    BY <1>1, <1>2, <1>5, <2>2, PartFail DEF P!CommitRegisterSeller, OnSeller
  <2>3. QED
    BY <2>1, <2>2
<1>6. CASE P!CommitVerifySeller(h)
  <2>1. PICK row : row = [status |-> "ACTIVE", verified |-> TRUE, role |-> TRUE]
    OBVIOUS
  <2>2. row \in PartSellerType /\ row.status = "ACTIVE" /\ row.role
    BY <2>1 DEF PartSellerType, P!SellerStatus
  <2>3. QED
    BY <1>3, <1>6, <2>1, <2>2 DEF P!CommitVerifySeller
<1>7. CASE P!CommitSuspendSeller(h)
  <2>1. PICK row \in PartSellerType :
          row = [old EXCEPT !.status = "SUSPENDED", !.verified = FALSE]
    BY DEF PartSellerType, P!SellerStatus
  <2>2. ~row.verified
    BY <2>1 DEF PartSellerType
  <2>3. QED
    BY <1>2, <1>3, <1>7, <2>1, <2>2 DEF P!CommitSuspendSeller
<1>8. CASE P!CommitReactivateSeller(h)
  <2>1. PICK v \in BOOLEAN : v = task[h].verified
    BY <1>1 DEF P!TaskType
  <2>2. ~v
    BY <1>1, <1>8, <2>1 DEF P!CommitReactivateSeller, P!At, PartTaskIsSound, PartShape
  <2>3. PICK row \in PartSellerType : row = [old EXCEPT !.status = "ACTIVE", !.verified = v]
    BY DEF PartSellerType, P!SellerStatus
  <2>4. ~row.verified
    BY <2>2, <2>3 DEF PartSellerType
  <2>5. QED
    BY <1>2, <1>3, <1>8, <2>1, <2>3, <2>4 DEF P!CommitReactivateSeller
<1>9. QED
  BY <1>4, <1>5, <1>6, <1>7, <1>8

LEMMA PartPartsPreserveInv ==
  ASSUME PartsInv, NEW h \in Handlers,
         \/ P!CommitCreatePart(h) \/ P!CommitUpdateOwn(h) \/ P!AppendPhotos(h)
         \/ P!CommitDeleteOwn(h) \/ P!CommitReviewPart(h) \/ P!CommitSetActive(h)
         \/ P!CommitAdminUpdate(h) \/ P!CommitAdminDelete(h)
  PROVE  PartsInv'
<1>. PICK p : p = task[h].on
  OBVIOUS
<1>1. /\ part \in [PartRows -> PartPartType] /\ task[h] \in P!TaskType
      /\ PartTaskIsSound(task[h]) /\ task[h].pc \in OnPart /\ p \in PartRows
      /\ part[p] \in PartPartType
      /\ part[p].status = "APPROVED" /\ p \in changed => p \in disturbed
  <2>1. /\ part \in [PartRows -> PartPartType] /\ task[h] \in P!TaskType
        /\ PartTaskIsSound(task[h]) /\ ApprovedIsUnchanged
    BY DEF PartsInv, P!TypeOK, PartPartType, PartTasksAreSound
  <2>2. task[h].pc \in OnPart
    BY DEF P!CommitCreatePart, P!CommitUpdateOwn, P!AppendPhotos, P!CommitDeleteOwn,
           P!CommitReviewPart, P!CommitSetActive, P!CommitAdminUpdate,
           P!CommitAdminDelete, P!At, OnPart
  <2>3. QED
    BY <2>1, <2>2 DEF PartTaskIsSound, PartShape, ApprovedIsUnchanged
<1>2. PICK old \in PartPartType : old = part[p]
  BY <1>1
<1>3. ASSUME NEW row \in PartPartType, P!WritePart(h, p, row), P!Finish(h),
             changed' \subseteq changed \cup {p}, disturbed \subseteq disturbed',
             row.status = "APPROVED" /\ p \in changed' => p \in disturbed'
      PROVE  PartsInv'
  <2>1. PartGoesOn(h, P!Idle)
    BY <1>1, <1>3, PartIdle DEF P!Finish, PartGoesOn, OnPart
  <2>2. PartTaskIsSound(P!Idle)'
    BY PartIdle DEF PartTaskIsSound, PartShape, PartCurrent, OnSeller, OnPart
  <2>3. part' = [part EXCEPT ![task[h].on] = row] /\ seller' = seller
    BY <1>3 DEF P!WritePart
  <2>4. QED
    BY <1>1, <1>3, <2>1, <2>2, <2>3, PartIdle, PartPartStep
<1>4. CASE P!CommitCreatePart(h)
  <2>1. PICK row : row = [status |-> "PENDING_REVIEW", active |-> FALSE,
                          seller |-> task[h].seller]
    OBVIOUS
  <2>2. row \in PartPartType /\ row.status # "APPROVED"
    BY <1>1, <2>1 DEF PartPartType, P!PartStatus, P!TaskType
  <2>3. QED
    BY <1>3, <1>4, <2>1, <2>2 DEF P!CommitCreatePart
<1>5. CASE P!CommitUpdateOwn(h)
  <2>1. PICK row \in PartPartType :
          row = [old EXCEPT !.status = "PENDING_REVIEW", !.active = FALSE]
    BY DEF PartPartType, P!PartStatus
  <2>2. row.status = "PENDING_REVIEW"
    BY <2>1 DEF PartPartType
  <2>3. /\ part' = [part EXCEPT ![task[h].on] = row] /\ seller' = seller
        /\ changed' = changed \cup {p} /\ disturbed \subseteq disturbed'
    BY <1>2, <1>5, <2>1, PartTouch DEF P!CommitUpdateOwn, P!WritePart
  <2>4. CASE task[h].photos
    <3>1. PICK u \in P!TaskType : u = [task[h] EXCEPT !.pc = "photos"]
      BY <1>1 DEF P!TaskType
    <3>2. u.pc = "photos" /\ u.on = p /\ u.alone = task[h].alone
      BY <1>1, <3>1 DEF P!TaskType
    <3>3. PartGoesOn(h, u)
      BY <1>1, <1>5, <2>4, <3>1, <3>2
      DEF P!CommitUpdateOwn, P!ThenPhotos, P!Goto, PartGoesOn, OnPart
    <3>4. PartTaskIsSound(u)'
      BY <1>1, <2>2, <2>3, <3>2
      DEF PartTaskIsSound, PartShape, PartCurrent, OnSeller, OnPart
    <3>5. QED
      BY <1>1, <2>2, <2>3, <3>3, <3>4, PartPartStep
  <2>5. CASE ~task[h].photos
    BY <1>2, <1>3, <1>5, <2>1, <2>2, <2>3, <2>5 DEF P!CommitUpdateOwn, P!ThenPhotos
  <2>6. QED
    BY <2>4, <2>5
<1>6. CASE P!AppendPhotos(h)
  <2>1. /\ UNCHANGED <<seller, part>> /\ changed' = changed \cup {p} /\ P!Finish(h)
        /\ disturbed \subseteq disturbed' /\ (~task[h].alone => p \in disturbed')
    BY <1>6, PartTouch DEF P!AppendPhotos
  <2>2. task[h].alone => old.status # "APPROVED"
    BY <1>1, <1>2, <1>6 DEF P!AppendPhotos, P!At, PartTaskIsSound, PartCurrent
  <2>3. P!WritePart(h, p, old)
    BY <1>1, <1>2, <1>6 DEF P!AppendPhotos, P!WritePart
  <2>4. QED
    BY <1>3, <2>1, <2>2, <2>3
<1>7. CASE P!CommitDeleteOwn(h)
  <2>1. PICK row \in PartPartType : row = [old EXCEPT !.active = FALSE]
    BY DEF PartPartType
  <2>2. row.status = old.status
    BY <2>1 DEF PartPartType
  <2>3. QED
    BY <1>1, <1>2, <1>3, <1>7, <2>1, <2>2, PartTouch DEF P!CommitDeleteOwn
<1>8. CASE P!CommitReviewPart(h)
  <2>1. task[h].to \in P!PartStatus /\ (task[h].alone => p \notin changed)
    BY <1>1, <1>8
    DEF P!CommitReviewPart, P!At, PartTaskIsSound, PartShape, PartCurrent, P!PartStatus
  <2>2. PICK shown \in BOOLEAN : shown = (task[h].to = "APPROVED")
    OBVIOUS
  <2>3. PICK row \in PartPartType : row = [old EXCEPT !.status = task[h].to,
                                                      !.active = shown]
    BY <2>1 DEF PartPartType
  <2>4. QED
    BY <1>1, <1>2, <1>3, <1>8, <2>1, <2>2, <2>3, PartTouch DEF P!CommitReviewPart
<1>9. CASE P!CommitSetActive(h)
  <2>1. PICK row \in PartPartType : row = [old EXCEPT !.active = task[h].active]
    BY <1>1 DEF PartPartType, P!TaskType
  <2>2. row.status = old.status
    BY <2>1 DEF PartPartType
  <2>3. QED
    BY <1>1, <1>2, <1>3, <1>9, <2>1, <2>2, PartTouch DEF P!CommitSetActive
<1>10. CASE P!CommitAdminUpdate(h)
  <2>1. PICK s \in Sellers \cup {None} :
          s = IF task[h].seller = None THEN old.seller ELSE task[h].seller
    BY <1>1 DEF PartPartType, P!TaskType
  <2>2. PICK row \in PartPartType : row = [old EXCEPT !.seller = s]
    BY DEF PartPartType
  <2>3. row.status = old.status
    BY <2>2 DEF PartPartType
  <2>4. QED
    BY <1>1, <1>2, <1>3, <1>10, <2>1, <2>2, <2>3, PartTouch DEF P!CommitAdminUpdate
<1>11. CASE P!CommitAdminDelete(h)
  <2>1. PICK row \in PartPartType : row = [P!NoPart EXCEPT !.status = "GONE"]
    BY DEF PartPartType, P!NoPart
  <2>2. row.status = "GONE"
    BY <2>1 DEF P!NoPart
  <2>3. QED
    BY <1>3, <1>11, <2>1, <2>2, PartTouch DEF P!CommitAdminDelete
<1>12. QED
  BY <1>4, <1>5, <1>6, <1>7, <1>8, <1>9, <1>10, <1>11

LEMMA PartsNextPreservesInv ==
  ASSUME PartsInv, P!Next
  PROVE  PartsInv'
<1>1. ASSUME NEW h \in Handlers, P!Continue(h)
      PROVE  PartsInv'
  <2>1. CASE P!FailOnGone(h)
    <3>1. task[h].pc # "idle"
      BY <2>1, PartnersBoundsOK
      DEF P!FailOnGone, PartsInv, PartTasksAreSound, PartTaskIsSound, PartShape
    <3>2. QED
      BY <2>1, <3>1, PartFail DEF P!FailOnGone
  <2>2. QED
    BY <1>1, <2>1, PartSellersPreserveInv, PartPartsPreserveInv DEF P!Continue
<1>2. ASSUME NEW h \in Handlers, P!Crash(h)
      PROVE  PartsInv'
  BY <1>2, PartFail DEF P!Crash, P!At
<1>3. QED
  BY <1>1, <1>2, PartBeginPreservesInv DEF P!Next

LEMMA PartsSuspensionHolds ==
  ASSUME PartsInv, P!Next
  PROVE  P!SuspensionStep
<1> SUFFICES ASSUME NEW s \in Sellers, seller[s].status = "SUSPENDED", s \notin disturbed'
             PROVE  ~P!CanTrade(s)'
  BY DEF P!SuspensionStep
<1>1. /\ seller \in [Sellers -> PartSellerType] /\ task \in [Handlers -> P!TaskType]
      /\ \A h \in Handlers : PartTaskIsSound(task[h])
  BY DEF PartsInv, P!TypeOK, PartSellerType, PartTasksAreSound
<1>2. ASSUME seller' = seller
      PROVE  ~P!CanTrade(s)'
  BY <1>2 DEF P!CanTrade
<1>3. ASSUME NEW h \in Handlers,
             \/ P!AddSellerRole(h) \/ P!CommitRegisterSeller(h) \/ P!CommitVerifySeller(h)
             \/ P!CommitSuspendSeller(h) \/ P!CommitReactivateSeller(h)
      PROVE  ~P!CanTrade(s)'
  <2>1. ASSUME NEW row, P!WriteSeller(h, row), task[h].on = s =>
                 ~(row.status = "ACTIVE" /\ row.verified)
        PROVE  ~P!CanTrade(s)'
    BY <1>1, <2>1 DEF P!WriteSeller, P!CanTrade
  <2>2. CASE P!AddSellerRole(h)
    <3>1. seller' = [seller EXCEPT ![task[h].on].role = TRUE]
      BY <2>2 DEF P!AddSellerRole
    <3>2. seller'[s].status = "SUSPENDED"
      BY <1>1, <3>1 DEF PartSellerType
    <3>3. QED
      BY <3>2 DEF P!CanTrade
  <2>3. CASE P!CommitRegisterSeller(h)
    <3>1. CASE seller[task[h].on].status = "NONE"
      BY <2>1, <2>3, <3>1 DEF P!CommitRegisterSeller
    <3>2. CASE seller[task[h].on].status # "NONE"
      BY <1>2, <2>3, <3>2 DEF P!CommitRegisterSeller, P!Fail
    <3>3. QED
      BY <3>1, <3>2
  <2>4. CASE P!CommitVerifySeller(h)
    <3>1. task[h].on # s
      <4>1. task[h].pc = "verify" /\ P!Touch(h)
        BY <2>4 DEF P!CommitVerifySeller, P!At, P!WriteSeller
      <4>2. task[h].alone => seller[task[h].on].status # "SUSPENDED"
        BY <1>1, <4>1 DEF PartTaskIsSound, PartCurrent
      <4>3. QED
        BY <4>1, <4>2, PartTouch
    <3>2. QED
      BY <2>1, <2>4, <3>1 DEF P!CommitVerifySeller
  <2>5. CASE P!CommitSuspendSeller(h)
    <3>1. PICK row : /\ P!WriteSeller(h, row)
                     /\ row = [seller[task[h].on] EXCEPT !.status = "SUSPENDED",
                                                         !.verified = FALSE]
      BY <2>5 DEF P!CommitSuspendSeller
    <3>2. task[h].on = s => row.status = "SUSPENDED"
      BY <1>1, <3>1 DEF PartSellerType
    <3>3. QED
      BY <2>1, <3>1, <3>2
  <2>6. CASE P!CommitReactivateSeller(h)
    <3>1. PICK v : v = task[h].verified
      OBVIOUS
    <3>2. ~v
      BY <1>1, <2>6, <3>1 DEF P!CommitReactivateSeller, P!At, PartTaskIsSound, PartShape
    <3>3. PICK row : /\ P!WriteSeller(h, row)
                     /\ row = [seller[task[h].on] EXCEPT !.status = "ACTIVE",
                                                         !.verified = v]
      BY <2>6, <3>1 DEF P!CommitReactivateSeller
    <3>4. task[h].on = s => ~row.verified
      BY <1>1, <3>2, <3>3 DEF PartSellerType
    <3>5. QED
      BY <2>1, <3>3, <3>4
  <2>7. QED
    BY <1>3, <2>2, <2>3, <2>4, <2>5, <2>6
<1>4. ASSUME NEW h \in Handlers,
             \/ P!CommitCreatePart(h) \/ P!CommitUpdateOwn(h) \/ P!AppendPhotos(h)
             \/ P!CommitDeleteOwn(h) \/ P!CommitReviewPart(h) \/ P!CommitSetActive(h)
             \/ P!CommitAdminUpdate(h) \/ P!CommitAdminDelete(h)
             \/ P!FailOnGone(h) \/ P!Crash(h)
      PROVE  seller' = seller
  BY <1>4 DEF P!CommitCreatePart, P!CommitUpdateOwn, P!AppendPhotos, P!CommitDeleteOwn,
              P!CommitReviewPart, P!CommitSetActive, P!CommitAdminUpdate,
              P!CommitAdminDelete, P!FailOnGone, P!Crash, P!Fail, P!WritePart
<1>5. ASSUME NEW h \in Handlers,
             \/ \E q \in Sellers : P!BeginSellerStep(h, q)
             \/ \E p \in PartRows : P!BeginPartStep(h, p)
      PROVE  seller' = seller
  BY <1>5 DEF P!BeginSellerStep, P!BeginRegisterSeller, P!BeginVerifySeller,
              P!BeginSuspendSeller, P!BeginReactivateSeller, P!BeginPartStep,
              P!BeginCreatePart, P!BeginAdminCreate, P!BeginAdminUpdate, P!BeginUpdateOwn,
              P!BeginDeleteOwn, P!BeginReviewPart, P!BeginSetActive, P!BeginAdminDelete,
              P!StartRequest, P!StartDecision, P!Start
<1>6. QED
  BY <1>2, <1>3, <1>4, <1>5 DEF P!Next, P!Continue

LEMMA PartsStutter ==
  ASSUME PartsInv, UNCHANGED <<seller, part, changed, task, disturbed>>
  PROVE  PartsInv' /\ P!SuspensionStep
<1>1. P!TypeOK' /\ PartTasksMeet' /\ ApprovedIsUnchanged'
  BY DEF PartsInv, P!TypeOK, PartTasksMeet, ApprovedIsUnchanged
<1>2. PartTasksAreSound'
  BY DEF PartsInv, PartTasksAreSound, PartTaskIsSound, PartShape, PartCurrent
<1>3. P!SuspensionStep
  BY DEF P!SuspensionStep, P!CanTrade
<1>4. QED
  BY <1>1, <1>2, <1>3 DEF PartsInv

-----------------------------------------------------------------------------
(* Requests: fleet, financing, energy, inquiries and charging products *)

\* What a decision of pc is about.
RequestTable(pc) ==
  CASE pc = "fleet" -> {"fleet"}
    [] pc \in {"findBank", "assign", "outcome"} -> {"financing"}
    [] pc = "set" -> {"energy", "inquiry"}
    [] pc = "insert" -> {"fleet", "inquiry"}
    [] pc = "photos" -> {"product"}

RequestShape(t) ==
  /\ t.pc = "idle" => t.table = "none"
  /\ t.pc # "idle" => t.table \in RequestTable(t.pc) /\ t.row \in R!Rows
  /\ t.pc # "idle" => t.to \in R!StatusesOf(t.table)
  /\ t.pc = "insert" => t.to \in {"SUBMITTED", "RECEIVED"}
  /\ t.pc \in {"findBank", "assign"} => t.to = "SENT_TO_BANK"
  /\ t.pc = "outcome" => t.to \in R!FinancingOutcome /\ bank[t.row] \in active
  /\ t.pc = "assign" => t.bank \in active
  /\ t.pc = "fleet" => R!Exists("fleet", t.row)
  /\ t.pc = "photos" => R!Exists("product", t.row) /\ (t.pictured => photos[t.row].some)

RequestCurrent(t) ==
  /\ t.pc = "fleet" => /\ R!CanFleetTransition(R!Status("fleet", t.row), t.to)
                       /\ t.quoted <=> t.row \in quoted
  /\ t.pc \in {"findBank", "assign"} =>
       R!Status("financing", t.row) \in {"SUBMITTED", "UNDER_REVIEW"}
  /\ t.pc = "outcome" => R!Status("financing", t.row) = "SENT_TO_BANK"
  /\ t.pc = "photos" => t.pictured = photos[t.row].some

RequestTaskIsSound(t) == RequestShape(t) /\ (t.alone => RequestCurrent(t))
RequestTasksAreSound == \A h \in Handlers : RequestTaskIsSound(task[h])

RequestTasksMeet ==
  \A g, h \in Handlers : g # h /\ task[g].pc # "idle"
    /\ task[g].table = task[h].table /\ task[g].row = task[h].row
    => ~task[g].alone

\* The handlers that are to add a first photo to product r.
FirstPhotos(r) ==
  {h \in Handlers : task[h].pc = "photos" /\ task[h].row = r /\ ~task[h].pictured}

\* Each handler adds one primary photo at most, and none before the first.
PrimariesAreBounded ==
  \A r \in R!Rows :
    /\ ~photos[r].some => photos[r].primary = 0
    /\ photos[r].some => photos[r].primary + Cardinality(FirstPhotos(r))
                           <= Cardinality(Handlers)

\* Every table has its rows.
RequestStatus ==
  R!FleetRequestStatus \cup R!FinancingStatus \cup R!EnergyStatus \cup R!InquiryStatus
    \cup {"ACTIVE", "ABSENT"}
RequestsAreRows == request \in [R!Tables -> [R!Rows -> RequestStatus]]

RequestsInv ==
  /\ R!TypeOK /\ R!RequestsAreSound
  /\ RequestTasksAreSound /\ RequestTasksMeet /\ PrimariesAreBounded /\ RequestsAreRows

RequestsIInv == work = "requests" => RequestsInv

LEMMA RequestIdle ==
  /\ R!Idle.pc = "idle" /\ R!Idle.table = "none" /\ R!Idle.row = 0
  BY DEF R!Idle

RequestTaskType ==
  [pc : {"idle", "insert", "fleet", "findBank", "assign", "outcome", "set", "photos"},
   table : R!Tables \cup {"none"}, row : R!Rows \cup {0}, alone : BOOLEAN,
   to : R!FleetRequestStatus \cup R!FinancingStatus \cup R!EnergyStatus
          \cup R!InquiryStatus \cup {"ACTIVE", "none"},
   quoted : BOOLEAN, bank : Banks \cup {None}, pictured : BOOLEAN]

RequestRowsTyped ==
  /\ \A t \in R!Tables, r \in R!Rows : R!Status(t, r) \in R!StatusesOf(t) \cup {"ABSENT"}
  /\ \A r \in R!Rows : R!Status("financing", r) \notin {"UNDER_REVIEW", "CANCELLED"}
  /\ quoted \subseteq R!Rows
  /\ bank \in [R!Rows -> Banks \cup {None}]
  /\ photos \in [R!Rows -> [some : BOOLEAN, primary : 0 .. Cardinality(Handlers)]]

LEMMA RequestCardinality == \A S : R!Cardinality(S) = Cardinality(S)
  BY DEF R!Cardinality, Cardinality

LEMMA RequestTypeIs ==
  /\ R!TypeOK <=> RequestRowsTyped /\ task \in [Handlers -> RequestTaskType]
  /\ R!TypeOK' <=> RequestRowsTyped' /\ task' \in [Handlers -> RequestTaskType]
<1>1. R!TypeOK <=> RequestRowsTyped /\ task \in [Handlers -> RequestTaskType]
  BY RequestCardinality DEF R!TypeOK, RequestRowsTyped, RequestTaskType
<1>2. R!TypeOK' <=> RequestRowsTyped' /\ task' \in [Handlers -> RequestTaskType]
  BY RequestCardinality DEF R!TypeOK, RequestRowsTyped, RequestTaskType
<1>3. QED
  BY <1>1, <1>2

LEMMA RequestIdleType == R!Idle \in RequestTaskType
  BY DEF R!Idle, RequestTaskType

LEMMA RequestIdleIsSound == RequestTaskIsSound(R!Idle) /\ RequestTaskIsSound(R!Idle)'
  BY RequestIdle DEF RequestTaskIsSound, RequestShape, RequestCurrent

LEMMA RequestStatuses ==
  /\ R!StatusesOf("fleet") = R!FleetRequestStatus
  /\ R!StatusesOf("financing") = R!FinancingStatus
  /\ R!StatusesOf("energy") = R!EnergyStatus
  /\ R!StatusesOf("inquiry") = R!InquiryStatus
  /\ R!StatusesOf("product") = {"ACTIVE"}
  BY DEF R!StatusesOf

LEMMA RequestTables ==
  ASSUME NEW t, RequestShape(t), t.pc # "idle", t \in RequestTaskType
  PROVE  /\ t.table \in R!Tables /\ t.row \in R!Rows
         /\ t.pc = "fleet" => t.table = "fleet"
         /\ t.pc \in {"findBank", "assign", "outcome"} => t.table = "financing"
         /\ t.pc = "set" => t.table \in {"energy", "inquiry"}
         /\ t.pc = "insert" => t.table \in {"fleet", "inquiry"}
         /\ t.pc = "photos" => t.table = "product"
  BY DEF RequestShape, RequestTable, R!Tables, RequestTaskType

LEMMA RequestsInitInv == R!Init => RequestsInv
<1> SUFFICES ASSUME R!Init
             PROVE  RequestsInv
  OBVIOUS
<1>1. \A t \in R!Tables, r \in R!Rows : R!Status(t, r) = "ABSENT"
  BY DEF R!Init, R!Status
<1>2. /\ quoted = {} /\ bank = [r \in R!Rows |-> None]
      /\ photos = [r \in R!Rows |-> [some |-> FALSE, primary |-> 0]]
      /\ task = [h \in Handlers |-> R!Idle]
  BY DEF R!Init
<1>3. Cardinality(Handlers) \in Nat
  BY PartnersBoundsOK, FS_CardinalityType
<1>4. /\ photos \in [R!Rows -> [some : BOOLEAN, primary : 0 .. Cardinality(Handlers)]]
      /\ \A r \in R!Rows : ~photos[r].some /\ photos[r].primary = 0
  BY <1>2, <1>3
<1>5. task \in [Handlers -> RequestTaskType]
  BY <1>2, RequestIdleType
<1>6. R!TypeOK
  <2>1. \A r \in R!Rows : R!Status("financing", r) = "ABSENT"
    BY <1>1 DEF R!Tables
  <2>2. quoted \subseteq R!Rows /\ bank \in [R!Rows -> Banks \cup {None}]
    BY <1>2
  <2>3. RequestRowsTyped
    BY <1>1, <1>4, <2>1, <2>2 DEF RequestRowsTyped
  <2>4. QED
    BY <1>5, <2>3, RequestTypeIs
<1>7. R!RequestsAreSound /\ PrimariesAreBounded
  BY <1>1, <1>4 DEF R!RequestsAreSound, PrimariesAreBounded, R!Tables, R!FinancingOutcome
<1>8. RequestTasksAreSound /\ RequestTasksMeet
  <2>1. \A h \in Handlers : task[h] = R!Idle
    BY <1>2
  <2>2. QED
    BY <2>1, RequestIdle, RequestIdleIsSound DEF RequestTasksAreSound, RequestTasksMeet
<1>9. RequestsAreRows
  BY DEF R!Init, RequestsAreRows, RequestStatus
<1>10. QED
  BY <1>6, <1>7, <1>8, <1>9 DEF RequestsInv

\* No row disappears, and no bank is deactivated.
RequestsGrow ==
  /\ \A t \in R!Tables, r \in R!Rows : R!Exists(t, r) => R!Exists(t, r)'
  /\ \A r \in R!Rows : R!Exists("product", r) /\ photos[r].some => photos'[r].some
  /\ \A r \in R!Rows : bank[r] \in active => bank'[r] \in active'
  /\ active \subseteq active'

\* A step writes no row that is there, but row r of table tb.
RequestFrame(tb, r) ==
  /\ \A t \in R!Tables, q \in R!Rows : R!Exists(t, q) /\ <<t, q>> # <<tb, r>>
       => R!Status(t, q)' = R!Status(t, q)
  /\ \A q \in R!Rows : <<"fleet", q>> # <<tb, r>> => (q \in quoted' <=> q \in quoted)
  /\ \A q \in R!Rows : R!Exists("product", q) /\ <<"product", q>> # <<tb, r>>
       => photos'[q].some = photos[q].some

RequestBystander(g, tb, r) ==
  /\ task'[g].pc = task[g].pc /\ task'[g].table = task[g].table
  /\ task'[g].row = task[g].row /\ task'[g].to = task[g].to
  /\ task'[g].quoted = task[g].quoted /\ task'[g].bank = task[g].bank
  /\ task'[g].pictured = task[g].pictured
  /\ task'[g].alone /\ task[g].pc # "idle"
       => task[g].alone /\ <<task[g].table, task[g].row>> # <<tb, r>>

LEMMA RequestBystandersStaySound ==
  ASSUME RequestsInv, NEW g \in Handlers, NEW tb, NEW r,
         RequestsGrow, RequestFrame(tb, r), RequestBystander(g, tb, r)
  PROVE  RequestTaskIsSound(task[g])'
<1>1. /\ task[g] \in RequestTaskType
      /\ RequestShape(task[g]) /\ (task[g].alone => RequestCurrent(task[g]))
  BY RequestTypeIs DEF RequestsInv, RequestTasksAreSound, RequestTaskIsSound
<1>2. CASE task[g].pc = "idle"
  BY <1>1, <1>2 DEF RequestTaskIsSound, RequestShape, RequestCurrent, RequestBystander
<1>3. CASE task[g].pc # "idle"
  <2>1. /\ task[g].row \in R!Rows
        /\ task[g].pc = "fleet" => task[g].table = "fleet"
        /\ task[g].pc \in {"findBank", "assign", "outcome"} => task[g].table = "financing"
        /\ task[g].pc = "photos" => task[g].table = "product"
    BY <1>1, <1>3, RequestTables
  <2>2. "fleet" \in R!Tables /\ "financing" \in R!Tables /\ "product" \in R!Tables
    BY DEF R!Tables
  <2>3. RequestShape(task[g])'
    BY <1>1, <1>3, <2>1, <2>2 DEF RequestShape, RequestBystander, RequestsGrow
  <2>4. ASSUME task'[g].alone
        PROVE  RequestCurrent(task[g])'
    <3>1. RequestCurrent(task[g]) /\ <<task[g].table, task[g].row>> # <<tb, r>>
      BY <1>1, <1>3, <2>4 DEF RequestBystander
    <3>2. CASE task[g].pc = "fleet"
      <4>1. <<"fleet", task[g].row>> # <<tb, r>>
        BY <2>1, <3>1, <3>2
      <4>2. R!Exists("fleet", task[g].row)
        BY <1>1, <3>2 DEF RequestShape
      <4>3. /\ request'["fleet"][task[g].row] = request["fleet"][task[g].row]
            /\ (task[g].row \in quoted' <=> task[g].row \in quoted)
        BY <2>1, <2>2, <4>1, <4>2 DEF RequestFrame, R!Status, R!Exists
      <4>4. QED
        BY <3>1, <3>2, <4>3
        DEF RequestCurrent, RequestBystander, R!CanFleetTransition, R!Status
    <3>3. CASE task[g].pc \in {"findBank", "assign", "outcome"}
      <4>1. R!Exists("financing", task[g].row)
        BY <3>1, <3>3 DEF RequestCurrent, R!Exists
      <4>2. <<"financing", task[g].row>> # <<tb, r>>
        BY <2>1, <3>1, <3>3
      <4>3. request'["financing"][task[g].row] = request["financing"][task[g].row]
        BY <2>1, <2>2, <4>1, <4>2 DEF RequestFrame, R!Status, R!Exists
      <4>4. QED
        BY <3>1, <3>3, <4>3 DEF RequestCurrent, RequestBystander, R!Status
    <3>4. CASE task[g].pc = "photos"
      <4>1. <<"product", task[g].row>> # <<tb, r>>
        BY <2>1, <3>1, <3>4
      <4>2. R!Exists("product", task[g].row)
        BY <1>1, <3>4 DEF RequestShape
      <4>3. photos'[task[g].row].some = photos[task[g].row].some
        BY <2>1, <4>1, <4>2 DEF RequestFrame
      <4>4. QED
        BY <3>1, <3>4, <4>3 DEF RequestCurrent, RequestBystander
    <3>5. QED
      BY <3>2, <3>3, <3>4 DEF RequestCurrent, RequestBystander
  <2>5. QED
    BY <2>3, <2>4 DEF RequestTaskIsSound
<1>4. QED
  BY <1>2, <1>3

\* A handler that starts with task t on row t.row of t.table.
LEMMA RequestStarts ==
  ASSUME RequestsInv, NEW h \in Handlers, NEW t \in RequestTaskType, R!Start(h, t),
         t.table \in R!Tables
  PROVE  /\ task' \in [Handlers -> RequestTaskType] /\ RequestTasksMeet'
         /\ task[h].pc = "idle"
         /\ \E b \in BOOLEAN : task'[h] = [t EXCEPT !.alone = b]
         /\ \A g \in Handlers \ {h} : RequestBystander(g, t.table, t.row)
<1>1. task \in [Handlers -> RequestTaskType] /\ RequestTasksMeet /\ task[h].pc = "idle"
  BY RequestTypeIs DEF RequestsInv, R!Start, R!At
<1>2. PICK b \in BOOLEAN : b = \A k \in Handlers : ~R!SameRow(t, k)
  OBVIOUS
<1>3. PICK u \in RequestTaskType : u = [t EXCEPT !.alone = b]
  BY DEF RequestTaskType
<1>4. /\ u.pc = t.pc /\ u.table = t.table /\ u.row = t.row /\ u.alone = b
  BY <1>3 DEF RequestTaskType
<1>5. task' = [g \in Handlers |->
                 IF g = h THEN u
                 ELSE IF R!SameRow(t, g) THEN [task[g] EXCEPT !.alone = FALSE]
                      ELSE task[g]]
  BY <1>2, <1>3 DEF R!Start
<1>6. task'[h] = u
  BY <1>5
<1>7. ASSUME NEW g \in Handlers \ {h}
      PROVE  task'[g] \in RequestTaskType /\ RequestBystander(g, t.table, t.row)
  <2>1. CASE R!SameRow(t, g)
    <3>1. task'[g] = [task[g] EXCEPT !.alone = FALSE] /\ task[g] \in RequestTaskType
      BY <1>1, <1>5, <2>1
    <3>2. QED
      BY <3>1 DEF RequestBystander, RequestTaskType
  <2>2. CASE ~R!SameRow(t, g)
    <3>1. task'[g] = task[g] /\ task[g] \in RequestTaskType
      BY <1>1, <1>5, <2>2
    <3>2. <<task[g].table, task[g].row>> # <<t.table, t.row>>
      BY <2>2 DEF R!SameRow
    <3>3. QED
      BY <3>1, <3>2 DEF RequestBystander
  <2>3. QED
    BY <2>1, <2>2
<1>8. task' \in [Handlers -> RequestTaskType]
  BY <1>3, <1>5, <1>6, <1>7
<1>9. RequestTasksMeet'
  <2>1. ASSUME NEW f \in Handlers, NEW g \in Handlers, f # g, task'[f].pc # "idle",
               task'[f].table = task'[g].table, task'[f].row = task'[g].row
        PROVE  ~task'[f].alone
    <3>1. CASE f = h
      <4>1. task[g].table = t.table /\ task[g].row = t.row
        BY <1>4, <1>6, <1>7, <2>1, <3>1 DEF RequestBystander
      <4>2. ~b
        BY <1>2, <4>1 DEF R!SameRow
      <4>3. QED
        BY <1>4, <1>6, <3>1, <4>2
    <3>2. CASE f # h /\ g = h
      <4>1. R!SameRow(t, f)
        BY <1>4, <1>6, <1>7, <2>1, <3>2 DEF RequestBystander, R!SameRow
      <4>2. task'[f] = [task[f] EXCEPT !.alone = FALSE] /\ task[f] \in RequestTaskType
        BY <1>1, <1>5, <3>2, <4>1
      <4>3. QED
        BY <4>2 DEF RequestTaskType
    <3>3. CASE f # h /\ g # h
      BY <1>1, <1>7, <2>1, <3>3 DEF RequestTasksMeet, RequestBystander
    <3>4. QED
      BY <3>1, <3>2, <3>3
  <2>2. QED
    BY <2>1 DEF RequestTasksMeet
<1>10. QED
  BY <1>1, <1>3, <1>6, <1>7, <1>8, <1>9

\* With the photos as they were, products stay within their bound.
LEMMA RequestPhotosStay ==
  ASSUME RequestsInv, photos' = photos,
         \A r \in R!Rows : photos[r].some => FirstPhotos(r)' \subseteq FirstPhotos(r)
  PROVE  PrimariesAreBounded'
<1> SUFFICES ASSUME NEW r \in R!Rows, photos[r].some
             PROVE  photos[r].primary + Cardinality(FirstPhotos(r)')
                      <= Cardinality(Handlers)
  BY DEF RequestsInv, PrimariesAreBounded
<1>1. /\ photos[r].primary + Cardinality(FirstPhotos(r)) <= Cardinality(Handlers)
      /\ photos[r].primary \in 0 .. Cardinality(Handlers)
  BY RequestTypeIs DEF RequestsInv, PrimariesAreBounded, RequestRowsTyped
<1>2. IsFiniteSet(FirstPhotos(r)) /\ Cardinality(Handlers) \in Nat
  BY PartnersBoundsOK, FS_Subset, FS_CardinalityType DEF FirstPhotos
<1>3. /\ Cardinality(FirstPhotos(r)') <= Cardinality(FirstPhotos(r))
      /\ Cardinality(FirstPhotos(r)') \in Nat /\ Cardinality(FirstPhotos(r)) \in Nat
  BY <1>2, FS_Subset, FS_CardinalityType
<1>4. QED
  BY <1>1, <1>2, <1>3

\* A decision that starts has just read its row, and writes nothing.
LEMMA RequestStartPreservesInv ==
  ASSUME RequestsInv, NEW h \in Handlers, NEW t \in RequestTaskType, R!Start(h, t),
         t.pc # "idle", RequestShape(t), RequestCurrent(t)
  PROVE  RequestsInv' /\ R!RequestStep
<1>1. UNCHANGED <<request, quoted, bank, active, photos, disturbed>>
  BY DEF R!Start
<1>2. t.table \in R!Tables /\ t.row \in R!Rows
  BY RequestTables
<1>3. /\ task' \in [Handlers -> RequestTaskType] /\ RequestTasksMeet'
      /\ task[h].pc = "idle"
      /\ \A g \in Handlers \ {h} : RequestBystander(g, t.table, t.row)
  BY <1>2, RequestStarts
<1>4. PICK b \in BOOLEAN : task'[h] = [t EXCEPT !.alone = b]
  BY <1>2, RequestStarts
<1>5. /\ task'[h].pc = t.pc /\ task'[h].table = t.table /\ task'[h].row = t.row
      /\ task'[h].to = t.to /\ task'[h].quoted = t.quoted /\ task'[h].bank = t.bank
      /\ task'[h].pictured = t.pictured
  BY <1>4 DEF RequestTaskType
<1>6. RequestFrame(t.table, t.row) /\ RequestsGrow
  BY <1>1 DEF RequestFrame, RequestsGrow, R!Exists, R!Status
<1>7. RequestShape(task[h])' /\ RequestCurrent(task[h])'
  <2>1. RequestShape(task[h])'
    BY <1>1, <1>5 DEF RequestShape, R!Exists, R!Status
  <2>2. RequestCurrent(task[h])'
    BY <1>1, <1>5 DEF RequestCurrent, R!CanFleetTransition, R!Status
  <2>3. QED
    BY <2>1, <2>2
<1>8. RequestTasksAreSound'
  BY <1>3, <1>6, <1>7, RequestBystandersStaySound
  DEF RequestTasksAreSound, RequestTaskIsSound
<1>9. PrimariesAreBounded'
  <2>1. ASSUME NEW r \in R!Rows, photos[r].some
        PROVE  FirstPhotos(r)' \subseteq FirstPhotos(r)
    BY <1>3, <1>5, <2>1 DEF FirstPhotos, RequestBystander, RequestCurrent
  <2>2. QED
    BY <1>1, <2>1, RequestPhotosStay
<1>10. R!TypeOK'
  BY <1>1, <1>3, RequestTypeIs DEF RequestsInv, RequestRowsTyped, R!Status
<1>11. R!RequestsAreSound' /\ RequestsAreRows' /\ R!RequestStep
  BY <1>1 DEF RequestsInv, R!RequestsAreSound, RequestsAreRows, R!RequestStep, R!Status
<1>12. QED
  BY <1>3, <1>8, <1>9, <1>10, <1>11 DEF RequestsInv

\* Handler h goes on with u, of its own row, or is done.
RequestGoesOn(h, u) ==
  /\ task' = [task EXCEPT ![h] = u]
  /\ task[h].pc # "idle"
  /\ \/ u.pc = "idle" /\ u.table = "none"
     \/ u.table = task[h].table /\ u.row = task[h].row /\ (u.alone => task[h].alone)

LEMMA RequestGoesOnFacts ==
  ASSUME RequestsInv, NEW h \in Handlers, NEW u \in RequestTaskType, RequestGoesOn(h, u),
         NEW tb, NEW r, tb \notin R!Tables \/ (tb = task[h].table /\ r = task[h].row),
         RequestsGrow, RequestFrame(tb, r), RequestTaskIsSound(u)'
  PROVE  /\ task' \in [Handlers -> RequestTaskType] /\ task'[h] = u
         /\ \A g \in Handlers \ {h} : task'[g] = task[g]
         /\ RequestTasksAreSound' /\ RequestTasksMeet'
<1>1. /\ task \in [Handlers -> RequestTaskType] /\ RequestTasksMeet
      /\ \A g \in Handlers : task[g].pc # "idle" => task[g].table \in R!Tables
      /\ \A g \in Handlers : task[g].pc = "idle" => task[g].table = "none"
  <2>1. task \in [Handlers -> RequestTaskType] /\ RequestTasksMeet
    BY RequestTypeIs DEF RequestsInv
  <2>2. \A g \in Handlers : task[g] \in RequestTaskType /\ RequestShape(task[g])
    BY <2>1 DEF RequestsInv, RequestTasksAreSound, RequestTaskIsSound
  <2>3. \A g \in Handlers : task[g].pc # "idle" => task[g].table \in R!Tables
    BY <2>2, RequestTables
  <2>4. QED
    BY <2>1, <2>2, <2>3 DEF RequestShape
<1>2. /\ task' \in [Handlers -> RequestTaskType] /\ task'[h] = u
      /\ \A g \in Handlers \ {h} : task'[g] = task[g]
  BY <1>1 DEF RequestGoesOn
<1>3. \A g \in Handlers \ {h} : RequestBystander(g, tb, r)
  <2>1. ASSUME NEW g \in Handlers \ {h}, task[g].alone, task[g].pc # "idle"
        PROVE  <<task[g].table, task[g].row>> # <<tb, r>>
    BY <1>1, <2>1 DEF RequestTasksMeet
  <2>2. QED
    BY <1>2, <2>1 DEF RequestBystander
<1>4. RequestTaskIsSound(task[h])'
  BY <1>2 DEF RequestTaskIsSound, RequestShape, RequestCurrent
<1>5. RequestTasksAreSound'
  BY <1>3, <1>4, RequestBystandersStaySound DEF RequestTasksAreSound
<1>6. RequestTasksMeet'
  <2>1. "none" \notin R!Tables
    BY DEF R!Tables
  <2>2. ASSUME NEW f \in Handlers, NEW g \in Handlers, f # g, task'[f].pc # "idle",
               task'[f].table = task'[g].table, task'[f].row = task'[g].row
        PROVE  ~task'[f].alone
    <3>1. CASE f = h
      BY <1>1, <1>2, <2>2, <3>1 DEF RequestTasksMeet, RequestGoesOn
    <3>2. CASE g = h
      BY <1>1, <1>2, <2>1, <2>2, <3>2 DEF RequestTasksMeet, RequestGoesOn
    <3>3. CASE f # h /\ g # h
      BY <1>1, <1>2, <2>2, <3>3 DEF RequestTasksMeet
    <3>4. QED
      BY <3>1, <3>2, <3>3
  <2>3. QED
    BY <2>2 DEF RequestTasksMeet
<1>7. QED
  BY <1>2, <1>5, <1>6

\* A handler is done, having written its own row or none.
LEMMA RequestFinishes ==
  ASSUME RequestsInv, NEW h \in Handlers, R!Finish(h), task[h].pc # "idle",
         NEW tb, NEW r, tb \notin R!Tables \/ (tb = task[h].table /\ r = task[h].row),
         RequestsGrow, RequestFrame(tb, r)
  PROVE  /\ task' \in [Handlers -> RequestTaskType]
         /\ RequestTasksAreSound' /\ RequestTasksMeet'
         /\ \A q \in R!Rows : FirstPhotos(q)' = FirstPhotos(q) \ {h}
<1>1. RequestGoesOn(h, R!Idle)
  BY RequestIdle DEF RequestGoesOn, R!Finish
<1>2. /\ task' \in [Handlers -> RequestTaskType] /\ task'[h] = R!Idle
      /\ \A g \in Handlers \ {h} : task'[g] = task[g]
      /\ RequestTasksAreSound' /\ RequestTasksMeet'
  BY <1>1, RequestIdleType, RequestIdleIsSound, RequestGoesOnFacts
<1>3. \A q \in R!Rows : FirstPhotos(q)' = FirstPhotos(q) \ {h}
  BY <1>2, RequestIdle DEF FirstPhotos
<1>4. QED
  BY <1>2, <1>3

\* Nobody's task changes, and no row that a task is about.
LEMMA RequestTasksStay ==
  ASSUME RequestsInv, task' = task, RequestsGrow, RequestFrame("none", 0)
  PROVE  /\ task' \in [Handlers -> RequestTaskType]
         /\ RequestTasksAreSound' /\ RequestTasksMeet'
<1>1. task' \in [Handlers -> RequestTaskType] /\ RequestTasksMeet'
  BY RequestTypeIs DEF RequestsInv, RequestTasksMeet
<1>2. ASSUME NEW g \in Handlers
      PROVE  RequestTaskIsSound(task[g])'
  <2>1. /\ RequestShape(task[g]) /\ task[g] \in RequestTaskType
    BY RequestTypeIs DEF RequestsInv, RequestTasksAreSound, RequestTaskIsSound
  <2>2. task[g].pc # "idle" => task[g].table \in R!Tables
    BY <2>1, RequestTables
  <2>3. <<task[g].table, task[g].row>> # <<"none", 0>> \/ task[g].pc = "idle"
    BY <2>2 DEF R!Tables
  <2>4. RequestBystander(g, "none", 0)
    BY <2>3 DEF RequestBystander
  <2>5. QED
    BY <2>4, RequestBystandersStaySound
<1>3. QED
  BY <1>1, <1>2 DEF RequestTasksAreSound

LEMMA RequestStatusesAre ==
  \A t \in R!Tables : R!StatusesOf(t) \subseteq RequestStatus \ {"ABSENT"}
  BY RequestStatuses DEF R!Tables, RequestStatus, R!FleetRequestStatus, R!FinancingStatus,
       R!EnergyStatus, R!InquiryStatus

\* A status is written to one row.
LEMMA RequestWritten ==
  ASSUME RequestsInv, NEW tb \in R!Tables, NEW r \in R!Rows, NEW to \in R!StatusesOf(tb),
         request' = [request EXCEPT ![tb][r] = to],
         tb = "financing" => to \notin {"UNDER_REVIEW", "CANCELLED"}
  PROVE  /\ RequestsAreRows'
         /\ \A t \in R!Tables, q \in R!Rows :
              request'[t][q] = IF t = tb /\ q = r THEN to ELSE request[t][q]
         /\ \A t \in R!Tables, q \in R!Rows :
              R!Status(t, q)' \in R!StatusesOf(t) \cup {"ABSENT"}
         /\ \A q \in R!Rows : R!Status("financing", q)' \notin {"UNDER_REVIEW", "CANCELLED"}
         /\ \A t \in R!Tables, q \in R!Rows : R!Exists(t, q) => R!Exists(t, q)'
<1>1. request \in [R!Tables -> [R!Rows -> RequestStatus]]
  BY DEF RequestsInv, RequestsAreRows
<1>2. to \in RequestStatus /\ to # "ABSENT"
  BY RequestStatusesAre
<1>3. RequestsAreRows'
  BY <1>1, <1>2 DEF RequestsAreRows
<1>4. \A t \in R!Tables, q \in R!Rows :
        request'[t][q] = IF t = tb /\ q = r THEN to ELSE request[t][q]
  BY <1>1
<1>5. \A t \in R!Tables, q \in R!Rows : R!Status(t, q) \in R!StatusesOf(t) \cup {"ABSENT"}
  BY RequestTypeIs DEF RequestsInv, RequestRowsTyped
<1>6. \A q \in R!Rows : R!Status("financing", q) \notin {"UNDER_REVIEW", "CANCELLED"}
  BY RequestTypeIs DEF RequestsInv, RequestRowsTyped
<1>7. "financing" \in R!Tables
  BY DEF R!Tables
<1>8. \A t \in R!Tables, q \in R!Rows : R!Status(t, q)' \in R!StatusesOf(t) \cup {"ABSENT"}
  BY <1>4, <1>5 DEF R!Status
<1>9. \A q \in R!Rows : R!Status("financing", q)' \notin {"UNDER_REVIEW", "CANCELLED"}
  BY <1>4, <1>6, <1>7 DEF R!Status
<1>10. \A t \in R!Tables, q \in R!Rows : R!Exists(t, q) => R!Exists(t, q)'
  BY <1>2, <1>4 DEF R!Exists, R!Status
<1>11. QED
  BY <1>3, <1>4, <1>8, <1>9, <1>10

\* A new row: no task, date, bank or photo was about it.
LEMMA RequestSubmitted ==
  ASSUME RequestsInv, NEW tb \in {"fleet", "financing", "energy", "inquiry"},
         NEW r \in R!Rows, ~R!Exists(tb, r), NEW to \in R!StatusesOf(tb),
         to \in {"SUBMITTED", "RECEIVED"}, request' = [request EXCEPT ![tb][r] = to],
         UNCHANGED <<quoted, bank, active, photos, disturbed>>
  PROVE  /\ RequestRowsTyped' /\ RequestsAreRows' /\ R!RequestsAreSound' /\ R!RequestStep
         /\ RequestsGrow /\ RequestFrame("none", 0)
<1>1. tb \in R!Tables /\ {"fleet", "financing", "product"} \subseteq R!Tables
  BY DEF R!Tables
<1>2. /\ RequestsAreRows'
      /\ \A t \in R!Tables, q \in R!Rows :
           request'[t][q] = IF t = tb /\ q = r THEN to ELSE request[t][q]
      /\ \A t \in R!Tables, q \in R!Rows :
           R!Status(t, q)' \in R!StatusesOf(t) \cup {"ABSENT"}
      /\ \A q \in R!Rows : R!Status("financing", q)' \notin {"UNDER_REVIEW", "CANCELLED"}
      /\ \A t \in R!Tables, q \in R!Rows : R!Exists(t, q) => R!Exists(t, q)'
  BY <1>1, RequestWritten
<1>3. RequestRowsTyped'
  BY <1>2, RequestTypeIs DEF RequestsInv, RequestRowsTyped
<1>4. RequestsGrow
  BY <1>2 DEF RequestsGrow
<1>5. RequestFrame("none", 0)
  BY <1>2 DEF RequestFrame, R!Exists, R!Status
<1>6. R!RequestsAreSound'
  <2>1. ASSUME NEW q \in R!Rows,
               request'["fleet"][q] \in {"QUOTED", "APPROVED", "IN_PROGRESS", "COMPLETED"}
        PROVE  q \in quoted' \/ <<"fleet", q>> \in disturbed'
    <3>1. request["fleet"][q] = request'["fleet"][q]
      BY <1>1, <1>2, <2>1
    <3>2. QED
      BY <2>1, <3>1 DEF RequestsInv, R!RequestsAreSound, R!Status
  <2>2. ASSUME NEW q \in R!Rows,
               request'["financing"][q] \in {"SENT_TO_BANK"} \cup R!FinancingOutcome
        PROVE  bank'[q] \in active'
    <3>1. request["financing"][q] = request'["financing"][q]
      BY <1>1, <1>2, <2>2 DEF R!FinancingOutcome
    <3>2. QED
      BY <2>2, <3>1 DEF RequestsInv, R!RequestsAreSound, R!Status
  <2>3. QED
    BY <2>1, <2>2 DEF RequestsInv, R!RequestsAreSound, R!Status
<1>7. R!RequestStep
  BY <1>1, <1>2 DEF R!RequestStep, R!Exists, R!Status, R!FinancingOutcome
<1>8. QED
  BY <1>2, <1>3, <1>4, <1>5, <1>6, <1>7

LEMMA RequestSubmitPreservesInv ==
  ASSUME RequestsInv, NEW h \in Handlers, NEW r \in R!Rows,
         R!SubmitFinancing(h, r) \/ R!SubmitEnergy(h, r)
  PROVE  RequestsInv' /\ R!RequestStep
<1>1. PICK tb \in {"financing", "energy"} :
        /\ ~R!Exists(tb, r) /\ request' = [request EXCEPT ![tb][r] = "SUBMITTED"]
        /\ UNCHANGED <<quoted, bank, active, photos, task, disturbed>>
  BY DEF R!SubmitFinancing, R!SubmitEnergy
<1>2. "SUBMITTED" \in R!StatusesOf(tb)
  BY RequestStatuses DEF R!FinancingStatus, R!EnergyStatus
<1>3. /\ RequestRowsTyped' /\ RequestsAreRows' /\ R!RequestsAreSound' /\ R!RequestStep
      /\ RequestsGrow /\ RequestFrame("none", 0)
  BY <1>1, <1>2, RequestSubmitted
<1>4. /\ task' \in [Handlers -> RequestTaskType]
      /\ RequestTasksAreSound' /\ RequestTasksMeet'
  BY <1>1, <1>3, RequestTasksStay
<1>5. PrimariesAreBounded'
  BY <1>1, RequestPhotosStay DEF FirstPhotos
<1>6. QED
  BY <1>3, <1>4, <1>5, RequestTypeIs DEF RequestsInv

LEMMA RequestSubmitNumberedPreservesInv ==
  ASSUME RequestsInv, NEW h \in Handlers, R!CommitSubmitNumbered(h)
  PROVE  RequestsInv' /\ R!RequestStep
<1>1. /\ task[h].pc = "insert" /\ R!Finish(h)
      /\ UNCHANGED <<quoted, bank, active, photos, disturbed>>
  BY DEF R!CommitSubmitNumbered, R!At
<1>2. task[h] \in RequestTaskType /\ RequestShape(task[h])
  BY RequestTypeIs DEF RequestsInv, RequestTasksAreSound, RequestTaskIsSound
<1>3. task[h].table \in {"fleet", "inquiry"} /\ task[h].row \in R!Rows
  BY <1>1, <1>2, RequestTables
<1>4. task[h].to \in R!StatusesOf(task[h].table) /\ task[h].to \in {"SUBMITTED", "RECEIVED"}
  BY <1>1, <1>2 DEF RequestShape
<1>5. /\ RequestRowsTyped' /\ RequestsAreRows' /\ R!RequestsAreSound' /\ R!RequestStep
      /\ RequestsGrow /\ RequestFrame("none", 0)
  <2>1. CASE R!Exists(task[h].table, task[h].row)
    <3>1. request' = request
      BY <2>1 DEF R!CommitSubmitNumbered
    <3>2. RequestRowsTyped' /\ RequestsAreRows'
      BY <1>1, <3>1, RequestTypeIs
      DEF RequestsInv, RequestRowsTyped, RequestsAreRows, R!Status
    <3>3. R!RequestsAreSound' /\ R!RequestStep
      BY <1>1, <3>1 DEF RequestsInv, R!RequestsAreSound, R!RequestStep, R!Status
    <3>4. RequestsGrow /\ RequestFrame("none", 0)
      BY <1>1, <3>1 DEF RequestsGrow, RequestFrame, R!Exists, R!Status
    <3>5. QED
      BY <3>2, <3>3, <3>4
  <2>2. CASE ~R!Exists(task[h].table, task[h].row)
    <3>1. request' = [request EXCEPT ![task[h].table][task[h].row] = task[h].to]
      BY <2>2 DEF R!CommitSubmitNumbered
    <3>2. QED
      BY <1>1, <1>3, <1>4, <2>2, <3>1, RequestSubmitted
  <2>3. QED
    BY <2>1, <2>2
<1>6. "none" \notin R!Tables
  BY DEF R!Tables
<1>7. /\ task' \in [Handlers -> RequestTaskType]
      /\ RequestTasksAreSound' /\ RequestTasksMeet'
      /\ \A q \in R!Rows : FirstPhotos(q)' = FirstPhotos(q) \ {h}
  BY <1>1, <1>5, <1>6, RequestFinishes
<1>8. PrimariesAreBounded'
  BY <1>1, <1>7, RequestPhotosStay
<1>9. QED
  BY <1>5, <1>7, <1>8, RequestTypeIs DEF RequestsInv

\* What only tasks and banks can do: a new bank, a bank found, a request that dies.
LEMMA RequestRowsStay ==
  ASSUME RequestsInv, UNCHANGED <<request, quoted, bank, photos, disturbed>>,
         active \subseteq active'
  PROVE  /\ RequestRowsTyped' /\ RequestsAreRows' /\ R!RequestsAreSound' /\ R!RequestStep
         /\ RequestsGrow /\ RequestFrame("none", 0)
<1>1. RequestRowsTyped' /\ RequestsAreRows'
  BY RequestTypeIs DEF RequestsInv, RequestRowsTyped, RequestsAreRows, R!Status
<1>2. R!RequestsAreSound'
  BY DEF RequestsInv, R!RequestsAreSound, R!Status
<1>3. R!RequestStep
  BY DEF R!RequestStep, R!Status
<1>4. RequestsGrow /\ RequestFrame("none", 0)
  BY DEF RequestsGrow, RequestFrame, R!Exists, R!Status
<1>5. QED
  BY <1>1, <1>2, <1>3, <1>4

LEMMA RequestCreateBankPreservesInv ==
  ASSUME RequestsInv, NEW h \in Handlers, NEW b \in Banks, R!CreateBank(h, b)
  PROVE  RequestsInv' /\ R!RequestStep
<1>1. UNCHANGED <<request, quoted, bank, photos, task, disturbed>> /\ active \subseteq active'
  BY DEF R!CreateBank
<1>2. /\ RequestRowsTyped' /\ RequestsAreRows' /\ R!RequestsAreSound' /\ R!RequestStep
      /\ RequestsGrow /\ RequestFrame("none", 0)
  BY <1>1, RequestRowsStay
<1>3. /\ task' \in [Handlers -> RequestTaskType]
      /\ RequestTasksAreSound' /\ RequestTasksMeet'
  BY <1>1, <1>2, RequestTasksStay
<1>4. PrimariesAreBounded'
  BY <1>1, RequestPhotosStay DEF FirstPhotos
<1>5. QED
  BY <1>2, <1>3, <1>4, RequestTypeIs DEF RequestsInv

LEMMA RequestCrashPreservesInv ==
  ASSUME RequestsInv, NEW h \in Handlers, task[h].pc # "idle", R!Finish(h),
         UNCHANGED <<request, quoted, bank, active, photos, disturbed>>
  PROVE  RequestsInv' /\ R!RequestStep
<1>1. /\ RequestRowsTyped' /\ RequestsAreRows' /\ R!RequestsAreSound' /\ R!RequestStep
      /\ RequestsGrow /\ RequestFrame("none", 0)
  BY RequestRowsStay
<1>2. "none" \notin R!Tables
  BY DEF R!Tables
<1>3. /\ task' \in [Handlers -> RequestTaskType]
      /\ RequestTasksAreSound' /\ RequestTasksMeet'
      /\ \A q \in R!Rows : FirstPhotos(q)' = FirstPhotos(q) \ {h}
  BY <1>1, <1>2, RequestFinishes
<1>4. PrimariesAreBounded'
  BY <1>3, RequestPhotosStay
<1>5. QED
  BY <1>1, <1>3, <1>4, RequestTypeIs DEF RequestsInv

LEMMA RequestFindBankPreservesInv ==
  ASSUME RequestsInv, NEW h \in Handlers, R!FindBank(h)
  PROVE  RequestsInv' /\ R!RequestStep
<1>1. /\ task[h].pc = "findBank"
      /\ UNCHANGED <<request, quoted, bank, active, photos, disturbed>>
  BY DEF R!FindBank, R!At
<1>2. CASE task[h].bank \notin active
  BY <1>1, <1>2, RequestCrashPreservesInv DEF R!FindBank
<1>3. CASE task[h].bank \in active
  <2>1. task \in [Handlers -> RequestTaskType] /\ RequestTaskIsSound(task[h])
    BY RequestTypeIs DEF RequestsInv, RequestTasksAreSound
  <2>2. PICK u \in RequestTaskType : u = [task[h] EXCEPT !.pc = "assign"]
    BY <2>1 DEF RequestTaskType
  <2>3. /\ u.pc = "assign" /\ u.table = task[h].table /\ u.row = task[h].row
        /\ u.alone = task[h].alone /\ u.to = task[h].to /\ u.quoted = task[h].quoted
        /\ u.bank = task[h].bank /\ u.pictured = task[h].pictured
    BY <2>1, <2>2 DEF RequestTaskType
  <2>4. RequestGoesOn(h, u)
    BY <1>1, <1>3, <2>1, <2>2, <2>3 DEF RequestGoesOn, R!FindBank
  <2>5. /\ RequestRowsTyped' /\ RequestsAreRows' /\ R!RequestsAreSound' /\ R!RequestStep
        /\ RequestsGrow /\ RequestFrame("none", 0)
    BY <1>1, RequestRowsStay
  <2>6. RequestTaskIsSound(u)'
    <3>1. RequestShape(task[h]) /\ (task[h].alone => RequestCurrent(task[h]))
      BY <2>1 DEF RequestTaskIsSound
    <3>2. RequestShape(u)'
      BY <1>1, <1>3, <2>3, <3>1 DEF RequestShape, RequestTable, R!FinancingOutcome
    <3>3. u.alone => RequestCurrent(u)'
      BY <1>1, <2>3, <3>1 DEF RequestCurrent, R!Status
    <3>4. QED
      BY <3>2, <3>3 DEF RequestTaskIsSound
  <2>7. "none" \notin R!Tables
    BY DEF R!Tables
  <2>8. /\ task' \in [Handlers -> RequestTaskType] /\ task'[h] = u
        /\ \A g \in Handlers \ {h} : task'[g] = task[g]
        /\ RequestTasksAreSound' /\ RequestTasksMeet'
    BY <2>4, <2>5, <2>6, <2>7, RequestGoesOnFacts
  <2>9. \A q \in R!Rows : FirstPhotos(q)' \subseteq FirstPhotos(q)
    BY <2>3, <2>8 DEF FirstPhotos
  <2>10. PrimariesAreBounded'
    BY <1>1, <2>9, RequestPhotosStay
  <2>11. QED
    BY <2>5, <2>8, <2>10, RequestTypeIs DEF RequestsInv
<1>4. QED
  BY <1>2, <1>3

\* What a handler that writes a status does, whichever decision it is.
LEMMA RequestWritesStatus ==
  ASSUME RequestsInv, NEW h \in Handlers, R!WriteStatus(h),
         task[h].pc \in {"fleet", "assign", "outcome", "set"}
  PROVE  /\ task[h] \in RequestTaskType /\ RequestTaskIsSound(task[h])
         /\ task[h].table \in R!Tables /\ task[h].row \in R!Rows
         /\ task[h].to \in R!StatusesOf(task[h].table)
         /\ photos' = photos /\ active' = active /\ R!Finish(h)
         /\ disturbed \subseteq disturbed'
         /\ task[h].alone \/ <<task[h].table, task[h].row>> \in disturbed'
         /\ RequestsAreRows'
         /\ \A t \in R!Tables, q \in R!Rows :
              request'[t][q] = IF t = task[h].table /\ q = task[h].row THEN task[h].to
                               ELSE request[t][q]
         /\ \A t \in R!Tables, q \in R!Rows :
              R!Status(t, q)' \in R!StatusesOf(t) \cup {"ABSENT"}
         /\ \A q \in R!Rows : R!Status("financing", q)' \notin {"UNDER_REVIEW", "CANCELLED"}
         /\ \A t \in R!Tables, q \in R!Rows : R!Exists(t, q) => R!Exists(t, q)'
<1>1. task[h] \in RequestTaskType /\ RequestTaskIsSound(task[h]) /\ RequestShape(task[h])
  BY RequestTypeIs DEF RequestsInv, RequestTasksAreSound, RequestTaskIsSound
<1>2. /\ task[h].table \in R!Tables /\ task[h].row \in R!Rows
      /\ task[h].pc = "fleet" => task[h].table = "fleet"
      /\ task[h].pc = "set" => task[h].table \in {"energy", "inquiry"}
  BY <1>1, RequestTables
<1>3. /\ task[h].to \in R!StatusesOf(task[h].table)
      /\ task[h].table = "financing" => task[h].to \notin {"UNDER_REVIEW", "CANCELLED"}
  BY <1>1, <1>2 DEF RequestShape, R!FinancingOutcome
<1>4. /\ photos' = photos /\ active' = active /\ R!Finish(h)
      /\ request' = [request EXCEPT ![task[h].table][task[h].row] = task[h].to]
      /\ disturbed' = IF task[h].alone THEN disturbed
                      ELSE disturbed \cup {<<task[h].table, task[h].row>>}
  BY DEF R!WriteStatus, R!Complete
<1>5. /\ disturbed \subseteq disturbed'
      /\ task[h].alone \/ <<task[h].table, task[h].row>> \in disturbed'
  BY <1>4
<1>6. /\ RequestsAreRows'
      /\ \A t \in R!Tables, q \in R!Rows :
           request'[t][q] = IF t = task[h].table /\ q = task[h].row THEN task[h].to
                            ELSE request[t][q]
      /\ \A t \in R!Tables, q \in R!Rows :
           R!Status(t, q)' \in R!StatusesOf(t) \cup {"ABSENT"}
      /\ \A q \in R!Rows : R!Status("financing", q)' \notin {"UNDER_REVIEW", "CANCELLED"}
      /\ \A t \in R!Tables, q \in R!Rows : R!Exists(t, q) => R!Exists(t, q)'
  BY <1>2, <1>3, <1>4, RequestWritten
<1>7. QED
  BY <1>1, <1>2, <1>3, <1>4, <1>5, <1>6

\* A decision keeps the invariant when the date and the bank it writes fit the status.
LEMMA RequestDecided ==
  ASSUME RequestsInv, NEW h \in Handlers, R!WriteStatus(h),
         task[h].pc \in {"fleet", "assign", "outcome", "set"},
         quoted' \subseteq R!Rows,
         \A q \in R!Rows : task[h].table # "fleet" \/ q # task[h].row
           => (q \in quoted' <=> q \in quoted),
         bank' \in [R!Rows -> Banks \cup {None}],
         \A q \in R!Rows : bank[q] \in active => bank'[q] \in active,
         task[h].table = "fleet"
           => \/ task[h].to \notin {"QUOTED", "APPROVED", "IN_PROGRESS", "COMPLETED"}
              \/ task[h].row \in quoted' \/ <<"fleet", task[h].row>> \in disturbed',
         task[h].table = "financing" => bank'[task[h].row] \in active
  PROVE  RequestsInv'
<1>1. /\ task[h].table \in R!Tables /\ task[h].row \in R!Rows
      /\ photos' = photos /\ active' = active /\ R!Finish(h)
      /\ disturbed \subseteq disturbed' /\ RequestsAreRows'
      /\ \A t \in R!Tables, q \in R!Rows :
           request'[t][q] = IF t = task[h].table /\ q = task[h].row THEN task[h].to
                            ELSE request[t][q]
      /\ \A t \in R!Tables, q \in R!Rows :
           R!Status(t, q)' \in R!StatusesOf(t) \cup {"ABSENT"}
      /\ \A q \in R!Rows : R!Status("financing", q)' \notin {"UNDER_REVIEW", "CANCELLED"}
      /\ \A t \in R!Tables, q \in R!Rows : R!Exists(t, q) => R!Exists(t, q)'
  BY RequestWritesStatus
<1>2. {"fleet", "financing", "product"} \subseteq R!Tables
  BY DEF R!Tables
<1>3. RequestRowsTyped'
  BY <1>1, RequestTypeIs DEF RequestsInv, RequestRowsTyped
<1>4. RequestsGrow
  BY <1>1 DEF RequestsGrow
<1>5. RequestFrame(task[h].table, task[h].row)
  BY <1>1 DEF RequestFrame, R!Exists, R!Status
<1>6. R!RequestsAreSound'
  <2>1. ASSUME NEW q \in R!Rows,
               request'["fleet"][q] \in {"QUOTED", "APPROVED", "IN_PROGRESS", "COMPLETED"}
        PROVE  q \in quoted' \/ <<"fleet", q>> \in disturbed'
    <3>1. CASE task[h].table = "fleet" /\ q = task[h].row
      BY <1>1, <1>2, <2>1, <3>1
    <3>2. CASE task[h].table # "fleet" \/ q # task[h].row
      <4>1. request["fleet"][q] = request'["fleet"][q] /\ (q \in quoted' <=> q \in quoted)
        BY <1>1, <1>2, <3>2
      <4>2. QED
        BY <1>1, <2>1, <4>1 DEF RequestsInv, R!RequestsAreSound, R!Status
    <3>3. QED
      BY <3>1, <3>2
  <2>2. ASSUME NEW q \in R!Rows,
               request'["financing"][q] \in {"SENT_TO_BANK"} \cup R!FinancingOutcome
        PROVE  bank'[q] \in active'
    <3>1. CASE task[h].table = "financing" /\ q = task[h].row
      BY <1>1, <3>1
    <3>2. CASE task[h].table # "financing" \/ q # task[h].row
      <4>1. request["financing"][q] = request'["financing"][q]
        BY <1>1, <1>2, <3>2
      <4>2. QED
        BY <1>1, <2>2, <4>1 DEF RequestsInv, R!RequestsAreSound, R!Status
    <3>3. QED
      BY <3>1, <3>2
  <2>3. \A q \in R!Rows : /\ photos'[q].some => photos'[q].primary >= 1
                          /\ photos'[q].primary <= 1 \/ <<"product", q>> \in disturbed'
    BY <1>1 DEF RequestsInv, R!RequestsAreSound
  <2>4. QED
    BY <2>1, <2>2, <2>3 DEF R!RequestsAreSound, R!Status
<1>7. /\ task' \in [Handlers -> RequestTaskType]
      /\ RequestTasksAreSound' /\ RequestTasksMeet'
      /\ \A q \in R!Rows : FirstPhotos(q)' = FirstPhotos(q) \ {h}
  BY <1>1, <1>4, <1>5, RequestFinishes
<1>8. PrimariesAreBounded'
  BY <1>1, <1>7, RequestPhotosStay
<1>9. QED
  BY <1>1, <1>3, <1>6, <1>7, <1>8, RequestTypeIs DEF RequestsInv

\* Only a quoted request goes on to be approved, done and completed.
LEMMA RequestFleetTable ==
  ASSUME NEW from \in R!FleetRequestStatus, NEW to, R!CanFleetTransition(from, to),
         to \in {"APPROVED", "IN_PROGRESS", "COMPLETED"}
  PROVE  from \in {"QUOTED", "APPROVED", "IN_PROGRESS"}
  BY DEF R!FleetRequestStatus, R!CanFleetTransition, R!FLEET_TRANSITIONS

LEMMA RequestFleetPreservesInv ==
  ASSUME RequestsInv, NEW h \in Handlers, R!CommitFleetDecision(h)
  PROVE  RequestsInv' /\ R!RequestStep
<1>1. /\ task[h].pc = "fleet" /\ R!WriteStatus(h) /\ bank' = bank
      /\ quoted' = IF task[h].to = "QUOTED" \/ task[h].quoted
                   THEN quoted \cup {task[h].row} ELSE quoted \ {task[h].row}
  BY DEF R!CommitFleetDecision, R!At
<1>2. /\ task[h] \in RequestTaskType /\ RequestTaskIsSound(task[h])
      /\ task[h].table \in R!Tables /\ task[h].row \in R!Rows
      /\ task[h].to \in R!StatusesOf(task[h].table)
      /\ photos' = photos /\ active' = active
      /\ disturbed \subseteq disturbed'
      /\ task[h].alone \/ <<task[h].table, task[h].row>> \in disturbed'
      /\ \A t \in R!Tables, q \in R!Rows :
           request'[t][q] = IF t = task[h].table /\ q = task[h].row THEN task[h].to
                            ELSE request[t][q]
  BY <1>1, RequestWritesStatus
<1>3. /\ task[h].table = "fleet"
      /\ RequestShape(task[h]) /\ (task[h].alone => RequestCurrent(task[h]))
  BY <1>1, <1>2, RequestTables DEF RequestTaskIsSound
<1>4. {"fleet", "financing"} \subseteq R!Tables
  BY DEF R!Tables
<1>5. /\ request["fleet"][task[h].row] \in R!FleetRequestStatus
      /\ quoted \subseteq R!Rows /\ bank \in [R!Rows -> Banks \cup {None}]
  BY <1>1, <1>2, <1>3, <1>4, RequestTypeIs, RequestStatuses
  DEF RequestsInv, RequestRowsTyped, RequestShape, R!Status, R!Exists
<1>6. \/ task[h].to \notin {"QUOTED", "APPROVED", "IN_PROGRESS", "COMPLETED"}
      \/ task[h].row \in quoted' \/ <<"fleet", task[h].row>> \in disturbed'
  <2>1. SUFFICES ASSUME task[h].alone, task[h].to \in {"APPROVED", "IN_PROGRESS", "COMPLETED"}
                 PROVE  task[h].row \in quoted' \/ <<"fleet", task[h].row>> \in disturbed'
    BY <1>1, <1>2, <1>3
  <2>2. /\ R!CanFleetTransition(request["fleet"][task[h].row], task[h].to)
        /\ task[h].quoted <=> task[h].row \in quoted
    BY <1>1, <1>3, <2>1 DEF RequestCurrent, R!Status
  <2>3. request["fleet"][task[h].row] \in {"QUOTED", "APPROVED", "IN_PROGRESS"}
    BY <1>5, <2>1, <2>2, RequestFleetTable
  <2>4. task[h].row \in quoted \/ <<"fleet", task[h].row>> \in disturbed
    BY <1>2, <2>3 DEF RequestsInv, R!RequestsAreSound, R!Status
  <2>5. QED
    BY <1>1, <1>2, <2>2, <2>4
<1>7. /\ quoted' \subseteq R!Rows
      /\ \A q \in R!Rows : task[h].table # "fleet" \/ q # task[h].row
           => (q \in quoted' <=> q \in quoted)
  BY <1>1, <1>2, <1>3, <1>5
<1>8. RequestsInv'
  BY <1>1, <1>3, <1>5, <1>6, <1>7, RequestDecided
<1>9. R!RequestStep
  <2>1. ASSUME NEW q \in R!Rows, <<"fleet", q>> \notin disturbed',
               request'["fleet"][q] # request["fleet"][q]
        PROVE  R!CanFleetTransition(request["fleet"][q], request'["fleet"][q])
    <3>1. q = task[h].row /\ request'["fleet"][q] = task[h].to /\ task[h].alone
      BY <1>2, <1>3, <1>4, <2>1
    <3>2. QED
      BY <1>1, <1>3, <3>1 DEF RequestCurrent, R!Status
  <2>2. \A q \in R!Rows : request'["financing"][q] = request["financing"][q]
    BY <1>2, <1>3, <1>4
  <2>3. QED
    BY <1>1, <2>1, <2>2 DEF R!RequestStep, R!Status
<1>10. QED
  BY <1>8, <1>9

LEMMA RequestFinancingPreservesInv ==
  ASSUME RequestsInv, NEW h \in Handlers, R!CommitAssignBank(h) \/ R!CommitRecordOutcome(h)
  PROVE  RequestsInv' /\ R!RequestStep
<1>1. /\ task[h].pc \in {"assign", "outcome"} /\ R!WriteStatus(h) /\ quoted' = quoted
      /\ task[h].pc = "assign" => bank' = [bank EXCEPT ![task[h].row] = task[h].bank]
      /\ task[h].pc = "outcome" => bank' = bank
  BY DEF R!CommitAssignBank, R!CommitRecordOutcome, R!At
<1>2. /\ task[h] \in RequestTaskType /\ RequestTaskIsSound(task[h])
      /\ task[h].table \in R!Tables /\ task[h].row \in R!Rows
      /\ active' = active
      /\ task[h].alone \/ <<task[h].table, task[h].row>> \in disturbed'
      /\ \A t \in R!Tables, q \in R!Rows :
           request'[t][q] = IF t = task[h].table /\ q = task[h].row THEN task[h].to
                            ELSE request[t][q]
  BY <1>1, RequestWritesStatus
<1>3. /\ task[h].table = "financing"
      /\ RequestShape(task[h]) /\ (task[h].alone => RequestCurrent(task[h]))
  BY <1>1, <1>2, RequestTables DEF RequestTaskIsSound
<1>4. {"fleet", "financing"} \subseteq R!Tables
  BY DEF R!Tables
<1>5. quoted \subseteq R!Rows /\ bank \in [R!Rows -> Banks \cup {None}]
  BY RequestTypeIs DEF RequestsInv, RequestRowsTyped
<1>6. /\ bank' \in [R!Rows -> Banks \cup {None}]
      /\ bank'[task[h].row] \in active
      /\ \A q \in R!Rows \ {task[h].row} : bank'[q] = bank[q]
  <2>1. CASE task[h].pc = "assign"
    <3>1. task[h].bank \in active /\ task[h].bank \in Banks \cup {None}
      BY <1>2, <1>3, <2>1 DEF RequestShape, RequestTaskType
    <3>2. QED
      BY <1>1, <1>2, <1>5, <2>1, <3>1
  <2>2. CASE task[h].pc = "outcome"
    BY <1>1, <1>2, <1>3, <1>5, <2>2 DEF RequestShape
  <2>3. QED
    BY <1>1, <2>1, <2>2
<1>7. \A q \in R!Rows : bank[q] \in active => bank'[q] \in active
  BY <1>6
<1>8. RequestsInv'
  BY <1>1, <1>3, <1>5, <1>6, <1>7, RequestDecided
<1>9. R!RequestStep
  <2>1. \A q \in R!Rows : request'["fleet"][q] = request["fleet"][q]
    BY <1>2, <1>3, <1>4
  <2>2. ASSUME NEW q \in R!Rows, <<"financing", q>> \notin disturbed',
               request["financing"][q] \in R!FinancingOutcome
        PROVE  request'["financing"][q] = request["financing"][q] /\ bank'[q] = bank[q]
    <3>1. CASE q = task[h].row
      <4>1. task[h].alone
        BY <1>2, <1>3, <2>2, <3>1
      <4>2. R!Status("financing", task[h].row) \in {"SUBMITTED", "UNDER_REVIEW", "SENT_TO_BANK"}
        BY <1>1, <1>3, <4>1 DEF RequestCurrent
      <4>3. QED
        BY <2>2, <3>1, <4>2 DEF R!Status, R!FinancingOutcome
    <3>2. CASE q # task[h].row
      BY <1>2, <1>4, <1>6, <3>2
    <3>3. QED
      BY <3>1, <3>2
  <2>3. QED
    BY <2>1, <2>2 DEF R!RequestStep, R!Status
<1>10. QED
  BY <1>8, <1>9

LEMMA RequestSetPreservesInv ==
  ASSUME RequestsInv, NEW h \in Handlers, R!CommitSetStatus(h)
  PROVE  RequestsInv' /\ R!RequestStep
<1>1. task[h].pc = "set" /\ R!WriteStatus(h) /\ quoted' = quoted /\ bank' = bank
  BY DEF R!CommitSetStatus, R!At
<1>2. /\ task[h] \in RequestTaskType /\ RequestTaskIsSound(task[h])
      /\ \A t \in R!Tables, q \in R!Rows :
           request'[t][q] = IF t = task[h].table /\ q = task[h].row THEN task[h].to
                            ELSE request[t][q]
  BY <1>1, RequestWritesStatus
<1>3. task[h].table \in {"energy", "inquiry"}
  BY <1>1, <1>2, RequestTables DEF RequestTaskIsSound
<1>4. {"fleet", "financing"} \subseteq R!Tables
  BY DEF R!Tables
<1>5. quoted \subseteq R!Rows /\ bank \in [R!Rows -> Banks \cup {None}]
  BY RequestTypeIs DEF RequestsInv, RequestRowsTyped
<1>6. RequestsInv'
  BY <1>1, <1>3, <1>5, RequestDecided
<1>7. R!RequestStep
  BY <1>1, <1>2, <1>3, <1>4 DEF R!RequestStep, R!Status
<1>8. QED
  BY <1>6, <1>7

\* The first handler is there to count a first photo for.
LEMMA RequestHandlersCount ==
  ASSUME NEW h \in Handlers
  PROVE  Cardinality(Handlers) \in Nat /\ Cardinality(Handlers) >= 1
<1>1. IsFiniteSet(Handlers) /\ Cardinality(Handlers) \in Nat
  BY PartnersBoundsOK, FS_CardinalityType
<1>2. Cardinality(Handlers) # 0
  BY <1>1, FS_EmptySet
<1>3. QED
  BY <1>1, <1>2

LEMMA RequestCreateProductPreservesInv ==
  ASSUME RequestsInv, NEW h \in Handlers, NEW r \in R!Rows, NEW pictures \in BOOLEAN,
         R!CreateProduct(h, r, pictures)
  PROVE  RequestsInv' /\ R!RequestStep
<1>1. /\ ~R!Exists("product", r)
      /\ request' = [request EXCEPT !["product"][r] = "ACTIVE"]
      /\ photos' = [photos EXCEPT ![r] = [some |-> pictures,
                                          primary |-> IF pictures THEN 1 ELSE 0]]
      /\ UNCHANGED <<quoted, bank, active, task, disturbed>>
  BY DEF R!CreateProduct
<1>2. {"fleet", "financing", "product"} \subseteq R!Tables
      /\ "ACTIVE" \in R!StatusesOf("product")
  BY RequestStatuses DEF R!Tables
<1>3. /\ RequestsAreRows'
      /\ \A t \in R!Tables, q \in R!Rows :
           request'[t][q] = IF t = "product" /\ q = r THEN "ACTIVE" ELSE request[t][q]
      /\ \A t \in R!Tables, q \in R!Rows :
           R!Status(t, q)' \in R!StatusesOf(t) \cup {"ABSENT"}
      /\ \A q \in R!Rows : R!Status("financing", q)' \notin {"UNDER_REVIEW", "CANCELLED"}
      /\ \A t \in R!Tables, q \in R!Rows : R!Exists(t, q) => R!Exists(t, q)'
  BY <1>1, <1>2, RequestWritten
<1>4. Cardinality(Handlers) \in Nat /\ Cardinality(Handlers) >= 1
  BY RequestHandlersCount
<1>5. photos \in [R!Rows -> [some : BOOLEAN, primary : 0 .. Cardinality(Handlers)]]
  BY RequestTypeIs DEF RequestsInv, RequestRowsTyped
<1>6. /\ photos' \in [R!Rows -> [some : BOOLEAN, primary : 0 .. Cardinality(Handlers)]]
      /\ photos'[r].some = pictures /\ photos'[r].primary = IF pictures THEN 1 ELSE 0
      /\ \A q \in R!Rows \ {r} : photos'[q] = photos[q]
  BY <1>1, <1>4, <1>5
<1>7. RequestRowsTyped'
  BY <1>1, <1>3, <1>6, RequestTypeIs DEF RequestsInv, RequestRowsTyped
<1>8. RequestsGrow
  BY <1>1, <1>3, <1>6 DEF RequestsGrow
<1>9. RequestFrame("none", 0)
  BY <1>1, <1>3, <1>6 DEF RequestFrame, R!Exists, R!Status
<1>10. /\ task' \in [Handlers -> RequestTaskType]
       /\ RequestTasksAreSound' /\ RequestTasksMeet'
  BY <1>1, <1>8, <1>9, RequestTasksStay
<1>11. R!RequestsAreSound'
  <2>1. \A q \in R!Rows : /\ photos'[q].some => photos'[q].primary >= 1
                          /\ photos'[q].primary <= 1 \/ <<"product", q>> \in disturbed
    <3>1. (pictures => photos'[r].primary = 1) /\ (~pictures => photos'[r].primary = 0)
      BY <1>6
    <3>2. /\ photos'[r].some => photos'[r].primary >= 1
          /\ photos'[r].primary <= 1
      BY <1>6, <3>1
    <3>3. QED
      BY <1>6, <3>2 DEF RequestsInv, R!RequestsAreSound
  <2>2. \A q \in R!Rows : /\ request'["fleet"][q] = request["fleet"][q]
                          /\ request'["financing"][q] = request["financing"][q]
    BY <1>2, <1>3
  <2>3. QED
    BY <1>1, <2>1, <2>2 DEF RequestsInv, R!RequestsAreSound, R!Status
<1>12. PrimariesAreBounded'
  <2>1. \A q \in R!Rows : FirstPhotos(q)' = FirstPhotos(q)
    BY <1>1 DEF FirstPhotos
  <2>2. FirstPhotos(r) = {}
    BY <1>1 DEF FirstPhotos, RequestsInv, RequestTasksAreSound, RequestTaskIsSound,
                RequestShape
  <2>3. photos'[r].primary + Cardinality(FirstPhotos(r)') <= Cardinality(Handlers)
    BY <1>4, <1>6, <2>1, <2>2, FS_EmptySet
  <2>4. QED
    BY <1>6, <2>1, <2>3 DEF RequestsInv, PrimariesAreBounded
<1>13. R!RequestStep
  BY <1>1, <1>2, <1>3 DEF R!RequestStep, R!Status
<1>14. QED
  BY <1>3, <1>7, <1>10, <1>11, <1>12, <1>13, RequestTypeIs DEF RequestsInv

LEMMA RequestUpdateProductPreservesInv ==
  ASSUME RequestsInv, NEW h \in Handlers, R!CommitUpdateProduct(h)
  PROVE  RequestsInv' /\ R!RequestStep
<1> DEFINE r == task[h].row
           n == IF task[h].pictured THEN photos[r].primary ELSE photos[r].primary + 1
<1>1. /\ task[h].pc = "photos" /\ R!Finish(h)
      /\ photos' = [photos EXCEPT ![r] = [some |-> TRUE, primary |-> n]]
      /\ disturbed' = IF task[h].alone THEN disturbed
                      ELSE disturbed \cup {<<task[h].table, r>>}
      /\ UNCHANGED <<request, quoted, bank, active>>
  BY DEF R!CommitUpdateProduct, R!Complete, R!At
<1>2. /\ task[h] \in RequestTaskType
      /\ RequestShape(task[h]) /\ (task[h].alone => RequestCurrent(task[h]))
  BY RequestTypeIs DEF RequestsInv, RequestTasksAreSound, RequestTaskIsSound
<1>3. /\ task[h].table = "product" /\ r \in R!Rows
      /\ task[h].pictured => photos[r].some
      /\ task[h].alone => task[h].pictured = photos[r].some
      /\ task[h].pictured \in BOOLEAN
  BY <1>1, <1>2, RequestTables DEF RequestShape, RequestCurrent, RequestTaskType
<1>4. photos \in [R!Rows -> [some : BOOLEAN, primary : 0 .. Cardinality(Handlers)]]
  BY RequestTypeIs DEF RequestsInv, RequestRowsTyped
<1>5. /\ IsFiniteSet(FirstPhotos(r)) /\ Cardinality(FirstPhotos(r)) \in Nat
      /\ Cardinality(Handlers) \in Nat
      /\ Cardinality(FirstPhotos(r)) <= Cardinality(Handlers)
      /\ ~task[h].pictured => Cardinality(FirstPhotos(r) \ {h}) = Cardinality(FirstPhotos(r)) - 1
      /\ task[h].pictured => FirstPhotos(r) \ {h} = FirstPhotos(r)
  <2>1. FirstPhotos(r) \subseteq Handlers /\ IsFiniteSet(Handlers)
    BY PartnersBoundsOK DEF FirstPhotos
  <2>2. /\ IsFiniteSet(FirstPhotos(r)) /\ Cardinality(FirstPhotos(r)) \in Nat
        /\ Cardinality(Handlers) \in Nat
        /\ Cardinality(FirstPhotos(r)) <= Cardinality(Handlers)
    BY <2>1, FS_Subset, FS_CardinalityType
  <2>3. ~task[h].pictured => h \in FirstPhotos(r)
    BY <1>1 DEF FirstPhotos
  <2>4. task[h].pictured => h \notin FirstPhotos(r)
    BY DEF FirstPhotos
  <2>5. ~task[h].pictured => Cardinality(FirstPhotos(r) \ {h}) = Cardinality(FirstPhotos(r)) - 1
    BY <2>2, <2>3, FS_RemoveElement
  <2>6. task[h].pictured => FirstPhotos(r) \ {h} = FirstPhotos(r)
    BY <2>4
  <2>7. QED
    BY <2>2, <2>5, <2>6
<1>6. /\ photos[r].primary \in Nat /\ n \in Nat /\ n <= photos[r].primary + 1
      /\ n + Cardinality(FirstPhotos(r) \ {h}) <= Cardinality(Handlers)
      /\ n >= 1
      /\ photos[r].primary <= 1 /\ task[h].alone => n <= 1
  <2>1. /\ photos[r].primary \in Nat
        /\ ~photos[r].some => photos[r].primary = 0
        /\ photos[r].some => photos[r].primary >= 1
        /\ photos[r].some => photos[r].primary + Cardinality(FirstPhotos(r))
                               <= Cardinality(Handlers)
    <3>1. /\ ~photos[r].some => photos[r].primary = 0
          /\ photos[r].some => photos[r].primary + Cardinality(FirstPhotos(r))
                                 <= Cardinality(Handlers)
      BY <1>3 DEF RequestsInv, PrimariesAreBounded
    <3>2. photos[r].some => photos[r].primary >= 1
      BY <1>3 DEF RequestsInv, R!RequestsAreSound
    <3>3. photos[r].primary \in 0 .. Cardinality(Handlers)
      BY <1>3, <1>4
    <3>4. QED
      BY <1>5, <3>1, <3>2, <3>3
  <2>2. CASE task[h].pictured
    BY <1>3, <1>5, <2>1, <2>2
  <2>3. CASE ~task[h].pictured
    BY <1>3, <1>5, <2>1, <2>3
  <2>4. QED
    BY <2>2, <2>3
<1>7. n \in 0 .. Cardinality(Handlers)
  <2>1. Cardinality(FirstPhotos(r) \ {h}) \in Nat
    BY <1>5, FS_Subset, FS_CardinalityType
  <2>2. QED
    BY <1>5, <1>6, <2>1
<1>8. /\ photos' \in [R!Rows -> [some : BOOLEAN, primary : 0 .. Cardinality(Handlers)]]
      /\ photos'[r].some = TRUE /\ photos'[r].primary = n
      /\ \A q \in R!Rows \ {r} : photos'[q] = photos[q]
  BY <1>1, <1>3, <1>4, <1>7
<1>9. RequestRowsTyped' /\ RequestsAreRows' /\ R!RequestStep
  BY <1>1, <1>8, RequestTypeIs
  DEF RequestsInv, RequestRowsTyped, RequestsAreRows, R!RequestStep, R!Status
<1>10. RequestsGrow
  BY <1>1, <1>8 DEF RequestsGrow, R!Exists, R!Status
<1>11. RequestFrame(task[h].table, task[h].row)
  BY <1>1, <1>3, <1>8 DEF RequestFrame, R!Exists, R!Status
<1>12. /\ task' \in [Handlers -> RequestTaskType]
       /\ RequestTasksAreSound' /\ RequestTasksMeet'
       /\ \A q \in R!Rows : FirstPhotos(q)' = FirstPhotos(q) \ {h}
  BY <1>1, <1>10, <1>11, RequestFinishes
<1>13. R!RequestsAreSound'
  <2>1. ASSUME NEW q \in R!Rows
        PROVE  /\ photos'[q].some => photos'[q].primary >= 1
               /\ photos'[q].primary <= 1 \/ <<"product", q>> \in disturbed'
    <3>1. photos[q].primary <= 1 \/ <<"product", q>> \in disturbed
      BY DEF RequestsInv, R!RequestsAreSound
    <3>2. CASE q = r
      BY <1>1, <1>3, <1>6, <1>8, <3>1, <3>2
    <3>3. CASE q # r
      BY <1>1, <1>8, <3>1, <3>3 DEF RequestsInv, R!RequestsAreSound
    <3>4. QED
      BY <3>2, <3>3
  <2>2. disturbed \subseteq disturbed'
    BY <1>1
  <2>3. QED
    BY <1>1, <2>1, <2>2 DEF RequestsInv, R!RequestsAreSound, R!Status
<1>14. PrimariesAreBounded'
  <2>1. ASSUME NEW q \in R!Rows \ {r}
        PROVE  /\ ~photos'[q].some => photos'[q].primary = 0
               /\ photos'[q].some => photos'[q].primary + Cardinality(FirstPhotos(q)')
                                       <= Cardinality(Handlers)
    <3>1. FirstPhotos(q)' = FirstPhotos(q)
      BY <1>12 DEF FirstPhotos
    <3>2. QED
      BY <1>8, <3>1 DEF RequestsInv, PrimariesAreBounded
  <2>2. photos'[r].primary + Cardinality(FirstPhotos(r) \ {h}) <= Cardinality(Handlers)
    BY <1>6, <1>8
  <2>3. \A q \in R!Rows : q = r => FirstPhotos(q)' = FirstPhotos(r) \ {h}
    BY <1>12
  <2>4. QED
    BY <1>8, <2>1, <2>2, <2>3 DEF PrimariesAreBounded
<1>15. QED
  BY <1>9, <1>12, <1>13, <1>14, RequestTypeIs DEF RequestsInv

\* What a decision that starts carries.
LEMMA RequestDecision ==
  ASSUME NEW pc \in {"insert", "fleet", "findBank", "outcome", "set", "photos"},
         NEW tb \in R!Tables, NEW r \in R!Rows, NEW to \in R!StatusesOf(tb)
  PROVE  \E d \in RequestTaskType :
           /\ d = R!Decision(pc, tb, r, to)
           /\ d.pc = pc /\ d.table = tb /\ d.row = r /\ d.to = to
<1>1. R!Idle \in RequestTaskType
  BY RequestIdleType
<1>2. to \in R!FleetRequestStatus \cup R!FinancingStatus \cup R!EnergyStatus
              \cup R!InquiryStatus \cup {"ACTIVE", "none"}
  BY RequestStatuses DEF R!Tables
<1> DEFINE d == [R!Idle EXCEPT !.pc = pc, !.table = tb, !.row = r, !.to = to]
<1>3. d \in RequestTaskType
  BY <1>1, <1>2 DEF RequestTaskType
<1>4. d.pc = pc /\ d.table = tb /\ d.row = r /\ d.to = to
  BY <1>1 DEF RequestTaskType
<1>5. d = R!Decision(pc, tb, r, to)
  BY DEF R!Decision
<1> HIDE DEF d
<1>6. QED
  BY <1>3, <1>4, <1>5

LEMMA RequestTablesOfDecisions ==
  /\ "fleet" \in RequestTable("fleet") /\ "financing" \in RequestTable("findBank")
  /\ "financing" \in RequestTable("outcome") /\ "product" \in RequestTable("photos")
  /\ {"energy", "inquiry"} \subseteq RequestTable("set")
  /\ {"fleet", "inquiry"} \subseteq RequestTable("insert")
  BY DEF RequestTable

LEMMA RequestBeginSubmitPreservesInv ==
  ASSUME RequestsInv, NEW h \in Handlers, NEW tb \in R!Tables, R!BeginSubmitNumbered(h, tb)
  PROVE  RequestsInv' /\ R!RequestStep
<1> DEFINE to == IF tb = "fleet" THEN "SUBMITTED" ELSE "RECEIVED"
<1>1. tb \in {"fleet", "inquiry"}
  BY DEF R!BeginSubmitNumbered
<1>2. PICK r \in R!Rows : R!Start(h, R!Decision("insert", tb, r, to))
  BY DEF R!BeginSubmitNumbered
<1>3. to \in R!StatusesOf(tb) /\ to \in {"SUBMITTED", "RECEIVED"}
  BY <1>1, RequestStatuses DEF R!FleetRequestStatus, R!InquiryStatus
<1>4. PICK t \in RequestTaskType :
        /\ t = R!Decision("insert", tb, r, to)
        /\ t.pc = "insert" /\ t.table = tb /\ t.row = r /\ t.to = to
  BY <1>3, RequestDecision
<1>5. RequestShape(t) /\ RequestCurrent(t)
  BY <1>1, <1>3, <1>4, RequestTablesOfDecisions DEF RequestShape, RequestCurrent
<1>6. QED
  BY <1>2, <1>4, <1>5, RequestStartPreservesInv

LEMMA RequestBeginFleetPreservesInv ==
  ASSUME RequestsInv, NEW h \in Handlers, NEW r \in R!Rows, NEW to \in R!FleetRequestStatus,
         R!BeginFleetDecision(h, r, to)
  PROVE  RequestsInv' /\ R!RequestStep
<1>1. PICK q \in BOOLEAN : q <=> r \in quoted
  OBVIOUS
<1>2. PICK d \in RequestTaskType :
        /\ d = R!Decision("fleet", "fleet", r, to)
        /\ d.pc = "fleet" /\ d.table = "fleet" /\ d.row = r /\ d.to = to
  BY RequestDecision, RequestStatuses DEF R!Tables
<1>3. PICK t \in RequestTaskType : t = [d EXCEPT !.quoted = q]
  BY DEF RequestTaskType
<1>4. /\ t.pc = "fleet" /\ t.table = "fleet" /\ t.row = r /\ t.to = to
      /\ t.quoted = q
  BY <1>2, <1>3 DEF RequestTaskType
<1>5. /\ R!Exists("fleet", r) /\ R!CanFleetTransition(R!Status("fleet", r), to)
      /\ R!Start(h, t)
  BY <1>1, <1>2, <1>3 DEF R!BeginFleetDecision
<1>6. RequestShape(t) /\ RequestCurrent(t)
  <2>1. RequestShape(t)
    BY <1>4, <1>5, RequestStatuses, RequestTablesOfDecisions DEF RequestShape
  <2>2. RequestCurrent(t)
    BY <1>1, <1>4, <1>5 DEF RequestCurrent
  <2>3. QED
    BY <2>1, <2>2
<1>7. QED
  BY <1>4, <1>5, <1>6, RequestStartPreservesInv

LEMMA RequestBeginBankPreservesInv ==
  ASSUME RequestsInv, NEW h \in Handlers, NEW r \in R!Rows, NEW b \in Banks,
         R!BeginAssignBank(h, r, b)
  PROVE  RequestsInv' /\ R!RequestStep
<1>1. "SENT_TO_BANK" \in R!StatusesOf("financing") /\ "financing" \in R!Tables
  BY RequestStatuses DEF R!FinancingStatus, R!Tables
<1>2. PICK d \in RequestTaskType :
        /\ d = R!Decision("findBank", "financing", r, "SENT_TO_BANK")
        /\ d.pc = "findBank" /\ d.table = "financing" /\ d.row = r /\ d.to = "SENT_TO_BANK"
  BY <1>1, RequestDecision
<1>3. PICK t \in RequestTaskType : t = [d EXCEPT !.bank = b]
  BY DEF RequestTaskType
<1>4. /\ t.pc = "findBank" /\ t.table = "financing" /\ t.row = r /\ t.to = "SENT_TO_BANK"
  BY <1>2, <1>3 DEF RequestTaskType
<1>5. /\ R!Status("financing", r) \in {"SUBMITTED", "UNDER_REVIEW"} /\ R!Start(h, t)
  BY <1>2, <1>3 DEF R!BeginAssignBank
<1>6. RequestShape(t) /\ RequestCurrent(t)
  BY <1>1, <1>4, <1>5, RequestTablesOfDecisions DEF RequestShape, RequestCurrent
<1>7. QED
  BY <1>4, <1>5, <1>6, RequestStartPreservesInv

LEMMA RequestBeginOutcomePreservesInv ==
  ASSUME RequestsInv, NEW h \in Handlers, NEW r \in R!Rows, NEW to \in R!FinancingOutcome,
         R!BeginRecordOutcome(h, r, to)
  PROVE  RequestsInv' /\ R!RequestStep
<1>1. to \in R!StatusesOf("financing") /\ "financing" \in R!Tables
  BY RequestStatuses DEF R!FinancingStatus, R!FinancingOutcome, R!Tables
<1>2. PICK t \in RequestTaskType :
        /\ t = R!Decision("outcome", "financing", r, to)
        /\ t.pc = "outcome" /\ t.table = "financing" /\ t.row = r /\ t.to = to
  BY <1>1, RequestDecision
<1>3. /\ R!Status("financing", r) = "SENT_TO_BANK" /\ R!Start(h, t)
  BY <1>2 DEF R!BeginRecordOutcome
<1>4. bank[r] \in active
  BY <1>3 DEF RequestsInv, R!RequestsAreSound
<1>5. RequestShape(t) /\ RequestCurrent(t)
  BY <1>1, <1>2, <1>3, <1>4, RequestTablesOfDecisions DEF RequestShape, RequestCurrent
<1>6. QED
  BY <1>2, <1>3, <1>5, RequestStartPreservesInv

LEMMA RequestBeginSetPreservesInv ==
  ASSUME RequestsInv, NEW h \in Handlers, NEW r \in R!Rows, NEW tb \in R!Tables,
         NEW to \in R!EnergyStatus \cup R!InquiryStatus, R!BeginSetStatus(h, tb, r, to)
  PROVE  RequestsInv' /\ R!RequestStep
<1>1. tb \in {"energy", "inquiry"} /\ to \in R!StatusesOf(tb)
  BY RequestStatuses DEF R!BeginSetStatus
<1>2. PICK t \in RequestTaskType :
        /\ t = R!Decision("set", tb, r, to)
        /\ t.pc = "set" /\ t.table = tb /\ t.row = r /\ t.to = to
  BY <1>1, RequestDecision
<1>3. R!Start(h, t)
  BY <1>2 DEF R!BeginSetStatus
<1>4. RequestShape(t) /\ RequestCurrent(t)
  BY <1>1, <1>2, RequestTablesOfDecisions DEF RequestShape, RequestCurrent
<1>5. QED
  BY <1>2, <1>3, <1>4, RequestStartPreservesInv

LEMMA RequestBeginPhotosPreservesInv ==
  ASSUME RequestsInv, NEW h \in Handlers, NEW r \in R!Rows, R!BeginUpdateProduct(h, r)
  PROVE  RequestsInv' /\ R!RequestStep
<1>1. PICK p \in BOOLEAN : p = photos[r].some
  BY RequestTypeIs DEF RequestsInv, RequestRowsTyped
<1>2. "ACTIVE" \in R!StatusesOf("product") /\ "product" \in R!Tables
  BY RequestStatuses DEF R!Tables
<1>3. PICK d \in RequestTaskType :
        /\ d = R!Decision("photos", "product", r, "ACTIVE")
        /\ d.pc = "photos" /\ d.table = "product" /\ d.row = r /\ d.to = "ACTIVE"
  BY <1>2, RequestDecision
<1>4. PICK t \in RequestTaskType : t = [d EXCEPT !.pictured = p]
  BY DEF RequestTaskType
<1>5. /\ t.pc = "photos" /\ t.table = "product" /\ t.row = r /\ t.to = "ACTIVE"
      /\ t.pictured = p
  BY <1>3, <1>4 DEF RequestTaskType
<1>6. R!Exists("product", r) /\ R!Start(h, t)
  BY <1>1, <1>3, <1>4 DEF R!BeginUpdateProduct
<1>7. RequestShape(t) /\ RequestCurrent(t)
  <2>1. RequestShape(t)
    BY <1>1, <1>2, <1>5, <1>6, RequestTablesOfDecisions DEF RequestShape
  <2>2. RequestCurrent(t)
    BY <1>1, <1>5 DEF RequestCurrent
  <2>3. QED
    BY <2>1, <2>2
<1>8. QED
  BY <1>5, <1>6, <1>7, RequestStartPreservesInv

LEMMA RequestsNextPreservesInv ==
  ASSUME RequestsInv, R!Next
  PROVE  RequestsInv' /\ R!RequestStep
<1>1. PICK h \in Handlers : \/ \E tb \in R!Tables : R!BeginSubmitNumbered(h, tb)
                            \/ \E b \in Banks : R!CreateBank(h, b)
                            \/ \E r \in R!Rows : R!Begin(h, r)
                            \/ R!Continue(h)
                            \/ R!Crash(h)
  BY DEF R!Next
<1>2. CASE \E tb \in R!Tables : R!BeginSubmitNumbered(h, tb)
  BY <1>2, RequestBeginSubmitPreservesInv
<1>3. CASE \E b \in Banks : R!CreateBank(h, b)
  BY <1>3, RequestCreateBankPreservesInv
<1>4. ASSUME NEW r \in R!Rows, R!Begin(h, r)
      PROVE  RequestsInv' /\ R!RequestStep
  BY <1>4, RequestSubmitPreservesInv, RequestCreateProductPreservesInv,
     RequestBeginPhotosPreservesInv, RequestBeginFleetPreservesInv,
     RequestBeginBankPreservesInv, RequestBeginOutcomePreservesInv,
     RequestBeginSetPreservesInv
  DEF R!Begin
<1>5. CASE R!Continue(h)
  BY <1>5, RequestSubmitNumberedPreservesInv, RequestFleetPreservesInv,
     RequestFindBankPreservesInv, RequestFinancingPreservesInv, RequestSetPreservesInv,
     RequestUpdateProductPreservesInv
  DEF R!Continue
<1>6. CASE R!Crash(h)
  BY <1>6, RequestCrashPreservesInv DEF R!Crash, R!At
<1>7. QED
  BY <1>1, <1>2, <1>3, <1>4, <1>5, <1>6

LEMMA RequestsStutter ==
  ASSUME RequestsInv, UNCHANGED <<ofRequests, task, disturbed>>
  PROVE  RequestsInv' /\ R!RequestStep
<1>1. UNCHANGED <<request, quoted, bank, active, photos, task, disturbed>>
  BY DEF ofRequests
<1>2. /\ RequestRowsTyped' /\ RequestsAreRows' /\ R!RequestsAreSound' /\ R!RequestStep
      /\ RequestsGrow /\ RequestFrame("none", 0)
  BY <1>1, RequestRowsStay
<1>3. /\ task' \in [Handlers -> RequestTaskType]
      /\ RequestTasksAreSound' /\ RequestTasksMeet'
  BY <1>1, <1>2, RequestTasksStay
<1>4. PrimariesAreBounded'
  BY <1>1, RequestPhotosStay DEF FirstPhotos
<1>5. QED
  BY <1>2, <1>3, <1>4, RequestTypeIs DEF RequestsInv

-----------------------------------------------------------------------------
(* Charging: operators and stations *)

OnOperator == {"apply", "edit", "approve", "reject"}

\* What the tasks of each kind are about.
StationMatter(pc) ==
  CASE pc = "update" -> "details"
    [] pc \in {"submit", "review"} -> "status"
    [] pc \in {"addPort", "setPort", "count"} -> "ports"
    [] pc \in {"openTariff", "setTariff"} -> "tariff"
    [] pc = "photos" -> "photos"
OnStation == {"update", "submit", "review", "addPort", "setPort", "count", "openTariff",
              "setTariff", "photos"}

ChargingShape(t) ==
  /\ t.pc = "idle" => t.on = None /\ t.matter = "none"
  /\ t.pc \in OnOperator => t.on \in Operators /\ t.matter = "operator"
  /\ t.pc \in OnStation => /\ t.on \in Stations /\ t.matter = StationMatter(t.pc)
                           /\ station[t.on].status # "ABSENT"
  /\ t.pc = "update" => t.to \in {"OPERATIONAL", "OFFLINE"}
  /\ t.pc = "review" => t.to \in C!StationDecisions
  /\ t.pc \in {"addPort", "setPort"} =>
       t.to \in C!PortState \cup {"none"} /\ t.total = -1 /\ t.available = -1
  /\ t.pc = "setPort" => t.port \in Ports
  /\ t.pc = "photos" => t.add > 0

ChargingCurrent(t) ==
  /\ t.pc = "submit" => station[t.on].status \in {"DRAFT", "REJECTED"}
  /\ t.pc = "review" => C!CanStationTransition(station[t.on].status, t.to)
  /\ t.pc = "count" => /\ t.total >= 0 => t.total = Cardinality(C!ActivePorts(t.on))
                       /\ t.available >= 0 => t.available = Cardinality(C!FreePorts(t.on))
  /\ t.pc = "setTariff" => t.old = tariff[t.on]
  /\ t.pc = "photos" => t.read = station[t.on].photos

ChargingTaskIsSound(t) == ChargingShape(t) /\ (t.alone => ChargingCurrent(t))
ChargingTasksAreSound == \A h \in Handlers : ChargingTaskIsSound(task[h])

ChargingTasksMeet ==
  \A g, h \in Handlers : g # h /\ task[g].pc # "idle"
    /\ task[g].on = task[h].on /\ task[g].matter = task[h].matter
    => ~task[g].alone

\* The rows are well formed; a station that is not there has nothing.
OperatorType ==
  [status : C!OperatorStatus \cup {"NONE"}, verified : BOOLEAN, role : BOOLEAN,
   edited : BOOLEAN]
StationType ==
  [status : C!StationStatus \cup {"ABSENT"}, owner : Operators \cup {None},
   operational : {"OPERATIONAL", "OFFLINE"}, located : BOOLEAN, published : BOOLEAN,
   total : Int, available : Int, photos : Nat, primaries : Nat]
OperatorsAreSound ==
  /\ operator \in [Operators -> OperatorType]
  /\ \A o \in Operators : /\ operator[o].verified <=> operator[o].status = "ACTIVE"
                          /\ operator[o].verified => operator[o].role
StationsAreSound ==
  /\ station \in [Stations -> StationType]
  /\ tariff \in [Stations -> SUBSET Tariffs]
  /\ port \in [Stations -> [Ports -> C!PortState \cup {"none"}]]
  /\ \A s \in Stations : station[s].status = "ABSENT" =>
       /\ port[s] = [p \in Ports |-> "none"]
       /\ station[s].photos = 0 /\ station[s].primaries = 0 /\ tariff[s] = {}

\* One active tariff and one primary photo, where nothing overlapped.
OneIsKept ==
  \A s \in Stations :
    /\ <<s, "tariff">> \notin disturbed => \A a, b \in tariff[s] : a = b
    /\ <<s, "photos">> \notin disturbed =>
         station[s].primaries = IF station[s].photos = 0 THEN 0 ELSE 1

ChargingInv ==
  /\ task \in [Handlers -> C!TaskType]
  /\ ChargingTasksAreSound /\ ChargingTasksMeet
  /\ OperatorsAreSound /\ StationsAreSound /\ C!CountsAgree /\ OneIsKept

ChargingIInv == work = "charging" => ChargingInv

LEMMA ChargingCardinality == \A S : C!Cardinality(S) = Cardinality(S)
  BY DEF C!Cardinality, Cardinality

LEMMA ChargingInvIsTyped == ChargingInv => C!TypeOK
<1> SUFFICES ASSUME ChargingInv
             PROVE  C!TypeOK
  OBVIOUS
<1>1. \A o \in Operators :
        /\ operator[o].status \in C!OperatorStatus \cup {"NONE"}
        /\ operator[o].verified = (operator[o].status = "ACTIVE")
        /\ operator[o].verified => operator[o].role
  BY DEF ChargingInv, OperatorsAreSound, OperatorType
<1>2. \A s \in Stations :
        /\ station[s].status \in C!StationStatus \cup {"ABSENT"}
        /\ station[s].owner \in Operators \cup {None}
        /\ station[s].photos \in Nat /\ station[s].primaries \in Nat
  BY DEF ChargingInv, StationsAreSound, StationType
<1>3. QED
  BY <1>1, <1>2 DEF ChargingInv, StationsAreSound, C!TypeOK

LEMMA ChargingInvHasOneOfEach == ChargingInv => C!OneOfEach
<1> SUFFICES ASSUME ChargingInv, NEW s \in Stations
             PROVE  /\ C!Undisturbed(s, "tariff") => Cardinality(tariff[s]) <= 1
                    /\ C!Undisturbed(s, "photos") =>
                         station[s].primaries = IF station[s].photos = 0 THEN 0 ELSE 1
  BY ChargingCardinality DEF C!OneOfEach
<1>1. ASSUME <<s, "tariff">> \notin disturbed
      PROVE  Cardinality(tariff[s]) <= 1
  <2>1. \A a, b \in tariff[s] : a = b
    BY <1>1 DEF ChargingInv, OneIsKept
  <2>2. CASE tariff[s] = {}
    BY <2>2, FS_EmptySet
  <2>3. ASSUME NEW a \in tariff[s]
        PROVE  Cardinality(tariff[s]) = 1
    <3>1. tariff[s] = {a}
      BY <2>1, <2>3
    <3>2. QED
      BY <3>1, FS_Singleton
  <2>4. QED
    BY <2>2, <2>3
<1>2. QED
  BY <1>1 DEF ChargingInv, OneIsKept, C!Undisturbed

LEMMA ChargingIdle ==
  /\ C!Idle.pc = "idle" /\ C!Idle.on = None /\ C!Idle.matter = "none"
  BY DEF C!Idle

LEMMA ChargingPorts == Cardinality(Ports) \in Nat /\ IsFiniteSet(Ports)
  BY PartnersBoundsOK, FS_CardinalityType

LEMMA ChargingIdleType == C!Idle \in C!TaskType
<1>1. 0 <= MaxPhotos /\ MaxPhotos \in Nat
  BY PartnersBoundsOK
<1>2. QED
  BY <1>1, ChargingPorts, ChargingCardinality DEF C!Idle, C!Unstated, C!TaskType

LEMMA ChargingIdleIsSound == ChargingTaskIsSound(C!Idle) /\ ChargingTaskIsSound(C!Idle)'
  BY ChargingIdle
  DEF ChargingTaskIsSound, ChargingShape, ChargingCurrent, OnOperator, OnStation

LEMMA ChargingInitInv == C!Init => ChargingInv
<1> SUFFICES ASSUME C!Init
             PROVE  ChargingInv
  OBVIOUS
<1>1. /\ tariff = [s \in Stations |-> {}] /\ task = [h \in Handlers |-> C!Idle]
      /\ disturbed = {}
  BY DEF C!Init
<1>2. task \in [Handlers -> C!TaskType] /\ \A h \in Handlers : task[h] = C!Idle
  BY <1>1, ChargingIdleType
<1>3. ChargingTasksAreSound /\ ChargingTasksMeet
  BY <1>2, ChargingIdle, ChargingIdleIsSound DEF ChargingTasksAreSound, ChargingTasksMeet
<1>4. ASSUME operator = [o \in Operators |-> C!NoOperator],
             station = [s \in Stations |-> C!NoStation],
             port = [s \in Stations |-> [p \in Ports |-> "none"]]
      PROVE  OperatorsAreSound /\ StationsAreSound /\ C!CountsAgree /\ OneIsKept
  <2>1. OperatorsAreSound
    BY <1>4 DEF OperatorsAreSound, OperatorType, C!NoOperator
  <2>2. StationsAreSound
    BY <1>1, <1>4 DEF StationsAreSound, StationType, C!NoStation, C!Unstated
  <2>3. \A s \in Stations : /\ station[s].total = 0 /\ station[s].available = C!Unstated
                            /\ station[s].photos = 0 /\ station[s].primaries = 0
                            /\ C!ActivePorts(s) = {} /\ C!FreePorts(s) = {}
    BY <1>4 DEF C!NoStation, C!ActivePorts, C!FreePorts
  <2>4. C!CountsAgree
    BY <2>3, FS_EmptySet, ChargingCardinality DEF C!CountsAgree, C!CountsAreRight
  <2>5. OneIsKept
    BY <1>1, <2>3 DEF OneIsKept
  <2>6. QED
    BY <2>1, <2>2, <2>4, <2>5
<1>5. ASSUME NEW o \in Operators, NEW first \in Ports,
             operator = [n \in Operators |->
               [status |-> "ACTIVE", verified |-> TRUE, role |-> TRUE, edited |-> FALSE]],
             station = [s \in Stations |->
               [C!NoStation EXCEPT !.status = "DRAFT", !.owner = o, !.located = TRUE,
                                   !.total = 1, !.available = 1,
                                   !.photos = 1, !.primaries = 1]],
             port = [s \in Stations |-> [p \in Ports |-> IF p = first THEN "free" ELSE "none"]]
      PROVE  OperatorsAreSound /\ StationsAreSound /\ C!CountsAgree /\ OneIsKept
  <2>1. OperatorsAreSound
    BY <1>5 DEF OperatorsAreSound, OperatorType, C!OperatorStatus
  <2>2. \A s \in Stations : /\ station[s] \in StationType /\ station[s].status = "DRAFT"
                            /\ station[s].total = 1 /\ station[s].available = 1
                            /\ station[s].photos = 1 /\ station[s].primaries = 1
                            /\ C!ActivePorts(s) = {first} /\ C!FreePorts(s) = {first}
    <3>1. \A s \in Stations : /\ station[s] \in StationType /\ station[s].status = "DRAFT"
                              /\ station[s].total = 1 /\ station[s].available = 1
                              /\ station[s].photos = 1 /\ station[s].primaries = 1
      <4>1. SUFFICES ASSUME NEW s \in Stations
                     PROVE  /\ station[s] \in StationType /\ station[s].status = "DRAFT"
                            /\ station[s].total = 1 /\ station[s].available = 1
                            /\ station[s].photos = 1 /\ station[s].primaries = 1
        OBVIOUS
      <4>2. station[s] = [status |-> "DRAFT", owner |-> o, operational |-> "OPERATIONAL",
                          located |-> TRUE, published |-> FALSE, total |-> 1,
                          available |-> 1, photos |-> 1, primaries |-> 1]
        BY <1>5 DEF C!NoStation
      <4>3. QED
        BY <4>2 DEF StationType, C!StationStatus
    <3>2. \A s \in Stations : C!ActivePorts(s) = {first} /\ C!FreePorts(s) = {first}
      BY <1>5 DEF C!ActivePorts, C!FreePorts
    <3>3. QED
      BY <3>1, <3>2
  <2>3. StationsAreSound
    BY <1>1, <1>5, <2>2 DEF StationsAreSound, C!PortState
  <2>4. C!CountsAgree
    BY <2>2, FS_Singleton, ChargingCardinality DEF C!CountsAgree, C!CountsAreRight
  <2>5. OneIsKept
    BY <1>1, <2>2 DEF OneIsKept
  <2>6. QED
    BY <2>1, <2>3, <2>4, <2>5
<1>6. OperatorsAreSound /\ StationsAreSound /\ C!CountsAgree /\ OneIsKept
  BY <1>4, <1>5 DEF C!Init
<1>7. QED
  BY <1>2, <1>3, <1>6 DEF ChargingInv

LEMMA ChargingMatters ==
  /\ StationMatter("update") = "details"
  /\ StationMatter("submit") = "status" /\ StationMatter("review") = "status"
  /\ StationMatter("addPort") = "ports" /\ StationMatter("setPort") = "ports"
  /\ StationMatter("count") = "ports"
  /\ StationMatter("openTariff") = "tariff" /\ StationMatter("setTariff") = "tariff"
  /\ StationMatter("photos") = "photos"
  BY DEF StationMatter

\* A task in progress is about an operator or a matter of a station.
LEMMA ChargingKinds ==
  ASSUME NEW t \in C!TaskType, ChargingShape(t), t.pc # "idle"
  PROVE  /\ t.matter # "none"
         /\ \/ t.pc \in OnOperator /\ t.on \in Operators /\ t.matter = "operator"
            \/ /\ t.pc \in OnStation /\ t.on \in Stations
               /\ t.matter = StationMatter(t.pc) /\ station[t.on].status # "ABSENT"
<1>1. t.pc \in OnOperator \cup OnStation
  BY DEF C!TaskType, OnOperator, OnStation
<1>2. CASE t.pc \in OnOperator
  BY <1>2 DEF ChargingShape
<1>3. CASE t.pc \in OnStation
  <2>1. t.matter = StationMatter(t.pc)
    BY <1>3 DEF ChargingShape
  <2>2. StationMatter(t.pc) # "none"
    BY <1>3, ChargingMatters DEF OnStation
  <2>3. QED
    BY <1>3, <2>1, <2>2 DEF ChargingShape
<1>4. QED
  BY <1>1, <1>2, <1>3

\* A step changes nothing that a task read but matter m of x.
ChargingFrame(x, m) ==
  /\ \A s \in Stations : station[s].status # "ABSENT" =>
       /\ station'[s].status # "ABSENT"
       /\ <<s, "status">> # <<x, m>> => station'[s].status = station[s].status
       /\ <<s, "photos">> # <<x, m>> => station'[s].photos = station[s].photos
  /\ \A s \in Stations : <<s, "ports">> # <<x, m>> => port'[s] = port[s]
  /\ \A s \in Stations : <<s, "tariff">> # <<x, m>> => tariff'[s] = tariff[s]

\* Task g is what it was, but no longer alone when it is about matter m of x.
ChargingBystander(g, x, m) ==
  /\ task'[g].pc = task[g].pc /\ task'[g].on = task[g].on
  /\ task'[g].matter = task[g].matter /\ task'[g].to = task[g].to
  /\ task'[g].port = task[g].port /\ task'[g].total = task[g].total
  /\ task'[g].available = task[g].available /\ task'[g].old = task[g].old
  /\ task'[g].read = task[g].read /\ task'[g].add = task[g].add
  /\ task'[g].alone /\ task[g].pc # "idle"
       => task[g].alone /\ <<task[g].on, task[g].matter>> # <<x, m>>

LEMMA ChargingBystandersStaySound ==
  ASSUME ChargingInv, NEW g \in Handlers, NEW x, NEW m,
         ChargingFrame(x, m), ChargingBystander(g, x, m)
  PROVE  ChargingTaskIsSound(task[g])'
<1>1. /\ task[g] \in C!TaskType
      /\ ChargingShape(task[g]) /\ (task[g].alone => ChargingCurrent(task[g]))
  BY DEF ChargingInv, ChargingTasksAreSound, ChargingTaskIsSound
<1>2. ChargingShape(task[g])'
  <2>1. task[g].pc \in OnStation => station'[task[g].on].status # "ABSENT"
    BY <1>1 DEF ChargingShape, ChargingFrame
  <2>2. QED
    BY <1>1, <2>1 DEF ChargingShape, ChargingBystander
<1>3. ASSUME task'[g].alone
      PROVE  ChargingCurrent(task[g])'
  <2>1. CASE task[g].pc \notin OnStation
    BY <2>1 DEF ChargingCurrent, ChargingBystander, OnStation
  <2>2. CASE task[g].pc \in OnStation
    <3>1. /\ task[g].on \in Stations /\ task[g].matter = StationMatter(task[g].pc)
          /\ station[task[g].on].status # "ABSENT"
      BY <1>1, <2>2 DEF ChargingShape
    <3>2. ChargingCurrent(task[g]) /\ <<task[g].on, task[g].matter>> # <<x, m>>
      BY <1>1, <1>3, <2>2 DEF ChargingBystander, OnStation
    <3>3. CASE task[g].pc \in {"submit", "review"}
      <4>1. station'[task[g].on].status = station[task[g].on].status
        BY <3>1, <3>2, <3>3, ChargingMatters DEF ChargingFrame
      <4>2. QED
        BY <3>2, <3>3, <4>1 DEF ChargingCurrent, ChargingBystander, C!CanStationTransition
    <3>4. CASE task[g].pc = "count"
      <4>1. port'[task[g].on] = port[task[g].on]
        BY <3>1, <3>2, <3>4, ChargingMatters DEF ChargingFrame
      <4>2. /\ C!ActivePorts(task[g].on)' = C!ActivePorts(task[g].on)
            /\ C!FreePorts(task[g].on)' = C!FreePorts(task[g].on)
        BY <4>1 DEF C!ActivePorts, C!FreePorts, ChargingBystander
      <4>3. QED
        BY <3>2, <3>4, <4>2 DEF ChargingCurrent, ChargingBystander
    <3>5. CASE task[g].pc = "setTariff"
      <4>1. tariff'[task[g].on] = tariff[task[g].on]
        BY <3>1, <3>2, <3>5, ChargingMatters DEF ChargingFrame
      <4>2. QED
        BY <3>2, <3>5, <4>1 DEF ChargingCurrent, ChargingBystander
    <3>6. CASE task[g].pc = "photos"
      <4>1. station'[task[g].on].photos = station[task[g].on].photos
        BY <3>1, <3>2, <3>6, ChargingMatters DEF ChargingFrame
      <4>2. QED
        BY <3>2, <3>6, <4>1 DEF ChargingCurrent, ChargingBystander
    <3>7. CASE task[g].pc \in {"update", "addPort", "setPort", "openTariff"}
      BY <3>7 DEF ChargingCurrent, ChargingBystander
    <3>8. QED
      BY <2>2, <3>3, <3>4, <3>5, <3>6, <3>7 DEF OnStation
  <2>3. QED
    BY <2>1, <2>2
<1>4. QED
  BY <1>2, <1>3 DEF ChargingTaskIsSound

\* A handler that starts with task t.
LEMMA ChargingStarts ==
  ASSUME ChargingInv, NEW h \in Handlers, NEW t \in C!TaskType, C!Start(h, t)
  PROVE  /\ task' \in [Handlers -> C!TaskType] /\ ChargingTasksMeet'
         /\ task[h].pc = "idle"
         /\ \E b \in BOOLEAN : task'[h] = [t EXCEPT !.alone = b]
         /\ \A g \in Handlers \ {h} : ChargingBystander(g, t.on, t.matter)
<1>1. task \in [Handlers -> C!TaskType] /\ ChargingTasksMeet /\ task[h].pc = "idle"
  BY DEF ChargingInv, C!Start, C!At
<1>2. PICK b \in BOOLEAN : b = \A k \in Handlers : ~C!Meets(t, k)
  OBVIOUS
<1>3. PICK u \in C!TaskType : u = [t EXCEPT !.alone = b]
  BY DEF C!TaskType
<1>4. /\ u.pc = t.pc /\ u.on = t.on /\ u.matter = t.matter /\ u.alone = b
  BY <1>3 DEF C!TaskType
<1>5. task' = [g \in Handlers |->
                 IF g = h THEN u
                 ELSE IF C!Meets(t, g) THEN [task[g] EXCEPT !.alone = FALSE]
                      ELSE task[g]]
  BY <1>2, <1>3 DEF C!Start
<1>6. task'[h] = u
  BY <1>5
<1>7. ASSUME NEW g \in Handlers \ {h}
      PROVE  task'[g] \in C!TaskType /\ ChargingBystander(g, t.on, t.matter)
  <2>1. CASE C!Meets(t, g)
    <3>1. task'[g] = [task[g] EXCEPT !.alone = FALSE] /\ task[g] \in C!TaskType
      BY <1>1, <1>5, <2>1
    <3>2. QED
      BY <3>1 DEF ChargingBystander, C!TaskType
  <2>2. CASE ~C!Meets(t, g)
    <3>1. task'[g] = task[g] /\ task[g] \in C!TaskType
      BY <1>1, <1>5, <2>2
    <3>2. <<task[g].on, task[g].matter>> # <<t.on, t.matter>>
      BY <2>2 DEF C!Meets
    <3>3. QED
      BY <3>1, <3>2 DEF ChargingBystander
  <2>3. QED
    BY <2>1, <2>2
<1>8. task' \in [Handlers -> C!TaskType]
  BY <1>3, <1>5, <1>6, <1>7
<1>9. ChargingTasksMeet'
  <2>1. ASSUME NEW f \in Handlers, NEW g \in Handlers, f # g, task'[f].pc # "idle",
               task'[f].on = task'[g].on, task'[f].matter = task'[g].matter
        PROVE  ~task'[f].alone
    <3>1. CASE f = h
      <4>1. task[g].on = t.on /\ task[g].matter = t.matter
        BY <1>4, <1>6, <1>7, <2>1, <3>1 DEF ChargingBystander
      <4>2. ~b
        BY <1>2, <4>1 DEF C!Meets
      <4>3. QED
        BY <1>4, <1>6, <3>1, <4>2
    <3>2. CASE f # h /\ g = h
      <4>1. C!Meets(t, f)
        BY <1>4, <1>6, <1>7, <2>1, <3>2 DEF ChargingBystander, C!Meets
      <4>2. task'[f] = [task[f] EXCEPT !.alone = FALSE] /\ task[f] \in C!TaskType
        BY <1>1, <1>5, <3>2, <4>1
      <4>3. QED
        BY <4>2 DEF C!TaskType
    <3>3. CASE f # h /\ g # h
      BY <1>1, <1>7, <2>1, <3>3 DEF ChargingTasksMeet, ChargingBystander
    <3>4. QED
      BY <3>1, <3>2, <3>3
  <2>2. QED
    BY <2>1 DEF ChargingTasksMeet
<1>10. QED
  BY <1>1, <1>3, <1>6, <1>7, <1>8, <1>9

\* Handler h goes on with u, about the same matter, or is done.
ChargingGoesOn(h, u) ==
  /\ task' = [task EXCEPT ![h] = u]
  /\ task[h].pc # "idle"
  /\ \/ u.pc = "idle" /\ u.matter = "none"
     \/ u.on = task[h].on /\ u.matter = task[h].matter /\ (u.alone => task[h].alone)

LEMMA ChargingGoesOnFacts ==
  ASSUME ChargingInv, NEW h \in Handlers, NEW u \in C!TaskType, ChargingGoesOn(h, u),
         ChargingFrame(task[h].on, task[h].matter), ChargingTaskIsSound(u)'
  PROVE  /\ task' \in [Handlers -> C!TaskType] /\ task'[h] = u
         /\ \A g \in Handlers \ {h} : task'[g] = task[g]
         /\ ChargingTasksAreSound' /\ ChargingTasksMeet'
<1>1. /\ task \in [Handlers -> C!TaskType] /\ ChargingTasksMeet
      /\ \A g \in Handlers : task[g].pc # "idle" => task[g].matter # "none"
      /\ \A g \in Handlers : task[g].pc = "idle" => task[g].matter = "none"
  <2>1. task \in [Handlers -> C!TaskType] /\ ChargingTasksMeet
    BY DEF ChargingInv
  <2>2. \A g \in Handlers : task[g] \in C!TaskType /\ ChargingShape(task[g])
    BY <2>1 DEF ChargingInv, ChargingTasksAreSound, ChargingTaskIsSound
  <2>3. \A g \in Handlers : task[g].pc # "idle" => task[g].matter # "none"
    BY <2>2, ChargingKinds
  <2>4. QED
    BY <2>1, <2>2, <2>3 DEF ChargingShape
<1>2. /\ task' \in [Handlers -> C!TaskType] /\ task'[h] = u
      /\ \A g \in Handlers \ {h} : task'[g] = task[g]
  BY <1>1 DEF ChargingGoesOn
<1>3. \A g \in Handlers \ {h} : ChargingBystander(g, task[h].on, task[h].matter)
  <2>1. ASSUME NEW g \in Handlers \ {h}, task[g].alone, task[g].pc # "idle"
        PROVE  <<task[g].on, task[g].matter>> # <<task[h].on, task[h].matter>>
    BY <1>1, <2>1 DEF ChargingTasksMeet
  <2>2. QED
    BY <1>2, <2>1 DEF ChargingBystander
<1>4. ChargingTaskIsSound(task[h])'
  BY <1>2 DEF ChargingTaskIsSound, ChargingShape, ChargingCurrent, C!ActivePorts, C!FreePorts
<1>5. ChargingTasksAreSound'
  BY <1>3, <1>4, ChargingBystandersStaySound DEF ChargingTasksAreSound
<1>6. ChargingTasksMeet'
  <2>1. ASSUME NEW f \in Handlers, NEW g \in Handlers, f # g, task'[f].pc # "idle",
               task'[f].on = task'[g].on, task'[f].matter = task'[g].matter
        PROVE  ~task'[f].alone
    <3>1. CASE f = h
      BY <1>1, <1>2, <2>1, <3>1 DEF ChargingTasksMeet, ChargingGoesOn
    <3>2. CASE g = h
      BY <1>1, <1>2, <2>1, <3>2 DEF ChargingTasksMeet, ChargingGoesOn
    <3>3. CASE f # h /\ g # h
      BY <1>1, <1>2, <2>1, <3>3 DEF ChargingTasksMeet
    <3>4. QED
      BY <3>1, <3>2, <3>3
  <2>2. QED
    BY <2>1 DEF ChargingTasksMeet
<1>7. QED
  BY <1>2, <1>5, <1>6

LEMMA ChargingFinishes ==
  ASSUME ChargingInv, NEW h \in Handlers, C!Finish(h), task[h].pc # "idle",
         ChargingFrame(task[h].on, task[h].matter)
  PROVE  /\ task' \in [Handlers -> C!TaskType] /\ task'[h].pc = "idle"
         /\ \A g \in Handlers \ {h} : task'[g] = task[g]
         /\ ChargingTasksAreSound' /\ ChargingTasksMeet'
<1>1. ChargingGoesOn(h, C!Idle)
  BY ChargingIdle DEF ChargingGoesOn, C!Finish
<1>2. QED
  BY <1>1, ChargingIdle, ChargingIdleType, ChargingIdleIsSound, ChargingGoesOnFacts

\* The counts stay right where nothing they count was touched.
LEMMA ChargingCountsStay ==
  ASSUME ChargingInv,
         \A s \in Stations :
           /\ <<s, "ports">> \notin disturbed'
           /\ \A k \in Handlers : ~(task'[k].pc = "count" /\ task'[k].on = s)
           => /\ <<s, "ports">> \notin disturbed
              /\ \A k \in Handlers : ~(task[k].pc = "count" /\ task[k].on = s)
              /\ station'[s].total = station[s].total
              /\ station'[s].available = station[s].available /\ port'[s] = port[s]
  PROVE  C!CountsAgree'
<1> SUFFICES ASSUME NEW s \in Stations, <<s, "ports">> \notin disturbed',
                    \A k \in Handlers : ~(task'[k].pc = "count" /\ task'[k].on = s)
             PROVE  C!CountsAreRight(s)'
  BY DEF C!CountsAgree, C!At
<1>1. /\ C!CountsAreRight(s)
      /\ station'[s].total = station[s].total
      /\ station'[s].available = station[s].available /\ port'[s] = port[s]
  BY DEF ChargingInv, C!CountsAgree, C!At
<1>2. C!ActivePorts(s)' = C!ActivePorts(s) /\ C!FreePorts(s)' = C!FreePorts(s)
  BY <1>1 DEF C!ActivePorts, C!FreePorts
<1>3. QED
  BY <1>1, <1>2 DEF C!CountsAreRight

\* Only the tasks of handlers change, and the row of one station at most.
LEMMA ChargingStationWritten ==
  ASSUME ChargingInv, NEW x \in Stations, NEW row \in StationType, row.status # "ABSENT",
         station' = [station EXCEPT ![x] = row], UNCHANGED <<port, tariff>>
  PROVE  /\ StationsAreSound' /\ station'[x] = row
         /\ \A s \in Stations \ {x} : station'[s] = station[s]
<1>1. station \in [Stations -> StationType]
  BY DEF ChargingInv, StationsAreSound
<1>2. /\ station' \in [Stations -> StationType] /\ station'[x] = row
      /\ \A s \in Stations \ {x} : station'[s] = station[s]
  BY <1>1
<1>3. QED
  BY <1>2 DEF ChargingInv, StationsAreSound

LEMMA ChargingRowsStay ==
  ASSUME ChargingInv, UNCHANGED <<operator, station, port, tariff>>, disturbed \subseteq disturbed'
  PROVE  /\ OperatorsAreSound' /\ StationsAreSound' /\ OneIsKept' /\ C!StationStep
         /\ \A x, m : ChargingFrame(x, m)
<1>1. OperatorsAreSound' /\ StationsAreSound'
  BY DEF ChargingInv, OperatorsAreSound, StationsAreSound
<1>2. OneIsKept'
  BY DEF ChargingInv, OneIsKept
<1>3. C!StationStep
  BY DEF C!StationStep
<1>4. \A x, m : ChargingFrame(x, m)
  BY DEF ChargingFrame
<1>5. QED
  BY <1>1, <1>2, <1>3, <1>4

\* A request that starts has just read what it is about, and writes nothing.
LEMMA ChargingStartPreservesInv ==
  ASSUME ChargingInv, NEW h \in Handlers, NEW t \in C!TaskType, C!Start(h, t),
         t.pc \notin {"idle", "count"}, ChargingShape(t), ChargingCurrent(t)
  PROVE  ChargingInv' /\ C!StationStep
<1>1. UNCHANGED <<operator, station, port, tariff, disturbed>>
  BY DEF C!Start
<1>2. /\ task' \in [Handlers -> C!TaskType] /\ ChargingTasksMeet'
      /\ task[h].pc = "idle"
      /\ \A g \in Handlers \ {h} : ChargingBystander(g, t.on, t.matter)
  BY ChargingStarts
<1>3. PICK b \in BOOLEAN : task'[h] = [t EXCEPT !.alone = b]
  BY ChargingStarts
<1>4. /\ task'[h].pc = t.pc /\ task'[h].on = t.on /\ task'[h].matter = t.matter
      /\ task'[h].to = t.to /\ task'[h].port = t.port /\ task'[h].total = t.total
      /\ task'[h].available = t.available /\ task'[h].old = t.old
      /\ task'[h].read = t.read /\ task'[h].add = t.add
  BY <1>3 DEF C!TaskType
<1>5. /\ OperatorsAreSound' /\ StationsAreSound' /\ OneIsKept' /\ C!StationStep
      /\ \A x, m : ChargingFrame(x, m)
  BY <1>1, ChargingRowsStay
<1>6. ChargingTaskIsSound(task[h])'
  <2>1. ChargingShape(task[h])'
    BY <1>1, <1>4 DEF ChargingShape
  <2>2. ChargingCurrent(task[h])'
    BY <1>1, <1>4 DEF ChargingCurrent, C!CanStationTransition
  <2>3. QED
    BY <2>1, <2>2 DEF ChargingTaskIsSound
<1>7. ChargingTasksAreSound'
  BY <1>2, <1>5, <1>6, ChargingBystandersStaySound DEF ChargingTasksAreSound
<1>8. \A k \in Handlers : k # h => task'[k].pc = task[k].pc /\ task'[k].on = task[k].on
  BY <1>2 DEF ChargingBystander
<1>9. C!CountsAgree'
  BY <1>1, <1>2, <1>8, ChargingCountsStay
<1>10. QED
  BY <1>2, <1>5, <1>7, <1>9 DEF ChargingInv

\* A handler concludes, not having been at the counts.
LEMMA ChargingConcludes ==
  ASSUME ChargingInv, NEW h \in Handlers, C!Conclude(h), task[h].pc \notin {"idle", "count"},
         ChargingFrame(task[h].on, task[h].matter),
         \A s \in Stations : /\ station'[s].total = station[s].total
                             /\ station'[s].available = station[s].available
                             /\ port'[s] = port[s]
  PROVE  /\ task' \in [Handlers -> C!TaskType]
         /\ ChargingTasksAreSound' /\ ChargingTasksMeet' /\ C!CountsAgree'
         /\ disturbed \subseteq disturbed'
         /\ task[h].alone \/ <<task[h].on, task[h].matter>> \in disturbed'
<1>1. /\ C!Finish(h) /\ disturbed' = IF task[h].alone THEN disturbed
                                     ELSE disturbed \cup {<<task[h].on, task[h].matter>>}
  BY DEF C!Conclude
<1>2. /\ task' \in [Handlers -> C!TaskType] /\ task'[h].pc = "idle"
      /\ \A g \in Handlers \ {h} : task'[g] = task[g]
      /\ ChargingTasksAreSound' /\ ChargingTasksMeet'
  BY <1>1, ChargingFinishes
<1>3. /\ disturbed \subseteq disturbed'
      /\ task[h].alone \/ <<task[h].on, task[h].matter>> \in disturbed'
  BY <1>1
<1>4. C!CountsAgree'
  BY <1>2, <1>3, ChargingCountsStay
<1>5. QED
  BY <1>2, <1>3, <1>4

LEMMA ChargingFailPreservesInv ==
  ASSUME ChargingInv, NEW h \in Handlers, task[h].pc \notin {"idle", "count"}, C!Fail(h)
  PROVE  ChargingInv' /\ C!StationStep
<1>1. C!Conclude(h) /\ UNCHANGED <<operator, station, port, tariff>>
  BY DEF C!Fail
<1>2. disturbed \subseteq disturbed'
  BY <1>1 DEF C!Conclude
<1>3. /\ OperatorsAreSound' /\ StationsAreSound' /\ OneIsKept' /\ C!StationStep
      /\ \A x, m : ChargingFrame(x, m)
  BY <1>1, <1>2, ChargingRowsStay
<1>4. /\ task' \in [Handlers -> C!TaskType]
      /\ ChargingTasksAreSound' /\ ChargingTasksMeet' /\ C!CountsAgree'
  BY <1>1, <1>3, ChargingConcludes
<1>5. QED
  BY <1>3, <1>4 DEF ChargingInv

\* The row of an operator is written; nothing else depends on it.
LEMMA ChargingOperatorWritten ==
  ASSUME ChargingInv, NEW h \in Handlers, task[h].pc \in OnOperator,
         NEW row \in OperatorType, row.verified <=> row.status = "ACTIVE",
         row.verified => row.role, C!WriteOperator(h, row)
  PROVE  ChargingInv' /\ C!StationStep
<1>1. /\ operator' = [operator EXCEPT ![task[h].on] = row]
      /\ C!Conclude(h) /\ UNCHANGED <<station, port, tariff>>
  BY DEF C!WriteOperator
<1>2. task[h].pc \notin {"idle", "count"} /\ disturbed \subseteq disturbed'
  BY <1>1 DEF OnOperator, C!Conclude
<1>3. StationsAreSound' /\ OneIsKept'
  BY <1>1, <1>2 DEF ChargingInv, StationsAreSound, OneIsKept
<1>4. C!StationStep /\ ChargingFrame(task[h].on, task[h].matter)
  BY <1>1 DEF C!StationStep, ChargingFrame
<1>5. OperatorsAreSound'
  <2>1. /\ operator \in [Operators -> OperatorType]
        /\ \A o \in Operators : /\ operator[o].verified <=> operator[o].status = "ACTIVE"
                                /\ operator[o].verified => operator[o].role
    BY DEF ChargingInv, OperatorsAreSound
  <2>2. /\ operator' \in [Operators -> OperatorType]
        /\ \A o \in Operators : operator'[o] = row \/ operator'[o] = operator[o]
    BY <1>1, <2>1
  <2>3. QED
    BY <2>1, <2>2 DEF OperatorsAreSound
<1>6. /\ task' \in [Handlers -> C!TaskType]
      /\ ChargingTasksAreSound' /\ ChargingTasksMeet' /\ C!CountsAgree'
  BY <1>1, <1>2, <1>4, ChargingConcludes
<1>7. QED
  BY <1>3, <1>4, <1>5, <1>6 DEF ChargingInv

LEMMA ChargingOperatorsPreserveInv ==
  ASSUME ChargingInv, NEW h \in Handlers,
         \/ C!CommitApply(h) \/ C!CommitUpdateOperator(h)
         \/ C!CommitApproveOperator(h) \/ C!CommitRejectOperator(h)
  PROVE  ChargingInv' /\ C!StationStep
<1>1. task[h] \in C!TaskType /\ ChargingShape(task[h])
  BY DEF ChargingInv, ChargingTasksAreSound, ChargingTaskIsSound
<1>2. task[h].pc \in OnOperator /\ task[h].on \in Operators
  BY <1>1 DEF C!CommitApply, C!CommitUpdateOperator, C!CommitApproveOperator,
              C!CommitRejectOperator, C!At, OnOperator, ChargingShape
<1>3. PICK old \in OperatorType : old = operator[task[h].on]
  BY <1>2 DEF ChargingInv, OperatorsAreSound
<1>4. (old.verified <=> old.status = "ACTIVE") /\ (old.verified => old.role)
  BY <1>2, <1>3 DEF ChargingInv, OperatorsAreSound
<1>5. CASE C!CommitApply(h)
  <2>1. CASE old.status = "NONE"
    <3>1. C!NoOperator \in OperatorType /\ C!NoOperator.verified = FALSE
      BY DEF OperatorType, C!NoOperator
    <3>2. PICK row \in OperatorType :
            row = [C!NoOperator EXCEPT !.status = "PENDING", !.role = old.role]
      BY <3>1 DEF OperatorType, C!OperatorStatus
    <3>3. row.verified = FALSE /\ row.status = "PENDING"
      BY <3>1, <3>2 DEF OperatorType
    <3>4. C!WriteOperator(h, row)
      BY <1>3, <1>5, <2>1, <3>1, <3>2 DEF C!CommitApply
    <3>5. QED
      BY <1>2, <3>4, <3>3, ChargingOperatorWritten
  <2>2. CASE old.status # "NONE"
    BY <1>2, <1>3, <1>5, <2>2, ChargingFailPreservesInv DEF C!CommitApply, OnOperator
  <2>3. QED
    BY <2>1, <2>2
<1>6. CASE C!CommitUpdateOperator(h)
  <2>1. PICK row \in OperatorType : row = [old EXCEPT !.edited = TRUE]
    BY DEF OperatorType
  <2>2. row.status = old.status /\ row.verified = old.verified /\ row.role = old.role
    BY <2>1 DEF OperatorType
  <2>3. C!WriteOperator(h, row)
    BY <1>3, <1>6, <2>1 DEF C!CommitUpdateOperator
  <2>4. QED
    BY <1>2, <1>4, <2>2, <2>3, ChargingOperatorWritten
<1>7. CASE C!CommitApproveOperator(h)
  <2>1. PICK row \in OperatorType :
          row = [old EXCEPT !.status = "ACTIVE", !.verified = TRUE, !.role = TRUE]
    BY DEF OperatorType, C!OperatorStatus
  <2>2. row.status = "ACTIVE" /\ row.verified = TRUE /\ row.role = TRUE
    BY <2>1 DEF OperatorType
  <2>3. C!WriteOperator(h, row)
    BY <1>3, <1>7, <2>1 DEF C!CommitApproveOperator
  <2>4. QED
    BY <1>2, <2>2, <2>3, ChargingOperatorWritten
<1>8. CASE C!CommitRejectOperator(h)
  <2>1. PICK row \in OperatorType :
          row = [old EXCEPT !.status = "REJECTED", !.verified = FALSE]
    BY DEF OperatorType, C!OperatorStatus
  <2>2. row.status = "REJECTED" /\ row.verified = FALSE
    BY <2>1 DEF OperatorType
  <2>3. C!WriteOperator(h, row)
    BY <1>3, <1>8, <2>1 DEF C!CommitRejectOperator
  <2>4. QED
    BY <1>2, <2>2, <2>3, ChargingOperatorWritten
<1>9. QED
  BY <1>5, <1>6, <1>7, <1>8

\* Nobody's task changes, and nothing a task read.
LEMMA ChargingTasksStay ==
  ASSUME ChargingInv, task' = task, ChargingFrame(None, "none")
  PROVE  /\ task' \in [Handlers -> C!TaskType]
         /\ ChargingTasksAreSound' /\ ChargingTasksMeet'
<1>1. task' \in [Handlers -> C!TaskType] /\ ChargingTasksMeet'
  BY DEF ChargingInv, ChargingTasksMeet
<1>2. ASSUME NEW g \in Handlers
      PROVE  ChargingTaskIsSound(task[g])'
  <2>1. task[g] \in C!TaskType /\ ChargingShape(task[g])
    BY DEF ChargingInv, ChargingTasksAreSound, ChargingTaskIsSound
  <2>2. task[g].pc # "idle" => task[g].matter # "none"
    BY <2>1, ChargingKinds
  <2>3. ChargingBystander(g, None, "none")
    BY <2>2 DEF ChargingBystander
  <2>4. QED
    BY <2>3, ChargingBystandersStaySound
<1>3. QED
  BY <1>1, <1>2 DEF ChargingTasksAreSound

LEMMA ChargingCreatePreservesInv ==
  ASSUME ChargingInv, NEW h \in Handlers, NEW o \in Operators, NEW s \in Stations,
         NEW n \in {0, 1}, NEW free \in {C!Unstated, 1}, NEW located \in BOOLEAN,
         C!CreateStation(h, o, s, n, free, located)
  PROVE  ChargingInv' /\ C!StationStep
<1>1. /\ station[s].status = "ABSENT"
      /\ station' = [station EXCEPT ![s] =
           [C!NoStation EXCEPT !.status = "DRAFT", !.owner = o, !.located = located,
                               !.total = n, !.available = free]]
      /\ disturbed' = IF n = 0 /\ free = C!Unstated THEN disturbed
                                                    ELSE disturbed \cup {<<s, "ports">>}
      /\ UNCHANGED <<operator, port, tariff, task>>
  BY DEF C!CreateStation
<1>2. C!NoStation \in StationType /\ C!NoStation.photos = 0 /\ C!NoStation.primaries = 0
      /\ C!Unstated = -1
  BY DEF C!NoStation, StationType, C!Unstated
<1>3. PICK row \in StationType :
        row = [C!NoStation EXCEPT !.status = "DRAFT", !.owner = o, !.located = located,
                                  !.total = n, !.available = free]
  <2>1. "DRAFT" \in C!StationStatus \cup {"ABSENT"} /\ n \in Int /\ free \in Int
    BY <1>2 DEF C!StationStatus
  <2>2. QED
    BY <1>2, <2>1 DEF StationType
<1>4. /\ row.status = "DRAFT" /\ row.total = n /\ row.available = free
      /\ row.photos = 0 /\ row.primaries = 0
  BY <1>2, <1>3 DEF StationType
<1>5. /\ StationsAreSound' /\ station'[s] = row
      /\ \A q \in Stations \ {s} : station'[q] = station[q]
  BY <1>1, <1>3, <1>4, ChargingStationWritten
<1>6. ChargingFrame(None, "none")
  BY <1>1, <1>5 DEF ChargingFrame
<1>7. /\ task' \in [Handlers -> C!TaskType]
      /\ ChargingTasksAreSound' /\ ChargingTasksMeet'
  BY <1>1, <1>6, ChargingTasksStay
<1>8. OperatorsAreSound'
  BY <1>1 DEF ChargingInv, OperatorsAreSound
<1>9. OneIsKept'
  <2>1. disturbed \subseteq disturbed'
    BY <1>1
  <2>2. \A q \in Stations : /\ station'[q].photos = station[q].photos
                            /\ station'[q].primaries = station[q].primaries
    BY <1>1, <1>4, <1>5 DEF ChargingInv, StationsAreSound
  <2>3. QED
    BY <1>1, <2>1, <2>2 DEF ChargingInv, OneIsKept
<1>10. C!StationStep
  <2>1. "ABSENT" \notin C!StationStatus
    BY DEF C!StationStatus
  <2>2. QED
    BY <1>1, <1>5, <2>1 DEF C!StationStep
<1>11. C!CountsAgree'
  <2>1. ASSUME <<s, "ports">> \notin disturbed',
               \A k \in Handlers : ~(task[k].pc = "count" /\ task[k].on = s)
        PROVE  C!CountsAreRight(s)'
    <3>1. C!ActivePorts(s)' = {}
      BY <1>1 DEF ChargingInv, StationsAreSound, C!ActivePorts
    <3>2. station'[s].total = 0 /\ station'[s].available = C!Unstated
      BY <1>1, <1>4, <1>5, <2>1
    <3>3. QED
      BY <3>1, <3>2, FS_EmptySet, ChargingCardinality DEF C!CountsAreRight
  <2>2. ASSUME NEW q \in Stations \ {s}, <<q, "ports">> \notin disturbed',
               \A k \in Handlers : ~(task[k].pc = "count" /\ task[k].on = q)
        PROVE  C!CountsAreRight(q)'
    <3>1. C!CountsAreRight(q)
      BY <1>1, <2>2 DEF ChargingInv, C!CountsAgree, C!At
    <3>2. station'[q] = station[q] /\ C!ActivePorts(q)' = C!ActivePorts(q)
          /\ C!FreePorts(q)' = C!FreePorts(q)
      BY <1>1, <1>5 DEF C!ActivePorts, C!FreePorts
    <3>3. QED
      BY <3>1, <3>2 DEF C!CountsAreRight
  <2>3. QED
    BY <1>1, <2>1, <2>2 DEF C!CountsAgree, C!At
<1>12. QED
  BY <1>5, <1>7, <1>8, <1>9, <1>10, <1>11 DEF ChargingInv

\* A task of a station, and the row it is about.
LEMMA ChargingTaskOfStation ==
  ASSUME ChargingInv, NEW h \in Handlers, task[h].pc \in OnStation
  PROVE  /\ task[h] \in C!TaskType /\ task[h].on \in Stations
         /\ ChargingShape(task[h]) /\ (task[h].alone => ChargingCurrent(task[h]))
         /\ task[h].matter = StationMatter(task[h].pc)
         /\ station[task[h].on].status # "ABSENT"
         /\ station[task[h].on] \in StationType
<1>1. /\ task[h] \in C!TaskType
      /\ ChargingShape(task[h]) /\ (task[h].alone => ChargingCurrent(task[h]))
  BY DEF ChargingInv, ChargingTasksAreSound, ChargingTaskIsSound
<1>2. /\ task[h].on \in Stations /\ task[h].matter = StationMatter(task[h].pc)
      /\ station[task[h].on].status # "ABSENT"
  BY <1>1 DEF ChargingShape
<1>3. QED
  BY <1>1, <1>2 DEF ChargingInv, StationsAreSound

LEMMA ChargingUpdatePreservesInv ==
  ASSUME ChargingInv, NEW h \in Handlers, C!CommitUpdateStation(h)
  PROVE  ChargingInv' /\ C!StationStep
<1> DEFINE s == task[h].on
<1>1. /\ task[h].pc = "update" /\ C!Finish(h)
      /\ disturbed' = IF C!StatesCounts(task[h]) THEN disturbed \cup {<<s, "ports">>}
                                                ELSE disturbed
      /\ UNCHANGED <<operator, port, tariff>>
  BY DEF C!CommitUpdateStation, C!At
<1>2. PICK located \in BOOLEAN :
        station' = [station EXCEPT ![s].operational = task[h].to,
                                   ![s].located = @ \/ located,
                                   ![s].total = IF task[h].total < 0 THEN @ ELSE task[h].total,
                                   ![s].available = IF task[h].available < 0 THEN @
                                                    ELSE task[h].available]
  BY DEF C!CommitUpdateStation
<1>3. /\ task[h] \in C!TaskType /\ s \in Stations /\ station[s] \in StationType
      /\ ChargingShape(task[h]) /\ station[s].status # "ABSENT"
  BY <1>1, ChargingTaskOfStation DEF OnStation
<1>4. /\ task[h].to \in {"OPERATIONAL", "OFFLINE"}
      /\ task[h].total \in -1 .. C!Cardinality(Ports)
      /\ task[h].available \in -1 .. C!Cardinality(Ports)
  BY <1>1, <1>3 DEF ChargingShape, C!TaskType
<1>5. PICK l \in BOOLEAN : l = (station[s].located \/ located)
  OBVIOUS
<1>6. PICK n \in Int : n = IF task[h].total < 0 THEN station[s].total ELSE task[h].total
  BY <1>3, <1>4 DEF StationType
<1>7. PICK m \in Int : m = IF task[h].available < 0 THEN station[s].available
                            ELSE task[h].available
  BY <1>3, <1>4 DEF StationType
<1>8. PICK old \in StationType :
         old = [station[s] EXCEPT !.operational = task[h].to, !.located = l]
  BY <1>3, <1>4 DEF StationType
<1>9. PICK row \in StationType : row = [old EXCEPT !.total = n, !.available = m]
  BY <1>6, <1>7 DEF StationType
<1>10. /\ row.status = station[s].status /\ row.photos = station[s].photos
      /\ row.primaries = station[s].primaries /\ row.total = n
      /\ row.available = m
  BY <1>3, <1>9, <1>8 DEF StationType
<1>11. station' = [station EXCEPT ![s] = row]
  BY <1>2, <1>3, <1>5, <1>6, <1>9, <1>7, <1>8 DEF ChargingInv, StationsAreSound
<1>12. /\ StationsAreSound' /\ station'[s] = row
       /\ \A q \in Stations \ {s} : station'[q] = station[q]
  BY <1>1, <1>3, <1>10, <1>11, ChargingStationWritten
<1>13. C!StationStep /\ ChargingFrame(s, task[h].matter)
  BY <1>1, <1>10, <1>12 DEF C!StationStep, ChargingFrame
<1>14. /\ task' \in [Handlers -> C!TaskType] /\ task'[h].pc = "idle"
       /\ \A g \in Handlers \ {h} : task'[g] = task[g]
       /\ ChargingTasksAreSound' /\ ChargingTasksMeet'
  BY <1>1, <1>13, ChargingFinishes
<1>15. disturbed \subseteq disturbed'
  BY <1>1
<1>16. OperatorsAreSound' /\ OneIsKept'
  BY <1>1, <1>10, <1>12, <1>15 DEF ChargingInv, OperatorsAreSound, OneIsKept
<1>17. C!CountsAgree'
  <2>1. <<s, "ports">> \in disturbed' \/ (task[h].total < 0 /\ task[h].available < 0)
    BY <1>1, <1>4 DEF C!StatesCounts, C!Unstated
  <2>2. \/ <<s, "ports">> \in disturbed'
        \/ row.total = station[s].total /\ row.available = station[s].available
    <3>1. CASE task[h].total < 0 /\ task[h].available < 0
      <4>1. n = station[s].total /\ m = station[s].available
        BY <1>6, <1>7, <3>1
      <4>2. QED
        BY <1>10, <4>1
    <3>2. QED
      BY <2>1, <3>1
  <2>3. \A q \in Stations : \/ <<q, "ports">> \in disturbed'
                            \/ /\ station'[q].available = station[q].available
                               /\ station'[q].total = station[q].total
    BY <1>10, <1>12, <2>2
  <2>4. QED
    BY <1>1, <1>14, <1>15, <2>3, ChargingCountsStay
<1>18. QED
  BY <1>12, <1>13, <1>14, <1>16, <1>17 DEF ChargingInv

\* A submission and a review write the status of the station.
LEMMA ChargingStatusWritten ==
  ASSUME ChargingInv, NEW h \in Handlers, task[h].pc \in {"submit", "review"},
         NEW row \in StationType, C!WriteStation(h, row),
         row.status \in C!StationStatus, row.photos = station[task[h].on].photos,
         row.primaries = station[task[h].on].primaries,
         row.total = station[task[h].on].total,
         row.available = station[task[h].on].available,
         task[h].alone => C!CanStationTransition(station[task[h].on].status, row.status)
  PROVE  ChargingInv' /\ C!StationStep
<1> DEFINE s == task[h].on
<1>1. /\ station' = [station EXCEPT ![s] = row] /\ C!Conclude(h)
      /\ UNCHANGED <<operator, port, tariff>>
  BY DEF C!WriteStation
<1>2. /\ s \in Stations /\ task[h].matter = "status"
      /\ station[s].status # "ABSENT"
  BY ChargingTaskOfStation, ChargingMatters DEF OnStation
<1>3. row.status # "ABSENT"
  BY DEF C!StationStatus
<1>4. /\ StationsAreSound' /\ station'[s] = row
      /\ \A q \in Stations \ {s} : station'[q] = station[q]
  BY <1>1, <1>2, <1>3, ChargingStationWritten
<1>5. ChargingFrame(s, task[h].matter)
  BY <1>1, <1>2, <1>3, <1>4 DEF ChargingFrame
<1>6. \A q \in Stations : /\ station'[q].total = station[q].total
                          /\ station'[q].available = station[q].available
                          /\ port'[q] = port[q]
  BY <1>1, <1>4
<1>7. /\ task' \in [Handlers -> C!TaskType]
      /\ ChargingTasksAreSound' /\ ChargingTasksMeet' /\ C!CountsAgree'
      /\ disturbed \subseteq disturbed'
      /\ task[h].alone \/ <<s, "status">> \in disturbed'
  BY <1>1, <1>2, <1>5, <1>6, ChargingConcludes
<1>8. OperatorsAreSound' /\ OneIsKept'
  BY <1>1, <1>4, <1>7 DEF ChargingInv, OperatorsAreSound, OneIsKept
<1>9. C!StationStep
  BY <1>4, <1>7 DEF C!StationStep
<1>10. QED
  BY <1>4, <1>7, <1>8, <1>9 DEF ChargingInv

LEMMA ChargingDecisionsPreserveInv ==
  ASSUME ChargingInv, NEW h \in Handlers, C!CommitSubmitStation(h) \/ C!CommitReviewStation(h)
  PROVE  ChargingInv' /\ C!StationStep
<1>1. task[h].pc \in {"submit", "review"}
  BY DEF C!CommitSubmitStation, C!CommitReviewStation, C!At
<1>2. /\ task[h] \in C!TaskType /\ task[h].on \in Stations
      /\ ChargingShape(task[h]) /\ (task[h].alone => ChargingCurrent(task[h]))
      /\ station[task[h].on] \in StationType
  BY <1>1, ChargingTaskOfStation DEF OnStation
<1>3. PICK old \in StationType : old = station[task[h].on]
  BY <1>2
<1>4. CASE C!CommitSubmitStation(h)
  <2>1. task[h].pc = "submit"
    BY <1>4 DEF C!CommitSubmitStation, C!At
  <2>2. PICK row \in StationType : row = [old EXCEPT !.status = "PENDING_REVIEW"]
    BY DEF StationType, C!StationStatus
  <2>3. /\ row.status = "PENDING_REVIEW" /\ row.photos = old.photos
        /\ row.primaries = old.primaries /\ row.total = old.total
        /\ row.available = old.available
    BY <2>2 DEF StationType
  <2>4. C!WriteStation(h, row)
    BY <1>3, <1>4, <2>2 DEF C!CommitSubmitStation
  <2>5. "PENDING_REVIEW" \in C!StationStatus
    BY DEF C!StationStatus
  <2>6. task[h].alone => C!CanStationTransition(old.status, "PENDING_REVIEW")
    <3>1. task[h].alone => old.status \in {"DRAFT", "REJECTED"}
      BY <1>2, <1>3, <2>1 DEF ChargingCurrent
    <3>2. QED
      BY <3>1 DEF C!CanStationTransition, C!ALLOWED_STATION_TRANSITIONS
  <2>7. QED
    BY <1>1, <1>3, <2>3, <2>4, <2>5, <2>6, ChargingStatusWritten
<1>5. CASE C!CommitReviewStation(h)
  <2>1. task[h].pc = "review"
    BY <1>5 DEF C!CommitReviewStation, C!At
  <2>2. task[h].to \in C!StationStatus
    BY <1>2, <2>1 DEF ChargingShape, C!StationDecisions, C!StationStatus
  <2>3. PICK p \in BOOLEAN : p = (old.published \/ task[h].to = "ACTIVE")
    BY DEF StationType
  <2>4. PICK row \in StationType : row = [old EXCEPT !.status = task[h].to, !.published = p]
    BY <2>2 DEF StationType
  <2>5. /\ row.status = task[h].to /\ row.photos = old.photos
        /\ row.primaries = old.primaries /\ row.total = old.total
        /\ row.available = old.available
    BY <2>4 DEF StationType
  <2>6. C!WriteStation(h, row)
    BY <1>3, <1>5, <2>3, <2>4 DEF C!CommitReviewStation
  <2>7. task[h].alone => C!CanStationTransition(old.status, task[h].to)
    BY <1>2, <1>3, <2>1 DEF ChargingCurrent
  <2>8. QED
    BY <1>1, <1>3, <2>2, <2>5, <2>6, <2>7, ChargingStatusWritten
<1>6. QED
  BY <1>4, <1>5

\* A port is changed; the handler goes on to count.
LEMMA ChargingSetPortPreservesInv ==
  ASSUME ChargingInv, NEW h \in Handlers, NEW p \in Ports,
         task[h].pc \in {"addPort", "setPort"}, C!SetPort(h, p)
  PROVE  ChargingInv' /\ C!StationStep
<1> DEFINE s == task[h].on
<1>1. /\ port' = [port EXCEPT ![s][p] = task[h].to]
      /\ task' = [task EXCEPT ![h].pc = "count"]
      /\ UNCHANGED <<operator, station, tariff, disturbed>>
  BY DEF C!SetPort, C!Goto
<1>2. /\ task[h] \in C!TaskType /\ s \in Stations /\ ChargingShape(task[h])
      /\ task[h].matter = "ports" /\ station[s].status # "ABSENT"
  BY ChargingTaskOfStation, ChargingMatters DEF OnStation
<1>3. task[h].to \in C!PortState \cup {"none"} /\ task[h].total = -1 /\ task[h].available = -1
  BY <1>2 DEF ChargingShape
<1>4. port \in [Stations -> [Ports -> C!PortState \cup {"none"}]]
  BY DEF ChargingInv, StationsAreSound
<1>5. /\ port' \in [Stations -> [Ports -> C!PortState \cup {"none"}]]
      /\ \A q \in Stations \ {s} : port'[q] = port[q]
  BY <1>1, <1>2, <1>3, <1>4
<1>6. PICK u \in C!TaskType : u = [task[h] EXCEPT !.pc = "count"]
  BY <1>2 DEF C!TaskType
<1>7. /\ u.pc = "count" /\ u.on = s /\ u.matter = "ports" /\ u.alone = task[h].alone
      /\ u.total = -1 /\ u.available = -1
  BY <1>2, <1>3, <1>6 DEF C!TaskType
<1>8. ChargingGoesOn(h, u)
  BY <1>1, <1>2, <1>6, <1>7 DEF ChargingGoesOn, ChargingInv
<1>9. C!StationStep /\ ChargingFrame(s, task[h].matter)
  BY <1>1, <1>2, <1>5 DEF C!StationStep, ChargingFrame
<1>10. ChargingTaskIsSound(u)'
  BY <1>1, <1>2, <1>7, ChargingMatters
  DEF ChargingTaskIsSound, ChargingShape, ChargingCurrent, OnStation, OnOperator
<1>11. /\ task' \in [Handlers -> C!TaskType] /\ task'[h] = u
       /\ \A g \in Handlers \ {h} : task'[g] = task[g]
       /\ ChargingTasksAreSound' /\ ChargingTasksMeet'
  BY <1>8, <1>9, <1>10, ChargingGoesOnFacts
<1>12. OperatorsAreSound' /\ OneIsKept'
  BY <1>1 DEF ChargingInv, OperatorsAreSound, OneIsKept
<1>13. StationsAreSound'
  BY <1>1, <1>2, <1>5 DEF ChargingInv, StationsAreSound
<1>14. C!CountsAgree'
  <2>1. \A q \in Stations : (\A k \in Handlers : ~(task'[k].pc = "count" /\ task'[k].on = q))
          => q # s /\ \A k \in Handlers : ~(task[k].pc = "count" /\ task[k].on = q)
    BY <1>7, <1>11
  <2>2. QED
    BY <1>1, <1>5, <2>1, ChargingCountsStay
<1>15. QED
  BY <1>9, <1>11, <1>12, <1>13, <1>14 DEF ChargingInv

LEMMA ChargingPortsPreserveInv ==
  ASSUME ChargingInv, NEW h \in Handlers, C!CommitAddPort(h) \/ C!CommitChangePort(h)
  PROVE  ChargingInv' /\ C!StationStep
<1>1. CASE C!CommitAddPort(h)
  BY <1>1, ChargingSetPortPreservesInv DEF C!CommitAddPort, C!At
<1>2. CASE C!CommitChangePort(h)
  <2>1. task[h].pc = "setPort"
    BY <1>2 DEF C!CommitChangePort, C!At
  <2>2. task[h].port \in Ports
    BY <2>1, ChargingTaskOfStation DEF OnStation, ChargingShape
  <2>3. QED
    BY <1>2, <2>1, <2>2, ChargingSetPortPreservesInv, ChargingFailPreservesInv
    DEF C!CommitChangePort
<1>3. QED
  BY <1>1, <1>2

\* What a handler that goes on writing nothing keeps.
LEMMA ChargingGoOnPreservesInv ==
  ASSUME ChargingInv, NEW h \in Handlers, NEW u \in C!TaskType, task[h].pc # "idle",
         task' = [task EXCEPT ![h] = u],
         u.on = task[h].on, u.matter = task[h].matter, u.alone = task[h].alone,
         u.pc = "count" <=> task[h].pc = "count", ChargingTaskIsSound(u)',
         UNCHANGED <<operator, station, port, tariff, disturbed>>
  PROVE  ChargingInv' /\ C!StationStep
<1>1. /\ OperatorsAreSound' /\ StationsAreSound' /\ OneIsKept' /\ C!StationStep
      /\ \A x, m : ChargingFrame(x, m)
  BY ChargingRowsStay
<1>2. ChargingGoesOn(h, u)
  BY DEF ChargingGoesOn
<1>3. /\ task' \in [Handlers -> C!TaskType] /\ task'[h] = u
      /\ \A g \in Handlers \ {h} : task'[g] = task[g]
      /\ ChargingTasksAreSound' /\ ChargingTasksMeet'
  BY <1>1, <1>2, ChargingGoesOnFacts
<1>4. \A k \in Handlers : /\ task'[k].pc = "count" <=> task[k].pc = "count"
                          /\ task'[k].on = task[k].on
  BY <1>3
<1>5. C!CountsAgree'
  BY <1>4, ChargingCountsStay
<1>6. QED
  BY <1>1, <1>3, <1>5 DEF ChargingInv

LEMMA ChargingCountIsTyped ==
  ASSUME NEW S \in SUBSET Ports
  PROVE  /\ C!Cardinality(S) \in -1 .. C!Cardinality(Ports)
         /\ C!Cardinality(S) = Cardinality(S) /\ Cardinality(S) >= 0
<1>1. /\ Cardinality(S) \in Nat /\ Cardinality(Ports) \in Nat
      /\ Cardinality(S) <= Cardinality(Ports)
  BY ChargingPorts, FS_Subset, FS_CardinalityType
<1>2. QED
  BY <1>1, ChargingCardinality

LEMMA ChargingCountsPreserveInv ==
  ASSUME ChargingInv, NEW h \in Handlers, C!CountPorts(h) \/ C!CountFreePorts(h)
  PROVE  ChargingInv' /\ C!StationStep
<1>1. task[h].pc = "count" /\ UNCHANGED <<operator, station, port, tariff, disturbed>>
  BY DEF C!CountPorts, C!CountFreePorts, C!At
<1>2. /\ task[h] \in C!TaskType /\ task[h].on \in Stations /\ task[h].matter = "ports"
      /\ ChargingShape(task[h]) /\ (task[h].alone => ChargingCurrent(task[h]))
      /\ station[task[h].on].status # "ABSENT"
  BY <1>1, ChargingTaskOfStation, ChargingMatters DEF OnStation
<1>3. /\ C!ActivePorts(task[h].on) \in SUBSET Ports /\ C!FreePorts(task[h].on) \in SUBSET Ports
  BY DEF C!ActivePorts, C!FreePorts
<1>4. ASSUME NEW u \in C!TaskType, u.pc = "count", u.on = task[h].on, u.matter = "ports",
             u.alone = task[h].alone, task' = [task EXCEPT ![h] = u],
             u.alone =>
               /\ u.total >= 0 => u.total = Cardinality(C!ActivePorts(task[h].on))
               /\ u.available >= 0 => u.available = Cardinality(C!FreePorts(task[h].on))
      PROVE  ChargingInv' /\ C!StationStep
  <2>1. ChargingShape(u)'
    BY <1>1, <1>2, <1>4, ChargingMatters DEF ChargingShape, OnStation, OnOperator
  <2>2. u.alone => ChargingCurrent(u)'
    <3>1. C!ActivePorts(u.on)' = C!ActivePorts(task[h].on)
          /\ C!FreePorts(u.on)' = C!FreePorts(task[h].on)
      BY <1>1, <1>4 DEF C!ActivePorts, C!FreePorts
    <3>2. QED
      BY <1>4, <3>1 DEF ChargingCurrent
  <2>3. ChargingTaskIsSound(u)'
    BY <2>1, <2>2 DEF ChargingTaskIsSound
  <2>4. QED
    BY <1>1, <1>2, <1>4, <2>3, ChargingGoOnPreservesInv
<1>5. CASE C!CountPorts(h)
  <2>1. PICK n \in -1 .. C!Cardinality(Ports) :
          n = C!Cardinality(C!ActivePorts(task[h].on))
          /\ n = Cardinality(C!ActivePorts(task[h].on))
    BY <1>3, ChargingCountIsTyped
  <2>2. PICK u \in C!TaskType : u = [task[h] EXCEPT !.total = n]
    BY <1>2 DEF C!TaskType
  <2>3. /\ u.pc = "count" /\ u.on = task[h].on /\ u.matter = "ports"
        /\ u.alone = task[h].alone /\ u.total = n /\ u.available = task[h].available
    BY <1>1, <1>2, <2>2 DEF C!TaskType
  <2>4. task' = [task EXCEPT ![h] = u]
    BY <1>5, <2>1, <2>2 DEF C!CountPorts, ChargingInv
  <2>5. task[h].alone => (task[h].available >= 0 =>
          task[h].available = Cardinality(C!FreePorts(task[h].on)))
    BY <1>1, <1>2 DEF ChargingCurrent
  <2>6. QED
    BY <1>4, <2>1, <2>3, <2>4, <2>5
<1>6. CASE C!CountFreePorts(h)
  <2>1. PICK n \in -1 .. C!Cardinality(Ports) :
          n = C!Cardinality(C!FreePorts(task[h].on))
          /\ n = Cardinality(C!FreePorts(task[h].on))
    BY <1>3, ChargingCountIsTyped
  <2>2. PICK u \in C!TaskType : u = [task[h] EXCEPT !.available = n]
    BY <1>2 DEF C!TaskType
  <2>3. /\ u.pc = "count" /\ u.on = task[h].on /\ u.matter = "ports"
        /\ u.alone = task[h].alone /\ u.available = n /\ u.total = task[h].total
    BY <1>1, <1>2, <2>2 DEF C!TaskType
  <2>4. task' = [task EXCEPT ![h] = u]
    BY <1>6, <2>1, <2>2 DEF C!CountFreePorts, ChargingInv
  <2>5. task[h].alone => (task[h].total >= 0 =>
          task[h].total = Cardinality(C!ActivePorts(task[h].on)))
    BY <1>1, <1>2 DEF ChargingCurrent
  <2>6. QED
    BY <1>4, <2>1, <2>3, <2>4, <2>5
<1>7. QED
  BY <1>5, <1>6

\* The counts that were made are written; alone, they are those of the ports.
LEMMA ChargingWriteCountsPreservesInv ==
  ASSUME ChargingInv, NEW h \in Handlers, C!CommitPortCounts(h)
  PROVE  ChargingInv' /\ C!StationStep
<1> DEFINE s == task[h].on
<1>1. /\ task[h].pc = "count" /\ task[h].total >= 0 /\ task[h].available >= 0
      /\ station' = [station EXCEPT ![s].total = task[h].total,
                                    ![s].available = task[h].available]
      /\ disturbed' = IF task[h].alone THEN disturbed \ {<<s, "ports">>}
                                       ELSE disturbed \cup {<<s, "ports">>}
      /\ C!Finish(h) /\ UNCHANGED <<operator, port, tariff>>
  BY DEF C!CommitPortCounts, C!At
<1>2. /\ task[h] \in C!TaskType /\ s \in Stations /\ station[s] \in StationType
      /\ task[h].matter = "ports" /\ station[s].status # "ABSENT"
      /\ (task[h].alone => ChargingCurrent(task[h]))
  BY <1>1, ChargingTaskOfStation, ChargingMatters DEF OnStation
<1>3. task[h].total \in Int /\ task[h].available \in Int
  BY <1>2 DEF C!TaskType
<1>4. PICK row \in StationType :
        row = [station[s] EXCEPT !.total = task[h].total, !.available = task[h].available]
  BY <1>2, <1>3 DEF StationType
<1>5. /\ row.status = station[s].status /\ row.photos = station[s].photos
      /\ row.primaries = station[s].primaries /\ row.total = task[h].total
      /\ row.available = task[h].available
  BY <1>2, <1>4 DEF StationType
<1>6. station' = [station EXCEPT ![s] = row]
  BY <1>1, <1>2, <1>4 DEF ChargingInv, StationsAreSound
<1>7. /\ StationsAreSound' /\ station'[s] = row
      /\ \A q \in Stations \ {s} : station'[q] = station[q]
  BY <1>1, <1>2, <1>5, <1>6, ChargingStationWritten
<1>8. C!StationStep /\ ChargingFrame(s, task[h].matter)
  BY <1>1, <1>5, <1>7 DEF C!StationStep, ChargingFrame
<1>9. /\ task' \in [Handlers -> C!TaskType] /\ task'[h].pc = "idle"
      /\ \A g \in Handlers \ {h} : task'[g] = task[g]
      /\ ChargingTasksAreSound' /\ ChargingTasksMeet'
  BY <1>1, <1>8, ChargingFinishes
<1>10. \A q \in Stations, m \in {"tariff", "photos"} :
         <<q, m>> \notin disturbed' => <<q, m>> \notin disturbed
  BY <1>1
<1>11. OperatorsAreSound' /\ OneIsKept'
  <2>1. OperatorsAreSound'
    BY <1>1 DEF ChargingInv, OperatorsAreSound
  <2>2. \A q \in Stations : /\ station'[q].photos = station[q].photos
                            /\ station'[q].primaries = station[q].primaries
    BY <1>5, <1>7
  <2>3. \A q \in Stations : /\ <<q, "tariff">> \notin disturbed' => <<q, "tariff">> \notin disturbed
                            /\ <<q, "photos">> \notin disturbed' => <<q, "photos">> \notin disturbed
    BY <1>10
  <2>4. QED
    BY <1>1, <2>1, <2>2, <2>3 DEF ChargingInv, OneIsKept
<1>12. C!CountsAgree'
  <2>1. SUFFICES ASSUME NEW q \in Stations, <<q, "ports">> \notin disturbed',
                        \A k \in Handlers : ~(task'[k].pc = "count" /\ task'[k].on = q)
                 PROVE  C!CountsAreRight(q)'
    BY DEF C!CountsAgree, C!At
  <2>2. C!ActivePorts(q)' = C!ActivePorts(q) /\ C!FreePorts(q)' = C!FreePorts(q)
    BY <1>1 DEF C!ActivePorts, C!FreePorts
  <2>3. CASE q = s
    <3>1. ChargingCurrent(task[h])
      BY <1>1, <1>2, <2>1, <2>3
    <3>2. /\ task[h].total = Cardinality(C!ActivePorts(s))
          /\ task[h].available = Cardinality(C!FreePorts(s))
      BY <1>1, <3>1 DEF ChargingCurrent
    <3>3. QED
      BY <1>5, <1>7, <2>2, <2>3, <3>2, ChargingCardinality DEF C!CountsAreRight
  <2>4. CASE q # s
    <3>1. /\ <<q, "ports">> \notin disturbed
          /\ \A k \in Handlers : ~(task[k].pc = "count" /\ task[k].on = q)
      BY <1>1, <1>9, <2>1, <2>4
    <3>2. C!CountsAreRight(q)
      BY <3>1 DEF ChargingInv, C!CountsAgree, C!At
    <3>3. QED
      BY <1>7, <2>2, <2>4, <3>2 DEF C!CountsAreRight
  <2>5. QED
    BY <2>3, <2>4
<1>13. QED
  BY <1>7, <1>8, <1>9, <1>11, <1>12 DEF ChargingInv

LEMMA ChargingOpenTariffPreservesInv ==
  ASSUME ChargingInv, NEW h \in Handlers, C!OpenSetTariff(h)
  PROVE  ChargingInv' /\ C!StationStep
<1>1. /\ task[h].pc = "openTariff"
      /\ task' = [task EXCEPT ![h].pc = "setTariff", ![h].old = tariff[task[h].on]]
      /\ UNCHANGED <<operator, station, port, tariff, disturbed>>
  BY DEF C!OpenSetTariff, C!At
<1>2. /\ task[h] \in C!TaskType /\ task[h].on \in Stations /\ task[h].matter = "tariff"
      /\ station[task[h].on].status # "ABSENT"
  BY <1>1, ChargingTaskOfStation, ChargingMatters DEF OnStation
<1>3. PICK old \in SUBSET Tariffs : old = tariff[task[h].on]
  BY <1>2 DEF ChargingInv, StationsAreSound
<1>4. PICK u \in C!TaskType : u = [task[h] EXCEPT !.pc = "setTariff", !.old = old]
  BY <1>2 DEF C!TaskType
<1>5. /\ u.pc = "setTariff" /\ u.on = task[h].on /\ u.matter = "tariff"
      /\ u.alone = task[h].alone /\ u.old = old
  BY <1>2, <1>4 DEF C!TaskType
<1>6. task' = [task EXCEPT ![h] = u]
  BY <1>1, <1>3, <1>4 DEF ChargingInv
<1>7. ChargingTaskIsSound(u)'
  BY <1>1, <1>2, <1>3, <1>5, ChargingMatters
  DEF ChargingTaskIsSound, ChargingShape, ChargingCurrent, OnStation, OnOperator
<1>8. QED
  BY <1>1, <1>2, <1>5, <1>6, <1>7, ChargingGoOnPreservesInv

LEMMA ChargingSetTariffPreservesInv ==
  ASSUME ChargingInv, NEW h \in Handlers, C!CommitSetTariff(h)
  PROVE  ChargingInv' /\ C!StationStep
<1> DEFINE s == task[h].on
<1>1. task[h].pc = "setTariff" /\ C!Conclude(h) /\ UNCHANGED <<operator, station, port>>
  BY DEF C!CommitSetTariff, C!At
<1>2. PICK t \in Tariffs : tariff' = [tariff EXCEPT ![s] = (@ \ task[h].old) \cup {t}]
  BY DEF C!CommitSetTariff
<1>3. /\ s \in Stations /\ task[h].matter = "tariff" /\ station[s].status # "ABSENT"
      /\ (task[h].alone => ChargingCurrent(task[h]))
  BY <1>1, ChargingTaskOfStation, ChargingMatters DEF OnStation
<1>4. /\ tariff' \in [Stations -> SUBSET Tariffs]
      /\ tariff'[s] = (tariff[s] \ task[h].old) \cup {t}
      /\ \A q \in Stations \ {s} : tariff'[q] = tariff[q]
  BY <1>2, <1>3 DEF ChargingInv, StationsAreSound
<1>5. C!StationStep /\ ChargingFrame(s, task[h].matter)
  BY <1>1, <1>3, <1>4 DEF C!StationStep, ChargingFrame
<1>6. /\ task' \in [Handlers -> C!TaskType]
      /\ ChargingTasksAreSound' /\ ChargingTasksMeet' /\ C!CountsAgree'
      /\ disturbed \subseteq disturbed'
      /\ task[h].alone \/ <<s, "tariff">> \in disturbed'
  BY <1>1, <1>3, <1>5, ChargingConcludes
<1>7. OperatorsAreSound' /\ StationsAreSound'
  BY <1>1, <1>3, <1>4 DEF ChargingInv, OperatorsAreSound, StationsAreSound
<1>8. OneIsKept'
  <2>1. task[h].alone => tariff'[s] = {t}
    <3>1. task[h].alone => task[h].old = tariff[s]
      BY <1>1, <1>3 DEF ChargingCurrent
    <3>2. QED
      BY <1>4, <3>1
  <2>2. QED
    <3>1. ASSUME NEW q \in Stations, <<q, "tariff">> \notin disturbed'
          PROVE  \A a, b \in tariff'[q] : a = b
      <4>1. CASE q = s
        BY <1>6, <2>1, <3>1, <4>1
      <4>2. CASE q # s
        BY <1>4, <1>6, <3>1, <4>2 DEF ChargingInv, OneIsKept
      <4>3. QED
        BY <4>1, <4>2
    <3>2. QED
      BY <1>1, <1>6, <3>1 DEF ChargingInv, OneIsKept
<1>9. QED
  BY <1>5, <1>6, <1>7, <1>8 DEF ChargingInv

LEMMA ChargingPhotosPreserveInv ==
  ASSUME ChargingInv, NEW h \in Handlers, C!CommitAddPhotos(h)
  PROVE  ChargingInv' /\ C!StationStep
<1> DEFINE s == task[h].on
<1>1. task[h].pc = "photos"
  BY DEF C!CommitAddPhotos, C!At
<1>2. /\ task[h] \in C!TaskType /\ s \in Stations /\ task[h].matter = "photos"
      /\ station[s].status # "ABSENT" /\ station[s] \in StationType
      /\ ChargingShape(task[h]) /\ (task[h].alone => ChargingCurrent(task[h]))
  BY <1>1, ChargingTaskOfStation, ChargingMatters DEF OnStation
<1>3. PICK old \in StationType : old = station[s]
  BY <1>2
<1>4. /\ task[h].add \in Nat /\ task[h].add > 0 /\ MaxPhotos \in Nat
      /\ old.photos \in Nat /\ old.primaries \in Nat
  BY <1>1, <1>2, PartnersBoundsOK DEF ChargingShape, C!TaskType, StationType
<1>5. PICK n \in Nat : n = old.photos + task[h].add
  BY <1>4
<1>6. PICK m \in Nat : m = IF task[h].read = 0 THEN old.primaries + 1 ELSE old.primaries
  BY <1>4
<1>7. PICK row \in StationType : row = [old EXCEPT !.photos = n, !.primaries = m]
  BY DEF StationType
<1>8. /\ row.status = old.status /\ row.photos = n /\ row.primaries = m
      /\ row.total = old.total /\ row.available = old.available
  BY <1>7 DEF StationType
<1>9. /\ station' = [station EXCEPT ![s] = row] /\ C!Conclude(h)
      /\ UNCHANGED <<operator, port, tariff>>
  BY <1>3, <1>5, <1>6, <1>7 DEF C!CommitAddPhotos, C!WriteStation
<1>10. /\ StationsAreSound' /\ station'[s] = row
       /\ \A q \in Stations \ {s} : station'[q] = station[q]
  BY <1>2, <1>3, <1>8, <1>9, ChargingStationWritten
<1>11. C!StationStep /\ ChargingFrame(s, task[h].matter)
  BY <1>2, <1>3, <1>8, <1>9, <1>10 DEF C!StationStep, ChargingFrame
<1>12. \A q \in Stations : /\ station'[q].total = station[q].total
                           /\ station'[q].available = station[q].available
                           /\ port'[q] = port[q]
  BY <1>3, <1>8, <1>9, <1>10
<1>13. /\ task' \in [Handlers -> C!TaskType]
       /\ ChargingTasksAreSound' /\ ChargingTasksMeet' /\ C!CountsAgree'
       /\ disturbed \subseteq disturbed'
       /\ task[h].alone \/ <<s, "photos">> \in disturbed'
  BY <1>1, <1>2, <1>9, <1>11, <1>12, ChargingConcludes
<1>14. OperatorsAreSound'
  BY <1>9 DEF ChargingInv, OperatorsAreSound
<1>15. OneIsKept'
  <2>1. ASSUME <<s, "photos">> \notin disturbed'
        PROVE  row.primaries = 1 /\ row.photos # 0
    <3>1. task[h].read = old.photos
      BY <1>1, <1>2, <1>3, <1>13, <2>1 DEF ChargingCurrent
    <3>2. old.primaries = IF old.photos = 0 THEN 0 ELSE 1
      BY <1>2, <1>3, <1>13, <2>1 DEF ChargingInv, OneIsKept
    <3>3. QED
      BY <1>4, <1>5, <1>6, <1>8, <3>1, <3>2
  <2>2. ASSUME NEW q \in Stations, <<q, "photos">> \notin disturbed'
        PROVE  station'[q].primaries = IF station'[q].photos = 0 THEN 0 ELSE 1
    <3>1. CASE q = s
      BY <1>10, <2>1, <2>2, <3>1
    <3>2. CASE q # s
      BY <1>10, <1>13, <2>2, <3>2 DEF ChargingInv, OneIsKept
    <3>3. QED
      BY <3>1, <3>2
  <2>3. QED
    BY <1>9, <1>13, <2>2 DEF ChargingInv, OneIsKept
<1>16. QED
  BY <1>10, <1>11, <1>13, <1>14, <1>15 DEF ChargingInv

LEMMA ChargingCrashPreservesInv ==
  ASSUME ChargingInv, NEW h \in Handlers, C!Crash(h)
  PROVE  ChargingInv' /\ C!StationStep
<1>1. /\ task[h].pc # "idle" /\ C!Finish(h)
      /\ disturbed' = IF task[h].pc = "count" THEN disturbed \cup {<<task[h].on, "ports">>}
                                              ELSE disturbed
      /\ UNCHANGED <<operator, station, port, tariff>>
  BY DEF C!Crash, C!At
<1>2. disturbed \subseteq disturbed'
  BY <1>1
<1>3. /\ OperatorsAreSound' /\ StationsAreSound' /\ OneIsKept' /\ C!StationStep
      /\ \A x, m : ChargingFrame(x, m)
  BY <1>1, <1>2, ChargingRowsStay
<1>4. /\ task' \in [Handlers -> C!TaskType] /\ task'[h].pc = "idle"
      /\ \A g \in Handlers \ {h} : task'[g] = task[g]
      /\ ChargingTasksAreSound' /\ ChargingTasksMeet'
  BY <1>1, <1>3, ChargingFinishes
<1>5. C!CountsAgree'
  BY <1>1, <1>2, <1>4, ChargingCountsStay
<1>6. QED
  BY <1>3, <1>4, <1>5 DEF ChargingInv

-----------------------------------------------------------------------------
(* Charging: the requests that start *)

LEMMA ChargingOnStation ==
  /\ "update" \in OnStation /\ "submit" \in OnStation /\ "review" \in OnStation
  /\ "addPort" \in OnStation /\ "setPort" \in OnStation /\ "openTariff" \in OnStation
  /\ "photos" \in OnStation
  BY DEF OnStation

LEMMA ChargingRequest ==
  ASSUME NEW pc \in OnOperator \cup OnStation, NEW x \in Operators \cup Stations,
         NEW m \in {"operator", "details", "status", "ports", "tariff", "photos"}
  PROVE  \E d \in C!TaskType :
           /\ d = C!Request(pc, x, m)
           /\ d.pc = pc /\ d.on = x /\ d.matter = m /\ d.total = -1 /\ d.available = -1
<1>1. C!Idle \in C!TaskType /\ C!Idle.total = -1 /\ C!Idle.available = -1
  BY ChargingIdleType DEF C!Idle, C!Unstated
<1>2. pc \in {"apply", "edit", "approve", "reject", "update", "submit", "review",
              "addPort", "setPort", "count", "openTariff", "setTariff", "photos"}
  BY DEF OnOperator, OnStation
<1> DEFINE d == [C!Idle EXCEPT !.pc = pc, !.on = x, !.matter = m]
<1>3. d \in C!TaskType
  <2>1. \A t \in C!TaskType : [t EXCEPT !.pc = pc] \in C!TaskType
    BY <1>2 DEF C!TaskType
  <2>2. \A t \in C!TaskType : [t EXCEPT !.on = x] \in C!TaskType
    BY DEF C!TaskType
  <2>3. \A t \in C!TaskType : [t EXCEPT !.matter = m] \in C!TaskType
    BY DEF C!TaskType
  <2>4. d = [[[C!Idle EXCEPT !.pc = pc] EXCEPT !.on = x] EXCEPT !.matter = m]
    BY DEF C!Idle
  <2>5. QED
    BY <1>1, <2>1, <2>2, <2>3, <2>4
<1>4. d.pc = pc /\ d.on = x /\ d.matter = m /\ d.total = -1 /\ d.available = -1
  BY <1>1 DEF C!TaskType
<1>5. d = C!Request(pc, x, m)
  BY DEF C!Request
<1> HIDE DEF d
<1>6. QED
  BY <1>3, <1>4, <1>5

LEMMA ChargingBeginOperatorPreservesInv ==
  ASSUME ChargingInv, NEW h \in Handlers, NEW o \in Operators,
         \/ C!BeginApply(h, o) \/ C!BeginUpdateOperator(h, o)
         \/ C!BeginApproveOperator(h, o) \/ C!BeginRejectOperator(h, o)
  PROVE  ChargingInv' /\ C!StationStep
<1>1. PICK pc \in OnOperator : C!Start(h, C!Request(pc, o, "operator"))
  BY DEF C!BeginApply, C!BeginUpdateOperator, C!BeginApproveOperator, C!BeginRejectOperator,
         C!StartRequest, C!StartDecision, OnOperator
<1>2. PICK t \in C!TaskType : /\ t = C!Request(pc, o, "operator")
                              /\ t.pc = pc /\ t.on = o /\ t.matter = "operator"
  BY ChargingRequest
<1>3. ChargingShape(t) /\ ChargingCurrent(t) /\ t.pc \notin {"idle", "count"}
  BY <1>2 DEF ChargingShape, ChargingCurrent, OnOperator, OnStation
<1>4. QED
  BY <1>1, <1>2, <1>3, ChargingStartPreservesInv

LEMMA ChargingBeginStationPreservesInv ==
  ASSUME ChargingInv, NEW h \in Handlers, NEW s \in Stations,
         \/ C!BeginSubmitStation(h, s) \/ C!BeginSetTariff(h, s)
         \/ \E to \in {"OPERATIONAL", "OFFLINE"}, n, free \in {C!Unstated, 0} :
              C!BeginUpdateStation(h, s, to, n, free)
  PROVE  ChargingInv' /\ C!StationStep
<1>1. station[s].status # "ABSENT"
  BY DEF C!BeginSubmitStation, C!BeginSetTariff, C!BeginUpdateStation, C!MayManage
<1>2. CASE C!BeginSubmitStation(h, s)
  <2>1. PICK t \in C!TaskType : /\ t = C!Request("submit", s, "status")
                                /\ t.pc = "submit" /\ t.on = s /\ t.matter = "status"
    BY ChargingRequest, ChargingOnStation
  <2>2. station[s].status \in {"DRAFT", "REJECTED"} /\ C!Start(h, t)
    BY <1>2, <2>1 DEF C!BeginSubmitStation, C!StartRequest
  <2>3. ChargingShape(t) /\ ChargingCurrent(t)
    BY <1>1, <2>1, <2>2, ChargingMatters
    DEF ChargingShape, ChargingCurrent, OnOperator, OnStation
  <2>4. QED
    BY <2>1, <2>2, <2>3, ChargingStartPreservesInv
<1>3. CASE C!BeginSetTariff(h, s)
  <2>1. PICK t \in C!TaskType : /\ t = C!Request("openTariff", s, "tariff")
                                /\ t.pc = "openTariff" /\ t.on = s /\ t.matter = "tariff"
    BY ChargingRequest, ChargingOnStation
  <2>2. C!Start(h, t)
    BY <1>3, <2>1 DEF C!BeginSetTariff, C!StartRequest
  <2>3. ChargingShape(t) /\ ChargingCurrent(t)
    BY <1>1, <2>1, ChargingMatters DEF ChargingShape, ChargingCurrent, OnOperator, OnStation
  <2>4. QED
    BY <2>1, <2>2, <2>3, ChargingStartPreservesInv
<1>4. ASSUME NEW to \in {"OPERATIONAL", "OFFLINE"}, NEW n \in {C!Unstated, 0},
             NEW free \in {C!Unstated, 0}, C!BeginUpdateStation(h, s, to, n, free)
      PROVE  ChargingInv' /\ C!StationStep
  <2>1. PICK d \in C!TaskType : /\ d = C!Request("update", s, "details")
                                /\ d.pc = "update" /\ d.on = s /\ d.matter = "details"
    BY ChargingRequest, ChargingOnStation
  <2>2. n \in -1 .. C!Cardinality(Ports) /\ free \in -1 .. C!Cardinality(Ports)
    BY ChargingPorts, ChargingCardinality DEF C!Unstated
  <2>3. PICK u \in C!TaskType : u = [d EXCEPT !.to = to]
    BY DEF C!TaskType
  <2>4. PICK v \in C!TaskType : v = [u EXCEPT !.total = n]
    <3>1. \A x \in -1 .. C!Cardinality(Ports) : [u EXCEPT !.total = x] \in C!TaskType
      BY DEF C!TaskType
    <3>2. QED
      BY <2>2, <3>1
  <2>5. PICK t \in C!TaskType : t = [v EXCEPT !.available = free]
    <3>1. \A x \in -1 .. C!Cardinality(Ports) : [v EXCEPT !.available = x] \in C!TaskType
      BY DEF C!TaskType
    <3>2. QED
      BY <2>2, <3>1
  <2>6. t.pc = "update" /\ t.on = s /\ t.matter = "details" /\ t.to = to
    BY <2>1, <2>3, <2>5, <2>4 DEF C!TaskType
  <2>7. C!Start(h, t)
    BY <1>4, <2>1, <2>3, <2>5, <2>4 DEF C!BeginUpdateStation, C!StartRequest
  <2>8. ChargingShape(t) /\ ChargingCurrent(t)
    BY <1>1, <2>6, ChargingMatters DEF ChargingShape, ChargingCurrent, OnOperator, OnStation
  <2>9. QED
    BY <2>6, <2>7, <2>8, ChargingStartPreservesInv
<1>5. QED
  BY <1>2, <1>3, <1>4

LEMMA ChargingBeginReviewPreservesInv ==
  ASSUME ChargingInv, NEW h \in Handlers, NEW s \in Stations, NEW to \in C!StationDecisions,
         C!BeginReviewStation(h, s, to)
  PROVE  ChargingInv' /\ C!StationStep
<1>1. PICK d \in C!TaskType : /\ d = C!Request("review", s, "status")
                              /\ d.pc = "review" /\ d.on = s /\ d.matter = "status"
  BY ChargingRequest, ChargingOnStation
<1>2. to \in C!StationStatus
  BY DEF C!StationDecisions, C!StationStatus
<1>3. PICK t \in C!TaskType : t = [d EXCEPT !.to = to]
  BY <1>2 DEF C!TaskType
<1>4. t.pc = "review" /\ t.on = s /\ t.matter = "status" /\ t.to = to
  BY <1>1, <1>3 DEF C!TaskType
<1>5. /\ C!Start(h, t) /\ C!CanStationTransition(station[s].status, to)
      /\ station[s].status # "ABSENT"
  BY <1>1, <1>3 DEF C!BeginReviewStation, C!StartDecision, C!StationStatus
<1>6. ChargingShape(t) /\ ChargingCurrent(t)
  BY <1>4, <1>5, ChargingMatters DEF ChargingShape, ChargingCurrent, OnOperator, OnStation
<1>7. QED
  BY <1>4, <1>5, <1>6, ChargingStartPreservesInv

LEMMA ChargingBeginPortPreservesInv ==
  ASSUME ChargingInv, NEW h \in Handlers, NEW s \in Stations,
         \/ \E to \in C!PortState : C!BeginAddPort(h, s, to)
         \/ \E p \in Ports, to \in C!PortState : C!BeginUpdatePort(h, s, p, to)
         \/ \E p \in Ports : C!BeginRemovePort(h, s, p)
  PROVE  ChargingInv' /\ C!StationStep
<1>1. station[s].status # "ABSENT"
  BY DEF C!BeginAddPort, C!BeginUpdatePort, C!BeginRemovePort, C!MayManage
<1>2. ASSUME NEW to \in C!PortState, C!BeginAddPort(h, s, to)
      PROVE  ChargingInv' /\ C!StationStep
  <2>1. PICK d \in C!TaskType : /\ d = C!Request("addPort", s, "ports")
                                /\ d.pc = "addPort" /\ d.on = s /\ d.matter = "ports"
                                /\ d.total = -1 /\ d.available = -1
    BY ChargingRequest, ChargingOnStation
  <2>2. PICK t \in C!TaskType : t = [d EXCEPT !.to = to]
    BY DEF C!TaskType
  <2>3. /\ t.pc = "addPort" /\ t.on = s /\ t.matter = "ports" /\ t.to = to
        /\ t.total = -1 /\ t.available = -1
    BY <2>1, <2>2 DEF C!TaskType
  <2>4. C!Start(h, t)
    BY <1>2, <2>1, <2>2 DEF C!BeginAddPort, C!StartRequest
  <2>5. ChargingShape(t) /\ ChargingCurrent(t)
    BY <1>1, <2>3, ChargingMatters DEF ChargingShape, ChargingCurrent, OnOperator, OnStation
  <2>6. QED
    BY <2>3, <2>4, <2>5, ChargingStartPreservesInv
<1>3. ASSUME NEW p \in Ports, NEW to \in C!PortState \cup {"none"},
             C!BeginUpdatePort(h, s, p, to) \/ (C!BeginRemovePort(h, s, p) /\ to = "none")
      PROVE  ChargingInv' /\ C!StationStep
  <2>1. PICK d \in C!TaskType : /\ d = C!Request("setPort", s, "ports")
                                /\ d.pc = "setPort" /\ d.on = s /\ d.matter = "ports"
                                /\ d.total = -1 /\ d.available = -1
    BY ChargingRequest, ChargingOnStation
  <2>2. PICK t \in C!TaskType : t = [d EXCEPT !.port = p, !.to = to]
    BY DEF C!TaskType
  <2>3. /\ t.pc = "setPort" /\ t.on = s /\ t.matter = "ports" /\ t.to = to
        /\ t.total = -1 /\ t.available = -1 /\ t.port = p
    BY <2>1, <2>2 DEF C!TaskType
  <2>4. C!Start(h, t)
    BY <1>3, <2>1, <2>2 DEF C!BeginUpdatePort, C!BeginRemovePort, C!StartRequest
  <2>5. ChargingShape(t) /\ ChargingCurrent(t)
    BY <1>1, <2>3, ChargingMatters DEF ChargingShape, ChargingCurrent, OnOperator, OnStation
  <2>6. QED
    BY <2>3, <2>4, <2>5, ChargingStartPreservesInv
<1>4. QED
  BY <1>2, <1>3

LEMMA ChargingBeginPhotosPreservesInv ==
  ASSUME ChargingInv, NEW h \in Handlers, NEW s \in Stations, NEW n \in 1 .. MaxPhotos,
         C!BeginAddPhotos(h, s, n)
  PROVE  ChargingInv' /\ C!StationStep
<1>1. station[s].status # "ABSENT" /\ station[s].photos + n <= MaxPhotos
  BY DEF C!BeginAddPhotos, C!MayManage
<1>2. /\ MaxPhotos \in Nat /\ station[s].photos \in Nat
  BY PartnersBoundsOK DEF ChargingInv, StationsAreSound, StationType
<1>3. PICK d \in C!TaskType : /\ d = C!Request("photos", s, "photos")
                              /\ d.pc = "photos" /\ d.on = s /\ d.matter = "photos"
  BY ChargingRequest, ChargingOnStation
<1>4. PICK r \in 0 .. MaxPhotos : r = station[s].photos
  BY <1>1, <1>2
<1>5. n \in 0 .. MaxPhotos /\ n > 0
  BY <1>2
<1>6. PICK t \in C!TaskType : t = [d EXCEPT !.read = r, !.add = n]
  BY <1>5 DEF C!TaskType
<1>7. t.pc = "photos" /\ t.on = s /\ t.matter = "photos" /\ t.read = r /\ t.add = n
  BY <1>3, <1>6 DEF C!TaskType
<1>8. C!Start(h, t)
  BY <1>3, <1>4, <1>6 DEF C!BeginAddPhotos, C!StartRequest
<1>9. ChargingShape(t) /\ ChargingCurrent(t)
  BY <1>1, <1>4, <1>5, <1>7, ChargingMatters
  DEF ChargingShape, ChargingCurrent, OnOperator, OnStation
<1>10. QED
  BY <1>7, <1>8, <1>9, ChargingStartPreservesInv

LEMMA ChargingNextPreservesInv ==
  ASSUME ChargingInv, C!Next
  PROVE  ChargingInv' /\ C!StationStep
<1>1. PICK h \in Handlers : \/ C!OperatorStep(h)
                            \/ \E s \in Stations : C!BeginStationStep(h, s)
                            \/ C!ContinueStation(h)
                            \/ C!Crash(h)
  BY DEF C!Next
<1>2. CASE C!OperatorStep(h)
  BY <1>2, ChargingBeginOperatorPreservesInv, ChargingOperatorsPreserveInv DEF C!OperatorStep
<1>3. ASSUME NEW s \in Stations, C!BeginStationStep(h, s)
      PROVE  ChargingInv' /\ C!StationStep
  BY <1>3, ChargingCreatePreservesInv, ChargingBeginStationPreservesInv,
     ChargingBeginReviewPreservesInv, ChargingBeginPortPreservesInv,
     ChargingBeginPhotosPreservesInv
  DEF C!BeginStationStep
<1>4. CASE C!ContinueStation(h)
  BY <1>4, ChargingUpdatePreservesInv, ChargingDecisionsPreserveInv, ChargingPortsPreserveInv,
     ChargingCountsPreserveInv, ChargingWriteCountsPreservesInv,
     ChargingOpenTariffPreservesInv, ChargingSetTariffPreservesInv, ChargingPhotosPreserveInv
  DEF C!ContinueStation
<1>5. QED
  BY <1>1, <1>2, <1>3, <1>4, ChargingCrashPreservesInv

LEMMA ChargingStutter ==
  ASSUME ChargingInv, UNCHANGED <<ofCharging, task, disturbed>>
  PROVE  ChargingInv' /\ C!StationStep
<1>1. UNCHANGED <<operator, station, port, tariff, task, disturbed>>
  BY DEF ofCharging
<1>2. /\ OperatorsAreSound' /\ StationsAreSound' /\ OneIsKept' /\ C!StationStep
      /\ \A x, m : ChargingFrame(x, m)
  BY <1>1, ChargingRowsStay
<1>3. /\ task' \in [Handlers -> C!TaskType]
      /\ ChargingTasksAreSound' /\ ChargingTasksMeet'
  BY <1>1, <1>2, ChargingTasksStay
<1>4. C!CountsAgree'
  BY <1>1, ChargingCountsStay
<1>5. QED
  BY <1>2, <1>3, <1>4 DEF ChargingInv

-----------------------------------------------------------------------------
(* The part at work *)

\* The inductive invariant: that of whichever part is at work.
IInv == PartsIInv /\ RequestsIInv /\ ChargingIInv

LEMMA InitIInv == Init => IInv
  BY PartsInitInv, RequestsInitInv, ChargingInitInv
  DEF Init, IInv, PartsIInv, RequestsIInv, ChargingIInv

\* A step of the part at work keeps its invariant and its workflow, and leaves the others
\* out of work.
LEMMA NextPreservesIInv ==
  ASSUME IInv, [Next]_vars
  PROVE  IInv' /\ PartnerStep
<1>1. CASE work = "charging" /\ C!Next /\ work' = work
  BY <1>1, ChargingNextPreservesInv
  DEF IInv, PartsIInv, RequestsIInv, ChargingIInv, PartnerStep
<1>2. CASE work = "parts" /\ P!Next /\ work' = work
  BY <1>2, PartsNextPreservesInv, PartsSuspensionHolds
  DEF IInv, PartsIInv, RequestsIInv, ChargingIInv, PartnerStep
<1>3. CASE work = "requests" /\ R!Next /\ work' = work
  BY <1>3, RequestsNextPreservesInv
  DEF IInv, PartsIInv, RequestsIInv, ChargingIInv, PartnerStep
<1>4. CASE UNCHANGED vars
  <2>1. /\ UNCHANGED <<ofCharging, task, disturbed>>
        /\ UNCHANGED <<seller, part, changed, task, disturbed>>
        /\ UNCHANGED <<ofRequests, task, disturbed>> /\ work' = work
    BY <1>4 DEF vars, ofParts
  <2>2. CASE work = "charging"
    BY <2>1, <2>2, ChargingStutter
    DEF IInv, PartsIInv, RequestsIInv, ChargingIInv, PartnerStep
  <2>3. CASE work = "parts"
    BY <2>1, <2>3, PartsStutter
    DEF IInv, PartsIInv, RequestsIInv, ChargingIInv, PartnerStep
  <2>4. CASE work = "requests"
    BY <2>1, <2>4, RequestsStutter
    DEF IInv, PartsIInv, RequestsIInv, ChargingIInv, PartnerStep
  <2>5. CASE work \notin {"charging", "parts", "requests"}
    BY <2>1, <2>5 DEF IInv, PartsIInv, RequestsIInv, ChargingIInv, PartnerStep
  <2>6. QED
    BY <2>2, <2>3, <2>4, <2>5
<1>5. QED
  BY <1>1, <1>2, <1>3, <1>4 DEF Next

\* The invariant of the part at work holds in every state.
THEOREM InductiveInvariant == Spec => []IInv
<1>1. IInv /\ [Next]_vars => IInv'
  BY NextPreservesIInv
<1>2. QED
  BY InitIInv, <1>1, PTL DEF Spec

\* Rows and tasks of the part at work are always well formed; the active operators are the
\* verified ones.
THEOREM PartnersTypeCorrect == Spec => []TypeOK
<1>1. IInv => TypeOK
  BY ChargingInvIsTyped
  DEF IInv, PartsIInv, RequestsIInv, ChargingIInv, TypeOK, PartsInv, RequestsInv
<1>2. QED
  BY <1>1, InductiveInvariant, PTL

\* Whatever the changes of ports that overlap or die, the counts of a station are those of
\* its ports as soon as one refresh has run by itself (refreshPortCounts).
THEOREM CountsAlwaysAgree == Spec => []CountsAgree
<1>1. IInv => CountsAgree
  BY DEF IInv, ChargingIInv, CountsAgree, ChargingInv
<1>2. QED
  BY <1>1, InductiveInvariant, PTL

\* A station whose tariffs and photos were changed one request at a time has at most one
\* active tariff, and one primary photo if it has any (setTariff, addPhotos).
THEOREM OneOfEachAlways == Spec => []OneOfEach
<1>1. IInv => OneOfEach
  BY ChargingInvHasOneOfEach DEF IInv, ChargingIInv, OneOfEach
<1>2. QED
  BY <1>1, InductiveInvariant, PTL

\* A part that buyers find is as its approval read it, unless a change of it overlapped
\* another request about it.
THEOREM PublicPartsAreAsApproved == Spec => []PublicPartIsAsApproved
<1>1. IInv => PublicPartIsAsApproved
  BY DEF IInv, PartsIInv, PublicPartIsAsApproved, PartsInv, ApprovedIsUnchanged,
         P!PublicPartIsAsApproved, P!PublicParts
<1>2. QED
  BY <1>1, InductiveInvariant, PTL

\* A fleet request keeps the date of its quotation, a financing request at a bank has an
\* active one, a charging product with photos has a primary one and, undisturbed, only one.
THEOREM RequestsAreAlwaysSound == Spec => []RequestsAreSound
<1>1. IInv => RequestsAreSound
  BY DEF IInv, RequestsIInv, RequestsAreSound, RequestsInv
<1>2. QED
  BY <1>1, InductiveInvariant, PTL

\* No step takes a station or a fleet request off its transition table, changes the outcome
\* a bank gave, or lets a suspended seller trade unverified, unless two decisions about the
\* row overlapped.
THEOREM WorkflowsAlwaysHold == Spec => WorkflowsHold
<1>1. IInv /\ [Next]_vars => [PartnerStep]_vars
  BY NextPreservesIInv
<1>2. QED
  BY <1>1, InductiveInvariant, PTL DEF Spec, WorkflowsHold
=============================================================================
