--------------------------- MODULE AccountProofs ---------------------------
(***************************************************************************)
(* Proofs about the accounts in Market: Sessions, Access and Guests, for   *)
(* every set of users, links, codes, sockets, notifications, inquiries and *)
(* handlers and whatever the bounds.                                       *)
(***************************************************************************)
EXTENDS Market, FiniteSetTheorems, TLAPS

\* The assumption on the constants, apart from the others.
LEMMA LinksAreRows == None \notin Users \cup Links /\ Users \cap Links = {}
  BY MarketBoundsOK

\* Sessions and the theorems about finite sets count alike.
LEMMA SessionCardinality == \A X : S!Cardinality(X) = Cardinality(X)
  BY DEF S!Cardinality, Cardinality

-----------------------------------------------------------------------------
(* Sessions *)

UserRow ==
  [exists : BOOLEAN, active : BOOLEAN, verified : BOOLEAN, google : BOOLEAN,
   roles : SUBSET S!Roles, market : BOOLEAN]
SessionRow ==
  [user : Users, token : Users \X (SUBSET S!Roles) \X Nat, epoch : Nat, raced : BOOLEAN,
   expired : BOOLEAN]
LinkRow ==
  [user : Users \cup {None}, type : S!LinkTypes \cup {"none"}, used : BOOLEAN,
   expired : BOOLEAN]
SessionPc ==
  {"idle", "clear", "open", "googleCreate", "googleUpdate", "create", "send", "unlink",
   "link", "use", "activate", "roles"}
SessionTask ==
  [pc : SessionPc,
   user : Users \cup {None}, alone : BOOLEAN, type : S!LinkTypes \cup {"none"},
   link : Links \cup {None}, roles : SUBSET S!Roles, epoch : Nat, verified : BOOLEAN]

AccountsTyped ==
  /\ user \in [Users -> UserRow]
  /\ link \in [Links -> LinkRow]
  /\ second \in Nat /\ epoch \in [Users -> Nat] /\ uses \in [Links -> Nat]
  /\ \A u \in Users : user[u].active \/ user[u].verified \/ user[u].google => user[u].exists

\* The rows of sessions; of an account that is not disturbed there is one.
SessionsAreSound ==
  /\ session \subseteq SessionRow
  /\ \A s, t \in session : s.token = t.token => s = t
  /\ \A s \in session : user[s.user].verified \/ user[s.user].google
  /\ S!SessionsEnd
  /\ \A s, t \in session : s.user = t.user /\ s.user \notin disturbed => s = t

\* The rows of links; a link that has been used is gone or says so.
LinksAreSound ==
  \A n \in Links :
    /\ link[n] # S!NoLink => link[n].user \in Users /\ user[link[n].user].exists
    /\ uses[n] # 0 => link[n] = S!NoLink \/ link[n].used
    /\ n \notin disturbed => uses[n] <= 1

\* What a task carries, whatever the others do.
SessionShape(t) ==
  /\ t.pc = "idle" => t.user = None
  /\ t.pc # "idle" => t.user \in Users
  /\ t.link # None <=> t.pc = "use"
  /\ t.pc \notin {"idle", "create", "googleCreate"} => user[t.user].exists
  /\ t.pc \in {"clear", "open"} => user[t.user].verified \/ user[t.user].google
  /\ t.pc = "use" => link[t.link] = S!NoLink \/ link[t.link].user = t.user

\* What a task that is alone with its user relies on.
SessionCurrent(t) ==
  /\ t.pc = "open" => \A s \in session : s.user # t.user
  /\ t.pc = "use" => uses[t.link] = 0

SessionTaskIsSound(t) == SessionShape(t) /\ (t.alone => SessionCurrent(t))

SessionTasksAreSound == \A h \in Handlers : SessionTaskIsSound(task[h])

\* Two tasks about one user know of each other.
SessionTasksMeet ==
  \A g, h \in Handlers : g # h /\ task[g].user = task[h].user /\ task[g].user # None
    => ~task[g].alone

SessionsInv ==
  /\ AccountsTyped /\ SessionsAreSound /\ LinksAreSound
  /\ task \in [Handlers -> SessionTask] /\ SessionTasksAreSound /\ SessionTasksMeet

SessionsIInv == work = "sessions" => SessionsInv

LEMMA SessionIdle ==
  /\ S!Idle \in SessionTask
  /\ S!Idle.pc = "idle" /\ S!Idle.user = None /\ S!Idle.link = None
  BY DEF S!Idle, SessionTask, SessionPc

LEMMA SessionsInitInv == S!Init => SessionsInv
<1> SUFFICES ASSUME S!Init
             PROVE  SessionsInv
  OBVIOUS
<1>1. PICK market \in BOOLEAN :
        user \in [Users -> {S!NoUser, [S!NoUser EXCEPT !.exists = TRUE, !.active = TRUE,
                                         !.verified = TRUE, !.roles = {"BUYER"},
                                         !.market = market]}]
  BY DEF S!Init
<1>2. PICK row : row = [S!NoUser EXCEPT !.exists = TRUE, !.active = TRUE,
                          !.verified = TRUE, !.roles = {"BUYER"}, !.market = market]
  OBVIOUS
<1>3. S!NoUser \in UserRow /\ row \in UserRow /\ row.exists
      /\ ~S!NoUser.active /\ ~S!NoUser.verified /\ ~S!NoUser.google
  BY <1>2 DEF S!NoUser, UserRow, S!Roles
<1>4. /\ user \in [Users -> UserRow]
      /\ \A u \in Users : user[u].active \/ user[u].verified \/ user[u].google => user[u].exists
  BY <1>1, <1>2, <1>3
<1>5. /\ session = {} /\ link = [n \in Links |-> S!NoLink] /\ second = 0
      /\ epoch = [u \in Users |-> 0] /\ uses = [n \in Links |-> 0]
      /\ task = [h \in Handlers |-> S!Idle]
  BY DEF S!Init
<1>6. S!NoLink \in LinkRow
  BY DEF S!NoLink, LinkRow
<1>7. AccountsTyped
  BY <1>4, <1>5, <1>6 DEF AccountsTyped
<1>8. SessionsAreSound /\ LinksAreSound
  BY <1>5 DEF SessionsAreSound, LinksAreSound, S!SessionsEnd
<1>9. task \in [Handlers -> SessionTask] /\ SessionTasksAreSound /\ SessionTasksMeet
  BY <1>5, SessionIdle
  DEF SessionTasksAreSound, SessionTaskIsSound, SessionShape, SessionCurrent, SessionTasksMeet
<1>10. QED
  BY <1>7, <1>8, <1>9 DEF SessionsInv

\* A step about user x takes nothing a task relies on from the other users: accounts keep
\* what they are, sessions and uses of links come to user x only.
SessionFrame(x) ==
  /\ \A u \in Users : /\ user[u].exists => user'[u].exists
                      /\ user[u].verified => user'[u].verified
                      /\ user[u].google => user'[u].google
  /\ \A s \in session' : s.user # x => \E t \in session : t.user = s.user
  /\ \A n \in Links : (\E g \in Handlers : task[g].link = n)
                        => link'[n] = S!NoLink \/ (link[n] # S!NoLink /\ link'[n].user = link[n].user)
  /\ \A n \in Links : uses'[n] # uses[n] => link[n] # S!NoLink /\ link[n].user = x

\* Task g is what it was, but no longer alone when it is about user x.
SessionBystander(g, x) ==
  /\ task'[g].pc = task[g].pc /\ task'[g].user = task[g].user
  /\ task'[g].link = task[g].link
  /\ task'[g].alone => task[g].alone /\ task[g].user # x

LEMMA SessionBystandersStaySound ==
  ASSUME SessionsInv, NEW g \in Handlers, NEW x, SessionFrame(x), SessionBystander(g, x)
  PROVE  SessionTaskIsSound(task[g])'
<1>1. /\ SessionShape(task[g]) /\ (task[g].alone => SessionCurrent(task[g]))
      /\ task[g] \in SessionTask /\ uses \in [Links -> Nat]
  BY DEF SessionsInv, SessionTasksAreSound, SessionTaskIsSound, AccountsTyped
<1>2. task[g].pc = "use" => task[g].link \in Links
  BY <1>1 DEF SessionShape, SessionTask
<1>3. SessionShape(task[g])'
  BY <1>1, <1>2 DEF SessionShape, SessionBystander, SessionFrame
<1>4. ASSUME task'[g].alone
      PROVE  SessionCurrent(task[g])'
  <2>1. SessionCurrent(task[g]) /\ task[g].user # x
    BY <1>1, <1>4 DEF SessionBystander
  <2>2. QED
    BY <1>1, <1>2, <2>1 DEF SessionCurrent, SessionShape, SessionBystander, SessionFrame
<1>5. QED
  BY <1>3, <1>4 DEF SessionTaskIsSound

\* A handler that starts with task t about t.user.
LEMMA SessionStarts ==
  ASSUME SessionsInv, NEW h \in Handlers, NEW t \in SessionTask, S!Start(h, t),
         t.user \in Users
  PROVE  /\ task' \in [Handlers -> SessionTask] /\ SessionTasksMeet'
         /\ task'[h].pc = t.pc /\ task'[h].user = t.user /\ task'[h].link = t.link
         /\ \A g \in Handlers \ {h} : SessionBystander(g, t.user)
<1>1. task \in [Handlers -> SessionTask] /\ SessionTasksMeet
  BY DEF SessionsInv
<1>2. PICK b \in BOOLEAN : b = \A k \in Handlers : task[k].user # t.user
  OBVIOUS
<1>3. PICK u \in SessionTask : u = [t EXCEPT !.alone = b]
  BY DEF SessionTask
<1>4. u.pc = t.pc /\ u.user = t.user /\ u.link = t.link /\ u.alone = b
  BY <1>3 DEF SessionTask
<1>5. task' = [g \in Handlers |->
                 IF g = h THEN u
                 ELSE IF task[g].user = t.user THEN [task[g] EXCEPT !.alone = FALSE]
                      ELSE task[g]]
  BY <1>2, <1>3 DEF S!Start
<1>6. task'[h] = u
  BY <1>5
<1>7. ASSUME NEW g \in Handlers \ {h}
      PROVE  task'[g] \in SessionTask /\ SessionBystander(g, t.user)
  <2>1. CASE task[g].user = t.user
    <3>1. task'[g] = [task[g] EXCEPT !.alone = FALSE] /\ task[g] \in SessionTask
      BY <1>1, <1>5, <2>1
    <3>2. QED
      BY <3>1 DEF SessionBystander, SessionTask
  <2>2. CASE task[g].user # t.user
    <3>1. task'[g] = task[g] /\ task[g] \in SessionTask
      BY <1>1, <1>5, <2>2
    <3>2. QED
      BY <2>2, <3>1 DEF SessionBystander
  <2>3. QED
    BY <2>1, <2>2
<1>8. task' \in [Handlers -> SessionTask]
  BY <1>3, <1>5, <1>6, <1>7
<1>9. SessionTasksMeet'
  <2>1. ASSUME NEW f \in Handlers, NEW g \in Handlers, f # g,
               task'[f].user = task'[g].user, task'[f].user # None
        PROVE  ~task'[f].alone
    <3>1. CASE f = h
      BY <1>2, <1>4, <1>6, <1>7, <2>1, <3>1 DEF SessionBystander
    <3>2. CASE f # h /\ g = h
      BY <1>4, <1>6, <1>7, <2>1, <3>2 DEF SessionBystander
    <3>3. CASE f # h /\ g # h
      BY <1>1, <1>7, <2>1, <3>3 DEF SessionTasksMeet, SessionBystander
    <3>4. QED
      BY <3>1, <3>2, <3>3
  <2>2. QED
    BY <2>1 DEF SessionTasksMeet
<1>10. QED
  BY <1>4, <1>6, <1>7, <1>8, <1>9

\* A step that leaves the rows as they are.
SessionRowsStay == UNCHANGED <<user, session, link, second, epoch, uses, disturbed>>

LEMMA SessionRowsStaySound ==
  ASSUME SessionsInv, SessionRowsStay
  PROVE  AccountsTyped' /\ SessionsAreSound' /\ LinksAreSound' /\ \A x : SessionFrame(x)
<1>1. AccountsTyped' /\ SessionsAreSound' /\ LinksAreSound'
  BY DEF SessionsInv, SessionRowsStay, AccountsTyped, SessionsAreSound, LinksAreSound,
         S!SessionsEnd
<1>2. \A x : SessionFrame(x)
  BY DEF SessionRowsStay, SessionFrame
<1>3. QED
  BY <1>1, <1>2

\* A handler that starts writes nothing.
LEMMA SessionStartPreservesInv ==
  ASSUME SessionsInv, NEW h \in Handlers, NEW t \in SessionTask, S!Start(h, t),
         t.pc # "idle", t.pc # "open", SessionShape(t),
         t.pc = "use" => uses[t.link] = 0
  PROVE  SessionsInv'
<1>1. SessionRowsStay /\ t.user \in Users
  BY DEF S!Start, SessionShape, SessionRowsStay
<1>2. /\ task' \in [Handlers -> SessionTask] /\ SessionTasksMeet'
      /\ task'[h].pc = t.pc /\ task'[h].user = t.user /\ task'[h].link = t.link
      /\ \A g \in Handlers \ {h} : SessionBystander(g, t.user)
  BY <1>1, SessionStarts
<1>3. /\ AccountsTyped' /\ SessionsAreSound' /\ LinksAreSound' /\ SessionFrame(t.user)
  BY <1>1, SessionRowsStaySound
<1>4. SessionTaskIsSound(task[h])'
  BY <1>1, <1>2 DEF SessionTaskIsSound, SessionShape, SessionCurrent, SessionRowsStay
<1>5. SessionTasksAreSound'
  BY <1>2, <1>3, <1>4, SessionBystandersStaySound DEF SessionTasksAreSound
<1>6. QED
  BY <1>2, <1>3, <1>5 DEF SessionsInv

LEMMA SessionBeginPreservesInv ==
  ASSUME SessionsInv, NEW h \in Handlers,
         \/ \E u \in Users : S!Begin(h, u)
         \/ \E s \in session : S!Refresh(h, s)
         \/ \E n \in Links : S!BeginUse(h, n)
  PROVE  SessionsInv'
<1>1. /\ user \in [Users -> UserRow] /\ epoch \in [Users -> Nat] /\ link \in [Links -> LinkRow]
      /\ session \subseteq SessionRow /\ LinksAreSound
      /\ \A u \in Users : user[u].active \/ user[u].verified \/ user[u].google => user[u].exists
  BY DEF SessionsInv, AccountsTyped, SessionsAreSound
<1>2. ASSUME NEW u \in Users, NEW t \in SessionTask, S!Start(h, t), t.user = u, t.link = None,
             t.pc \notin {"idle", "open", "use"},
             t.pc \notin {"create", "googleCreate"} => user[u].exists,
             t.pc = "clear" => user[u].verified
      PROVE  SessionsInv'
  <2>1. SessionShape(t)
    BY <1>2 DEF SessionShape
  <2>2. QED
    BY <1>2, <2>1, SessionStartPreservesInv
<1>3. ASSUME NEW u \in Users, NEW pc \in SessionPc
      PROVE  /\ S!Request(pc, u) \in SessionTask /\ S!Request(pc, u).pc = pc
             /\ S!Request(pc, u).user = u /\ S!Request(pc, u).link = None
  BY <1>1 DEF S!Request, S!Idle, SessionTask, UserRow
<1>4. ASSUME NEW u \in Users, S!Begin(h, u)
      PROVE  SessionsInv'
  <2>1. CASE S!Login(h, u) \/ S!LoginAdmin(h, u)
    BY <1>1, <1>2, <1>3, <2>1 DEF S!Login, S!LoginAdmin, S!IsActive, SessionPc
  <2>2. CASE \E verified \in BOOLEAN : S!BeginGoogle(h, u, verified)
    <3>1. PICK verified \in BOOLEAN, pc \in {"googleCreate", "googleUpdate"} :
            /\ pc = IF S!IsActive(u) THEN "googleUpdate" ELSE "googleCreate"
            /\ S!Start(h, [S!Request(pc, u) EXCEPT !.verified = verified])
      BY <2>2 DEF S!BeginGoogle
    <3>2. S!Request(pc, u) \in SessionTask
      BY <1>3, <3>1 DEF SessionPc
    <3>3. PICK t \in SessionTask : t = [S!Request(pc, u) EXCEPT !.verified = verified]
      BY <3>2 DEF SessionTask
    <3>4. t.pc = pc /\ t.user = u /\ t.link = None
      BY <1>3, <3>1, <3>3 DEF S!Request, S!Idle
    <3>5. QED
      BY <1>1, <1>2, <3>1, <3>3, <3>4 DEF S!IsActive
  <2>3. ASSUME user[u].exists, S!Start(h, [S!Request("unlink", u) EXCEPT !.type = "PASSWORD_RESET"])
        PROVE  SessionsInv'
    <3>1. S!Request("unlink", u) \in SessionTask
      BY <1>3 DEF SessionPc
    <3>2. PICK t \in SessionTask : t = [S!Request("unlink", u) EXCEPT !.type = "PASSWORD_RESET"]
      BY <3>1 DEF SessionTask, S!LinkTypes
    <3>3. t.pc = "unlink" /\ t.user = u /\ t.link = None
      BY <3>2 DEF S!Request, S!Idle
    <3>4. QED
      BY <1>2, <2>3, <3>2, <3>3
  <2>4. CASE S!BeginRegister(h, u) \/ S!BeginForgot(h, u)
    <3>1. CASE ~user[u].exists /\ S!Start(h, S!Request("create", u))
      BY <1>2, <1>3, <3>1 DEF SessionPc
    <3>2. QED
      BY <1>1, <2>3, <2>4, <3>1 DEF S!BeginRegister, S!BeginForgot, S!IsActive
  <2>5. CASE S!BeginResend(h, u) \/ S!BeginActivateUser(h, u)
    BY <1>1, <1>2, <1>3, <2>5
    DEF S!BeginResend, S!BeginActivateUser, S!IsActive, SessionPc
  <2>6. CASE \E roles \in {{"BUYER"}, {"ADMIN"}} : S!BeginUpdateUserRoles(h, u, roles)
    <3>1. user[u] \in UserRow
      BY <1>1
    <3>2. PICK roles \in SUBSET S!Roles :
            user[u].exists /\ S!Start(h, [S!Request("roles", u) EXCEPT !.roles = roles])
      BY <2>6, <3>1 DEF S!BeginUpdateUserRoles, S!Roles, UserRow
    <3>3. S!Request("roles", u) \in SessionTask
      BY <1>3 DEF SessionPc
    <3>4. PICK t \in SessionTask : t = [S!Request("roles", u) EXCEPT !.roles = roles]
      BY <3>3 DEF SessionTask
    <3>5. t.pc = "roles" /\ t.user = u /\ t.link = None
      BY <3>4 DEF S!Request, S!Idle
    <3>6. QED
      BY <1>2, <3>2, <3>4, <3>5
  <2>7. QED
    BY <1>4, <2>1, <2>2, <2>4, <2>5, <2>6 DEF S!Begin
<1>5. ASSUME NEW s \in session, S!Refresh(h, s)
      PROVE  SessionsInv'
  <2>1. s.user \in Users
    BY <1>1, <1>5 DEF SessionRow
  <2>2. QED
    BY <1>1, <1>2, <1>3, <1>5, <2>1 DEF S!Refresh, S!IsActive, SessionPc
<1>6. ASSUME NEW n \in Links, S!BeginUse(h, n)
      PROVE  SessionsInv'
  <2>1. /\ link[n] \in LinkRow /\ link[n].type # "none" /\ ~link[n].used
    BY <1>1, <1>6 DEF S!BeginUse, S!IsValid, LinkRow
  <2>2. link[n] # S!NoLink /\ n # None
    BY <2>1, LinksAreRows DEF S!NoLink
  <2>3. link[n].user \in Users /\ user[link[n].user].exists /\ uses[n] = 0
    BY <1>1, <2>1, <2>2 DEF LinksAreSound
  <2>4. PICK t \in SessionTask :
          t = [S!Request("use", link[n].user) EXCEPT !.type = link[n].type, !.link = n]
    BY <1>1, <2>1, <2>3 DEF S!Request, S!Idle, SessionTask, SessionPc, LinkRow, UserRow
  <2>5. t.pc = "use" /\ t.user = link[n].user /\ t.link = n
    BY <2>4 DEF S!Request, S!Idle
  <2>6. SessionShape(t)
    BY <2>3, <2>5, <2>2 DEF SessionShape
  <2>7. QED
    BY <1>6, <2>3, <2>4, <2>5, <2>6, SessionStartPreservesInv DEF S!BeginUse
<1>7. QED
  BY <1>4, <1>5, <1>6

\* Handler h goes on with task t, about the user it is about, or is done.
SessionGoesOn(h, t) ==
  /\ task' = [task EXCEPT ![h] = t]
  /\ task[h].pc # "idle"
  /\ t.user = None \/ (t.user = task[h].user /\ (t.alone => task[h].alone))

LEMMA SessionGoesOnFacts ==
  ASSUME SessionsInv, NEW h \in Handlers, NEW t \in SessionTask, SessionGoesOn(h, t),
         SessionFrame(task[h].user), SessionTaskIsSound(t)'
  PROVE  task' \in [Handlers -> SessionTask] /\ SessionTasksAreSound' /\ SessionTasksMeet'
<1>1. /\ task \in [Handlers -> SessionTask] /\ SessionTasksMeet
      /\ task[h].user # None
  <2>1. SessionShape(task[h]) /\ task[h] \in SessionTask /\ task[h].pc # "idle"
    BY DEF SessionsInv, SessionTasksAreSound, SessionTaskIsSound, SessionGoesOn
  <2>2. QED
    BY <2>1, LinksAreRows DEF SessionShape, SessionsInv
<1>2. /\ task' \in [Handlers -> SessionTask] /\ task'[h] = t
      /\ \A g \in Handlers \ {h} : task'[g] = task[g]
  BY <1>1 DEF SessionGoesOn
<1>3. \A g \in Handlers \ {h} : SessionBystander(g, task[h].user)
  BY <1>1, <1>2 DEF SessionBystander, SessionTasksMeet
<1>4. SessionTaskIsSound(task[h])'
  BY <1>2 DEF SessionTaskIsSound, SessionShape, SessionCurrent
<1>5. SessionTasksAreSound'
  BY <1>3, <1>4, SessionBystandersStaySound DEF SessionTasksAreSound
<1>6. SessionTasksMeet'
  BY <1>1, <1>2 DEF SessionTasksMeet, SessionGoesOn
<1>7. QED
  BY <1>2, <1>5, <1>6

\* What a step may do to the account of user x: change its row but keep it, end its sessions.
SessionsGo(x) ==
  \/ session' \subseteq session /\ epoch' = epoch
  \/ S!EndSessions(x)

LEMMA AccountStep ==
  ASSUME SessionsInv, NEW x \in Users, NEW row \in UserRow,
         user' = [user EXCEPT ![x] = row],
         row.active \/ row.verified \/ row.google \/ user[x].exists => row.exists,
         user[x].exists => (user[x].verified => row.verified) /\ (user[x].google => row.google),
         SessionsGo(x), disturbed \subseteq disturbed'
  PROVE  /\ user' \in [Users -> UserRow] /\ epoch' \in [Users -> Nat]
         /\ \A u \in Users : user'[u].active \/ user'[u].verified \/ user'[u].google
                              => user'[u].exists
         /\ SessionsAreSound'
         /\ \A u \in Users : user[u].exists
              => /\ user'[u].exists /\ (user[u].verified => user'[u].verified)
                 /\ (user[u].google => user'[u].google)
         /\ session' \subseteq session
<1>1. /\ user \in [Users -> UserRow] /\ epoch \in [Users -> Nat] /\ session \subseteq SessionRow
      /\ \A u \in Users : user[u].active \/ user[u].verified \/ user[u].google
                           => user[u].exists
      /\ \A s, t \in session : s.token = t.token => s = t
      /\ \A s \in session : user[s.user].verified \/ user[s.user].google
      /\ \A s \in session : s.epoch = epoch[s.user] \/ s.raced
      /\ \A s, t \in session : s.user = t.user /\ s.user \notin disturbed => s = t
  BY DEF SessionsInv, AccountsTyped, SessionsAreSound, S!SessionsEnd
<1>2. /\ user' \in [Users -> UserRow] /\ user'[x] = row
      /\ \A u \in Users \ {x} : user'[u] = user[u]
  BY <1>1
<1>3. /\ session' \subseteq session /\ epoch' \in [Users -> Nat]
      /\ \A s \in session' : epoch'[s.user] = epoch[s.user]
  <2>1. CASE session' \subseteq session /\ epoch' = epoch
    BY <1>1, <2>1
  <2>2. CASE S!EndSessions(x)
    <3>1. /\ session' = {s \in session : s.user # x}
          /\ epoch' = [epoch EXCEPT ![x] = epoch[x] + 1]
      BY <2>2 DEF S!EndSessions
    <3>2. \A s \in session' : s.user \in Users \ {x}
      BY <1>1, <3>1 DEF SessionRow
    <3>3. QED
      BY <1>1, <3>1, <3>2
  <2>3. QED
    BY <2>1, <2>2 DEF SessionsGo
<1>4. \A s \in session' : s \in session /\ s.user \in Users
  BY <1>1, <1>3 DEF SessionRow
<1>5. \A s \in session' : user'[s.user].verified \/ user'[s.user].google
  BY <1>1, <1>2, <1>4
<1>6. SessionsAreSound'
  BY <1>1, <1>3, <1>4, <1>5 DEF SessionsAreSound, S!SessionsEnd
<1>7. QED
  BY <1>1, <1>2, <1>3, <1>6

\* No link is touched.
LEMMA LinksStay ==
  ASSUME SessionsInv, link' = link, uses' = uses,
         \A u \in Users : user[u].exists => user'[u].exists,
         \A n \in Links : n \in disturbed => n \in disturbed'
  PROVE  LinksAreSound'
  BY DEF SessionsInv, LinksAreSound

\* Handler h, that is about user x, writes x's account and goes on with task t.
LEMMA AccountStepPreservesInv ==
  ASSUME SessionsInv, NEW h \in Handlers, task[h].user \in Users, NEW row \in UserRow,
         user' = [user EXCEPT ![task[h].user] = row],
         row.active \/ row.verified \/ row.google \/ user[task[h].user].exists => row.exists,
         user[task[h].user].exists => /\ user[task[h].user].verified => row.verified
                                      /\ user[task[h].user].google => row.google,
         SessionsGo(task[h].user), UNCHANGED <<link, second, uses, disturbed>>,
         NEW t \in SessionTask, SessionGoesOn(h, t), SessionTaskIsSound(t)'
  PROVE  SessionsInv'
<1>1. /\ user' \in [Users -> UserRow] /\ epoch' \in [Users -> Nat]
      /\ \A u \in Users : user'[u].active \/ user'[u].verified \/ user'[u].google
                           => user'[u].exists
      /\ SessionsAreSound'
      /\ \A u \in Users : user[u].exists
           => /\ user'[u].exists /\ (user[u].verified => user'[u].verified)
              /\ (user[u].google => user'[u].google)
      /\ session' \subseteq session
  BY AccountStep
<1>2. \A u \in Users : user[u].active \/ user[u].verified \/ user[u].google => user[u].exists
  BY DEF SessionsInv, AccountsTyped
<1>3. SessionFrame(task[h].user)
  BY <1>1, <1>2 DEF SessionFrame
<1>4. task' \in [Handlers -> SessionTask] /\ SessionTasksAreSound' /\ SessionTasksMeet'
  BY <1>3, SessionGoesOnFacts
<1>5. AccountsTyped'
  BY <1>1 DEF SessionsInv, AccountsTyped
<1>6. LinksAreSound'
  BY <1>1, LinksStay
<1>7. QED
  BY <1>1, <1>4, <1>5, <1>6 DEF SessionsInv

\* What is known of handler h when it is at pc.
LEMMA SessionAt ==
  ASSUME SessionsInv, NEW h \in Handlers, task[h].pc # "idle"
  PROVE  /\ task \in [Handlers -> SessionTask] /\ task[h] \in SessionTask
         /\ task[h].user \in Users /\ SessionShape(task[h])
         /\ task[h].alone => SessionCurrent(task[h])
         /\ user \in [Users -> UserRow] /\ user[task[h].user] \in UserRow
         /\ user[task[h].user].active \/ user[task[h].user].verified
              \/ user[task[h].user].google => user[task[h].user].exists
         /\ SessionGoesOn(h, S!Idle) <=> task' = [task EXCEPT ![h] = S!Idle]
         /\ SessionTaskIsSound(S!Idle)'
<1>1. /\ task \in [Handlers -> SessionTask] /\ task[h] \in SessionTask
      /\ SessionShape(task[h]) /\ (task[h].alone => SessionCurrent(task[h]))
      /\ user \in [Users -> UserRow]
      /\ \A u \in Users : user[u].active \/ user[u].verified \/ user[u].google
                           => user[u].exists
  BY DEF SessionsInv, AccountsTyped, SessionTasksAreSound, SessionTaskIsSound
<1>2. task[h].user \in Users
  BY <1>1 DEF SessionShape
<1>3. SessionGoesOn(h, S!Idle) <=> task' = [task EXCEPT ![h] = S!Idle]
  BY SessionIdle DEF SessionGoesOn
<1>4. SessionTaskIsSound(S!Idle)'
  BY SessionIdle DEF SessionTaskIsSound, SessionShape, SessionCurrent
<1>5. QED
  BY <1>1, <1>2, <1>3, <1>4

\* A handler that goes on with task t or is done, and writes nothing.
LEMMA SessionMoves ==
  ASSUME SessionsInv, NEW h \in Handlers, SessionRowsStay,
         NEW t \in SessionTask, SessionGoesOn(h, t), SessionTaskIsSound(t)'
  PROVE  SessionsInv'
<1>1. AccountsTyped' /\ SessionsAreSound' /\ LinksAreSound' /\ SessionFrame(task[h].user)
  BY SessionRowsStaySound
<1>2. task' \in [Handlers -> SessionTask] /\ SessionTasksAreSound' /\ SessionTasksMeet'
  BY <1>1, SessionGoesOnFacts
<1>3. QED
  BY <1>1, <1>2 DEF SessionsInv

LEMMA SessionStops ==
  ASSUME SessionsInv, NEW h \in Handlers, task[h].pc # "idle", S!Stop(h)
  PROVE  SessionsInv'
<1>1. /\ SessionRowsStay /\ task' = [task EXCEPT ![h] = S!Idle]
  BY DEF S!Stop, S!Finish, SessionRowsStay
<1>2. SessionGoesOn(h, S!Idle) /\ SessionTaskIsSound(S!Idle)'
  BY <1>1, SessionAt
<1>3. QED
  BY <1>1, <1>2, SessionIdle, SessionMoves

\* issueTokens
LEMMA ClearSessionsPreservesInv ==
  ASSUME SessionsInv, NEW h \in Handlers, S!ClearSessions(h)
  PROVE  SessionsInv'
<1>1. /\ task[h].pc = "clear" /\ session' = {s \in session : s.user # task[h].user}
      /\ task' = [task EXCEPT ![h].pc = "open"]
      /\ UNCHANGED <<user, link, second, epoch, uses, disturbed>>
  BY DEF S!ClearSessions, S!At, S!Goto
<1>2. /\ task \in [Handlers -> SessionTask] /\ task[h] \in SessionTask
      /\ task[h].user \in Users /\ SessionShape(task[h])
      /\ user[task[h].user] \in UserRow /\ user \in [Users -> UserRow]
      /\ user[task[h].user].active \/ user[task[h].user].verified
           \/ user[task[h].user].google => user[task[h].user].exists
  BY <1>1, SessionAt
<1>3. PICK t \in SessionTask : t = [task[h] EXCEPT !.pc = "open"]
  BY <1>2 DEF SessionTask, SessionPc
<1>4. /\ t.pc = "open" /\ t.user = task[h].user /\ t.link = task[h].link
      /\ t.alone = task[h].alone
  BY <1>2, <1>3 DEF SessionTask
<1>5. SessionGoesOn(h, t)
  BY <1>1, <1>2, <1>3, <1>4 DEF SessionGoesOn
<1>6. SessionTaskIsSound(t)'
  BY <1>1, <1>2, <1>4 DEF SessionTaskIsSound, SessionShape, SessionCurrent
<1>7. user' = [user EXCEPT ![task[h].user] = user[task[h].user]] /\ SessionsGo(task[h].user)
  BY <1>1, <1>2 DEF SessionsGo
<1>8. QED
  BY <1>1, <1>2, <1>5, <1>6, <1>7, AccountStepPreservesInv

LEMMA OpenSessionPreservesInv ==
  ASSUME SessionsInv, NEW h \in Handlers, S!OpenSession(h)
  PROVE  SessionsInv'
<1> DEFINE x == task[h].user
           token_ == S!Token(x, task[h].roles)
           new == [user |-> x, token |-> token_, epoch |-> task[h].epoch,
                   raced |-> task[h].epoch # epoch[x], expired |-> FALSE]
<1>1. /\ task[h].pc = "open"
      /\ session' = IF \E s \in session : s.token = token_ THEN session ELSE session \cup {new}
      /\ disturbed' = IF task[h].alone THEN disturbed \ {x} ELSE disturbed \cup {x}
      /\ task' = [task EXCEPT ![h] = S!Idle]
      /\ UNCHANGED <<user, link, second, epoch, uses>>
  BY DEF S!OpenSession, S!At, S!Finish
<1>2. /\ task[h] \in SessionTask /\ x \in Users /\ SessionShape(task[h])
      /\ task[h].alone => SessionCurrent(task[h])
      /\ SessionGoesOn(h, S!Idle) /\ SessionTaskIsSound(S!Idle)'
  BY <1>1, SessionAt
<1>3. /\ session \subseteq SessionRow /\ second \in Nat /\ epoch \in [Users -> Nat]
      /\ user \in [Users -> UserRow]
  BY DEF SessionsInv, SessionsAreSound, AccountsTyped
<1>4. token_ \in Users \X (SUBSET S!Roles) \X Nat
  BY <1>2, <1>3 DEF S!Token, SessionTask
<1>5. new \in SessionRow /\ new.user = x /\ new.token = token_
  BY <1>2, <1>3, <1>4 DEF SessionRow, SessionTask
<1>6. new.epoch = epoch[new.user] \/ new.raced
  OBVIOUS
<1>7. user[x].verified \/ user[x].google
  BY <1>1, <1>2 DEF SessionShape
<1>8. \A s \in session' : s \in session \/ (s = new /\ \A r \in session : r.token # token_)
  BY <1>1
<1>9. SessionsAreSound'
  <2>1. session' \subseteq SessionRow
    BY <1>3, <1>5, <1>8
  <2>2. \A s, t \in session' : s.token = t.token => s = t
    BY <1>5, <1>8 DEF SessionsInv, SessionsAreSound
  <2>3. \A s \in session' : user'[s.user].verified \/ user'[s.user].google
    BY <1>1, <1>5, <1>7, <1>8 DEF SessionsInv, SessionsAreSound
  <2>4. S!SessionsEnd'
    BY <1>1, <1>6, <1>8 DEF SessionsInv, SessionsAreSound, S!SessionsEnd
  <2>5. ASSUME NEW s \in session', NEW t \in session', s.user = t.user,
               s.user \notin disturbed'
        PROVE  s = t
    <3>1. CASE s.user # x
      BY <1>1, <1>5, <1>8, <2>5, <3>1 DEF SessionsInv, SessionsAreSound
    <3>2. CASE s.user = x
      <4>1. task[h].alone
        BY <1>1, <2>5, <3>2
      <4>2. \A r \in session : r.user # x
        BY <1>1, <1>2, <4>1 DEF SessionCurrent
      <4>3. QED
        BY <1>8, <2>5, <3>2, <4>2
    <3>3. QED
      BY <3>1, <3>2
  <2>6. QED
    BY <2>1, <2>2, <2>3, <2>4, <2>5 DEF SessionsAreSound
<1>10. SessionFrame(x)
  BY <1>1, <1>5, <1>8 DEF SessionFrame
<1>11. task' \in [Handlers -> SessionTask] /\ SessionTasksAreSound' /\ SessionTasksMeet'
  BY <1>2, <1>10, SessionIdle, SessionGoesOnFacts
<1>12. AccountsTyped'
  BY <1>1 DEF SessionsInv, AccountsTyped
<1>13. LinksAreSound'
  <2>1. \A n \in Links : n # x
    BY <1>2, LinksAreRows
  <2>2. \A n \in Links : n \in disturbed => n \in disturbed'
    BY <1>1, <2>1
  <2>3. QED
    BY <1>1, <2>2, LinksStay
<1>14. QED
  BY <1>9, <1>11, <1>12, <1>13 DEF SessionsInv

\* googleSignIn
LEMMA CreateFromGooglePreservesInv ==
  ASSUME SessionsInv, NEW h \in Handlers, S!CreateFromGoogle(h)
  PROVE  SessionsInv'
<1>1. task[h].pc = "googleCreate"
  BY DEF S!CreateFromGoogle, S!At
<1>2. /\ task \in [Handlers -> SessionTask] /\ task[h] \in SessionTask
      /\ task[h].user \in Users /\ SessionShape(task[h])
      /\ user[task[h].user] \in UserRow /\ user \in [Users -> UserRow]
  BY <1>1, SessionAt
<1>3. CASE user[task[h].user].exists
  BY <1>1, <1>3, SessionStops DEF S!CreateFromGoogle
<1>4. CASE ~user[task[h].user].exists
  <2>1. PICK row : row = [S!NoUser EXCEPT !.exists = TRUE, !.active = TRUE,
                            !.verified = task[h].verified, !.google = TRUE,
                            !.roles = {"BUYER"}]
    OBVIOUS
  <2>2. row \in UserRow /\ row.exists /\ row.google
    BY <1>2, <2>1 DEF S!NoUser, UserRow, SessionTask, S!Roles
  <2>3. PICK t \in SessionTask : t = [task[h] EXCEPT !.pc = "clear", !.roles = {"BUYER"}]
    BY <1>2 DEF SessionTask, SessionPc, S!Roles
  <2>4. /\ t.pc = "clear" /\ t.user = task[h].user /\ t.link = task[h].link
        /\ t.alone = task[h].alone
    BY <1>2, <2>3 DEF SessionTask
  <2>5. /\ user' = [user EXCEPT ![task[h].user] = row] /\ task' = [task EXCEPT ![h] = t]
        /\ UNCHANGED <<session, link, second, epoch, uses, disturbed>>
    BY <1>2, <1>4, <2>1, <2>3 DEF S!CreateFromGoogle
  <2>6. SessionGoesOn(h, t) /\ SessionsGo(task[h].user)
    BY <1>1, <1>2, <2>4, <2>5 DEF SessionGoesOn, SessionsGo
  <2>7. SessionTaskIsSound(t)'
    BY <1>1, <1>2, <2>2, <2>4, <2>5 DEF SessionTaskIsSound, SessionShape, SessionCurrent
  <2>8. QED
    BY <1>2, <1>4, <2>2, <2>5, <2>6, <2>7, AccountStepPreservesInv
<1>5. QED
  BY <1>3, <1>4

LEMMA UpdateFromGooglePreservesInv ==
  ASSUME SessionsInv, NEW h \in Handlers, S!UpdateFromGoogle(h)
  PROVE  SessionsInv'
<1> DEFINE x == task[h].user
<1>1. task[h].pc = "googleUpdate"
  BY DEF S!UpdateFromGoogle, S!At
<1>2. /\ task \in [Handlers -> SessionTask] /\ task[h] \in SessionTask
      /\ x \in Users /\ SessionShape(task[h])
      /\ user[x] \in UserRow /\ user \in [Users -> UserRow]
      /\ epoch \in [Users -> Nat] /\ SessionTaskIsSound(S!Idle)'
  BY <1>1, SessionAt DEF SessionsInv, AccountsTyped
<1>3. PICK row : row = [user[x] EXCEPT !.google = TRUE,
                                       !.verified = user[x].verified \/ task[h].verified]
  OBVIOUS
<1>4. /\ row \in UserRow /\ row.exists /\ row.google
      /\ user[x].verified => row.verified
  BY <1>1, <1>2, <1>3 DEF UserRow, SessionTask, SessionShape
<1>5. PICK t \in SessionTask :
        t = IF S!IsActive(x) /\ ~S!IsStaffOnly(x)
              THEN [task[h] EXCEPT !.pc = "clear", !.roles = user[x].roles,
                                   !.epoch = epoch[x]]
              ELSE S!Idle
  BY <1>2, SessionIdle DEF SessionTask, SessionPc, UserRow
<1>6. \/ t = S!Idle
      \/ /\ t.pc = "clear" /\ t.user = x /\ t.link = task[h].link /\ t.alone = task[h].alone
  BY <1>2, <1>5 DEF SessionTask
<1>7. /\ user' = [user EXCEPT ![x] = row] /\ task' = [task EXCEPT ![h] = t]
      /\ UNCHANGED <<session, link, second, epoch, uses, disturbed>>
  BY <1>2, <1>3, <1>5 DEF S!UpdateFromGoogle, UserRow
<1>8. SessionGoesOn(h, t) /\ SessionsGo(x)
  BY <1>1, <1>2, <1>6, <1>7, SessionIdle DEF SessionGoesOn, SessionsGo
<1>9. SessionTaskIsSound(t)'
  BY <1>1, <1>2, <1>4, <1>6, <1>7 DEF SessionTaskIsSound, SessionShape, SessionCurrent
<1>10. QED
  BY <1>2, <1>4, <1>7, <1>8, <1>9, AccountStepPreservesInv

\* register
LEMMA CreateUserPreservesInv ==
  ASSUME SessionsInv, NEW h \in Handlers, S!CreateUser(h)
  PROVE  SessionsInv'
<1>1. task[h].pc = "create"
  BY DEF S!CreateUser, S!At
<1>2. /\ task \in [Handlers -> SessionTask] /\ task[h] \in SessionTask
      /\ task[h].user \in Users /\ SessionShape(task[h])
      /\ user[task[h].user] \in UserRow /\ user \in [Users -> UserRow]
  BY <1>1, SessionAt
<1>3. CASE user[task[h].user].exists
  BY <1>1, <1>3, SessionStops DEF S!CreateUser
<1>4. CASE ~user[task[h].user].exists
  <2>1. PICK row : row = [S!NoUser EXCEPT !.exists = TRUE, !.active = TRUE, !.roles = {"BUYER"}]
    OBVIOUS
  <2>2. row \in UserRow /\ row.exists
    BY <2>1 DEF S!NoUser, UserRow, S!Roles
  <2>3. PICK t \in SessionTask : t = [task[h] EXCEPT !.pc = "send"]
    BY <1>2 DEF SessionTask, SessionPc
  <2>4. /\ t.pc = "send" /\ t.user = task[h].user /\ t.link = task[h].link
        /\ t.alone = task[h].alone
    BY <1>2, <2>3 DEF SessionTask
  <2>5. /\ user' = [user EXCEPT ![task[h].user] = row] /\ task' = [task EXCEPT ![h] = t]
        /\ UNCHANGED <<session, link, second, epoch, uses, disturbed>>
    BY <1>2, <1>4, <2>1, <2>3 DEF S!CreateUser, S!Goto
  <2>6. SessionGoesOn(h, t) /\ SessionsGo(task[h].user)
    BY <1>1, <1>2, <2>4, <2>5 DEF SessionGoesOn, SessionsGo
  <2>7. SessionTaskIsSound(t)'
    BY <1>1, <1>2, <2>2, <2>4, <2>5 DEF SessionTaskIsSound, SessionShape, SessionCurrent
  <2>8. QED
    BY <1>2, <1>4, <2>2, <2>5, <2>6, <2>7, AccountStepPreservesInv
<1>5. QED
  BY <1>3, <1>4

\* sendVerificationEmailForUser
LEMMA SessionBeginSendPreservesInv ==
  ASSUME SessionsInv, NEW h \in Handlers, S!BeginSend(h)
  PROVE  SessionsInv'
<1>1. task[h].pc = "send" /\ SessionRowsStay
  BY DEF S!BeginSend, S!At, SessionRowsStay
<1>2. /\ task \in [Handlers -> SessionTask] /\ task[h] \in SessionTask
      /\ task[h].user \in Users /\ SessionShape(task[h])
      /\ task' = [task EXCEPT ![h] = S!Idle] => SessionGoesOn(h, S!Idle)
      /\ SessionTaskIsSound(S!Idle)'
  BY <1>1, SessionAt
<1>3. PICK t \in SessionTask :
        t = [task[h] EXCEPT !.pc = "unlink", !.type = "EMAIL_VERIFICATION"]
  BY <1>2 DEF SessionTask, SessionPc, S!LinkTypes
<1>4. t.pc = "unlink" /\ t.user = task[h].user /\ t.link = task[h].link
      /\ t.alone = task[h].alone
  BY <1>2, <1>3 DEF SessionTask
<1>5. CASE task' = [task EXCEPT ![h] = S!Idle]
  BY <1>1, <1>2, <1>5, SessionIdle, SessionMoves
<1>6. CASE task' = [task EXCEPT ![h] = t]
  <2>1. SessionGoesOn(h, t)
    BY <1>1, <1>2, <1>4, <1>6 DEF SessionGoesOn
  <2>2. SessionTaskIsSound(t)'
    BY <1>1, <1>2, <1>4
    DEF SessionTaskIsSound, SessionShape, SessionCurrent, SessionRowsStay
  <2>3. QED
    BY <1>1, <2>1, <2>2, SessionMoves
<1>7. task' = [task EXCEPT ![h] = S!Idle] \/ task' = [task EXCEPT ![h] = t]
  BY <1>2, <1>3 DEF S!BeginSend, S!Finish
<1>8. QED
  BY <1>5, <1>6, <1>7

\* The accounts and their sessions are as they were.
LEMMA AccountsStay ==
  ASSUME SessionsInv, UNCHANGED <<user, session, second, epoch>>, disturbed \subseteq disturbed'
  PROVE  SessionsAreSound'
  BY DEF SessionsInv, SessionsAreSound, S!SessionsEnd

\* The old links of a user go, a new one comes.
LEMMA DeleteLinksPreservesInv ==
  ASSUME SessionsInv, NEW h \in Handlers, S!DeleteLinks(h)
  PROVE  SessionsInv'
<1>1. /\ task[h].pc = "unlink"
      /\ link' = [n \in Links |->
                    IF link[n].user = task[h].user /\ link[n].type = task[h].type
                      THEN S!NoLink ELSE link[n]]
      /\ task' = [task EXCEPT ![h].pc = "link"]
      /\ UNCHANGED <<user, session, second, epoch, uses, disturbed>>
  BY DEF S!DeleteLinks, S!At, S!Goto
<1>2. /\ task \in [Handlers -> SessionTask] /\ task[h] \in SessionTask
      /\ task[h].user \in Users /\ SessionShape(task[h])
  BY <1>1, SessionAt
<1>3. \A n \in Links : link'[n] = S!NoLink \/ link'[n] = link[n]
  BY <1>1
<1>4. link' \in [Links -> LinkRow]
  <2>1. S!NoLink \in LinkRow /\ link \in [Links -> LinkRow]
    BY DEF S!NoLink, LinkRow, SessionsInv, AccountsTyped
  <2>2. QED
    BY <1>1, <2>1
<1>5. PICK t \in SessionTask : t = [task[h] EXCEPT !.pc = "link"]
  BY <1>2 DEF SessionTask, SessionPc
<1>6. /\ t.pc = "link" /\ t.user = task[h].user /\ t.link = task[h].link
      /\ t.alone = task[h].alone
  BY <1>2, <1>5 DEF SessionTask
<1>7. SessionGoesOn(h, t)
  BY <1>1, <1>2, <1>5, <1>6 DEF SessionGoesOn
<1>8. SessionTaskIsSound(t)'
  BY <1>1, <1>2, <1>6 DEF SessionTaskIsSound, SessionShape, SessionCurrent
<1>9. SessionFrame(task[h].user)
  BY <1>1, <1>3 DEF SessionFrame
<1>10. task' \in [Handlers -> SessionTask] /\ SessionTasksAreSound' /\ SessionTasksMeet'
  BY <1>7, <1>8, <1>9, SessionGoesOnFacts
<1>11. LinksAreSound'
  BY <1>1, <1>3 DEF SessionsInv, LinksAreSound
<1>12. AccountsTyped' /\ SessionsAreSound'
  BY <1>1, <1>4, AccountsStay DEF SessionsInv, AccountsTyped
<1>13. QED
  BY <1>10, <1>11, <1>12 DEF SessionsInv

LEMMA CreateLinkPreservesInv ==
  ASSUME SessionsInv, NEW h \in Handlers, S!CreateLink(h)
  PROVE  SessionsInv'
<1>1. PICK n \in Links :
        S!Fresh(n) /\ link' = [link EXCEPT ![n] =
          [S!NoLink EXCEPT !.user = task[h].user, !.type = task[h].type]]
  BY DEF S!CreateLink
<1>2. /\ task[h].pc = "link" /\ task' = [task EXCEPT ![h] = S!Idle]
      /\ UNCHANGED <<user, session, second, epoch, uses, disturbed>>
  BY DEF S!CreateLink, S!At, S!Finish
<1>3. /\ task[h] \in SessionTask /\ task[h].user \in Users /\ SessionShape(task[h])
      /\ SessionGoesOn(h, S!Idle) /\ SessionTaskIsSound(S!Idle)'
  BY <1>2, SessionAt
<1>4. uses[n] = 0 /\ \A g \in Handlers : task[g].link # n
  BY <1>1 DEF S!Fresh
<1>5. PICK row \in LinkRow :
        row = [S!NoLink EXCEPT !.user = task[h].user, !.type = task[h].type]
  BY <1>3 DEF S!NoLink, LinkRow, SessionTask
<1>6. row.user = task[h].user
  BY <1>5 DEF S!NoLink
<1>7. /\ link' \in [Links -> LinkRow] /\ link'[n] = row
      /\ \A m \in Links \ {n} : link'[m] = link[m]
  BY <1>1, <1>5 DEF SessionsInv, AccountsTyped
<1>8. user[row.user].exists /\ row.user \in Users
  BY <1>2, <1>3, <1>6 DEF SessionShape
<1>9. SessionFrame(task[h].user)
  BY <1>2, <1>4, <1>7 DEF SessionFrame
<1>10. task' \in [Handlers -> SessionTask] /\ SessionTasksAreSound' /\ SessionTasksMeet'
  BY <1>3, <1>9, SessionIdle, SessionGoesOnFacts
<1>11. LinksAreSound'
  BY <1>2, <1>4, <1>7, <1>8 DEF SessionsInv, LinksAreSound
<1>12. AccountsTyped' /\ SessionsAreSound'
  BY <1>2, <1>7, AccountsStay DEF SessionsInv, AccountsTyped
<1>13. QED
  BY <1>10, <1>11, <1>12 DEF SessionsInv

\* resetPassword and verifyEmail
LEMMA UsePreservesInv ==
  ASSUME SessionsInv, NEW h \in Handlers, S!CommitReset(h) \/ S!CommitVerify(h)
  PROVE  SessionsInv'
<1> DEFINE x == task[h].user
           n == task[h].link
<1>1. /\ task[h].pc = "use" /\ link[n] # S!NoLink
      /\ link' = [link EXCEPT ![n].used = TRUE]
      /\ uses' = [uses EXCEPT ![n] = uses[n] + 1]
      /\ disturbed' = IF task[h].alone THEN disturbed ELSE disturbed \cup {n}
      /\ task' = [task EXCEPT ![h] = S!Idle] /\ second' = second
  BY DEF S!CommitReset, S!CommitVerify, S!At, S!Use, S!Finish
<1>2. /\ task[h] \in SessionTask /\ x \in Users /\ SessionShape(task[h])
      /\ task[h].alone => SessionCurrent(task[h])
      /\ user[x] \in UserRow /\ user \in [Users -> UserRow]
      /\ SessionGoesOn(h, S!Idle) /\ SessionTaskIsSound(S!Idle)'
  BY <1>1, SessionAt
<1>3. n \in Links /\ user[x].exists /\ link[n].user = x
  BY <1>1, <1>2 DEF SessionShape, SessionTask
<1>4. link \in [Links -> LinkRow] /\ link[n] \in LinkRow /\ uses \in [Links -> Nat]
  BY <1>3 DEF SessionsInv, AccountsTyped
<1>5. PICK row \in LinkRow : row = [link[n] EXCEPT !.used = TRUE]
  BY <1>4 DEF LinkRow
<1>6. row.used /\ row.user = x
  BY <1>3, <1>4, <1>5 DEF LinkRow
<1>7. /\ link' \in [Links -> LinkRow] /\ link'[n] = row
      /\ \A m \in Links \ {n} : link'[m] = link[m]
      /\ uses' \in [Links -> Nat] /\ uses'[n] = uses[n] + 1
      /\ \A m \in Links \ {n} : uses'[m] = uses[m]
  <2>1. link' = [link EXCEPT ![n] = row]
    BY <1>1, <1>5
  <2>2. uses[n] + 1 \in Nat
    BY <1>3, <1>4
  <2>3. QED
    BY <1>1, <1>3, <1>4, <2>1, <2>2
<1>8. PICK account_ \in UserRow :
        /\ user' = [user EXCEPT ![x] = account_] /\ account_.exists
        /\ (user[x].verified => account_.verified) /\ (user[x].google => account_.google)
  <2>1. CASE S!CommitReset(h)
    BY <1>2, <1>3, <2>1 DEF S!CommitReset
  <2>2. CASE S!CommitVerify(h)
    <3>1. PICK a \in UserRow : a = [user[x] EXCEPT !.verified = TRUE]
      BY <1>2 DEF UserRow
    <3>2. a.exists /\ a.verified /\ a.google = user[x].google
      BY <1>2, <1>3, <3>1 DEF UserRow
    <3>3. user' = [user EXCEPT ![x] = a]
      BY <2>2, <3>1 DEF S!CommitVerify
    <3>4. QED
      BY <3>2, <3>3
  <2>3. QED
    BY <2>1, <2>2
<1>9. SessionsGo(x)
  BY DEF S!CommitReset, S!CommitVerify, SessionsGo, S!EndSessions
<1>10. disturbed \subseteq disturbed'
  BY <1>1
<1>11. /\ user' \in [Users -> UserRow] /\ epoch' \in [Users -> Nat]
       /\ \A u \in Users : user'[u].active \/ user'[u].verified \/ user'[u].google
                            => user'[u].exists
       /\ SessionsAreSound'
       /\ \A u \in Users : user[u].exists
            => /\ user'[u].exists /\ (user[u].verified => user'[u].verified)
               /\ (user[u].google => user'[u].google)
       /\ session' \subseteq session
  BY <1>2, <1>8, <1>9, <1>10, AccountStep
<1>12. \A u \in Users : user[u].active \/ user[u].verified \/ user[u].google => user[u].exists
  BY DEF SessionsInv, AccountsTyped
<1>13. SessionFrame(x)
  BY <1>1, <1>3, <1>6, <1>7, <1>11, <1>12 DEF SessionFrame
<1>14. task' \in [Handlers -> SessionTask] /\ SessionTasksAreSound' /\ SessionTasksMeet'
  BY <1>2, <1>13, SessionIdle, SessionGoesOnFacts
<1>15. LinksAreSound'
  <2>1. /\ user'[link'[n].user].exists /\ link'[n].user \in Users /\ link'[n].used
    BY <1>2, <1>3, <1>6, <1>7, <1>11
  <2>2. n \notin disturbed' => uses'[n] <= 1
    <3>1. task[h].alone => uses[n] = 0
      BY <1>1, <1>2 DEF SessionCurrent
    <3>2. ~task[h].alone => n \in disturbed'
      BY <1>1
    <3>3. uses[n] = 0 => uses'[n] <= 1
      BY <1>7
    <3>4. QED
      BY <3>1, <3>2, <3>3
  <2>3. \A m \in Links \ {n} :
          /\ link'[m] # S!NoLink => link'[m].user \in Users /\ user'[link'[m].user].exists
          /\ uses'[m] # 0 => link'[m] = S!NoLink \/ link'[m].used
          /\ m \notin disturbed' => uses'[m] <= 1
    BY <1>7, <1>10, <1>11 DEF SessionsInv, LinksAreSound
  <2>4. QED
    BY <2>1, <2>2, <2>3 DEF LinksAreSound
<1>16. AccountsTyped'
  BY <1>1, <1>7, <1>11 DEF SessionsInv, AccountsTyped
<1>17. QED
  BY <1>11, <1>14, <1>15, <1>16 DEF SessionsInv

\* Administrators
LEMMA ActivateUserPreservesInv ==
  ASSUME SessionsInv, NEW h \in Handlers,
         S!CommitActivateUser(h) \/ S!CommitUpdateUserRoles(h)
  PROVE  SessionsInv'
<1> DEFINE x == task[h].user
<1>1. /\ task[h].pc \in {"activate", "roles"} /\ task' = [task EXCEPT ![h] = S!Idle]
      /\ UNCHANGED <<link, second, uses, disturbed>>
  BY DEF S!CommitActivateUser, S!CommitUpdateUserRoles, S!At, S!Finish
<1>2. /\ task[h] \in SessionTask /\ x \in Users /\ SessionShape(task[h])
      /\ user[x] \in UserRow
      /\ SessionGoesOn(h, S!Idle) /\ SessionTaskIsSound(S!Idle)'
  BY <1>1, SessionAt
<1>3. user[x].exists
  BY <1>1, <1>2 DEF SessionShape
<1>4. PICK row \in UserRow :
        /\ user' = [user EXCEPT ![x] = row] /\ row.exists
        /\ row.verified = user[x].verified /\ row.google = user[x].google
  <2>1. PICK a \in UserRow : a = [user[x] EXCEPT !.active = TRUE]
    BY <1>2 DEF UserRow
  <2>2. PICK b \in UserRow : b = [user[x] EXCEPT !.roles = task[h].roles]
    BY <1>2 DEF UserRow, SessionTask
  <2>3. /\ a.exists /\ a.verified = user[x].verified /\ a.google = user[x].google
        /\ b.exists /\ b.verified = user[x].verified /\ b.google = user[x].google
    BY <1>2, <1>3, <2>1, <2>2 DEF UserRow
  <2>4. user' = [user EXCEPT ![x] = a] \/ user' = [user EXCEPT ![x] = b]
    BY <2>1, <2>2 DEF S!CommitActivateUser, S!CommitUpdateUserRoles
  <2>5. QED
    BY <2>3, <2>4
<1>5. SessionsGo(x)
  BY DEF S!CommitActivateUser, S!CommitUpdateUserRoles, SessionsGo
<1>6. QED
  BY <1>1, <1>2, <1>4, <1>5, SessionIdle, AccountStepPreservesInv

\* A step that is no handler's.
LEMMA SessionTasksStay ==
  ASSUME SessionsInv, task' = task, SessionFrame(None)
  PROVE  task' \in [Handlers -> SessionTask] /\ SessionTasksAreSound' /\ SessionTasksMeet'
<1>1. \A g \in Handlers : SessionBystander(g, None) \/ task[g].user = None
  BY DEF SessionBystander
<1>2. ASSUME NEW g \in Handlers, task[g].user = None
      PROVE  SessionTaskIsSound(task[g])'
  <2>1. SessionShape(task[g])
    BY DEF SessionsInv, SessionTasksAreSound, SessionTaskIsSound
  <2>2. task[g].pc = "idle"
    BY <1>2, <2>1, LinksAreRows DEF SessionShape
  <2>3. QED
    BY <1>2, <2>1, <2>2 DEF SessionTaskIsSound, SessionShape, SessionCurrent
<1>3. SessionTasksAreSound'
  BY <1>1, <1>2, SessionBystandersStaySound DEF SessionTasksAreSound
<1>4. QED
  BY <1>3 DEF SessionsInv, SessionTasksMeet

LEMMA SessionOtherStepsPreserveInv ==
  ASSUME SessionsInv,
         \/ \E s \in session : S!Logout(s) \/ S!ExpireSession(s)
         \/ \E u \in Users : S!DeactivateUser(u)
         \/ \E n \in Links : S!ExpireLink(n)
         \/ S!NextSecond
  PROVE  SessionsInv'
<1>1. /\ user \in [Users -> UserRow] /\ link \in [Links -> LinkRow]
      /\ session \subseteq SessionRow /\ second \in Nat
  BY DEF SessionsInv, AccountsTyped, SessionsAreSound
<1>2. ASSUME NEW u \in Users, S!DeactivateUser(u) \/ \E s \in session : S!Logout(s)
      PROVE  SessionsInv'
  <2>1. PICK row \in UserRow :
          /\ user' = [user EXCEPT ![u] = row] /\ row.exists = user[u].exists
          /\ row.verified = user[u].verified /\ row.google = user[u].google
          /\ row.active => user[u].active
    <3>1. PICK a \in UserRow : a = [user[u] EXCEPT !.active = FALSE]
      BY <1>1 DEF UserRow
    <3>2. user[u] \in UserRow
      BY <1>1
    <3>3. /\ a.exists = user[u].exists /\ ~a.active
          /\ a.verified = user[u].verified /\ a.google = user[u].google
      BY <3>1, <3>2 DEF UserRow
    <3>4. user' = [user EXCEPT ![u] = a] \/ user' = [user EXCEPT ![u] = user[u]]
      BY <1>1, <1>2, <3>1 DEF S!DeactivateUser, S!Logout
    <3>5. QED
      BY <3>2, <3>3, <3>4
  <2>2. SessionsGo(u) /\ UNCHANGED <<link, second, uses, task, disturbed>>
    BY <1>2 DEF S!DeactivateUser, S!Logout, SessionsGo
  <2>3. \A v \in Users : user[v].active \/ user[v].verified \/ user[v].google => user[v].exists
    BY DEF SessionsInv, AccountsTyped
  <2>4. /\ user' \in [Users -> UserRow] /\ epoch' \in [Users -> Nat]
        /\ \A v \in Users : user'[v].active \/ user'[v].verified \/ user'[v].google
                             => user'[v].exists
        /\ SessionsAreSound'
        /\ \A v \in Users : user[v].exists
             => /\ user'[v].exists /\ (user[v].verified => user'[v].verified)
                /\ (user[v].google => user'[v].google)
        /\ session' \subseteq session
    BY <2>1, <2>2, <2>3, AccountStep
  <2>5. SessionFrame(None)
    BY <2>2, <2>3, <2>4 DEF SessionFrame
  <2>6. LinksAreSound' /\ AccountsTyped'
    BY <2>2, <2>4, LinksStay DEF SessionsInv, AccountsTyped
  <2>7. QED
    BY <2>2, <2>4, <2>5, <2>6, SessionTasksStay DEF SessionsInv
<1>3. ASSUME NEW s \in session, S!ExpireSession(s)
      PROVE  SessionsInv'
  <2>1. PICK r \in SessionRow : r = [s EXCEPT !.expired = TRUE]
    BY <1>1, <1>3 DEF SessionRow
  <2>2. /\ r.user = s.user /\ r.token = s.token /\ r.epoch = s.epoch /\ r.raced = s.raced
    BY <1>1, <2>1 DEF SessionRow
  <2>3. /\ session' = (session \ {s}) \cup {r}
        /\ UNCHANGED <<user, link, second, epoch, uses, task, disturbed>>
    BY <1>3, <2>1 DEF S!ExpireSession
  <2>4. SessionsAreSound'
    <3>1. session' \subseteq SessionRow
      BY <1>1, <2>1, <2>3
    <3>2. \A p \in session' : (p = r) \/ (p \in session /\ p # s)
      BY <2>3
    <3>3. \A p, q \in session' : p.token = q.token => p = q
      BY <2>2, <3>2, <1>3 DEF SessionsInv, SessionsAreSound
    <3>4. \A p, q \in session' : p.user = q.user /\ p.user \notin disturbed' => p = q
      BY <2>2, <2>3, <3>2, <1>3 DEF SessionsInv, SessionsAreSound
    <3>5. /\ \A p \in session' : user'[p.user].verified \/ user'[p.user].google
          /\ \A p \in session' : p.epoch = epoch'[p.user] \/ p.raced
      BY <2>2, <2>3, <3>2, <1>3 DEF SessionsInv, SessionsAreSound, S!SessionsEnd
    <3>6. QED
      BY <3>1, <3>3, <3>4, <3>5 DEF SessionsAreSound, S!SessionsEnd
  <2>5. SessionFrame(None)
    BY <2>2, <2>3, <1>3 DEF SessionFrame
  <2>6. AccountsTyped' /\ LinksAreSound'
    BY <2>3, LinksStay DEF SessionsInv, AccountsTyped
  <2>7. QED
    BY <2>3, <2>4, <2>5, <2>6, SessionTasksStay DEF SessionsInv
<1>4. ASSUME NEW n \in Links, S!ExpireLink(n)
      PROVE  SessionsInv'
  <2>1. PICK row \in LinkRow : row = [link[n] EXCEPT !.expired = TRUE]
    BY <1>1 DEF LinkRow
  <2>2. link[n] \in LinkRow /\ link[n].type # "none"
    BY <1>1, <1>4 DEF S!ExpireLink
  <2>3. row.user = link[n].user /\ row.used = link[n].used /\ link[n] # S!NoLink
    BY <2>1, <2>2 DEF LinkRow, S!NoLink
  <2>4. link' = [link EXCEPT ![n] = row] /\ UNCHANGED <<user, session, second, epoch, uses, task, disturbed>>
    BY <1>4, <2>1 DEF S!ExpireLink
  <2>5. /\ link' \in [Links -> LinkRow] /\ link'[n] = row
        /\ \A m \in Links \ {n} : link'[m] = link[m]
    BY <1>1, <2>4
  <2>6. LinksAreSound'
    BY <2>3, <2>4, <2>5 DEF SessionsInv, LinksAreSound
  <2>7. SessionFrame(None)
    BY <2>3, <2>4, <2>5 DEF SessionFrame
  <2>8. AccountsTyped' /\ SessionsAreSound'
    BY <2>4, <2>5, AccountsStay DEF SessionsInv, AccountsTyped
  <2>9. QED
    BY <2>4, <2>6, <2>7, <2>8, SessionTasksStay DEF SessionsInv
<1>5. CASE S!NextSecond
  <2>1. second' \in Nat /\ UNCHANGED <<user, session, link, epoch, uses, task, disturbed>>
    BY <1>1, <1>5 DEF S!NextSecond
  <2>2. AccountsTyped' /\ SessionsAreSound' /\ LinksAreSound' /\ SessionFrame(None)
    BY <2>1 DEF SessionsInv, AccountsTyped, SessionsAreSound, S!SessionsEnd, LinksAreSound,
                SessionFrame
  <2>3. QED
    BY <2>1, <2>2, SessionTasksStay DEF SessionsInv
<1>6. ASSUME NEW s \in session, S!Logout(s)
      PROVE  SessionsInv'
  <2>1. s.user \in Users
    BY <1>1 DEF SessionRow
  <2>2. QED
    BY <1>2, <1>6, <2>1
<1>7. QED
  BY <1>2, <1>3, <1>4, <1>5, <1>6

LEMMA SessionsNextPreservesInv ==
  ASSUME SessionsInv, S!Next
  PROVE  SessionsInv'
<1>1. ASSUME NEW h \in Handlers, S!Continue(h)
      PROVE  SessionsInv'
  <2>1. CASE S!FailUse(h)
    BY <2>1, SessionStops DEF S!FailUse, S!At
  <2>2. QED
    BY <1>1, <2>1, ClearSessionsPreservesInv, OpenSessionPreservesInv,
       CreateFromGooglePreservesInv, UpdateFromGooglePreservesInv, CreateUserPreservesInv,
       SessionBeginSendPreservesInv, DeleteLinksPreservesInv, CreateLinkPreservesInv,
       UsePreservesInv, ActivateUserPreservesInv
    DEF S!Continue
<1>2. ASSUME NEW h \in Handlers, S!Crash(h)
      PROVE  SessionsInv'
  BY <1>2, SessionStops DEF S!Crash, S!At
<1>3. QED
  BY <1>1, <1>2, SessionBeginPreservesInv, SessionOtherStepsPreserveInv DEF S!Next

\* One session or none.
LEMMA SessionsInvHasOneSession == SessionsInv => S!OneSession
<1> SUFFICES ASSUME SessionsInv, NEW u \in Users \ disturbed
             PROVE  S!Cardinality({s \in session : s.user = u}) <= 1
  BY DEF S!OneSession
<1> DEFINE its == {s \in session : s.user = u}
<1>1. its = {} \/ \E s \in its : its = {s}
  <2>1. \A s, t \in its : s = t
    BY DEF SessionsInv, SessionsAreSound
  <2>2. QED
    BY <2>1
<1>2. CASE its = {}
  BY <1>2, FS_EmptySet, SessionCardinality
<1>3. ASSUME NEW s \in its, its = {s}
      PROVE  S!Cardinality(its) <= 1
  BY <1>3, FS_Singleton, SessionCardinality
<1>4. QED
  BY <1>1, <1>2, <1>3

LEMMA SessionsStutter ==
  ASSUME SessionsInv, UNCHANGED <<user, session, link, second, epoch, uses, task, disturbed>>
  PROVE  SessionsInv'
<1>1. AccountsTyped' /\ SessionsAreSound' /\ LinksAreSound' /\ SessionFrame(None)
  BY SessionRowsStaySound DEF SessionRowsStay
<1>2. QED
  BY <1>1, SessionTasksStay DEF SessionsInv

\* What the invariant says of the properties of Sessions.
LEMMA SessionsInvHolds ==
  SessionsInv => S!TypeOK /\ S!SessionsEnd /\ S!OneSession /\ S!LinksWorkOnce
<1> SUFFICES ASSUME SessionsInv
             PROVE  S!TypeOK /\ S!SessionsEnd /\ S!LinksWorkOnce
  BY SessionsInvHasOneSession
<1>1. \A u \in Users : (user[u].active => user[u].exists) /\ user[u].roles \subseteq S!Roles
  BY DEF SessionsInv, AccountsTyped, UserRow
<1>2. \A n \in Links : link[n].type = "none" \/ user[link[n].user].exists
  BY DEF SessionsInv, LinksAreSound, S!NoLink
<1>3. S!TypeOK
  BY <1>1, <1>2 DEF SessionsInv, SessionsAreSound, S!TypeOK
<1>4. S!LinksWorkOnce
  BY DEF SessionsInv, LinksAreSound, S!LinksWorkOnce
<1>5. QED
  BY <1>3, <1>4 DEF SessionsInv, SessionsAreSound

-----------------------------------------------------------------------------
(* Access *)

NoteRow == [user : Users \cup {None}, read : BOOLEAN, despite : BOOLEAN]
AccessTask ==
  [pc : {"idle", "arrived", "validated", "join", "list", "answer", "send"},
   user : Users \cup {None}, roles : SUBSET Roles, route : Asked \cup {None}, could : BOOLEAN,
   socket : Sockets \cup {None}, list : SUBSET Notes, since : BOOLEAN,
   todo : SUBSET Users, despite : BOOLEAN, unpushed : SUBSET Notes]

AccessTyped ==
  /\ account \in [Users -> [active : BOOLEAN, roles : SUBSET Roles]]
  /\ token \subseteq [user : Users, roles : SUBSET Roles]
  /\ exchange \in [Codes -> [user : Users \cup {None}, expired : BOOLEAN]]
  /\ completed \in [Codes -> Nat]
  /\ task \in [Handlers -> AccessTask]

\* A code that waits has signed nobody in, one that has does not wait.
CodesAreSound ==
  \A c \in Codes : /\ exchange[c].user # None => completed[c] = 0
                   /\ completed[c] <= 1

\* A request that would be served is one that could have been: before the account is read
\* for it by what the account is, then by what was read.
RequestIsSound(t) ==
  /\ t.pc \in {"arrived", "validated"} => t.user \in Users /\ t.route \in Asked
  /\ t.pc = "arrived" => (A!Entitled(account[t.user], t.route) => t.could)
  /\ t.pc = "validated" => (A!Passes(t.roles, t.route) => t.could)

\* Whom a handler joins, lists or sends for, and what holds of its socket.
ClientIsSound(t) ==
  /\ t.pc \in {"join", "list", "answer"} => t.socket \in Sockets /\ t.user \in Users
  /\ t.pc = "join" => socket[t.socket] = None
  /\ t.since => t.pc = "answer" /\ socket[t.socket] = t.user
  /\ t.pc # "send" => t.unpushed = {}

\* No two handlers join with the same socket.
TasksAreSound ==
  /\ \A h \in Handlers : RequestIsSound(task[h]) /\ ClientIsSound(task[h])
  /\ \A g, h \in Handlers :
       g # h /\ task[g].pc = "join" /\ task[h].pc = "join" => task[g].socket # task[h].socket

\* What is pushed, mailed or was not pushed is somebody's, and who is active has been since
\* its mail was set off.
NotesAreSound ==
  /\ note \in [Notes -> NoteRow]
  /\ mailing \subseteq Notes /\ posting \subseteq Notes /\ dropped \subseteq Notes
  /\ \A n \in mailing \cup posting \cup dropped : note[n].user \in Users
  /\ \A h \in Handlers : \A n \in task[h].unpushed : note[n].user \in Users
  /\ \A n \in mailing : account[note[n].user].active => n \in fit
  /\ \A n \in posting : note[n].despite \/ n \in fit

SocketsAreSound ==
  /\ socket \in [Sockets -> Users \cup {None}]
  /\ received \in [Sockets -> SUBSET Notes]
  /\ listed \in [Sockets -> BOOLEAN]
  /\ \A k \in Sockets : socket[k] = None => ~listed[k]

\* A notification that its user is not told of now is about to be, or its handler died.
Pending(n) == n \in dropped \/ \E h \in Handlers : n \in task[h].unpushed

\* Who got a list that was read after it had joined was told all but what is pending, and
\* who is about to get one will have been.
ListsAreComplete ==
  /\ \A k \in Sockets, n \in Notes :
       listed[k] /\ note[n].user = socket[k] => n \in received[k] \/ Pending(n)
  /\ \A h \in Handlers, n \in Notes :
       task[h].since /\ note[n].user = task[h].user
         => n \in task[h].list \/ n \in received[task[h].socket] \/ Pending(n)

AccessInv ==
  /\ AccessTyped /\ CodesAreSound /\ TasksAreSound /\ NotesAreSound /\ SocketsAreSound
  /\ ListsAreComplete /\ breach = {}

AccessIInv == work = "access" => AccessInv

LEMMA RolesAgree == A!Roles = Roles
  BY DEF A!Roles, Roles

LEMMA HeldAreRoles == Held \subseteq Roles /\ None \notin Users
  BY MarketBoundsOK

LEMMA AccessIdle ==
  /\ A!Idle \in AccessTask
  /\ A!Idle.pc = "idle" /\ A!Idle.socket = None /\ A!Idle.unpushed = {} /\ ~A!Idle.since
  BY DEF A!Idle, AccessTask

LEMMA AccessInitInv == A!Init /\ breach = {} => AccessInv
<1> SUFFICES ASSUME A!Init
             PROVE  AccessInv
  OBVIOUS
<1>1. /\ account \in [Users -> [active : {TRUE}, roles : {{r} : r \in Held}]]
      /\ token = {} /\ exchange = [c \in Codes |-> A!NoCode]
      /\ socket = [k \in Sockets |-> None]
      /\ received = [k \in Sockets |-> {}] /\ listed = [k \in Sockets |-> FALSE]
      /\ note = [n \in Notes |-> A!NoNote] /\ mailing = {} /\ posting = {}
      /\ completed = [c \in Codes |-> 0] /\ breach = {} /\ dropped = {}
      /\ task = [h \in Handlers |-> A!Idle]
  BY DEF A!Init
<1>2. account \in [Users -> [active : BOOLEAN, roles : SUBSET Roles]]
  <2>1. \A row \in [active : {TRUE}, roles : {{r} : r \in Held}] :
          row \in [active : BOOLEAN, roles : SUBSET Roles]
    BY HeldAreRoles
  <2>2. QED
    BY <1>1, <2>1
<1>3. /\ A!NoCode \in [user : Users \cup {None}, expired : BOOLEAN] /\ A!NoCode.user = None
      /\ A!NoNote \in NoteRow /\ A!NoNote.user = None
  BY DEF A!NoCode, A!NoNote, NoteRow
<1>4. AccessTyped /\ CodesAreSound
  BY <1>1, <1>2, <1>3, AccessIdle DEF AccessTyped, CodesAreSound
<1>5. NotesAreSound /\ SocketsAreSound /\ ListsAreComplete
  BY <1>1, <1>3, AccessIdle DEF NotesAreSound, SocketsAreSound, ListsAreComplete
<1>6. TasksAreSound
  BY <1>1, AccessIdle DEF TasksAreSound, RequestIsSound, ClientIsSound
<1>7. QED
  BY <1>1, <1>4, <1>5, <1>6 DEF AccessInv

-----------------------------------------------------------------------------
(* Accounts, tokens and codes *)

AccountRow == [active : BOOLEAN, roles : SUBSET Roles]

\* What a change of an account leaves is known to the requests and mails it meets.
LEMMA ChangePreservesInv ==
  ASSUME AccessInv, NEW u \in Users, NEW row \in AccountRow, A!Change(u, row)
  PROVE  AccessInv'
<1>1. /\ account' = [account EXCEPT ![u] = row]
      /\ task' = [h \in Handlers |->
           IF task[h].user = u /\ task[h].route # None /\ A!Entitled(row, task[h].route)
             THEN [task[h] EXCEPT !.could = TRUE] ELSE task[h]]
      /\ fit' = IF row.active THEN fit \cup {n \in mailing \cup posting : note[n].user = u}
                              ELSE fit
      /\ UNCHANGED <<token, exchange, completed, socket, received, listed, note, mailing,
                     posting, dropped, breach>>
  BY DEF A!Change, A!clients
<1>2. /\ account \in [Users -> AccountRow] /\ account' \in [Users -> AccountRow]
      /\ account'[u] = row /\ \A v \in Users \ {u} : account'[v] = account[v]
  BY <1>1 DEF AccessInv, AccessTyped, AccountRow
<1>3. ASSUME NEW h \in Handlers
      PROVE  /\ task'[h] \in AccessTask
             /\ task'[h].pc = task[h].pc /\ task'[h].user = task[h].user
             /\ task'[h].roles = task[h].roles /\ task'[h].route = task[h].route
             /\ task'[h].socket = task[h].socket /\ task'[h].list = task[h].list
             /\ task'[h].since = task[h].since /\ task'[h].unpushed = task[h].unpushed
             /\ task[h].could => task'[h].could
             /\ task[h].user = u /\ task[h].route # None /\ A!Entitled(row, task[h].route)
                  => task'[h].could
  <2>1. task[h] \in AccessTask /\ task'[h] \in {task[h], [task[h] EXCEPT !.could = TRUE]}
    BY <1>1 DEF AccessInv, AccessTyped
  <2>2. /\ [task[h] EXCEPT !.could = TRUE] \in AccessTask
        /\ [task[h] EXCEPT !.could = TRUE].could
    BY <2>1 DEF AccessTask
  <2>3. QED
    BY <1>1, <2>1, <2>2 DEF AccessTask
<1>4. AccessTyped' /\ CodesAreSound'
  <2>1. DOMAIN task' = Handlers /\ task' = [h \in Handlers |-> task'[h]]
    BY <1>1
  <2>2. task' \in [Handlers -> AccessTask]
    BY <1>3, <2>1
  <2>3. QED
    BY <1>1, <1>2, <2>2 DEF AccessInv, AccessTyped, CodesAreSound, AccountRow
<1>5. TasksAreSound'
  <2>1. ASSUME NEW h \in Handlers
        PROVE  RequestIsSound(task[h])'
    <3>1. RequestIsSound(task[h])
      BY DEF AccessInv, TasksAreSound
    <3>2. CASE task[h].pc = "arrived"
      <4>1. /\ task[h].user \in Users /\ task[h].route # None
            /\ A!Entitled(account[task[h].user], task[h].route) => task[h].could
        BY <3>1, <3>2, MarketBoundsOK DEF RequestIsSound
      <4>2. A!Entitled(account'[task[h].user], task[h].route) => task'[h].could
        BY <1>2, <1>3, <4>1
      <4>3. A!Entitled(account[task[h].user], task[h].route)'
              = A!Entitled(account'[task'[h].user], task'[h].route)
        BY DEF A!Entitled, A!Passes, A!HasPermissions, A!HasRole, A!Permissions,
               A!RolePermissions
      <4>4. QED
        BY <1>3, <3>1, <3>2, <4>2, <4>3 DEF RequestIsSound
    <3>3. CASE task[h].pc # "arrived"
      BY <1>3, <3>1, <3>3 DEF RequestIsSound
    <3>4. QED
      BY <3>2, <3>3
  <2>2. \A h \in Handlers : ClientIsSound(task[h])'
    BY <1>1, <1>3 DEF AccessInv, TasksAreSound, ClientIsSound
  <2>3. QED
    BY <1>3, <2>1, <2>2 DEF AccessInv, TasksAreSound
<1>6. NotesAreSound'
  <2>1. \A n \in mailing : account'[note[n].user].active => n \in fit'
    <3>1. ASSUME NEW n \in mailing, account'[note[n].user].active
          PROVE  n \in fit'
      <4>1. note[n].user \in Users
        BY DEF AccessInv, NotesAreSound
      <4>2. CASE note[n].user = u
        BY <1>1, <1>2, <3>1, <4>2
      <4>3. CASE note[n].user # u
        BY <1>1, <1>2, <3>1, <4>1, <4>3 DEF AccessInv, NotesAreSound
      <4>4. QED
        BY <4>2, <4>3
    <3>2. QED
      BY <3>1
  <2>2. fit \subseteq fit'
    BY <1>1
  <2>3. QED
    BY <1>1, <1>3, <2>1, <2>2 DEF AccessInv, NotesAreSound
<1>7. SocketsAreSound'
  BY <1>1 DEF AccessInv, SocketsAreSound
<1>8. ListsAreComplete'
  <2>1. \A n : Pending(n) => Pending(n)'
    BY <1>1, <1>3 DEF Pending
  <2>2. QED
    BY <1>1, <1>3, <2>1 DEF AccessInv, ListsAreComplete
<1>9. QED
  BY <1>1, <1>4, <1>5, <1>6, <1>7, <1>8 DEF AccessInv

LEMMA SetActivePreservesInv ==
  ASSUME AccessInv, NEW u \in Users, NEW active \in BOOLEAN, A!SetActive(u, active)
  PROVE  AccessInv'
<1>1. account[u] \in AccountRow
  BY DEF AccessInv, AccessTyped, AccountRow
<1>2. [account[u] EXCEPT !.active = active] \in AccountRow
  BY <1>1 DEF AccountRow
<1>3. QED
  BY <1>2, ChangePreservesInv DEF A!SetActive

LEMMA SetRolePreservesInv ==
  ASSUME AccessInv, NEW u \in Users, NEW r \in Held, A!SetRole(u, r)
  PROVE  AccessInv'
<1>1. account[u] \in AccountRow /\ {r} \subseteq Roles
  BY HeldAreRoles DEF AccessInv, AccessTyped, AccountRow
<1>2. [account[u] EXCEPT !.roles = {r}] \in AccountRow
  BY <1>1 DEF AccountRow
<1>3. QED
  BY <1>2, ChangePreservesInv DEF A!SetRole

\* Tokens and codes come and go: nothing else depends on them.
LEMMA AccessSignInPreservesInv ==
  ASSUME AccessInv,
         \/ \E u \in Users : A!SignIn(u)
         \/ \E u \in Users, c \in Codes : A!GoogleReturns(c, u)
         \/ \E c \in Codes : A!CompleteGoogle(c) \/ A!ExpireCode(c)
         \/ \E tok \in token : A!Expire(tok)
  PROVE  AccessInv'
<1>1. UNCHANGED <<account, socket, received, listed, note, mailing, posting, fit, dropped,
                  breach, task>>
  BY DEF A!SignIn, A!GoogleReturns, A!CompleteGoogle, A!ExpireCode, A!Expire, A!clients,
         A!mails
<1>2. NotesAreSound' /\ SocketsAreSound' /\ ListsAreComplete'
  BY <1>1 DEF AccessInv, NotesAreSound, SocketsAreSound, ListsAreComplete, Pending
<1>3. TasksAreSound'
  <2>1. ASSUME NEW h \in Handlers
        PROVE  RequestIsSound(task[h])' /\ ClientIsSound(task[h])'
    <3>1. RequestIsSound(task[h]) /\ ClientIsSound(task[h])
      BY DEF AccessInv, TasksAreSound
    <3>2. QED
      BY <1>1, <3>1
      DEF RequestIsSound, ClientIsSound, A!Entitled
  <2>2. QED
    BY <1>1, <2>1 DEF AccessInv, TasksAreSound
<1>4. /\ account \in [Users -> [active : BOOLEAN, roles : SUBSET Roles]]
      /\ token \subseteq [user : Users, roles : SUBSET Roles]
      /\ exchange \in [Codes -> [user : Users \cup {None}, expired : BOOLEAN]]
      /\ completed \in [Codes -> Nat]
      /\ \A c \in Codes : exchange[c].user # None => completed[c] = 0
      /\ \A c \in Codes : completed[c] <= 1
  BY DEF AccessInv, AccessTyped, CodesAreSound
<1>5. \A u \in Users : A!TokenOf(u) \in [user : Users, roles : SUBSET Roles]
  BY <1>4 DEF A!TokenOf
<1>6. /\ token' \subseteq [user : Users, roles : SUBSET Roles]
      /\ exchange' \in [Codes -> [user : Users \cup {None}, expired : BOOLEAN]]
      /\ completed' \in [Codes -> Nat] /\ CodesAreSound'
  <2>1. ASSUME NEW c \in Codes, NEW u \in Users, A!GoogleReturns(c, u)
        PROVE  /\ token' \subseteq [user : Users, roles : SUBSET Roles]
               /\ exchange' \in [Codes -> [user : Users \cup {None}, expired : BOOLEAN]]
               /\ completed' \in [Codes -> Nat] /\ CodesAreSound'
    BY <1>4, <2>1 DEF A!GoogleReturns, CodesAreSound
  <2>2. ASSUME NEW c \in Codes, A!CompleteGoogle(c)
        PROVE  /\ token' \subseteq [user : Users, roles : SUBSET Roles]
               /\ exchange' \in [Codes -> [user : Users \cup {None}, expired : BOOLEAN]]
               /\ completed' \in [Codes -> Nat] /\ CodesAreSound'
    <3>1. /\ exchange[c].user \in Users /\ completed[c] = 0
      BY <1>4, <2>2 DEF A!CompleteGoogle
    <3>2. /\ exchange' = [exchange EXCEPT ![c] = A!NoCode]
          /\ A!NoCode \in [user : Users \cup {None}, expired : BOOLEAN]
          /\ A!NoCode.user = None
      BY <2>2 DEF A!CompleteGoogle, A!ConsumePendingExchange, A!NoCode
    <3>3. \/ UNCHANGED <<token, completed>>
          \/ /\ token' = token \cup {A!TokenOf(exchange[c].user)}
             /\ completed' = [completed EXCEPT ![c] = 1]
      BY <1>4, <2>2, <3>1 DEF A!CompleteGoogle
    <3>4. /\ token' \subseteq [user : Users, roles : SUBSET Roles]
          /\ completed' \in [Codes -> Nat]
          /\ completed'[c] \in {0, 1}
          /\ \A d \in Codes \ {c} : completed'[d] = completed[d]
      BY <1>4, <1>5, <3>1, <3>3
    <3>5. /\ exchange' \in [Codes -> [user : Users \cup {None}, expired : BOOLEAN]]
          /\ exchange'[c].user = None
          /\ \A d \in Codes \ {c} : exchange'[d] = exchange[d]
      BY <1>4, <3>2
    <3>6. CodesAreSound'
      BY <1>4, <3>4, <3>5 DEF CodesAreSound
    <3>7. QED
      BY <3>4, <3>5, <3>6
  <2>3. ASSUME NEW c \in Codes, A!ExpireCode(c)
        PROVE  /\ token' \subseteq [user : Users, roles : SUBSET Roles]
               /\ exchange' \in [Codes -> [user : Users \cup {None}, expired : BOOLEAN]]
               /\ completed' \in [Codes -> Nat] /\ CodesAreSound'
    BY <1>4, <2>3 DEF A!ExpireCode, CodesAreSound
  <2>4. ASSUME UNCHANGED <<exchange, completed>>,
               token' \subseteq [user : Users, roles : SUBSET Roles]
        PROVE  /\ token' \subseteq [user : Users, roles : SUBSET Roles]
               /\ exchange' \in [Codes -> [user : Users \cup {None}, expired : BOOLEAN]]
               /\ completed' \in [Codes -> Nat] /\ CodesAreSound'
    BY <1>4, <2>4 DEF CodesAreSound
  <2>5. QED
    BY <1>4, <1>5, <2>1, <2>2, <2>3, <2>4 DEF A!SignIn, A!Expire
<1>7. AccessTyped'
  BY <1>1, <1>6 DEF AccessInv, AccessTyped
<1>8. QED
  BY <1>1, <1>2, <1>3, <1>6, <1>7 DEF AccessInv

-----------------------------------------------------------------------------
(* Requests, sockets and notifications *)

\* What these steps leave alone.
RightsStay == UNCHANGED <<account, token, exchange, completed>>

LEMMA RightsStaySound ==
  ASSUME AccessInv, RightsStay, task' \in [Handlers -> AccessTask]
  PROVE  AccessTyped' /\ CodesAreSound'
  BY DEF AccessInv, RightsStay, AccessTyped, CodesAreSound

\* What is asked of a task that a handler takes up while accounts, sockets, rows and mails
\* stay as they are.
Fitting(t) ==
  /\ RequestIsSound(t) /\ ClientIsSound(t)
  /\ t.since => \A n \in Notes : note[n].user = t.user => n \in t.list

\* A handler takes up task t, and keeps what it has still to push, or loses it.
LEMMA TaskPreservesInv ==
  ASSUME AccessInv, NEW h \in Handlers, NEW t \in AccessTask, task' = [task EXCEPT ![h] = t],
         RightsStay, UNCHANGED <<socket, received, listed, note, mailing, posting, fit>>,
         breach' = {}, Fitting(t), t.unpushed \subseteq task[h].unpushed,
         dropped \subseteq dropped', dropped' \subseteq dropped \cup task[h].unpushed,
         task[h].unpushed \subseteq t.unpushed \cup dropped',
         t.pc = "join" => \A g \in Handlers : task[g].pc = "join" => task[g].socket # t.socket
  PROVE  AccessInv'
<1>1. task' \in [Handlers -> AccessTask]
      /\ task'[h] = t /\ \A g \in Handlers \ {h} : task'[g] = task[g]
  BY DEF AccessInv, AccessTyped
<1>2. AccessTyped' /\ CodesAreSound'
  BY <1>1, RightsStaySound
<1>3. TasksAreSound'
  <2>1. ASSUME NEW g \in Handlers
        PROVE  RequestIsSound(task[g])' /\ ClientIsSound(task[g])'
    <3>1. RequestIsSound(task'[g]) /\ ClientIsSound(task'[g])
      BY <1>1 DEF AccessInv, TasksAreSound, Fitting
    <3>2. account' = account /\ socket' = socket
      BY DEF RightsStay
    <3>3. QED
      BY <3>1, <3>2 DEF RequestIsSound, ClientIsSound, A!Entitled
  <2>2. \A f, g \in Handlers :
          f # g /\ task'[f].pc = "join" /\ task'[g].pc = "join"
            => task'[f].socket # task'[g].socket
    BY <1>1 DEF AccessInv, TasksAreSound
  <2>3. QED
    BY <2>1, <2>2 DEF TasksAreSound
<1>4. NotesAreSound'
  <2>1. \A g \in Handlers : task'[g].unpushed \subseteq task[g].unpushed
    BY <1>1
  <2>2. \A n \in task[h].unpushed : note[n].user \in Users /\ n \in Notes
    BY DEF AccessInv, NotesAreSound, AccessTyped, AccessTask
  <2>3. QED
    BY <2>1, <2>2 DEF AccessInv, NotesAreSound, RightsStay
<1>5. SocketsAreSound'
  BY DEF AccessInv, SocketsAreSound
<1>6. ListsAreComplete'
  <2>1. \A n \in Notes : Pending(n) => Pending(n)'
    BY <1>1 DEF Pending
  <2>2. \A g \in Handlers, n \in Notes :
          task'[g].since /\ note[n].user = task'[g].user
            => n \in task'[g].list \/ n \in received[task'[g].socket] \/ Pending(n)'
    BY <1>1, <2>1 DEF AccessInv, ListsAreComplete, Fitting
  <2>3. QED
    BY <2>1, <2>2 DEF AccessInv, ListsAreComplete
<1>7. QED
  BY <1>2, <1>3, <1>4, <1>5, <1>6 DEF AccessInv

\* A handler begins with task t, which has nothing to push and no list.
LEMMA BeginPreservesInv ==
  ASSUME AccessInv, NEW h \in Handlers, NEW t \in AccessTask, A!Begin(h, t),
         UNCHANGED <<A!rights, A!clients, A!mails, breach>>,
         RequestIsSound(t), ClientIsSound(t), ~t.since, t.unpushed = {},
         t.pc = "join" => \A g \in Handlers : task[g].pc = "join" => task[g].socket # t.socket
  PROVE  AccessInv'
<1>1. task[h].pc = "idle" /\ task' = [task EXCEPT ![h] = t]
  BY DEF A!Begin, A!At
<1>2. task[h].unpushed = {}
  BY <1>1 DEF AccessInv, TasksAreSound, ClientIsSound
<1>3. /\ RightsStay /\ UNCHANGED <<socket, received, listed, note, mailing, posting, fit>>
      /\ dropped' = dropped /\ breach' = {}
  BY DEF A!rights, A!clients, A!mails, RightsStay, AccessInv
<1>4. Fitting(t)
  BY DEF Fitting
<1>5. QED
  BY <1>1, <1>2, <1>3, <1>4, TaskPreservesInv

\* A handler that has nothing to push is done.
LEMMA FinishPreservesInv ==
  ASSUME AccessInv, NEW h \in Handlers, A!Finish(h),
         UNCHANGED <<A!rights, A!clients, note, mailing, posting, fit>>, breach' = {},
         dropped' = dropped \cup task[h].unpushed
  PROVE  AccessInv'
<1>1. task' = [task EXCEPT ![h] = A!Idle]
  BY DEF A!Finish
<1>2. RightsStay /\ UNCHANGED <<socket, received, listed, note, mailing, posting, fit>>
  BY DEF A!rights, A!clients, RightsStay
<1>3. Fitting(A!Idle)
  BY AccessIdle DEF Fitting, RequestIsSound, ClientIsSound
<1>4. QED
  BY <1>1, <1>2, <1>3, AccessIdle, TaskPreservesInv

LEMMA TokensAreTyped ==
  ASSUME AccessInv, NEW tok \in token
  PROVE  tok.user \in Users /\ tok.roles \in SUBSET Roles
  BY DEF AccessInv, AccessTyped

LEMMA ArrivePreservesInv ==
  ASSUME AccessInv, NEW h \in Handlers, NEW tok \in token, NEW route \in Asked,
         A!Arrive(h, tok, route)
  PROVE  AccessInv'
<1>1. PICK could \in BOOLEAN : could = A!Entitled(account[tok.user], route)
  BY DEF A!Entitled
<1> DEFINE t == [A!Idle EXCEPT !.pc = "arrived", !.user = tok.user, !.roles = tok.roles,
                               !.route = route, !.could = could]
<1>2. A!Begin(h, t) /\ UNCHANGED <<A!rights, A!clients, A!mails, breach>>
  BY <1>1, Zenon DEF A!Arrive
<1>3. /\ t \in AccessTask /\ t.pc = "arrived" /\ t.user = tok.user /\ t.route = route
      /\ t.could = could /\ ~t.since /\ t.unpushed = {}
  BY TokensAreTyped DEF A!Idle, AccessTask
<1> HIDE DEF t
<1>4. RequestIsSound(t) /\ ClientIsSound(t)
  BY <1>1, <1>3, TokensAreTyped DEF RequestIsSound, ClientIsSound
<1>5. QED
  BY <1>2, <1>3, <1>4, BeginPreservesInv

\* An account that is active has what it asks for if its roles pass.
LEMMA ValidatePreservesInv ==
  ASSUME AccessInv, NEW h \in Handlers, A!Validate(h)
  PROVE  AccessInv'
<1>1. /\ task[h].pc = "arrived" /\ breach' = {}
      /\ UNCHANGED <<A!rights, A!clients, A!mails>>
  BY DEF A!Validate, A!At, AccessInv
<1>2. RequestIsSound(task[h]) /\ ClientIsSound(task[h]) /\ task[h] \in AccessTask
  BY DEF AccessInv, TasksAreSound, AccessTyped
<1>3. CASE ~A!IsActive(task[h].user)
  <2>1. A!Finish(h) /\ task[h].unpushed = {}
    BY <1>1, <1>2, <1>3 DEF A!Validate, ClientIsSound
  <2>2. dropped' = dropped \cup task[h].unpushed
    BY <1>1, <2>1 DEF A!mails
  <2>3. QED
    BY <1>1, <2>1, <2>2, FinishPreservesInv DEF A!mails
<1>4. CASE A!IsActive(task[h].user)
  <2> DEFINE roles == account[task[h].user].roles
             t == [task[h] EXCEPT !.pc = "validated", !.roles = roles]
  <2>1. task' = [task EXCEPT ![h].pc = "validated", ![h].roles = roles]
    BY <1>4 DEF A!Validate, A!RolesOf
  <2>2. task' = [task EXCEPT ![h] = t]
    BY <2>1 DEF AccessInv, AccessTyped
  <2>3. task[h].user \in Users /\ roles \in SUBSET Roles
    BY <1>1, <1>2 DEF RequestIsSound, AccessInv, AccessTyped
  <2>4. /\ t \in AccessTask /\ t.pc = "validated" /\ t.roles = roles
        /\ t.user = task[h].user /\ t.route = task[h].route /\ t.could = task[h].could
        /\ t.since = task[h].since /\ t.unpushed = task[h].unpushed
    BY <1>2, <2>3 DEF AccessTask
  <2>5. A!Passes(roles, task[h].route) => task[h].could
    BY <1>1, <1>2, <1>4 DEF RequestIsSound, A!Entitled, A!IsActive
  <2> HIDE DEF t, roles
  <2>6. Fitting(t)
    BY <1>1, <1>2, <2>4, <2>5 DEF Fitting, RequestIsSound, ClientIsSound
  <2>7. /\ RightsStay /\ UNCHANGED <<socket, received, listed, note, mailing, posting, fit>>
        /\ dropped' = dropped
    BY <1>1 DEF RightsStay, A!rights, A!clients, A!mails
  <2>8. QED
    BY <1>1, <2>2, <2>4, <2>6, <2>7, TaskPreservesInv
<1>5. QED
  BY <1>3, <1>4

\* What is served could have been.
LEMMA ServePreservesInv ==
  ASSUME AccessInv, NEW h \in Handlers, A!Serve(h)
  PROVE  AccessInv'
<1>1. /\ task[h].pc = "validated" /\ A!Finish(h) /\ breach = {}
      /\ UNCHANGED <<A!rights, A!clients, A!mails>>
  BY DEF A!Serve, A!At, AccessInv
<1>2. RequestIsSound(task[h]) /\ ClientIsSound(task[h])
  BY DEF AccessInv, TasksAreSound
<1>3. ~(A!Passes(task[h].roles, task[h].route) /\ ~task[h].could)
  BY <1>1, <1>2 DEF RequestIsSound
<1>4. breach' = {}
  BY <1>1, <1>3 DEF A!Serve
<1>5. dropped' = dropped \cup task[h].unpushed
  BY <1>1, <1>2 DEF A!mails, ClientIsSound
<1>6. QED
  BY <1>1, <1>4, <1>5, FinishPreservesInv DEF A!mails

LEMMA BeginConnectPreservesInv ==
  ASSUME AccessInv, NEW h \in Handlers, NEW k \in Sockets, NEW tok \in token,
         A!BeginConnect(h, k, tok)
  PROVE  AccessInv'
<1> DEFINE t == [A!Idle EXCEPT !.pc = "join", !.socket = k, !.user = tok.user]
<1>1. /\ A!Begin(h, t) /\ UNCHANGED <<A!rights, A!clients, A!mails, breach>>
      /\ socket[k] = None /\ \A g \in Handlers : task[g].pc = "join" => task[g].socket # k
  BY DEF A!BeginConnect, A!At
<1>2. /\ t \in AccessTask /\ t.pc = "join" /\ t.socket = k /\ t.user = tok.user
      /\ t.unpushed = {} /\ ~t.since
  BY TokensAreTyped DEF A!Idle, AccessTask
<1> HIDE DEF t
<1>3. RequestIsSound(t) /\ ClientIsSound(t)
  BY <1>1, <1>2, TokensAreTyped DEF RequestIsSound, ClientIsSound
<1>4. QED
  BY <1>1, <1>2, <1>3, BeginPreservesInv

\* A client that joins has got nothing yet, and what is read for it was read before.
LEMMA JoinPreservesInv ==
  ASSUME AccessInv, NEW h \in Handlers, A!Join(h)
  PROVE  AccessInv'
<1> DEFINE k == task[h].socket
<1>1. /\ task[h].pc = "join" /\ task' = [task EXCEPT ![h] = A!Idle]
      /\ socket' = [socket EXCEPT ![k] = task[h].user]
      /\ RightsStay
      /\ UNCHANGED <<received, listed, note, mailing, posting, fit, dropped, breach>>
  BY DEF A!Join, A!Finish, A!At, A!rights, A!mails, RightsStay
<1>2. /\ k \in Sockets /\ socket[k] = None /\ task[h].user \in Users /\ task[h].unpushed = {}
      /\ ~listed[k]
  BY <1>1 DEF AccessInv, TasksAreSound, ClientIsSound, SocketsAreSound
<1>3. socket' \in [Sockets -> Users \cup {None}] /\ socket'[k] \in Users
      /\ \A j \in Sockets \ {k} : socket'[j] = socket[j]
  BY <1>1, <1>2 DEF AccessInv, SocketsAreSound
<1>4. task' \in [Handlers -> AccessTask] /\ task'[h] = A!Idle
      /\ \A g \in Handlers \ {h} : task'[g] = task[g]
  BY <1>1, AccessIdle DEF AccessInv, AccessTyped
<1> HIDE DEF k
<1>5. AccessTyped' /\ CodesAreSound'
  BY <1>1, <1>4, RightsStaySound
<1>6. \A g \in Handlers : task[g].since => task[g].socket \in Sockets \ {k}
  BY <1>2, HeldAreRoles DEF AccessInv, TasksAreSound, ClientIsSound
<1>7. \A g \in Handlers \ {h} : task[g].pc = "join" => task[g].socket \in Sockets \ {k}
  BY <1>1 DEF AccessInv, TasksAreSound, ClientIsSound, k
<1>8. TasksAreSound'
  <2>1. ASSUME NEW g \in Handlers
        PROVE  RequestIsSound(task[g])' /\ ClientIsSound(task[g])'
    <3>1. RequestIsSound(task'[g])
      BY <1>4, AccessIdle DEF AccessInv, TasksAreSound, RequestIsSound
    <3>2. ClientIsSound(task[g])'
      BY <1>3, <1>4, <1>6, <1>7, AccessIdle DEF AccessInv, TasksAreSound, ClientIsSound
    <3>3. account' = account
      BY <1>1 DEF RightsStay
    <3>4. QED
      BY <3>1, <3>2, <3>3 DEF RequestIsSound, A!Entitled
  <2>2. \A f, g \in Handlers :
          f # g /\ task'[f].pc = "join" /\ task'[g].pc = "join"
            => task'[f].socket # task'[g].socket
    BY <1>4, AccessIdle DEF AccessInv, TasksAreSound
  <2>3. QED
    BY <2>1, <2>2 DEF TasksAreSound
<1>9. NotesAreSound'
  <2>1. \A g \in Handlers : task'[g].unpushed \subseteq task[g].unpushed
    BY <1>4, AccessIdle
  <2>2. QED
    BY <1>1, <2>1 DEF AccessInv, NotesAreSound, RightsStay
<1>10. SocketsAreSound'
  BY <1>1, <1>2, <1>3, HeldAreRoles DEF AccessInv, SocketsAreSound
<1>11. ListsAreComplete'
  <2>1. \A n \in Notes : Pending(n) => Pending(n)'
    BY <1>1, <1>2, <1>4 DEF Pending
  <2>2. ASSUME NEW j \in Sockets, NEW n \in Notes, listed[j], note[n].user = socket'[j]
        PROVE  n \in received[j] \/ Pending(n)'
    BY <1>2, <1>3, <2>1, <2>2 DEF AccessInv, ListsAreComplete
  <2>3. ASSUME NEW g \in Handlers, NEW n \in Notes, task'[g].since,
               note[n].user = task'[g].user
        PROVE  n \in task'[g].list \/ n \in received[task'[g].socket] \/ Pending(n)'
    BY <1>4, <2>1, <2>3, AccessIdle DEF AccessInv, ListsAreComplete
  <2>4. QED
    BY <1>1, <2>2, <2>3 DEF ListsAreComplete
<1>12. QED
  BY <1>1, <1>5, <1>8, <1>9, <1>10, <1>11 DEF AccessInv

\* Who leaves has all to get again.
LEMMA DisconnectPreservesInv ==
  ASSUME AccessInv, NEW k \in Sockets, A!Disconnect(k)
  PROVE  AccessInv'
<1>1. /\ socket' = [socket EXCEPT ![k] = None]
      /\ received' = [received EXCEPT ![k] = {}] /\ listed' = [listed EXCEPT ![k] = FALSE]
      /\ task' = [h \in Handlers |->
           IF task[h].socket = k THEN [task[h] EXCEPT !.since = FALSE] ELSE task[h]]
      /\ RightsStay /\ UNCHANGED <<note, mailing, posting, fit, dropped, breach>>
  BY DEF A!Disconnect, A!rights, A!mails, RightsStay
<1>2. ASSUME NEW h \in Handlers
      PROVE  /\ task'[h] \in AccessTask
             /\ task'[h].pc = task[h].pc /\ task'[h].user = task[h].user
             /\ task'[h].roles = task[h].roles /\ task'[h].route = task[h].route
             /\ task'[h].could = task[h].could
             /\ task'[h].socket = task[h].socket /\ task'[h].list = task[h].list
             /\ task'[h].since => task[h].since /\ task[h].socket # k
             /\ task'[h].unpushed = task[h].unpushed
  <2>1. task[h] \in AccessTask
    BY DEF AccessInv, AccessTyped
  <2>2. CASE task[h].socket = k
    <3>1. task'[h] = [task[h] EXCEPT !.since = FALSE]
      BY <1>1, <2>2
    <3>2. QED
      BY <2>1, <3>1 DEF AccessTask
  <2>3. CASE task[h].socket # k
    BY <1>1, <2>1, <2>3
  <2>4. QED
    BY <2>2, <2>3
<1>3. /\ socket' \in [Sockets -> Users \cup {None}] /\ socket'[k] = None
      /\ received' \in [Sockets -> SUBSET Notes] /\ listed' \in [Sockets -> BOOLEAN]
      /\ ~listed'[k]
      /\ \A j \in Sockets \ {k} :
           socket'[j] = socket[j] /\ received'[j] = received[j] /\ listed'[j] = listed[j]
  BY <1>1 DEF AccessInv, SocketsAreSound
<1>4. AccessTyped' /\ CodesAreSound'
  <2>1. task' = [h \in Handlers |-> task'[h]]
    BY <1>1
  <2>2. task' \in [Handlers -> AccessTask]
    BY <1>2, <2>1
  <2>3. QED
    BY <1>1, <2>2, RightsStaySound
<1>5. TasksAreSound'
  <2>1. ASSUME NEW h \in Handlers
        PROVE  RequestIsSound(task[h])' /\ ClientIsSound(task[h])'
    <3>1. RequestIsSound(task[h]) /\ ClientIsSound(task[h])
      BY DEF AccessInv, TasksAreSound
    <3>2. account' = account
      BY <1>1 DEF RightsStay
    <3>3. RequestIsSound(task[h])'
      BY <1>2, <3>1, <3>2 DEF RequestIsSound, A!Entitled
    <3>4. ClientIsSound(task[h])'
      BY <1>2, <1>3, <3>1 DEF ClientIsSound
    <3>5. QED
      BY <3>3, <3>4
  <2>2. QED
    BY <1>2, <2>1 DEF AccessInv, TasksAreSound
<1>6. NotesAreSound'
  BY <1>1, <1>2 DEF AccessInv, NotesAreSound, RightsStay
<1>7. SocketsAreSound'
  BY <1>3 DEF AccessInv, SocketsAreSound
<1>8. ListsAreComplete'
  <2>1. \A n \in Notes : Pending(n) => Pending(n)'
    BY <1>1, <1>2 DEF Pending
  <2>2. \A j \in Sockets, n \in Notes :
          listed'[j] /\ note[n].user = socket'[j] => n \in received'[j] \/ Pending(n)'
    BY <1>3, <2>1 DEF AccessInv, ListsAreComplete
  <2>3. ASSUME NEW h \in Handlers, NEW n \in Notes, task'[h].since,
               note[n].user = task'[h].user
        PROVE  n \in task'[h].list \/ n \in received'[task'[h].socket] \/ Pending(n)'
    <3>1. task[h].since /\ task[h].socket \in Sockets \ {k}
      BY <1>2, <2>3 DEF AccessInv, TasksAreSound, ClientIsSound
    <3>2. QED
      BY <1>2, <1>3, <2>1, <2>3, <3>1 DEF AccessInv, ListsAreComplete
  <2>4. QED
    BY <1>1, <2>2, <2>3 DEF ListsAreComplete
<1>9. QED
  BY <1>1, <1>4, <1>5, <1>6, <1>7, <1>8 DEF AccessInv

LEMMA BeginFetchPreservesInv ==
  ASSUME AccessInv, NEW h \in Handlers, NEW k \in Sockets, NEW tok \in token,
         A!BeginFetch(h, k, tok)
  PROVE  AccessInv'
<1> DEFINE t == [A!Idle EXCEPT !.pc = "list", !.socket = k, !.user = tok.user]
<1>1. A!Begin(h, t) /\ UNCHANGED <<A!rights, A!clients, A!mails, breach>>
  BY DEF A!BeginFetch
<1>2. /\ t \in AccessTask /\ t.pc = "list" /\ t.socket = k /\ t.user = tok.user
      /\ t.unpushed = {} /\ ~t.since
  BY TokensAreTyped DEF A!Idle, AccessTask
<1> HIDE DEF t
<1>3. RequestIsSound(t) /\ ClientIsSound(t)
  BY <1>2, TokensAreTyped DEF RequestIsSound, ClientIsSound
<1>4. QED
  BY <1>1, <1>2, <1>3, BeginPreservesInv

\* The list has all there is when it is read.
LEMMA ReadListPreservesInv ==
  ASSUME AccessInv, NEW h \in Handlers, A!ReadList(h)
  PROVE  AccessInv'
<1>1. /\ task[h] \in AccessTask /\ task[h].pc = "list"
      /\ RequestIsSound(task[h]) /\ ClientIsSound(task[h])
  BY DEF A!ReadList, A!At, AccessInv, AccessTyped, TasksAreSound
<1>2. PICK since \in BOOLEAN : since = (socket[task[h].socket] = task[h].user)
  OBVIOUS
<1> DEFINE t == [task[h] EXCEPT !.pc = "answer", !.list = A!NotesOf(task[h].user),
                                !.since = since]
<1>3. task' = [task EXCEPT ![h] = t] /\ UNCHANGED <<A!rights, A!clients, A!mails, breach>>
  BY <1>2, Zenon DEF A!ReadList
<1>4. A!NotesOf(task[h].user) \in SUBSET Notes
  BY DEF A!NotesOf
<1>5. /\ t \in AccessTask /\ t.pc = "answer" /\ t.list = A!NotesOf(task[h].user)
      /\ t.since = since /\ t.user = task[h].user /\ t.socket = task[h].socket
      /\ t.unpushed = task[h].unpushed
  BY <1>1, <1>4 DEF AccessTask
<1> HIDE DEF t
<1>6. Fitting(t)
  BY <1>1, <1>2, <1>5 DEF Fitting, RequestIsSound, ClientIsSound, A!NotesOf
<1>7. /\ RightsStay /\ UNCHANGED <<socket, received, listed, note, mailing, posting, fit>>
      /\ dropped' = dropped /\ breach' = {}
  BY <1>3 DEF RightsStay, A!rights, A!clients, A!mails, AccessInv
<1>8. QED
  BY <1>3, <1>5, <1>6, <1>7, TaskPreservesInv

\* The client adds the list to what it was pushed meanwhile.
LEMMA AnswerPreservesInv ==
  ASSUME AccessInv, NEW h \in Handlers, A!Answer(h)
  PROVE  AccessInv'
<1> DEFINE k == task[h].socket
<1>1. /\ task[h].pc = "answer" /\ task' = [task EXCEPT ![h] = A!Idle]
      /\ received' = [received EXCEPT ![k] = @ \cup task[h].list]
      /\ listed' = [listed EXCEPT ![k] = @ \/ task[h].since]
      /\ RightsStay
      /\ UNCHANGED <<socket, note, mailing, posting, fit, dropped, breach>>
  BY DEF A!Answer, A!Finish, A!At, A!rights, A!mails, RightsStay
<1>2. /\ task[h] \in AccessTask /\ k \in Sockets /\ task[h].user \in Users
      /\ task[h].unpushed = {}
      /\ task[h].since => socket[k] = task[h].user
  BY <1>1 DEF AccessInv, AccessTyped, TasksAreSound, ClientIsSound
<1>3. /\ received' \in [Sockets -> SUBSET Notes]
      /\ received'[k] = received[k] \cup task[h].list
      /\ \A j \in Sockets \ {k} : received'[j] = received[j]
  BY <1>1, <1>2 DEF AccessInv, SocketsAreSound, AccessTask
<1>4. /\ listed' \in [Sockets -> BOOLEAN]
      /\ listed'[k] => listed[k] \/ task[h].since
      /\ \A j \in Sockets \ {k} : listed'[j] = listed[j]
  <2>1. listed[k] \in BOOLEAN /\ task[h].since \in BOOLEAN
    BY <1>2 DEF AccessInv, SocketsAreSound, AccessTask
  <2>2. PICK both \in BOOLEAN : both = (listed[k] \/ task[h].since)
    BY <2>1
  <2>3. listed' = [listed EXCEPT ![k] = both]
    BY <1>1, <2>2, Zenon
  <2>4. QED
    BY <1>2, <2>2, <2>3 DEF AccessInv, SocketsAreSound
<1>5. task' \in [Handlers -> AccessTask] /\ task'[h] = A!Idle
      /\ \A g \in Handlers \ {h} : task'[g] = task[g]
  BY <1>1, AccessIdle DEF AccessInv, AccessTyped
<1> HIDE DEF k
<1>6. AccessTyped' /\ CodesAreSound'
  BY <1>1, <1>5, RightsStaySound
<1>7. TasksAreSound'
  <2>1. ASSUME NEW g \in Handlers
        PROVE  RequestIsSound(task[g])' /\ ClientIsSound(task[g])'
    <3>1. RequestIsSound(task'[g]) /\ ClientIsSound(task'[g])
      BY <1>5, AccessIdle DEF AccessInv, TasksAreSound, RequestIsSound, ClientIsSound
    <3>2. account' = account /\ socket' = socket
      BY <1>1 DEF RightsStay
    <3>3. QED
      BY <3>1, <3>2 DEF RequestIsSound, ClientIsSound, A!Entitled
  <2>2. \A f, g \in Handlers :
          f # g /\ task'[f].pc = "join" /\ task'[g].pc = "join"
            => task'[f].socket # task'[g].socket
    BY <1>5, AccessIdle DEF AccessInv, TasksAreSound
  <2>3. QED
    BY <2>1, <2>2 DEF TasksAreSound
<1>8. NotesAreSound'
  <2>1. \A g \in Handlers : task'[g].unpushed \subseteq task[g].unpushed
    BY <1>5, AccessIdle
  <2>2. QED
    BY <1>1, <2>1 DEF AccessInv, NotesAreSound, RightsStay
<1>9. SocketsAreSound'
  <2>1. \A j \in Sockets : socket[j] = None => ~listed'[j]
    BY <1>2, <1>4, HeldAreRoles DEF AccessInv, SocketsAreSound
  <2>2. QED
    BY <1>1, <1>3, <1>4, <2>1 DEF AccessInv, SocketsAreSound
<1>10. ListsAreComplete'
  <2>1. \A n \in Notes : Pending(n) => Pending(n)'
    BY <1>1, <1>2, <1>5 DEF Pending
  <2>2. \A j \in Sockets : received[j] \subseteq received'[j]
    BY <1>3
  <2>3. ASSUME NEW j \in Sockets, NEW n \in Notes, listed'[j], note[n].user = socket[j]
        PROVE  n \in received'[j] \/ Pending(n)'
    <3>1. CASE listed[j]
      BY <2>1, <2>2, <2>3, <3>1 DEF AccessInv, ListsAreComplete
    <3>2. CASE ~listed[j]
      <4>1. j = k /\ task[h].since
        BY <1>4, <2>3, <3>2
      <4>2. note[n].user = task[h].user
        BY <1>2, <2>3, <4>1
      <4>3. n \in task[h].list \/ n \in received[k] \/ Pending(n)
        BY <4>1, <4>2 DEF AccessInv, ListsAreComplete, k
      <4>4. QED
        BY <1>3, <2>1, <4>1, <4>3
    <3>3. QED
      BY <3>1, <3>2
  <2>4. ASSUME NEW g \in Handlers, NEW n \in Notes, task'[g].since,
               note[n].user = task'[g].user
        PROVE  n \in task'[g].list \/ n \in received'[task'[g].socket] \/ Pending(n)'
    <3>1. /\ task'[g] = task[g] /\ task[g].since /\ task[g].socket \in Sockets
      BY <1>5, <2>4, AccessIdle DEF AccessInv, TasksAreSound, ClientIsSound
    <3>2. QED
      BY <2>1, <2>2, <2>4, <3>1 DEF AccessInv, ListsAreComplete
  <2>5. QED
    BY <1>1, <2>3, <2>4 DEF ListsAreComplete
<1>11. QED
  BY <1>1, <1>6, <1>7, <1>8, <1>9, <1>10 DEF AccessInv

LEMMA BeginSendPreservesInv ==
  ASSUME AccessInv, NEW h \in Handlers,
         \/ \E u \in Users, despite \in BOOLEAN : A!BeginSend(h, u, despite)
         \/ A!BeginSendToRoles(h, {"FINANCE_ADMIN", "SUPER_ADMIN"})
  PROVE  AccessInv'
<1>1. ASSUME NEW t \in AccessTask, t.pc = "send", t.unpushed = {}, ~t.since, A!Begin(h, t),
             UNCHANGED <<A!rights, A!clients, A!mails, breach>>
      PROVE  AccessInv'
  <2>1. RequestIsSound(t) /\ ClientIsSound(t)
    BY <1>1 DEF RequestIsSound, ClientIsSound
  <2>2. QED
    BY <1>1, <2>1, BeginPreservesInv
<1>2. CASE \E u \in Users, despite \in BOOLEAN : A!BeginSend(h, u, despite)
  <2>1. PICK u \in Users, despite \in BOOLEAN : A!BeginSend(h, u, despite)
    BY <1>2
  <2> DEFINE t == [A!Idle EXCEPT !.pc = "send", !.todo = {u}, !.despite = despite]
  <2>2. A!Begin(h, t) /\ UNCHANGED <<A!rights, A!clients, A!mails, breach>>
    BY <2>1, Zenon DEF A!BeginSend
  <2>3. t \in AccessTask /\ t.pc = "send" /\ t.unpushed = {} /\ ~t.since
    BY DEF A!Idle, AccessTask
  <2> HIDE DEF t
  <2>4. QED
    BY <1>1, <2>2, <2>3
<1>3. CASE A!BeginSendToRoles(h, {"FINANCE_ADMIN", "SUPER_ADMIN"})
  <2> DEFINE users == {u \in Users : A!IsActive(u) /\
                         account[u].roles \cap {"FINANCE_ADMIN", "SUPER_ADMIN"} # {}}
             t == [A!Idle EXCEPT !.pc = "send", !.todo = users]
  <2>1. A!Begin(h, t) /\ UNCHANGED <<A!rights, A!clients, A!mails, breach>>
    BY <1>3 DEF A!BeginSendToRoles
  <2>2. users \in SUBSET Users
    OBVIOUS
  <2> HIDE DEF users
  <2>3. t \in AccessTask /\ t.pc = "send" /\ t.unpushed = {} /\ ~t.since
    BY <2>2 DEF A!Idle, AccessTask
  <2> HIDE DEF t
  <2>4. QED
    BY <1>1, <2>1, <2>3
<1>4. QED
  BY <1>2, <1>3

\* The row that is inserted waits to be pushed.
LEMMA InsertPreservesInv ==
  ASSUME AccessInv, NEW h \in Handlers, NEW u \in Users, NEW n \in Notes, A!Insert(h, u, n)
  PROVE  AccessInv'
<1> DEFINE t == [task[h] EXCEPT !.todo = @ \ {u}, !.unpushed = @ \cup {n}]
<1>1. /\ task[h] \in AccessTask /\ note \in [Notes -> NoteRow]
      /\ task[h].despite \in BOOLEAN /\ task[h].pc = "send"
  BY DEF AccessInv, AccessTyped, NotesAreSound, AccessTask, A!Insert, A!At
<1>2. /\ task' = [task EXCEPT ![h] = t] /\ note[n].user = None
      /\ note' = [note EXCEPT ![n] = [user |-> u, read |-> FALSE, despite |-> task[h].despite]]
      /\ RightsStay
      /\ UNCHANGED <<socket, received, listed, mailing, posting, fit, dropped, breach>>
  <2>1. task' = [task EXCEPT ![h].todo = @ \ {u}, ![h].unpushed = @ \cup {n}]
    BY DEF A!Insert
  <2>2. task' = [task EXCEPT ![h] = t]
    BY <1>1, <2>1 DEF AccessInv, AccessTyped, AccessTask
  <2> HIDE DEF t
  <2>3. note[n].user = None
    BY DEF A!Insert, A!NoNote
  <2>4. /\ note' = [note EXCEPT ![n] = [user |-> u, read |-> FALSE, despite |-> task[h].despite]]
        /\ RightsStay
        /\ UNCHANGED <<socket, received, listed, mailing, posting, fit, dropped, breach>>
    BY DEF A!Insert, A!rights, A!clients, RightsStay
  <2>5. QED
    BY <2>2, <2>3, <2>4
<1>3. /\ t \in AccessTask /\ t.pc = "send" /\ t.since = task[h].since
      /\ t.unpushed = task[h].unpushed \cup {n}
  BY <1>1 DEF AccessTask
<1> HIDE DEF t
<1>4. /\ task' \in [Handlers -> AccessTask] /\ task'[h] = t
      /\ \A g \in Handlers \ {h} : task'[g] = task[g]
  BY <1>2, <1>3 DEF AccessInv, AccessTyped
<1>5. AccessTyped' /\ CodesAreSound'
  BY <1>2, <1>4, RightsStaySound
<1>6. ~t.since
  BY <1>1, <1>3 DEF AccessInv, TasksAreSound, ClientIsSound
<1>7. TasksAreSound'
  <2>1. ASSUME NEW g \in Handlers
        PROVE  RequestIsSound(task[g])' /\ ClientIsSound(task[g])'
    <3>1. RequestIsSound(task'[g]) /\ ClientIsSound(task'[g])
      BY <1>3, <1>4, <1>6 DEF AccessInv, TasksAreSound, RequestIsSound, ClientIsSound
    <3>2. account' = account /\ socket' = socket
      BY <1>2 DEF RightsStay
    <3>3. QED
      BY <3>1, <3>2 DEF RequestIsSound, ClientIsSound, A!Entitled
  <2>2. \A f, g \in Handlers :
          f # g /\ task'[f].pc = "join" /\ task'[g].pc = "join"
            => task'[f].socket # task'[g].socket
    BY <1>3, <1>4 DEF AccessInv, TasksAreSound
  <2>3. QED
    BY <2>1, <2>2 DEF TasksAreSound
<1>8. SocketsAreSound'
  BY <1>2 DEF AccessInv, SocketsAreSound
<1>9. /\ note' \in [Notes -> NoteRow] /\ note'[n].user = u
      /\ \A m \in Notes \ {n} : note'[m] = note[m]
  BY <1>1, <1>2 DEF NoteRow
<1>10. NotesAreSound'
  <2>1. /\ n \notin mailing \cup posting \cup dropped
        /\ \A g \in Handlers : n \notin task[g].unpushed
    BY <1>2, HeldAreRoles DEF AccessInv, NotesAreSound
  <2>2. \A m \in mailing \cup posting \cup dropped : m \in Notes \ {n} /\ note'[m] = note[m]
    BY <1>9, <2>1 DEF AccessInv, NotesAreSound
  <2>3. \A g \in Handlers : \A m \in task'[g].unpushed : m \in Notes /\ note'[m].user \in Users
    <3>1. \A g \in Handlers : \A m \in task[g].unpushed :
            m \in Notes \ {n} /\ note[m].user \in Users
      BY <2>1 DEF AccessInv, NotesAreSound, AccessTyped, AccessTask
    <3>2. QED
      BY <1>3, <1>4, <1>9, <3>1
  <2>4. account' = account
    BY <1>2 DEF RightsStay
  <2>5. QED
    BY <1>2, <1>9, <2>2, <2>3, <2>4 DEF AccessInv, NotesAreSound
<1>11. ListsAreComplete'
  <2>1. \A m \in Notes : Pending(m) => Pending(m)'
    BY <1>2, <1>3, <1>4 DEF Pending
  <2>2. Pending(n)'
    BY <1>3, <1>4 DEF Pending
  <2>3. \A g \in Handlers : task'[g].since => task'[g] = task[g]
    BY <1>4, <1>6
  <2>4. QED
    BY <1>2, <1>9, <2>1, <2>2, <2>3 DEF AccessInv, ListsAreComplete
<1>12. QED
  BY <1>2, <1>5, <1>7, <1>8, <1>10, <1>11 DEF AccessInv

\* A pushed row is told every client that has joined.
LEMMA PushPreservesInv ==
  ASSUME AccessInv, NEW h \in Handlers, NEW n \in Notes, A!Push(h, n)
  PROVE  AccessInv'
<1>1. /\ task[h] \in AccessTask /\ n \in task[h].unpushed /\ note[n].user \in Users
      /\ task[h].pc = "send" /\ ~task[h].since
  BY DEF AccessInv, AccessTyped, NotesAreSound, TasksAreSound, ClientIsSound, AccessTask, A!Push
<1>2. PICK t \in AccessTask :
        /\ task' = [task EXCEPT ![h] = t]
        /\ t.pc \in {"idle", "send"} /\ ~t.since
        /\ t.pc = "idle" => t.unpushed = {}
        /\ t.unpushed = task[h].unpushed \ {n}
  <2>1. CASE task[h].todo = {} /\ task[h].unpushed = {n}
    <3>1. task' = [task EXCEPT ![h] = A!Idle]
      BY <2>1 DEF A!Push, A!Finish
    <3>2. QED
      BY <2>1, <3>1, AccessIdle
  <2>2. CASE ~(task[h].todo = {} /\ task[h].unpushed = {n})
    <3> DEFINE t == [task[h] EXCEPT !.unpushed = @ \ {n}]
    <3>1. /\ t \in AccessTask /\ t.pc = "send" /\ t.since = task[h].since
          /\ t.unpushed = task[h].unpushed \ {n}
      BY <1>1 DEF AccessTask
    <3>2. task' = [task EXCEPT ![h] = t]
      BY <1>1, <2>2 DEF A!Push, AccessInv, AccessTyped, AccessTask
    <3> HIDE DEF t
    <3>3. QED
      BY <1>1, <3>1, <3>2
  <2>3. QED
    BY <2>1, <2>2
<1>3. /\ RightsStay /\ UNCHANGED <<socket, listed, note, posting, dropped, breach>>
      /\ mailing' = mailing \cup {n}
      /\ received' = [k \in Sockets |-> IF socket[k] = note[n].user
                                          THEN received[k] \cup {n} ELSE received[k]]
      /\ fit' = IF A!IsActive(note[n].user) THEN fit \cup {n} ELSE fit
  BY DEF A!Push, A!EmitToUser, A!rights, RightsStay
<1>4. /\ task' \in [Handlers -> AccessTask] /\ task'[h] = t
      /\ \A g \in Handlers \ {h} : task'[g] = task[g]
  BY <1>2 DEF AccessInv, AccessTyped
<1>5. AccessTyped' /\ CodesAreSound'
  BY <1>3, <1>4, RightsStaySound
<1>6. TasksAreSound'
  <2>1. ASSUME NEW g \in Handlers
        PROVE  RequestIsSound(task[g])' /\ ClientIsSound(task[g])'
    <3>1. RequestIsSound(task'[g]) /\ ClientIsSound(task'[g])
      BY <1>2, <1>4 DEF AccessInv, TasksAreSound, RequestIsSound, ClientIsSound
    <3>2. account' = account /\ socket' = socket
      BY <1>3 DEF RightsStay
    <3>3. QED
      BY <3>1, <3>2 DEF RequestIsSound, ClientIsSound, A!Entitled
  <2>2. \A f, g \in Handlers :
          f # g /\ task'[f].pc = "join" /\ task'[g].pc = "join"
            => task'[f].socket # task'[g].socket
    BY <1>2, <1>4 DEF AccessInv, TasksAreSound
  <2>3. QED
    BY <2>1, <2>2 DEF TasksAreSound
<1>7. NotesAreSound'
  <2>1. \A g \in Handlers : task'[g].unpushed \subseteq task[g].unpushed
    BY <1>2, <1>4
  <2>2. account' = account /\ fit \subseteq fit' /\ (account[note[n].user].active => n \in fit')
    BY <1>3 DEF RightsStay, A!IsActive
  <2>3. QED
    BY <1>1, <1>3, <2>1, <2>2 DEF AccessInv, NotesAreSound
<1>8. /\ received' \in [Sockets -> SUBSET Notes]
      /\ \A k \in Sockets : received[k] \subseteq received'[k]
      /\ \A k \in Sockets : socket[k] = note[n].user => n \in received'[k]
  BY <1>3 DEF AccessInv, SocketsAreSound
<1>9. SocketsAreSound'
  BY <1>3, <1>8 DEF AccessInv, SocketsAreSound
<1>10. ListsAreComplete'
  <2>1. \A m \in Notes \ {n} : Pending(m) => Pending(m)'
    BY <1>2, <1>3, <1>4 DEF Pending
  <2>2. ASSUME NEW k \in Sockets, NEW m \in Notes, listed[k], note[m].user = socket[k]
        PROVE  m \in received'[k] \/ Pending(m)'
    <3>1. CASE m = n
      BY <1>8, <2>2, <3>1
    <3>2. CASE m # n
      BY <1>8, <2>1, <2>2, <3>2 DEF AccessInv, ListsAreComplete
    <3>3. QED
      BY <3>1, <3>2
  <2>3. ASSUME NEW g \in Handlers, NEW m \in Notes, task'[g].since,
               note[m].user = task'[g].user
        PROVE  m \in task'[g].list \/ m \in received'[task'[g].socket] \/ Pending(m)'
    <3>1. /\ task'[g] = task[g] /\ task[g].since /\ task[g].socket \in Sockets
          /\ socket[task[g].socket] = task[g].user
      BY <1>2, <1>4, <2>3 DEF AccessInv, TasksAreSound, ClientIsSound
    <3>2. CASE m = n
      BY <1>8, <2>3, <3>1, <3>2
    <3>3. CASE m # n
      BY <1>8, <2>1, <2>3, <3>1, <3>3 DEF AccessInv, ListsAreComplete
    <3>4. QED
      BY <3>2, <3>3
  <2>4. QED
    BY <1>3, <2>2, <2>3 DEF ListsAreComplete
<1>11. QED
  BY <1>3, <1>5, <1>6, <1>7, <1>9, <1>10 DEF AccessInv

\* Nobody to tell, or a handler that dies and loses what it had still to push.
LEMMA AccessEndPreservesInv ==
  ASSUME AccessInv, NEW h \in Handlers, A!SendNothing(h) \/ A!Crash(h)
  PROVE  AccessInv'
<1>1. /\ A!Finish(h) /\ breach' = {} /\ dropped' = dropped \cup task[h].unpushed
      /\ UNCHANGED <<A!rights, A!clients, note, mailing, posting, fit>>
  BY DEF A!SendNothing, A!Crash, A!mails, AccessInv
<1>2. QED
  BY <1>1, FinishPreservesInv

\* A row or a mail changes, its user does not.
LEMMA NotesChangePreservesInv ==
  ASSUME AccessInv, RightsStay, UNCHANGED <<socket, received, listed, dropped, task, fit>>,
         breach' = {}, note' \in [Notes -> NoteRow],
         \A n \in Notes : note'[n].user = note[n].user /\ note'[n].despite = note[n].despite,
         mailing' \subseteq mailing, posting' \subseteq posting \cup mailing,
         \A n \in posting' \ posting : note[n].despite \/ n \in fit
  PROVE  AccessInv'
<1>1. AccessTyped' /\ CodesAreSound'
  BY RightsStaySound DEF AccessInv, AccessTyped
<1>2. TasksAreSound'
  <2>1. ASSUME NEW h \in Handlers
        PROVE  RequestIsSound(task[h])' /\ ClientIsSound(task[h])'
    <3>1. RequestIsSound(task[h]) /\ ClientIsSound(task[h])
      BY DEF AccessInv, TasksAreSound
    <3>2. account' = account
      BY DEF RightsStay
    <3>3. QED
      BY <3>1, <3>2 DEF RequestIsSound, ClientIsSound, A!Entitled
  <2>2. QED
    BY <2>1 DEF AccessInv, TasksAreSound
<1>3. NotesAreSound'
  <2>1. /\ mailing \subseteq Notes /\ posting \subseteq Notes /\ dropped \subseteq Notes
        /\ \A h \in Handlers : task[h].unpushed \subseteq Notes
    BY DEF AccessInv, NotesAreSound, AccessTyped, AccessTask
  <2>2. QED
    BY <2>1 DEF AccessInv, NotesAreSound, RightsStay
<1>4. SocketsAreSound' /\ ListsAreComplete'
  BY DEF AccessInv, SocketsAreSound, ListsAreComplete, Pending
<1>5. QED
  BY <1>1, <1>2, <1>3, <1>4 DEF AccessInv

\* A mail leaves for the mail server when the account may have it, and its account was
\* active then.
LEMMA MailPreservesInv ==
  ASSUME AccessInv, NEW n \in Notes, A!ReadForMail(n) \/ A!SendMail(n)
  PROVE  AccessInv'
<1>1. /\ RightsStay /\ UNCHANGED <<socket, received, listed, dropped, task, fit, note>>
      /\ mailing' \subseteq mailing /\ posting' \subseteq posting \cup mailing
  BY DEF A!ReadForMail, A!SendMail, A!rights, A!clients, RightsStay
<1>2. breach' = {}
  BY DEF A!ReadForMail, A!SendMail, AccessInv, NotesAreSound
<1>3. \A m \in posting' \ posting : note[m].despite \/ m \in fit
  BY DEF A!ReadForMail, A!SendMail, A!IsActive, AccessInv, NotesAreSound
<1>4. note' \in [Notes -> NoteRow]
  BY <1>1 DEF AccessInv, NotesAreSound
<1>5. QED
  BY <1>1, <1>2, <1>3, <1>4, NotesChangePreservesInv

\* Reading a notification leaves it its user's.
LEMMA AccessReadPreservesInv ==
  ASSUME AccessInv,
         \/ \E u \in Users, n \in Notes : A!MarkRead(u, n)
         \/ \E u \in Users : A!MarkAllRead(u)
  PROVE  AccessInv'
<1>1. /\ RightsStay /\ UNCHANGED <<socket, received, listed, dropped, task, fit>>
      /\ mailing' = mailing /\ posting' = posting /\ breach' = {}
  BY DEF A!MarkRead, A!MarkAllRead, A!rights, A!clients, RightsStay, AccessInv
<1>2. note \in [Notes -> NoteRow]
  BY DEF AccessInv, NotesAreSound
<1>3. \A n \in Notes : /\ [note[n] EXCEPT !.read = TRUE] \in NoteRow
                       /\ [note[n] EXCEPT !.read = TRUE].user = note[n].user
                       /\ [note[n] EXCEPT !.read = TRUE].despite = note[n].despite
  BY <1>2 DEF NoteRow
<1>4. /\ note' \in [Notes -> NoteRow]
      /\ \A n \in Notes : note'[n].user = note[n].user /\ note'[n].despite = note[n].despite
  <2>1. ASSUME NEW u \in Users, NEW n \in Notes, A!MarkRead(u, n)
        PROVE  /\ note' \in [Notes -> NoteRow]
               /\ \A m \in Notes : note'[m].user = note[m].user /\ note'[m].despite = note[m].despite
    <3>1. note' = [note EXCEPT ![n] = [note[n] EXCEPT !.read = TRUE]]
      BY <1>2, <2>1 DEF A!MarkRead
    <3>2. QED
      BY <1>2, <1>3, <3>1
  <2>2. ASSUME NEW u \in Users, A!MarkAllRead(u)
        PROVE  /\ note' \in [Notes -> NoteRow]
               /\ \A m \in Notes : note'[m].user = note[m].user /\ note'[m].despite = note[m].despite
    <3>1. note' = [n \in Notes |->
            IF note[n].user = u THEN [note[n] EXCEPT !.read = TRUE] ELSE note[n]]
      BY <2>2 DEF A!MarkAllRead
    <3>2. QED
      BY <1>2, <1>3, <3>1
  <2>3. QED
    BY <2>1, <2>2
<1>5. QED
  BY <1>1, <1>4, NotesChangePreservesInv

\* A restart forgets what is in memory; what was still to be pushed is lost.
LEMMA RestartPreservesInv ==
  ASSUME AccessInv, A!Restart
  PROVE  AccessInv'
<1>1. /\ exchange' = [c \in Codes |-> A!NoCode]
      /\ socket' = [k \in Sockets |-> None]
      /\ received' = [k \in Sockets |-> {}] /\ listed' = [k \in Sockets |-> FALSE]
      /\ mailing' = {} /\ posting' = {}
      /\ dropped' = dropped \cup UNION {task[h].unpushed : h \in Handlers}
      /\ task' = [h \in Handlers |-> A!Idle]
      /\ UNCHANGED <<account, token, completed, note, fit, breach>>
  BY DEF A!Restart
<1>2. A!NoCode \in [user : Users \cup {None}, expired : BOOLEAN] /\ A!NoCode.user = None
  BY DEF A!NoCode
<1>3. AccessTyped' /\ CodesAreSound'
  BY <1>1, <1>2, AccessIdle DEF AccessInv, AccessTyped, CodesAreSound
<1>4. SocketsAreSound' /\ ListsAreComplete'
  BY <1>1, AccessIdle DEF SocketsAreSound, ListsAreComplete
<1>5. TasksAreSound'
  BY <1>1, AccessIdle DEF TasksAreSound, RequestIsSound, ClientIsSound
<1>6. NotesAreSound'
  <2>1. \A h \in Handlers : \A n \in task[h].unpushed : n \in Notes /\ note[n].user \in Users
    BY DEF AccessInv, NotesAreSound, AccessTyped, AccessTask
  <2>2. \A n \in dropped' : n \in Notes /\ note[n].user \in Users
    BY <1>1, <2>1 DEF AccessInv, NotesAreSound
  <2>3. QED
    BY <1>1, <2>2, AccessIdle DEF AccessInv, NotesAreSound
<1>7. QED
  BY <1>1, <1>3, <1>4, <1>5, <1>6 DEF AccessInv

LEMMA AccessNextPreservesInv ==
  ASSUME AccessInv, A!Next
  PROVE  AccessInv'
<1>1. ASSUME NEW h \in Handlers, A!BeginSome(h)
      PROVE  AccessInv'
  BY <1>1, ArrivePreservesInv, BeginConnectPreservesInv, BeginFetchPreservesInv,
     BeginSendPreservesInv DEF A!BeginSome
<1>2. ASSUME NEW h \in Handlers, A!Continue(h)
      PROVE  AccessInv'
  BY <1>2, ValidatePreservesInv, ServePreservesInv, JoinPreservesInv, ReadListPreservesInv,
     AnswerPreservesInv, AccessEndPreservesInv, InsertPreservesInv, PushPreservesInv
  DEF A!Continue
<1>3. CASE \/ \E u \in Users : A!SetActive(u, TRUE) \/ A!SetActive(u, FALSE)
           \/ \E u \in Users, r \in Held : A!SetRole(u, r)
  BY <1>3, SetActivePreservesInv, SetRolePreservesInv
<1>4. CASE \/ \E u \in Users : A!SignIn(u)
           \/ \E u \in Users, c \in Codes : A!GoogleReturns(c, u)
           \/ \E c \in Codes : A!CompleteGoogle(c) \/ A!ExpireCode(c)
           \/ \E tok \in token : A!Expire(tok)
  BY <1>4, AccessSignInPreservesInv
<1>5. CASE \/ \E k \in Sockets : A!Disconnect(k)
           \/ \E n \in Notes : A!ReadForMail(n) \/ A!SendMail(n)
           \/ \E u \in Users, n \in Notes : A!MarkRead(u, n)
           \/ \E u \in Users : A!MarkAllRead(u)
           \/ A!Restart
  BY <1>5, DisconnectPreservesInv, MailPreservesInv, AccessReadPreservesInv,
     RestartPreservesInv
<1>6. QED
  BY <1>1, <1>2, <1>3, <1>4, <1>5 DEF A!Next

LEMMA AccessStutter ==
  ASSUME AccessInv, UNCHANGED <<account, token, exchange, completed, socket, received, listed,
                                note, mailing, posting, fit, dropped, breach, task>>
  PROVE  AccessInv'
<1>1. RightsStay /\ breach' = {} /\ note' \in [Notes -> NoteRow]
  BY DEF RightsStay, AccessInv, NotesAreSound
<1>2. QED
  BY <1>1, NotesChangePreservesInv

\* What the invariant says of the properties of Access.
LEMMA AccessInvHolds ==
  AccessInv => A!TypeOK /\ A!RightsAreCurrent /\ A!CodesWorkOnce /\ A!InboxIsComplete
<1> SUFFICES ASSUME AccessInv
             PROVE  A!TypeOK /\ A!RightsAreCurrent /\ A!CodesWorkOnce /\ A!InboxIsComplete
  OBVIOUS
<1>1. A!TypeOK
  BY RolesAgree DEF AccessInv, AccessTyped, NotesAreSound, SocketsAreSound, A!TypeOK
<1>2. A!RightsAreCurrent /\ A!CodesWorkOnce
  BY DEF AccessInv, CodesAreSound, A!RightsAreCurrent, A!CodesWorkOnce
<1>3. A!InboxIsComplete
  BY DEF AccessInv, ListsAreComplete, Pending, A!InboxIsComplete, A!NotesOf
<1>4. QED
  BY <1>1, <1>2, <1>3

-----------------------------------------------------------------------------
(* Guests *)

GuestRow ==
  [kind : {"none", "BUY", "BOOK", "fleet"}, email : Users \cup {None},
   listing : Vehicles \cup {None}, user : Users \cup {None}]
GuestTask ==
  [pc : {"idle", "link", "create", "profile", "inquiries", "each", "invoice"},
   user : Users \cup {None}, left : SUBSET {"inquiry", "fleet"}, todo : SUBSET Vehicles,
   listing : Vehicles \cup {None}, no : Nat]

GuestsTyped ==
  /\ request \in [Inquiries -> GuestRow]
  /\ profile \subseteq Users /\ open \subseteq Vehicles
  /\ number \in Nat /\ number <= MaxInvoices
  /\ task \in [Handlers -> GuestTask]

\* A linked inquiry of account u asks to buy listing l.
Wants(u, l) ==
  \E r \in Inquiries : request[r].user = u /\ request[r].kind = "BUY" /\ request[r].listing = l

RequestsAreOwn ==
  \A r \in Inquiries : /\ request[r].user \in {None, request[r].email}
                       /\ request[r].kind = "BUY" => request[r].listing \in Vehicles

InvoicesAreWanted ==
  /\ invoiced \subseteq served
  /\ \A u \in Users, l \in Vehicles : <<u, l>> \in served => Wants(u, l) /\ u \in profile

\* What task t knows when it comes to the invoices.
GuestTaskIsSound(t) ==
  /\ t.pc # "idle" => t.user \in Users
  /\ t.pc \in {"inquiries", "each", "invoice"} => t.user \in profile
  /\ t.pc \in {"each", "invoice"} => \A l \in t.todo : Wants(t.user, l)
  /\ t.pc = "invoice" => t.listing \in t.todo

GuestTasksAreSound == \A h \in Handlers : GuestTaskIsSound(task[h])

\* Task t has still to come to listing l.
Due(t, l) ==
  \/ t.pc \in {"link", "profile", "inquiries"}
  \/ t.pc \in {"each", "invoice"} /\ l \in t.todo

Settled(u, l) == <<u, l>> \in served \cup missed

\* What an account with a profile wants is invoiced, given up, or a handler comes to it.
WantedAreServed ==
  \A u \in profile, l \in open :
    Wants(u, l) => \/ Settled(u, l)
                   \/ \E h \in Handlers : task[h].user = u /\ Due(task[h], l)

GuestsInv ==
  /\ GuestsTyped /\ RequestsAreOwn /\ InvoicesAreWanted /\ GuestTasksAreSound
  /\ WantedAreServed

GuestsIInv == work = "guests" => GuestsInv

LEMMA WantedAre ==
  ASSUME NEW u
  PROVE  /\ \A l : l \in G!Wanted(u) <=> Wants(u, l)
         /\ G!Wanted(u) = {} <=> \A l : ~Wants(u, l)
  BY DEF G!Wanted, Wants

LEMMA GuestsIdle ==
  /\ G!Idle \in GuestTask
  /\ G!Idle.pc = "idle" /\ G!Idle.user = None
  BY DEF G!Idle, GuestTask

LEMMA GuestsBounds == MaxInvoices \in Nat /\ None \notin Users /\ None \notin Vehicles
  BY MarketBoundsOK

LEMMA GuestsInitInv == G!Init => GuestsInv
<1> SUFFICES ASSUME G!Init
             PROVE  GuestsInv
  OBVIOUS
<1>1. /\ request = [r \in Inquiries |-> G!NoRequest] /\ profile = {} /\ open = Vehicles
      /\ invoiced = {} /\ number = 0 /\ served = {} /\ task = [h \in Handlers |-> G!Idle]
  BY DEF G!Init
<1>2. G!NoRequest \in GuestRow /\ G!NoRequest.user = None /\ G!NoRequest.kind = "none"
  BY DEF G!NoRequest, GuestRow
<1>3. GuestsTyped /\ RequestsAreOwn
  BY <1>1, <1>2, GuestsIdle, GuestsBounds DEF GuestsTyped, RequestsAreOwn
<1>4. InvoicesAreWanted /\ WantedAreServed /\ GuestTasksAreSound
  BY <1>1, GuestsIdle DEF InvoicesAreWanted, WantedAreServed, GuestTasksAreSound,
                          GuestTaskIsSound
<1>5. QED
  BY <1>3, <1>4 DEF GuestsInv

\* A step of handler h that takes task t.  It leaves the requests and the profiles alone;
\* what h had still to come to it has to come to, or is settled.
LEMMA GuestStepPreservesInv ==
  ASSUME GuestsInv, NEW h \in Handlers, NEW t \in GuestTask,
         task' = [task EXCEPT ![h] = t], UNCHANGED <<request, profile, open>>,
         number' \in Nat, number' <= MaxInvoices,
         GuestTaskIsSound(t), InvoicesAreWanted',
         \A u \in Users, l \in Vehicles : Settled(u, l) => Settled(u, l)',
         \A u \in profile, l \in open :
           Wants(u, l) /\ task[h].user = u /\ Due(task[h], l)
             => Settled(u, l)' \/ (t.user = u /\ Due(t, l))
  PROVE  GuestsInv'
<1>1. task'[h] = t /\ \A g \in Handlers \ {h} : task'[g] = task[g]
  BY DEF GuestsInv, GuestsTyped
<1>2. GuestsTyped' /\ RequestsAreOwn'
  BY DEF GuestsInv, GuestsTyped, RequestsAreOwn
<1>3. \A u, l : Wants(u, l)' <=> Wants(u, l)
  BY DEF Wants
<1>4. GuestTasksAreSound'
  BY <1>1, <1>3 DEF GuestsInv, GuestTasksAreSound, GuestTaskIsSound
<1>5. WantedAreServed'
  <2>1. ASSUME NEW u \in profile, NEW l \in open, Wants(u, l), ~Settled(u, l)'
        PROVE  \E g \in Handlers : task'[g].user = u /\ Due(task'[g], l)
    <3>1. u \in Users /\ l \in Vehicles
      BY DEF GuestsInv, GuestsTyped
    <3>2. PICK g \in Handlers : task[g].user = u /\ Due(task[g], l)
      BY <2>1, <3>1 DEF GuestsInv, WantedAreServed
    <3>3. CASE g = h
      BY <1>1, <2>1, <3>2, <3>3
    <3>4. CASE g # h
      BY <1>1, <3>2, <3>4
    <3>5. QED
      BY <3>3, <3>4
  <2>2. QED
    BY <1>3, <2>1 DEF WantedAreServed, Due
<1>6. QED
  BY <1>2, <1>4, <1>5 DEF GuestsInv

LEMMA GuestTaskOf ==
  ASSUME GuestsInv, NEW h \in Handlers
  PROVE  /\ task[h] \in GuestTask /\ GuestTaskIsSound(task[h])
         /\ number \in Nat /\ number <= MaxInvoices
         /\ profile \subseteq Users /\ open \subseteq Vehicles
  BY DEF GuestsInv, GuestsTyped, GuestTasksAreSound

\* Tasks that end, or have nothing to come to.
LEMMA GuestIdleIsSound == GuestTaskIsSound(G!Idle)
  BY GuestsIdle DEF GuestTaskIsSound

LEMMA GuestBeginPreservesInv ==
  ASSUME GuestsInv, NEW h \in Handlers, NEW u \in Users,
         G!BeginLink(h, u) \/ G!BeginCreateProfile(h, u)
  PROVE  GuestsInv'
<1>1. task[h].pc = "idle" /\ UNCHANGED <<request, profile, open, invoiced, number, served, missed>>
  BY DEF G!BeginLink, G!BeginCreateProfile, G!At
<1>2. PICK t \in GuestTask :
        /\ task' = [task EXCEPT ![h] = t]
        /\ t.pc \in {"link", "create"} /\ t.user = u
  <2> DEFINE a == [G!Idle EXCEPT !.pc = "link", !.user = u, !.left = {"inquiry", "fleet"}]
             b == [G!Idle EXCEPT !.pc = "create", !.user = u]
  <2>1. /\ a \in GuestTask /\ a.pc = "link" /\ a.user = u
        /\ b \in GuestTask /\ b.pc = "create" /\ b.user = u
    BY DEF G!Idle, GuestTask
  <2>2. task' = [task EXCEPT ![h] = a] \/ task' = [task EXCEPT ![h] = b]
    BY DEF G!BeginLink, G!BeginCreateProfile
  <2> HIDE DEF a, b
  <2>3. QED
    BY <2>1, <2>2
<1>3. GuestTaskIsSound(t)
  BY <1>2 DEF GuestTaskIsSound
<1>4. InvoicesAreWanted' /\ \A v \in Users, l \in Vehicles : Settled(v, l) => Settled(v, l)'
  BY <1>1 DEF GuestsInv, InvoicesAreWanted, Wants, Settled
<1>5. \A l : ~Due(task[h], l)
  BY <1>1 DEF Due
<1>6. QED
  BY <1>1, <1>2, <1>3, <1>4, <1>5, GuestTaskOf, GuestStepPreservesInv

\* A handler ends.
LEMMA GuestStops ==
  ASSUME GuestsInv, NEW h \in Handlers, G!Finish(h),
         UNCHANGED <<request, profile, open, invoiced, number, served>>,
         missed \subseteq missed',
         \A u \in profile, l \in open :
           Wants(u, l) /\ task[h].user = u /\ Due(task[h], l) => Settled(u, l)'
  PROVE  GuestsInv'
<1>1. task' = [task EXCEPT ![h] = G!Idle]
  BY DEF G!Finish
<1>2. InvoicesAreWanted' /\ \A v \in Users, l \in Vehicles : Settled(v, l) => Settled(v, l)'
  BY DEF GuestsInv, InvoicesAreWanted, Wants, Settled
<1>3. QED
  BY <1>1, <1>2, GuestsIdle, GuestIdleIsSound, GuestTaskOf, GuestStepPreservesInv

\* Whatever a request for the account had still to come to is given up when it fails.
LEMMA GuestCrashPreservesInv ==
  ASSUME GuestsInv, NEW h \in Handlers, G!Crash(h)
  PROVE  GuestsInv'
<1>1. /\ G!Finish(h) /\ UNCHANGED <<request, profile, open, invoiced, number, served>>
      /\ missed' = missed \cup {<<task[h].user, l>> : l \in Vehicles}
  BY DEF G!Crash
<1>2. \A u \in profile, l \in open : task[h].user = u => Settled(u, l)'
  BY <1>1, GuestTaskOf DEF Settled
<1>3. QED
  BY <1>1, <1>2, GuestStops

\* fulfillPendingBuyInquiries finds the profile, the inquiries, and the listings to invoice.
LEMMA FindProfilePreservesInv ==
  ASSUME GuestsInv, NEW h \in Handlers, G!FindProfile(h)
  PROVE  GuestsInv'
<1>1. task[h].pc = "profile" /\ UNCHANGED <<request, profile, open, invoiced, number, served, missed>>
  BY DEF G!FindProfile, G!At
<1>2. CASE task[h].user \notin profile
  BY <1>1, <1>2, GuestStops DEF G!FindProfile
<1>3. CASE task[h].user \in profile
  <2> DEFINE t == [task[h] EXCEPT !.pc = "inquiries"]
  <2>1. task' = [task EXCEPT ![h] = t]
    BY <1>3 DEF G!FindProfile, G!Goto, GuestsInv, GuestsTyped, GuestTask
  <2>2. t \in GuestTask /\ t.pc = "inquiries" /\ t.user = task[h].user
    BY GuestTaskOf DEF GuestTask
  <2> HIDE DEF t
  <2>3. GuestTaskIsSound(t) /\ \A l : Due(t, l)
    BY <1>1, <1>3, <2>2, GuestTaskOf DEF GuestTaskIsSound, Due
  <2>4. InvoicesAreWanted' /\ \A v \in Users, l \in Vehicles : Settled(v, l) => Settled(v, l)'
    BY <1>1 DEF GuestsInv, InvoicesAreWanted, Wants, Settled
  <2>5. QED
    BY <1>1, <2>1, <2>2, <2>3, <2>4, GuestTaskOf, GuestStepPreservesInv
<1>4. QED
  BY <1>2, <1>3

LEMMA FindInquiriesPreservesInv ==
  ASSUME GuestsInv, NEW h \in Handlers, G!FindInquiries(h)
  PROVE  GuestsInv'
<1> DEFINE u == task[h].user
<1>1. /\ task[h].pc = "inquiries"
      /\ UNCHANGED <<request, profile, open, invoiced, number, served, missed>>
  BY DEF G!FindInquiries, G!At
<1>2. CASE G!Wanted(u) = {}
  BY <1>1, <1>2, GuestStops, WantedAre DEF G!FindInquiries
<1>3. CASE G!Wanted(u) # {}
  <2> DEFINE t == [task[h] EXCEPT !.pc = "each", !.todo = G!Wanted(u)]
  <2>1. task' = [task EXCEPT ![h] = t]
    BY <1>3 DEF G!FindInquiries, GuestsInv, GuestsTyped, GuestTask
  <2>2. G!Wanted(u) \subseteq Vehicles
    BY WantedAre DEF Wants, GuestsInv, RequestsAreOwn
  <2>3. t \in GuestTask /\ t.pc = "each" /\ t.user = u /\ t.todo = G!Wanted(u)
    BY <2>2, GuestTaskOf DEF GuestTask
  <2> HIDE DEF t
  <2>4. GuestTaskIsSound(t) /\ \A l : Wants(u, l) => Due(t, l)
    BY <1>1, <2>3, WantedAre, GuestTaskOf DEF GuestTaskIsSound, Due
  <2>5. InvoicesAreWanted' /\ \A v \in Users, l \in Vehicles : Settled(v, l) => Settled(v, l)'
    BY <1>1 DEF GuestsInv, InvoicesAreWanted, Wants, Settled
  <2>6. \A v \in profile, l \in open :
          Wants(v, l) /\ task[h].user = v => t.user = v /\ Due(t, l)
    BY <2>3, <2>4
  <2>7. QED
    BY <1>1, <2>1, <2>3, <2>4, <2>5, <2>6, GuestTaskOf, GuestStepPreservesInv
<1>4. QED
  BY <1>2, <1>3

\* Where a handler is that is done with listing l of its list.
LEMMA GoOnTakes ==
  ASSUME GuestsInv, NEW h \in Handlers, task[h].pc \in {"each", "invoice"}, NEW l,
         G!GoOn(h, l)
  PROVE  \E t \in GuestTask :
           /\ task' = [task EXCEPT ![h] = t] /\ GuestTaskIsSound(t)
           /\ \A m \in task[h].todo \ {l} : t.user = task[h].user /\ Due(t, m)
<1> DEFINE rest == task[h].todo \ {l}
<1>1. CASE rest = {}
  BY <1>1, GuestsIdle, GuestIdleIsSound DEF G!GoOn, G!Finish
<1>2. CASE rest # {}
  <2> DEFINE t == [task[h] EXCEPT !.pc = "each", !.todo = rest, !.listing = None, !.no = 0]
  <2>1. task' = [task EXCEPT ![h] = t]
    BY <1>2 DEF G!GoOn, GuestsInv, GuestsTyped, GuestTask
  <2>2. t \in GuestTask /\ t.pc = "each" /\ t.user = task[h].user /\ t.todo = rest
    BY GuestTaskOf DEF GuestTask
  <2> HIDE DEF t
  <2>3. GuestTaskIsSound(t)
    BY <2>2, GuestTaskOf DEF GuestTaskIsSound
  <2>4. QED
    BY <2>1, <2>2, <2>3 DEF Due
<1>3. QED
  BY <1>1, <1>2

LEMMA CheckInvoicePreservesInv ==
  ASSUME GuestsInv, NEW h \in Handlers, NEW l \in Vehicles, G!CheckInvoice(h, l)
  PROVE  GuestsInv'
<1> DEFINE u == task[h].user
<1>1. /\ task[h].pc = "each" /\ l \in task[h].todo
      /\ UNCHANGED <<request, profile, open, invoiced, number, served, missed>>
  BY DEF G!CheckInvoice, G!At
<1>2. InvoicesAreWanted' /\ \A v \in Users, m \in Vehicles : Settled(v, m) => Settled(v, m)'
  BY <1>1 DEF GuestsInv, InvoicesAreWanted, Wants, Settled
<1>3. CASE <<u, l>> \in invoiced \/ l \notin open
  <2>1. G!GoOn(h, l)
    BY <1>3 DEF G!CheckInvoice
  <2>2. PICK t \in GuestTask :
          /\ task' = [task EXCEPT ![h] = t] /\ GuestTaskIsSound(t)
          /\ \A m \in task[h].todo \ {l} : t.user = u /\ Due(t, m)
    BY <1>1, <2>1, GoOnTakes
  <2>3. l \in open => Settled(u, l)
    BY <1>3 DEF GuestsInv, InvoicesAreWanted, Settled
  <2>4. \A m \in open : Due(task[h], m) => Settled(u, m) \/ (t.user = u /\ Due(t, m))
    <3>1. \A m : Due(task[h], m) => m \in task[h].todo
      BY <1>1 DEF Due
    <3>2. QED
      BY <2>2, <2>3, <3>1
  <2>5. \A m : Settled(u, m) => <<u, m>> \in served' \cup missed'
    BY <1>1 DEF Settled
  <2>6. \A v \in profile, m \in open :
          task[h].user = v /\ Due(task[h], m) => Settled(v, m)' \/ (t.user = v /\ Due(t, m))
    BY <2>4, <2>5 DEF Settled
  <2>7. QED
    BY <1>1, <1>2, <2>2, <2>6, GuestTaskOf, GuestStepPreservesInv
<1>4. CASE ~(<<u, l>> \in invoiced \/ l \notin open)
  <2> DEFINE t == [task[h] EXCEPT !.pc = "invoice", !.listing = l, !.no = number + 1]
  <2>1. task' = [task EXCEPT ![h] = t]
    BY <1>4 DEF G!CheckInvoice, GuestsInv, GuestsTyped, GuestTask
  <2>2. /\ t \in GuestTask /\ t.pc = "invoice" /\ t.user = u /\ t.todo = task[h].todo
        /\ t.listing = l
    <3>1. task[h] \in GuestTask /\ number + 1 \in Nat
      BY GuestTaskOf
    <3>2. QED
      BY <3>1 DEF GuestTask
  <2> HIDE DEF t
  <2>3. GuestTaskIsSound(t) /\ \A m : Due(task[h], m) => Due(t, m)
    BY <1>1, <2>2, GuestTaskOf DEF GuestTaskIsSound, Due
  <2>4. QED
    BY <1>1, <1>2, <2>1, <2>2, <2>3, GuestTaskOf, GuestStepPreservesInv
<1>5. QED
  BY <1>3, <1>4

LEMMA CommitInvoicePreservesInv ==
  ASSUME GuestsInv, NEW h \in Handlers, G!CommitInvoice(h)
  PROVE  GuestsInv'
<1> DEFINE u == task[h].user
           l == task[h].listing
<1>1. /\ task[h].pc = "invoice" /\ UNCHANGED <<request, profile, open>> /\ G!GoOn(h, l)
      /\ \/ /\ number < MaxInvoices /\ number' = number + 1
            /\ invoiced' = invoiced \cup {<<u, l>>} /\ served' = served \cup {<<u, l>>}
            /\ UNCHANGED missed
         \/ missed' = missed \cup {<<u, l>>} /\ UNCHANGED <<number, invoiced, served>>
  BY DEF G!CommitInvoice, G!At
<1>2. u \in profile /\ l \in task[h].todo /\ Wants(u, l)
  BY <1>1, GuestTaskOf DEF GuestTaskIsSound
<1>3. PICK t \in GuestTask :
        /\ task' = [task EXCEPT ![h] = t] /\ GuestTaskIsSound(t)
        /\ \A m \in task[h].todo \ {l} : t.user = u /\ Due(t, m)
  BY <1>1, GoOnTakes
<1>4. number' \in Nat /\ number' <= MaxInvoices
  BY <1>1, GuestTaskOf, GuestsBounds
<1>5. InvoicesAreWanted'
  <2>1. invoiced' \subseteq served'
    BY <1>1 DEF GuestsInv, InvoicesAreWanted
  <2>2. \A v \in Users, m \in Vehicles : <<v, m>> \in served' =>
          <<v, m>> \in served \/ (v = u /\ m = l)
    BY <1>1
  <2>3. \A v \in Users, m \in Vehicles : <<v, m>> \in served' => Wants(v, m) /\ v \in profile
    BY <1>2, <2>2 DEF GuestsInv, InvoicesAreWanted
  <2>4. \A v, m : Wants(v, m)' <=> Wants(v, m)
    BY <1>1 DEF Wants
  <2>5. QED
    BY <1>1, <2>1, <2>3, <2>4 DEF InvoicesAreWanted
<1>6. <<u, l>> \in served' \cup missed' /\ served \subseteq served' /\ missed \subseteq missed'
  BY <1>1
<1>7. \A v \in Users, m \in Vehicles : Settled(v, m) => Settled(v, m)'
  BY <1>6 DEF Settled
<1>8. \A v \in profile, m \in open :
        task[h].user = v /\ Due(task[h], m) => Settled(v, m)' \/ (t.user = v /\ Due(t, m))
  <2>1. \A m : Due(task[h], m) => m \in task[h].todo
    BY <1>1 DEF Due
  <2>2. \A v, m : v = u /\ m = l => Settled(v, m)'
    BY <1>6 DEF Settled
  <2>3. QED
    BY <1>3, <2>1, <2>2
<1>9. QED
  BY <1>1, <1>3, <1>4, <1>5, <1>7, <1>8, GuestStepPreservesInv

\* The requests of an address become those of its account: more is wanted than before, and
\* the handler has still to look for it.
LEMMA LinkTablePreservesInv ==
  ASSUME GuestsInv, NEW h \in Handlers, NEW table \in {"inquiry", "fleet"},
         G!LinkTable(h, table)
  PROVE  GuestsInv'
<1> DEFINE u == task[h].user
<1>1. /\ task[h].pc = "link" /\ UNCHANGED <<profile, open, invoiced, number, served, missed>>
      /\ request' = [r \in Inquiries |->
           IF request[r].email = u /\ request[r].user = None /\ G!Table(r) = table
             THEN [request[r] EXCEPT !.user = u] ELSE request[r]]
  BY DEF G!LinkTable, G!At
<1>2. task[h] \in GuestTask /\ u \in Users /\ u # None
  BY <1>1, GuestTaskOf, GuestsBounds DEF GuestTaskIsSound
<1>3. PICK t \in GuestTask :
        /\ task' = [task EXCEPT ![h] = t] /\ t.user = u /\ t.pc \in {"link", "profile"}
  <2> DEFINE t == [task[h] EXCEPT !.left = @ \ {table},
                                  !.pc = IF task[h].left = {table} THEN "profile" ELSE "link"]
  <2>1. task' = [task EXCEPT ![h] = t]
    BY <1>2 DEF G!LinkTable, GuestsInv, GuestsTyped, GuestTask
  <2>2. t \in GuestTask /\ t.user = u /\ t.pc \in {"link", "profile"}
    BY <1>2 DEF GuestTask
  <2> HIDE DEF t
  <2>3. QED
    BY <2>1, <2>2
<1>4. GuestTaskIsSound(t)' /\ \A l : Due(t, l)
  BY <1>2, <1>3 DEF GuestTaskIsSound, Due
<1>5. request \in [Inquiries -> GuestRow]
  BY DEF GuestsInv, GuestsTyped
<1>6. \A r \in Inquiries :
        /\ request'[r] \in GuestRow
        /\ request'[r].email = request[r].email /\ request'[r].kind = request[r].kind
        /\ request'[r].listing = request[r].listing
        /\ \/ request'[r].user = request[r].user
           \/ request[r].user = None /\ request'[r].user = u /\ request[r].email = u
  <2>1. ASSUME NEW r \in Inquiries
        PROVE  /\ [request[r] EXCEPT !.user = u] \in GuestRow
               /\ [request[r] EXCEPT !.user = u].email = request[r].email
               /\ [request[r] EXCEPT !.user = u].kind = request[r].kind
               /\ [request[r] EXCEPT !.user = u].listing = request[r].listing
               /\ [request[r] EXCEPT !.user = u].user = u
    BY <1>2, <1>5 DEF GuestRow
  <2>2. ASSUME NEW r \in Inquiries
        PROVE  \/ request'[r] = request[r]
               \/ /\ request'[r] = [request[r] EXCEPT !.user = u]
                  /\ request[r].user = None /\ request[r].email = u
    BY <1>1
  <2>3. QED
    BY <1>5, <2>1, <2>2
<1>7. request' \in [Inquiries -> GuestRow] /\ RequestsAreOwn'
  <2>1. request' \in [Inquiries -> GuestRow]
    BY <1>1, <1>6
  <2>2. QED
    BY <2>1, <1>6 DEF GuestsInv, RequestsAreOwn
<1>8. /\ \A v \in Users : \A l : Wants(v, l) => Wants(v, l)'
      /\ \A v \in Users \ {u} : \A l : Wants(v, l)' => Wants(v, l)
  <2>1. \A r \in Inquiries, v \in Users :
          /\ request[r].user = v => request'[r].user = v
          /\ request'[r].user = v /\ v # u => request[r].user = v
    BY <1>6, GuestsBounds
  <2>2. QED
    BY <1>6, <2>1 DEF Wants
<1>9. /\ task' \in [Handlers -> GuestTask] /\ task'[h] = t
      /\ \A g \in Handlers \ {h} : task'[g] = task[g]
  BY <1>3 DEF GuestsInv, GuestsTyped
<1>10. GuestsTyped'
  BY <1>1, <1>7, <1>9 DEF GuestsInv, GuestsTyped
<1>11. InvoicesAreWanted'
  BY <1>1, <1>8 DEF GuestsInv, InvoicesAreWanted
<1>12. GuestTasksAreSound'
  <2>1. ASSUME NEW g \in Handlers \ {h}
        PROVE  GuestTaskIsSound(task[g])'
    <3>1. GuestTaskIsSound(task[g]) /\ task'[g] = task[g]
      BY <1>9 DEF GuestsInv, GuestTasksAreSound
    <3>2. QED
      BY <1>1, <1>8, <3>1 DEF GuestTaskIsSound
  <2>2. GuestTaskIsSound(task[h])'
    BY <1>2, <1>3, <1>9 DEF GuestTaskIsSound
  <2>3. QED
    BY <2>1, <2>2 DEF GuestTasksAreSound
<1>13. WantedAreServed'
  <2>1. ASSUME NEW v \in profile, NEW l \in open, Wants(v, l)', ~Settled(v, l)
        PROVE  \E g \in Handlers : task'[g].user = v /\ Due(task'[g], l)
    <3>1. CASE v = u
      BY <1>3, <1>4, <1>9, <3>1
    <3>2. CASE v # u
      <4>1. v \in Users /\ Wants(v, l)
        BY <1>8, <2>1, <3>2, GuestTaskOf
      <4>2. PICK g \in Handlers : task[g].user = v /\ Due(task[g], l)
        BY <2>1, <4>1 DEF GuestsInv, WantedAreServed
      <4>3. QED
        BY <1>9, <3>2, <4>2
    <3>3. QED
      BY <3>1, <3>2
  <2>2. QED
    BY <1>1, <2>1 DEF WantedAreServed, Settled, Due
<1>14. QED
  BY <1>7, <1>10, <1>11, <1>12, <1>13 DEF GuestsInv

\* createBuyerProfile looks for the inquiries of its account after the profile exists.
LEMMA CommitCreateProfilePreservesInv ==
  ASSUME GuestsInv, NEW h \in Handlers, G!CommitCreateProfile(h)
  PROVE  GuestsInv'
<1> DEFINE u == task[h].user
<1>1. /\ task[h].pc = "create" /\ UNCHANGED <<request, open, invoiced, number, served, missed>>
  BY DEF G!CommitCreateProfile, G!At
<1>2. task[h] \in GuestTask /\ u \in Users
  BY <1>1, GuestTaskOf DEF GuestTaskIsSound
<1>3. CASE u \in profile
  <2>1. G!Finish(h) /\ profile' = profile
    BY <1>3 DEF G!CommitCreateProfile
  <2>2. \A l : ~Due(task[h], l)
    BY <1>1 DEF Due
  <2>3. QED
    BY <1>1, <2>1, <2>2, GuestStops
<1>4. CASE u \notin profile
  <2> DEFINE t == [task[h] EXCEPT !.pc = "profile"]
  <2>1. task' = [task EXCEPT ![h] = t] /\ profile' = profile \cup {u}
    BY <1>2, <1>4 DEF G!CommitCreateProfile, G!Goto, GuestsInv, GuestsTyped, GuestTask
  <2>2. t \in GuestTask /\ t.user = u /\ t.pc = "profile"
    BY <1>2 DEF GuestTask
  <2> HIDE DEF t
  <2>3. /\ task' \in [Handlers -> GuestTask] /\ task'[h] = t
        /\ \A g \in Handlers \ {h} : task'[g] = task[g]
    BY <2>1, <2>2 DEF GuestsInv, GuestsTyped
  <2>4. GuestsTyped' /\ RequestsAreOwn'
    BY <1>1, <1>2, <2>1, <2>3 DEF GuestsInv, GuestsTyped, RequestsAreOwn
  <2>5. \A v, l : Wants(v, l)' <=> Wants(v, l)
    BY <1>1 DEF Wants
  <2>6. InvoicesAreWanted'
    BY <1>1, <2>1, <2>5 DEF GuestsInv, InvoicesAreWanted
  <2>7. GuestTasksAreSound'
    <3>1. ASSUME NEW g \in Handlers \ {h}
          PROVE  GuestTaskIsSound(task[g])'
      <4>1. GuestTaskIsSound(task[g]) /\ task'[g] = task[g]
        BY <2>3 DEF GuestsInv, GuestTasksAreSound
      <4>2. QED
        BY <2>1, <2>5, <4>1 DEF GuestTaskIsSound
    <3>2. GuestTaskIsSound(task[h])'
      BY <1>2, <2>2, <2>3 DEF GuestTaskIsSound
    <3>3. QED
      BY <3>1, <3>2 DEF GuestTasksAreSound
  <2>8. WantedAreServed'
    <3>1. ASSUME NEW v \in profile', NEW l \in open, Wants(v, l), ~Settled(v, l)
          PROVE  \E g \in Handlers : task'[g].user = v /\ Due(task'[g], l)
      <4>1. CASE v = u
        BY <2>2, <2>3, <4>1 DEF Due
      <4>2. CASE v # u
        <5>1. PICK g \in Handlers : task[g].user = v /\ Due(task[g], l)
          BY <2>1, <3>1, <4>2 DEF GuestsInv, WantedAreServed
        <5>2. QED
          BY <2>3, <4>2, <5>1
      <4>3. QED
        BY <4>1, <4>2
    <3>2. QED
      BY <1>1, <2>5, <3>1 DEF WantedAreServed, Settled, Due
  <2>9. QED
    BY <2>4, <2>6, <2>7, <2>8 DEF GuestsInv
<1>5. QED
  BY <1>3, <1>4

\* Steps of nobody that is served.
LEMMA GuestOtherStepsPreserveInv ==
  ASSUME GuestsInv,
         \/ G!Submit
         \/ \E u \in Users, l \in Vehicles : G!EndInvoice(u, l)
         \/ \E l \in Vehicles : G!CloseListing(l)
         \/ UNCHANGED <<request, profile, open, invoiced, number, served, missed, task>>
  PROVE  GuestsInv'
<1>1. /\ UNCHANGED <<profile, number, served, missed, task>>
      /\ open' \subseteq open /\ invoiced' \subseteq invoiced
  BY DEF G!Submit, G!SubmitAsGuest, G!EndInvoice, G!CloseListing
<1>2. /\ request' \in [Inquiries -> GuestRow] /\ RequestsAreOwn'
      /\ \A u \in Users : \A l : Wants(u, l)' <=> Wants(u, l)
  <2>1. CASE request' = request
    BY <2>1 DEF GuestsInv, GuestsTyped, RequestsAreOwn, Wants
  <2>2. ASSUME NEW r \in Inquiries, NEW kind \in G!Kinds, NEW e \in Users,
               NEW l \in Vehicles \cup {None}, G!SubmitAsGuest(r, kind, e, l)
        PROVE  /\ request' \in [Inquiries -> GuestRow] /\ RequestsAreOwn'
               /\ \A u \in Users : \A m : Wants(u, m)' <=> Wants(u, m)
    <3> DEFINE new == [kind |-> kind, email |-> e, listing |-> l, user |-> None]
    <3>1. /\ request' = [request EXCEPT ![r] = new] /\ request[r].kind = "none"
          /\ kind = "BUY" => l \in Vehicles
      BY <2>2, GuestsBounds DEF G!SubmitAsGuest, GuestsInv, GuestsTyped
    <3>2. new \in GuestRow /\ new.kind = kind /\ new.user = None /\ new.listing = l
      BY DEF GuestRow, G!Kinds
    <3> HIDE DEF new
    <3>3. /\ request' \in [Inquiries -> GuestRow] /\ request'[r] = new
          /\ \A q \in Inquiries \ {r} : request'[q] = request[q]
      BY <3>1, <3>2 DEF GuestsInv, GuestsTyped
    <3>4. RequestsAreOwn'
      BY <3>1, <3>2, <3>3 DEF GuestsInv, RequestsAreOwn
    <3>5. \A u \in Users : \A m : Wants(u, m)' <=> Wants(u, m)
      BY <3>1, <3>2, <3>3, GuestsBounds DEF Wants
    <3>6. QED
      BY <3>3, <3>4, <3>5
  <2>3. QED
    BY <2>1, <2>2 DEF G!Submit, G!EndInvoice, G!CloseListing
<1>3. GuestsTyped'
  BY <1>1, <1>2 DEF GuestsInv, GuestsTyped
<1>4. InvoicesAreWanted'
  BY <1>1, <1>2 DEF GuestsInv, InvoicesAreWanted
<1>5. GuestTasksAreSound'
  BY <1>1, <1>2 DEF GuestsInv, GuestTasksAreSound, GuestTaskIsSound
<1>6. WantedAreServed'
  <2>1. profile \subseteq Users
    BY DEF GuestsInv, GuestsTyped
  <2>2. QED
    BY <1>1, <1>2, <2>1 DEF GuestsInv, WantedAreServed, Settled, Due
<1>7. QED
  BY <1>2, <1>3, <1>4, <1>5, <1>6 DEF GuestsInv

LEMMA GuestsNextPreservesInv ==
  ASSUME GuestsInv, G!Next
  PROVE  GuestsInv'
<1>1. ASSUME NEW h \in Handlers, G!Begin(h) \/ G!Continue(h) \/ G!Crash(h)
      PROVE  GuestsInv'
  BY <1>1, GuestBeginPreservesInv, LinkTablePreservesInv, CommitCreateProfilePreservesInv,
     FindProfilePreservesInv, FindInquiriesPreservesInv, CheckInvoicePreservesInv,
     CommitInvoicePreservesInv, GuestCrashPreservesInv
  DEF G!Begin, G!Continue
<1>2. QED
  BY <1>1, GuestOtherStepsPreserveInv DEF G!Next

\* What the invariant says of the properties of Guests.
LEMMA GuestsInvHolds == GuestsInv => G!TypeOK /\ G!BuyersAreInvoiced
<1> SUFFICES ASSUME GuestsInv
             PROVE  G!TypeOK /\ G!BuyersAreInvoiced
  OBVIOUS
<1>1. G!TypeOK
  <2>1. \A r \in Inquiries : request[r].kind \in G!Kinds \cup {"none"}
    BY DEF GuestsInv, GuestsTyped, GuestRow, G!Kinds
  <2>2. number \in 0 .. MaxInvoices
    BY GuestsBounds DEF GuestsInv, GuestsTyped
  <2>3. QED
    BY <2>1, <2>2, WantedAre
    DEF GuestsInv, GuestsTyped, RequestsAreOwn, InvoicesAreWanted, G!TypeOK
<1>2. G!BuyersAreInvoiced
  BY WantedAre DEF GuestsInv, WantedAreServed, Settled, G!BuyersAreInvoiced, G!Busy
<1>3. QED
  BY <1>1, <1>2

-----------------------------------------------------------------------------
(* The part at work.  Its invariant holds in every state of the whole: the steps of the part *)
(* keep it, and a part that is not at work has nothing to keep.                             *)

\* The rows of sessions, their links and what requests know of them are sound in every
\* state: AuthService, SessionsService, UsersService.
THEOREM SessionsAlwaysSound == Spec => []SessionsIInv
<1>1. Init => SessionsIInv
  BY SessionsInitInv DEF Init, SessionsIInv
<1>2. ASSUME SessionsIInv, [Next]_vars
      PROVE  SessionsIInv'
  <2>1. CASE work = "sessions" /\ S!Next /\ work' = work
    BY <1>2, <2>1, SessionsNextPreservesInv DEF SessionsIInv
  <2>2. CASE UNCHANGED vars
    <3>1. /\ work' = work
          /\ UNCHANGED <<user, session, link, second, epoch, uses, task, disturbed>>
      BY <2>2 DEF vars, ofSessions
    <3>2. QED
      BY <1>2, <3>1, SessionsStutter DEF SessionsIInv
  <2>3. CASE work # "sessions" /\ work' = work
    BY <2>3 DEF SessionsIInv
  <2>4. QED
    BY <1>2, <2>1, <2>2, <2>3 DEF Next
<1>3. QED
  BY <1>1, <1>2, PTL DEF Spec

\* Tokens, codes, sockets and notifications are sound in every state: JwtStrategy,
\* GoogleOAuthService, NotificationsService, NotificationsGateway.
THEOREM AccessAlwaysSound == Spec => []AccessIInv
<1>1. Init => AccessIInv
  <2>1. A!Init => breach = {}
    BY DEF A!Init
  <2>2. QED
    BY <2>1, AccessInitInv DEF Init, AccessIInv
<1>2. ASSUME AccessIInv, [Next]_vars
      PROVE  AccessIInv'
  <2>1. CASE work = "access" /\ A!Next /\ work' = work
    BY <1>2, <2>1, AccessNextPreservesInv DEF AccessIInv
  <2>2. CASE UNCHANGED vars
    <3>1. /\ work' = work
          /\ UNCHANGED <<account, token, exchange, completed, socket, received, listed,
                         note, mailing, posting, fit, dropped, breach, task>>
      BY <2>2 DEF vars, ofAccess
    <3>2. QED
      BY <1>2, <3>1, AccessStutter DEF AccessIInv
  <2>3. CASE work # "access" /\ work' = work
    BY <2>3 DEF AccessIInv
  <2>4. QED
    BY <1>2, <2>1, <2>2, <2>3 DEF Next
<1>3. QED
  BY <1>1, <1>2, PTL DEF Spec

\* Requests of visitors, and what the requests that link and invoice them have still to
\* come to, are sound in every state: linkGuestActivityToUser, fulfillPendingBuyInquiries.
THEOREM GuestsAlwaysSound == Spec => []GuestsIInv
<1>1. Init => GuestsIInv
  BY GuestsInitInv DEF Init, GuestsIInv
<1>2. ASSUME GuestsIInv, [Next]_vars
      PROVE  GuestsIInv'
  <2>1. CASE work = "guests" /\ G!Next /\ work' = work
    BY <1>2, <2>1, GuestsNextPreservesInv DEF GuestsIInv
  <2>2. CASE UNCHANGED vars
    <3>1. /\ work' = work
          /\ UNCHANGED <<request, profile, open, invoiced, number, served, missed, task>>
      BY <2>2 DEF vars, ofGuests
    <3>2. QED
      BY <1>2, <3>1, GuestOtherStepsPreserveInv DEF GuestsIInv
  <2>3. CASE work # "guests" /\ work' = work
    BY <2>3 DEF GuestsIInv
  <2>4. QED
    BY <1>2, <2>1, <2>2, <2>3 DEF Next
<1>3. QED
  BY <1>1, <1>2, PTL DEF Spec

-----------------------------------------------------------------------------
(* The properties of the run *)

\* Resets of the password, changes of roles and deactivations end every open session, and
\* an account has one session at most unless its sign-ins overlap.
THEOREM SessionsAlwaysEnd == Spec => []SessionsEnd
<1>1. SessionsIInv => SessionsEnd
  BY SessionsInvHolds DEF SessionsIInv, SessionsEnd
<1>2. QED
  BY <1>1, SessionsAlwaysSound, PTL

\* A mailed link works once unless two requests with it overlap; a code of the sign-in
\* through Google works once.
THEOREM LinksAlwaysWorkOnce == Spec => []LinksWorkOnce
<1>1. SessionsIInv /\ AccessIInv => LinksWorkOnce
  BY SessionsInvHolds, AccessInvHolds DEF SessionsIInv, AccessIInv, LinksWorkOnce
<1>2. QED
  BY <1>1, SessionsAlwaysSound, AccessAlwaysSound, PTL

\* A request is served only for an account that was active and allowed to at some moment
\* since it arrived, and a mail goes out only for one that was active at some moment since
\* it was set off.
THEOREM RightsAreAlwaysCurrent == Spec => []RightsAreCurrent
<1>1. AccessIInv => RightsAreCurrent
  BY AccessInvHolds DEF AccessIInv, RightsAreCurrent
<1>2. QED
  BY <1>1, AccessAlwaysSound, PTL

\* A client that got a list that was read after it had joined was pushed or listed every
\* notification of its user, but for those about to be pushed and those whose handler died.
THEOREM InboxIsAlwaysComplete == Spec => []InboxIsComplete
<1>1. AccessIInv => InboxIsComplete
  BY AccessInvHolds DEF AccessIInv, InboxIsComplete
<1>2. QED
  BY <1>1, AccessAlwaysSound, PTL

\* Once no request for an account with a profile is in progress, what it asked to buy as a
\* visitor has been invoiced, unless a request for it died or lost its number.
THEOREM BuyersAreAlwaysInvoiced == Spec => []BuyersAreInvoiced
<1>1. GuestsIInv => BuyersAreInvoiced
  BY GuestsInvHolds DEF GuestsIInv, BuyersAreInvoiced
<1>2. QED
  BY <1>1, GuestsAlwaysSound, PTL
=============================================================================
