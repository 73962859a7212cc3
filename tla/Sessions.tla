------------------------------ MODULE Sessions ------------------------------
(***************************************************************************)
(* AuthService, and what UsersService does to accounts: registration,      *)
(* signing in with a password, in the admin portal and through Google,     *)
(* refreshing, signing out, the links sent by e-mail, and administrators   *)
(* who change roles, deactivate and activate accounts.                     *)
(*                                                                         *)
(* A session is a RefreshToken row.  Its token is a signed text made from  *)
(* the user, its roles and the second of signing, so that two signings in  *)
(* one second give the same token.  Attempts with a wrong password or an   *)
(* unknown token change nothing and are left out.                          *)
(***************************************************************************)
EXTENDS Integers, FiniteSets

CONSTANTS
  Users,        \* an account and its e-mail address
  Links,        \* AuthToken rows that may ever be created (bound)
  MaxTime,      \* the last second (bound)
  MaxRequests,  \* requests in one behaviour (bound)
  Handlers,     \* requests that may be in progress at once
  None          \* no user

Roles == {"BUYER", "ADMIN"}
LinkTypes == {"EMAIL_VERIFICATION", "PASSWORD_RESET"}

VARIABLES
  user,       \* User rows
  session,    \* RefreshToken rows
  link,       \* AuthToken rows
  second,     \* the clock, as coarse as the tokens
  epoch,      \* history: how often each user's sessions were to end
  uses,       \* history: how often each link has been used
  task, started, disturbed

vars == <<user, session, link, second, epoch, uses, task, started, disturbed>>

NoUser == [exists |-> FALSE, active |-> FALSE, verified |-> FALSE, google |-> FALSE,
           roles |-> {}, market |-> FALSE]
NoLink == [user |-> None, type |-> "none", used |-> FALSE, expired |-> FALSE]
Idle == [pc |-> "idle", user |-> None, alone |-> TRUE, type |-> "none", link |-> None,
         roles |-> {}, epoch |-> 0, verified |-> FALSE]

\* A verified buyer, which may have a seller channel or an operator profile, or nobody yet.
Init ==
  /\ \E market \in BOOLEAN :
       user \in [Users -> {NoUser, [NoUser EXCEPT !.exists = TRUE, !.active = TRUE,
                                                  !.verified = TRUE, !.roles = {"BUYER"},
                                                  !.market = market]}]
  /\ session = {}
  /\ link = [n \in Links |-> NoLink]
  /\ second = 0
  /\ epoch = [u \in Users |-> 0]
  /\ uses = [n \in Links |-> 0]
  /\ task = [h \in Handlers |-> Idle]
  /\ started = 0
  /\ disturbed = {}

-----------------------------------------------------------------------------
(* Requests *)

At(h, pc) == task[h].pc = pc
Goto(h, pc) == task' = [task EXCEPT ![h].pc = pc]
Finish(h) == task' = [task EXCEPT ![h] = Idle]
Spend == started < MaxRequests /\ started' = started + 1

\* Handler h takes up request t about a user; it and those it meets are not alone.
Start(h, t) ==
  /\ At(h, "idle")
  /\ Spend
  /\ task' = [g \in Handlers |->
       CASE g = h -> [t EXCEPT !.alone = \A k \in Handlers : task[k].user # t.user]
         [] g # h /\ task[g].user = t.user -> [task[g] EXCEPT !.alone = FALSE]
         [] OTHER -> task[g]]
  /\ UNCHANGED <<user, session, link, second, epoch, uses, disturbed>>

Request(pc, u) ==
  [Idle EXCEPT !.pc = pc, !.user = u, !.roles = user[u].roles, !.epoch = epoch[u]]

Move(h, pc) == Goto(h, pc) /\ UNCHANGED <<user, session, link, second, epoch, uses, started, disturbed>>
Stop(h) == Finish(h) /\ UNCHANGED <<user, session, link, second, epoch, uses, started, disturbed>>

IsActive(u) == user[u].exists /\ user[u].active

\* hasAdminAccess and isStaffOnlyAccount
HasAdminAccess(u) == "ADMIN" \in user[u].roles
IsStaffOnly(u) == HasAdminAccess(u) /\ ~user[u].market

-----------------------------------------------------------------------------
(* issueTokens: the old rows are deleted, then the new one is inserted *)

ClearSessions(h) ==
  /\ At(h, "clear")
  /\ session' = {s \in session : s.user # task[h].user}
  /\ Goto(h, "open")
  /\ UNCHANGED <<user, link, second, epoch, uses, started, disturbed>>

Token(u, roles) == <<u, roles, second>>

\* A request nothing overlapped leaves its own session only; the unique token refuses a
\* second row for a token signed in the same second.
OpenSession(h) ==
  LET t == task[h] IN
  /\ At(h, "open")
  /\ session' = IF \E s \in session : s.token = Token(t.user, t.roles) THEN session
                ELSE session \cup {[user |-> t.user, token |-> Token(t.user, t.roles),
                                    epoch |-> t.epoch, raced |-> t.epoch # epoch[t.user],
                                    expired |-> FALSE]}
  /\ disturbed' = IF t.alone THEN disturbed \ {t.user} ELSE disturbed \cup {t.user}
  /\ Finish(h)
  /\ UNCHANGED <<user, link, second, epoch, uses, started>>

-----------------------------------------------------------------------------
(* Signing in, refreshing, signing out *)

LoginUnverified(h, u) ==   \* faulty: forgets to ask for a verified address
  IsActive(u) /\ ~IsStaffOnly(u) /\ Start(h, Request("clear", u))

Login(h, u) ==
  /\ IsActive(u) /\ user[u].verified /\ ~IsStaffOnly(u)
  /\ Start(h, Request("clear", u))

LoginAdmin(h, u) ==
  /\ IsActive(u) /\ user[u].verified /\ HasAdminAccess(u)
  /\ Start(h, Request("clear", u))

\* verified: what Google says of the address.
BeginGoogle(h, u, verified) ==
  /\ Start(h, [Request(IF IsActive(u) THEN "googleUpdate" ELSE "googleCreate", u) EXCEPT
                 !.verified = verified])

\* The unique address refuses a second row, that of a deactivated account included.
CreateFromGoogle(h) ==
  LET u == task[h].user IN
  /\ At(h, "googleCreate")
  /\ \/ /\ user[u].exists
        /\ Stop(h)
     \/ /\ ~user[u].exists
        /\ user' = [user EXCEPT ![u] = [NoUser EXCEPT !.exists = TRUE, !.active = TRUE,
                      !.verified = task[h].verified, !.google = TRUE, !.roles = {"BUYER"}]]
        /\ task' = [task EXCEPT ![h].pc = "clear", ![h].roles = {"BUYER"}]
        /\ UNCHANGED <<session, link, second, epoch, uses, started, disturbed>>

\* The row is updated by id and read back before the checks.
UpdateFromGoogle(h) ==
  LET u == task[h].user IN
  /\ At(h, "googleUpdate")
  /\ user' = [user EXCEPT ![u].google = TRUE, ![u].verified = @ \/ task[h].verified]
  /\ task' = [task EXCEPT ![h] =
       IF IsActive(u) /\ ~IsStaffOnly(u)
         THEN [task[h] EXCEPT !.pc = "clear", !.roles = user[u].roles, !.epoch = epoch[u]]
         ELSE Idle]
  /\ UNCHANGED <<session, link, second, epoch, uses, started, disturbed>>

Refresh(h, s) ==
  /\ s \in session /\ ~s.expired
  /\ IsActive(s.user) /\ user[s.user].verified
  /\ Start(h, Request("clear", s.user))

Logout(s) ==
  /\ s \in session
  /\ Spend
  /\ session' = session \ {s}
  /\ UNCHANGED <<user, link, second, epoch, uses, task, disturbed>>

-----------------------------------------------------------------------------
(* Registration and the links sent by e-mail *)

\* An active account made through Google gets a link to choose its password; any other
\* existing address is refused.
BeginRegister(h, u) ==
  \/ /\ ~user[u].exists
     /\ Start(h, Request("create", u))
  \/ /\ IsActive(u) /\ user[u].google
     /\ Start(h, [Request("unlink", u) EXCEPT !.type = "PASSWORD_RESET"])

CreateUser(h) ==
  LET u == task[h].user IN
  /\ At(h, "create")
  /\ \/ user[u].exists /\ Stop(h)
     \/ /\ ~user[u].exists
        /\ user' = [user EXCEPT ![u] = [NoUser EXCEPT !.exists = TRUE, !.active = TRUE,
                                                      !.roles = {"BUYER"}]]
        /\ Goto(h, "send")
        /\ UNCHANGED <<session, link, second, epoch, uses, started, disturbed>>

BeginResend(h, u) ==
  /\ IsActive(u) /\ ~user[u].verified
  /\ Start(h, Request("send", u))

\* sendVerificationEmailForUser reads the user again.
BeginSend(h) ==
  LET u == task[h].user IN
  /\ At(h, "send")
  /\ IF IsActive(u) /\ ~user[u].verified
       THEN task' = [task EXCEPT ![h].pc = "unlink", ![h].type = "EMAIL_VERIFICATION"]
       ELSE Finish(h)
  /\ UNCHANGED <<user, session, link, second, epoch, uses, started, disturbed>>

BeginForgot(h, u) ==
  /\ IsActive(u)
  /\ Start(h, [Request("unlink", u) EXCEPT !.type = "PASSWORD_RESET"])

\* The old links of the type are deleted, then the new one is inserted.
DeleteLinks(h) ==
  LET t == task[h] IN
  /\ At(h, "unlink")
  /\ link' = [n \in Links |->
       IF link[n].user = t.user /\ link[n].type = t.type THEN NoLink ELSE link[n]]
  /\ Goto(h, "link")
  /\ UNCHANGED <<user, session, second, epoch, uses, started, disturbed>>

Fresh(n) == link[n] = NoLink /\ uses[n] = 0 /\ \A h \in Handlers : task[h].link # n

CreateLink(h) ==
  /\ At(h, "link")
  /\ \E n \in Links : Fresh(n) /\ link' = [link EXCEPT ![n] =
       [NoLink EXCEPT !.user = task[h].user, !.type = task[h].type]]
  /\ Finish(h)
  /\ UNCHANGED <<user, session, second, epoch, uses, started, disturbed>>

IsKnown(n) == link[n].type # "none" /\ ~link[n].expired /\ IsActive(link[n].user)   \* faulty: may be used

\* findValidAuthToken
IsValid(n) == /\ link[n].type # "none" /\ ~link[n].used /\ ~link[n].expired
              /\ IsActive(link[n].user)

BeginUse(h, n) ==
  /\ IsValid(n)
  /\ Start(h, [Request("use", link[n].user) EXCEPT !.type = link[n].type, !.link = n])

\* What resetPassword and verifyEmail write in a transaction; it fails when a newer link has
\* replaced this one.
Use(h) ==
  LET n == task[h].link IN
  /\ link' = [link EXCEPT ![n].used = TRUE]
  /\ uses' = [uses EXCEPT ![n] = @ + 1]
  /\ disturbed' = IF task[h].alone THEN disturbed ELSE disturbed \cup {n}
  /\ Finish(h)

CommitResetOnly(h) ==   \* faulty: leaves the sessions open
  LET t == task[h] IN
  /\ At(h, "use") /\ t.type = "PASSWORD_RESET" /\ link[t.link] # NoLink
  /\ epoch' = [epoch EXCEPT ![t.user] = @ + 1]
  /\ Use(h)
  /\ UNCHANGED <<user, session, second, started>>

CommitReset(h) ==
  LET t == task[h] IN
  /\ At(h, "use") /\ t.type = "PASSWORD_RESET" /\ link[t.link] # NoLink
  /\ session' = {s \in session : s.user # t.user}
  /\ epoch' = [epoch EXCEPT ![t.user] = @ + 1]
  /\ Use(h)
  /\ UNCHANGED <<user, second, started>>

CommitVerify(h) ==
  LET t == task[h] IN
  /\ At(h, "use") /\ t.type = "EMAIL_VERIFICATION" /\ link[t.link] # NoLink
  /\ user' = [user EXCEPT ![t.user].verified = TRUE]
  /\ Use(h)
  /\ UNCHANGED <<session, second, epoch, started>>

FailUse(h) == At(h, "use") /\ link[task[h].link] = NoLink /\ Stop(h)

-----------------------------------------------------------------------------
(* Administrators *)

EndSessions(u) ==
  /\ session' = {s \in session : s.user # u}
  /\ epoch' = [epoch EXCEPT ![u] = @ + 1]

\* deactivateUser, in one transaction.
DeactivateUser(u) ==
  /\ IsActive(u)
  /\ Spend
  /\ user' = [user EXCEPT ![u].active = FALSE]
  /\ EndSessions(u)
  /\ UNCHANGED <<link, second, uses, task, disturbed>>

BeginActivateUser(h, u) ==
  /\ user[u].exists /\ ~user[u].active
  /\ Start(h, Request("activate", u))

CommitActivateUser(h) ==
  /\ At(h, "activate")
  /\ user' = [user EXCEPT ![task[h].user].active = TRUE]
  /\ Finish(h)
  /\ UNCHANGED <<session, link, second, epoch, uses, started, disturbed>>

\* A buyer stays one.
BeginUpdateUserRoles(h, u, roles) ==
  /\ user[u].exists
  /\ Start(h, [Request("roles", u) EXCEPT
                 !.roles = roles \cup (user[u].roles \cap {"BUYER"})])

CommitUpdateUserRoles(h) ==
  LET u == task[h].user IN
  /\ At(h, "roles")
  /\ user' = [user EXCEPT ![u].roles = task[h].roles]
  /\ EndSessions(u)
  /\ Finish(h)
  /\ UNCHANGED <<link, second, uses, started, disturbed>>

-----------------------------------------------------------------------------
(* Time and failures *)

NextSecond ==
  /\ second < MaxTime
  /\ second' = second + 1
  /\ UNCHANGED <<user, session, link, epoch, uses, task, started, disturbed>>

ExpireSession(s) ==
  /\ s \in session /\ ~s.expired
  /\ session' = (session \ {s}) \cup {[s EXCEPT !.expired = TRUE]}
  /\ UNCHANGED <<user, link, second, epoch, uses, task, started, disturbed>>

ExpireLink(n) ==
  /\ link[n].type # "none" /\ ~link[n].expired
  /\ link' = [link EXCEPT ![n].expired = TRUE]
  /\ UNCHANGED <<user, session, second, epoch, uses, task, started, disturbed>>

\* The process or a query fails; whoever was meant to get a session or a link asks again.
Crash(h) == ~At(h, "idle") /\ Stop(h)

Begin(h, u) ==
  \/ Login(h, u) \/ LoginAdmin(h, u)
  \/ \E verified \in BOOLEAN : BeginGoogle(h, u, verified)
  \/ BeginRegister(h, u) \/ BeginResend(h, u) \/ BeginForgot(h, u)
  \/ BeginActivateUser(h, u)
  \/ \E roles \in {{"BUYER"}, {"ADMIN"}} : BeginUpdateUserRoles(h, u, roles)

Continue(h) ==
  \/ ClearSessions(h) \/ OpenSession(h)
  \/ CreateFromGoogle(h) \/ UpdateFromGoogle(h)
  \/ CreateUser(h) \/ BeginSend(h) \/ DeleteLinks(h) \/ CreateLink(h)
  \/ CommitReset(h) \/ CommitVerify(h) \/ FailUse(h)
  \/ CommitActivateUser(h) \/ CommitUpdateUserRoles(h)

Next ==
  \/ \E h \in Handlers :
       \/ \E u \in Users : Begin(h, u)
       \/ \E s \in session : Refresh(h, s)
       \/ \E n \in Links : BeginUse(h, n)
       \/ Continue(h) \/ Crash(h)
  \/ \E s \in session : Logout(s) \/ ExpireSession(s)
  \/ \E u \in Users : DeactivateUser(u)
  \/ \E n \in Links : ExpireLink(n)
  \/ NextSecond

Spec == Init /\ [][Next]_vars

-----------------------------------------------------------------------------
(* Properties *)

\* Rows are well formed: tokens are unique, links belong to accounts that exist, and
\* every session was opened for an account that was verified or came through Google.
TypeOK ==
  /\ \A u \in Users : /\ user[u].active => user[u].exists
                      /\ user[u].roles \subseteq Roles
  /\ \A s, t \in session : s.token = t.token => s = t
  /\ \A s \in session : user[s.user].verified \/ user[s.user].google
  /\ \A n \in Links : link[n].type = "none" \/ user[link[n].user].exists

\* A reset of the password, a change of roles and a deactivation end every session that
\* was there: what is open was signed in after the last of them, unless the sign-in or the
\* refresh had read the account before it and finished after it.
SessionsEnd ==
  \A s \in session : s.epoch = epoch[s.user] \/ s.raced

\* An account has one session at most, from the moment one sign-in or refresh has run
\* without another request about the account beside it until two of them overlap and one
\* of these has opened its session.
OneSession ==
  \A u \in Users \ disturbed : Cardinality({s \in session : s.user = u}) <= 1

\* A link works once, unless two requests with it overlap.
LinksWorkOnce == \A n \in Links \ disturbed : uses[n] <= 1
=============================================================================
