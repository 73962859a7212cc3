------------------------------- MODULE Access -------------------------------
(***************************************************************************)
(* What an account may do and is told while it is signed in: what a        *)
(* request must be for its route (JwtStrategy, and the guards of module    *)
(* Routes), the one-time codes of a sign-in through Google                 *)
(* (GoogleOAuthService), and its notifications, which are stored, pushed   *)
(* to its open sockets and mailed (NotificationsService,                   *)
(* NotificationsGateway, WsAuthService).                                   *)
(*                                                                         *)
(* Sockets, codes and mails under way live in the process and are gone     *)
(* after a restart.  How accounts and sessions come and go is in module    *)
(* Sessions; here a token is what a sign-in leaves.                        *)
(***************************************************************************)
EXTENDS FiniteSets, Naturals, Routes

CONSTANTS
  Users,
  Held,         \* the roles accounts hold (bound)
  Asked,        \* the routes requests are for (bound)
  Codes,        \* codes of sign-ins through Google (bound)
  Sockets,      \* sockets of clients
  Notes,        \* Notification rows (bound)
  MaxRequests,  \* requests started in one behaviour (bound)
  Handlers,     \* requests that may be in progress at once
  None          \* no user, no route

VARIABLES
  account,   \* User rows: active, roles
  token,     \* access tokens that have not expired: user, roles when it was signed
  exchange,  \* pending exchanges of the Google sign-in
  completed, \* history: how often each code has signed in
  socket,    \* who has joined with each socket
  received,  \* history: the notifications its client was pushed or listed since it connected
  listed,    \* history: whether it got a list that was read after it had joined
  note,      \* Notification rows
  mailing,   \* mails set off, their user not read yet
  posting,   \* mails on their way to the mail server
  fit,       \* history: mails set off whose account has been active since
  dropped,   \* history: notifications whose handler died before it pushed them
  breach,    \* history: what was done for accounts that had no right to it
  task, started

rights == <<account, token, exchange, completed>>
clients == <<socket, received, listed>>
mails == <<note, mailing, posting, fit, dropped>>
vars == <<rights, clients, mails, breach, task, started>>

NoNote == [user |-> None, read |-> FALSE, despite |-> FALSE]
NoCode == [user |-> None, expired |-> FALSE]
Idle == [pc |-> "idle", user |-> None, roles |-> {}, route |-> None, could |-> FALSE,
         socket |-> None, list |-> {}, since |-> FALSE,
         todo |-> {}, despite |-> FALSE, unpushed |-> {}]

Init ==
  /\ account \in [Users -> [active : {TRUE}, roles : {{r} : r \in Held}]]
  /\ token = {}
  /\ exchange = [c \in Codes |-> NoCode] /\ completed = [c \in Codes |-> 0]
  /\ socket = [k \in Sockets |-> None]
  /\ received = [k \in Sockets |-> {}] /\ listed = [k \in Sockets |-> FALSE]
  /\ note = [n \in Notes |-> NoNote]
  /\ mailing = {} /\ posting = {} /\ fit = {} /\ dropped = {}
  /\ breach = {}
  /\ task = [h \in Handlers |-> Idle]
  /\ started = 0

-----------------------------------------------------------------------------
At(h, pc) == task[h].pc = pc
Spend == started < MaxRequests /\ started' = started + 1

Begin(h, t) == At(h, "idle") /\ Spend /\ task' = [task EXCEPT ![h] = t]
Finish(h) == task' = [task EXCEPT ![h] = Idle]

IsActive(u) == account[u].active

\* May the account with this row have what it asks of the route?
Entitled(row, route) == row.active /\ Passes(row.roles, route)

-----------------------------------------------------------------------------
(* Accounts and tokens, as administrators and Sessions change them *)

\* The row of u changes; requests and mails for it that are in progress have met it so.
Change(u, row) ==
  /\ Spend
  /\ account' = [account EXCEPT ![u] = row]
  /\ task' = [h \in Handlers |->
       IF task[h].user = u /\ task[h].route # None /\ Entitled(row, task[h].route)
         THEN [task[h] EXCEPT !.could = TRUE] ELSE task[h]]
  /\ fit' = IF row.active THEN fit \cup {n \in mailing \cup posting : note[n].user = u} ELSE fit
  /\ UNCHANGED <<token, exchange, completed, clients, note, mailing, posting, dropped, breach>>

SetActive(u, active) ==
  /\ account[u].active # active
  /\ Change(u, [account[u] EXCEPT !.active = active])

SetRole(u, role) ==
  /\ role \notin account[u].roles
  /\ Change(u, [account[u] EXCEPT !.roles = {role}])

\* issueTokens signs the roles with the user.
TokenOf(u) == [user |-> u, roles |-> account[u].roles]

SignIn(u) ==
  /\ IsActive(u) /\ Spend
  /\ token' = token \cup {TokenOf(u)}
  /\ UNCHANGED <<account, exchange, completed, clients, mails, breach, task>>

Expire(tok) ==
  /\ tok \in token
  /\ token' = token \ {tok}
  /\ UNCHANGED <<account, exchange, completed, clients, mails, breach, task, started>>

-----------------------------------------------------------------------------
(* The sign-in through Google: Google sends the browser back with a profile, which waits *)
(* under a one-time code until the frontend completes the sign-in.                       *)

\* exchangeAuthorizationCode and storePendingExchange
GoogleReturns(c, u) ==
  /\ exchange[c] = NoCode /\ completed[c] = 0
  /\ Spend
  /\ exchange' = [exchange EXCEPT ![c].user = u]
  /\ UNCHANGED <<account, token, completed, clients, mails, breach, task>>

\* consumePendingExchange
ConsumePendingExchange(c) ==
  exchange' = [exchange EXCEPT ![c] = NoCode]

CompleteGoogle(c) ==
  LET u == exchange[c].user IN
  /\ u # None
  /\ ConsumePendingExchange(c)
  /\ IF exchange[c].expired \/ ~IsActive(u)
       THEN UNCHANGED <<token, completed>>
       ELSE token' = token \cup {TokenOf(u)} /\ completed' = [completed EXCEPT ![c] = @ + 1]
  /\ UNCHANGED <<account, clients, mails, breach, task, started>>

ExpireCode(c) ==
  /\ exchange[c].user # None /\ ~exchange[c].expired
  /\ exchange' = [exchange EXCEPT ![c].expired = TRUE]
  /\ UNCHANGED <<account, token, completed, clients, mails, breach, task, started>>

-----------------------------------------------------------------------------
(* Requests.  The account is read when a request has arrived; its permissions are read and *)
(* the guards and the handler run later, on what was read.                                  *)

Arrive(h, tok, route) ==
  /\ tok \in token
  /\ Begin(h, [Idle EXCEPT !.pc = "arrived", !.user = tok.user, !.roles = tok.roles,
                           !.route = route, !.could = Entitled(account[tok.user], route)])
  /\ UNCHANGED <<rights, clients, mails, breach>>

RolesInToken(t) == t.roles   \* faulty: believes the token

\* JwtStrategy.validate reads the account anew; what the token says of it is not used.
RolesOf(t) == account[t.user].roles

Validate(h) ==
  /\ At(h, "arrived")
  /\ IF IsActive(task[h].user)
       THEN task' = [task EXCEPT ![h].pc = "validated", ![h].roles = RolesOf(task[h])]
       ELSE Finish(h)
  /\ UNCHANGED <<rights, clients, mails, breach, started>>

\* The guards let the request through to its handler, or refuse it.
Serve(h) ==
  LET t == task[h] IN
  /\ At(h, "validated")
  /\ breach' = IF Passes(t.roles, t.route) /\ ~t.could THEN breach \cup {"request"} ELSE breach
  /\ Finish(h)
  /\ UNCHANGED <<rights, clients, mails, started>>

-----------------------------------------------------------------------------
(* Sockets *)

\* handleConnection waits for authenticate, which reads the account, then joins the room of
\* the user.  The client is not told when it has.
BeginConnect(h, k, tok) ==
  /\ tok \in token /\ IsActive(tok.user)
  /\ socket[k] = None /\ \A g \in Handlers : ~(At(g, "join") /\ task[g].socket = k)
  /\ Begin(h, [Idle EXCEPT !.pc = "join", !.socket = k, !.user = tok.user])
  /\ UNCHANGED <<rights, clients, mails, breach>>

Join(h) ==
  /\ At(h, "join")
  /\ socket' = [socket EXCEPT ![task[h].socket] = task[h].user]
  /\ Finish(h)
  /\ UNCHANGED <<rights, received, listed, mails, breach, started>>

\* A client that connects again has all to get again: what was read for it before does not
\* count as read since.
Disconnect(k) ==
  /\ socket[k] # None
  /\ socket' = [socket EXCEPT ![k] = None]
  /\ received' = [received EXCEPT ![k] = {}] /\ listed' = [listed EXCEPT ![k] = FALSE]
  /\ task' = [h \in Handlers |->
       IF task[h].socket = k THEN [task[h] EXCEPT !.since = FALSE] ELSE task[h]]
  /\ UNCHANGED <<rights, mails, breach, started>>

NotesOf(u) == {n \in Notes : note[n].user = u}

\* findForUser, for the client with socket k, joined or not: its three queries, and the answer.
BeginFetch(h, k, tok) ==
  /\ tok \in token /\ IsActive(tok.user)
  /\ Begin(h, [Idle EXCEPT !.pc = "list", !.socket = k, !.user = tok.user])
  /\ UNCHANGED <<rights, clients, mails, breach>>

ReadList(h) ==
  LET t == task[h] IN
  /\ At(h, "list")
  /\ task' = [task EXCEPT ![h] = [t EXCEPT !.pc = "answer", !.list = NotesOf(t.user),
                                           !.since = (socket[t.socket] = t.user)]]
  /\ UNCHANGED <<rights, clients, mails, breach, started>>

Answer(h) ==
  LET t == task[h] IN
  /\ At(h, "answer")
  /\ received' = [received EXCEPT ![t.socket] = @ \cup t.list]
  /\ listed' = [listed EXCEPT ![t.socket] = @ \/ t.since]
  /\ Finish(h)
  /\ UNCHANGED <<rights, socket, mails, breach, started>>

-----------------------------------------------------------------------------
(* Notifications *)

\* send to one user; the notice of a deactivation is mailed despite it.
BeginSend(h, u, despite) ==
  /\ Begin(h, [Idle EXCEPT !.pc = "send", !.todo = {u}, !.despite = despite])
  /\ UNCHANGED <<rights, clients, mails, breach>>

\* sendToRoleNames
BeginSendToRoles(h, roles) ==
  /\ Begin(h, [Idle EXCEPT !.pc = "send",
       !.todo = {u \in Users : IsActive(u) /\ account[u].roles \cap roles # {}}])
  /\ UNCHANGED <<rights, clients, mails, breach>>

\* The rows are inserted side by side.
Insert(h, u, n) ==
  /\ At(h, "send") /\ u \in task[h].todo
  /\ note[n] = NoNote
  /\ note' = [note EXCEPT ![n] = [user |-> u, read |-> FALSE, despite |-> task[h].despite]]
  /\ task' = [task EXCEPT ![h].todo = @ \ {u}, ![h].unpushed = @ \cup {n}]
  /\ UNCHANGED <<rights, clients, mailing, posting, fit, dropped, breach, started>>

EmitNothing(n) == received' = received   \* faulty: does not push

\* emitToUser
EmitToUser(n) ==
  received' = [k \in Sockets |-> IF socket[k] = note[n].user THEN received[k] \cup {n}
                                 ELSE received[k]]

\* An inserted row is pushed, and its mail set off without waiting for it.
Push(h, n) ==
  /\ n \in task[h].unpushed
  /\ EmitToUser(n)
  /\ mailing' = mailing \cup {n}
  /\ fit' = IF IsActive(note[n].user) THEN fit \cup {n} ELSE fit
  /\ IF task[h].todo = {} /\ task[h].unpushed = {n}
       THEN Finish(h) ELSE task' = [task EXCEPT ![h].unpushed = @ \ {n}]
  /\ UNCHANGED <<rights, socket, listed, note, posting, dropped, breach, started>>

\* Nobody to tell.
SendNothing(h) ==
  /\ At(h, "send") /\ task[h].todo = {} /\ task[h].unpushed = {}
  /\ Finish(h)
  /\ UNCHANGED <<rights, clients, mails, breach, started>>

\* deliverEmail reads the account, and hands the mail over to the mail server if it may go.
ReadForMail(n) ==
  /\ n \in mailing
  /\ mailing' = mailing \ {n}
  /\ posting' = IF note[n].despite \/ IsActive(note[n].user) THEN posting \cup {n} ELSE posting
  /\ UNCHANGED <<rights, clients, note, fit, dropped, breach, task, started>>

SendMail(n) ==
  /\ n \in posting
  /\ posting' = posting \ {n}
  /\ breach' = IF note[n].despite \/ n \in fit THEN breach ELSE breach \cup {"mail"}
  /\ UNCHANGED <<rights, clients, note, mailing, fit, dropped, task, started>>

MarkRead(u, n) ==
  /\ note[n].user = u /\ ~note[n].read
  /\ note' = [note EXCEPT ![n].read = TRUE]
  /\ UNCHANGED <<rights, clients, mailing, posting, fit, dropped, breach, task, started>>

MarkAllRead(u) ==
  /\ \E n \in NotesOf(u) : ~note[n].read
  /\ note' = [n \in Notes |-> IF note[n].user = u THEN [note[n] EXCEPT !.read = TRUE] ELSE note[n]]
  /\ UNCHANGED <<rights, clients, mailing, posting, fit, dropped, breach, task, started>>

-----------------------------------------------------------------------------
(* Failures *)

\* A query or the join fails; rows already inserted stay, unpushed.
Crash(h) ==
  /\ ~At(h, "idle")
  /\ dropped' = dropped \cup task[h].unpushed
  /\ Finish(h)
  /\ UNCHANGED <<rights, clients, note, mailing, posting, fit, breach, started>>

\* A restart of the process forgets all it holds in memory.
Restart ==
  /\ Spend
  /\ exchange' = [c \in Codes |-> NoCode]
  /\ socket' = [k \in Sockets |-> None]
  /\ received' = [k \in Sockets |-> {}] /\ listed' = [k \in Sockets |-> FALSE]
  /\ mailing' = {} /\ posting' = {}
  /\ dropped' = dropped \cup UNION {task[h].unpushed : h \in Handlers}
  /\ task' = [h \in Handlers |-> Idle]
  /\ UNCHANGED <<account, token, completed, note, fit, breach>>

BeginSome(h) ==
  \/ \E tok \in token, route \in Asked : Arrive(h, tok, route)
  \/ \E tok \in token, k \in Sockets : BeginConnect(h, k, tok) \/ BeginFetch(h, k, tok)
  \/ \E u \in Users, despite \in BOOLEAN : BeginSend(h, u, despite)
  \/ BeginSendToRoles(h, {"FINANCE_ADMIN", "SUPER_ADMIN"})

Continue(h) ==
  \/ Validate(h) \/ Serve(h) \/ Join(h) \/ ReadList(h) \/ Answer(h) \/ SendNothing(h) \/ Crash(h)
  \/ \E u \in Users, n \in Notes : Insert(h, u, n)
  \/ \E n \in Notes : Push(h, n)

Next ==
  \/ \E u \in Users : SetActive(u, TRUE) \/ SetActive(u, FALSE) \/ SignIn(u) \/ MarkAllRead(u)
  \/ \E u \in Users, r \in Held : SetRole(u, r)
  \/ \E u \in Users, c \in Codes : GoogleReturns(c, u)
  \/ \E c \in Codes : CompleteGoogle(c) \/ ExpireCode(c)
  \/ \E tok \in token : Expire(tok)
  \/ \E k \in Sockets : Disconnect(k)
  \/ \E u \in Users, n \in Notes : MarkRead(u, n)
  \/ \E n \in Notes : ReadForMail(n) \/ SendMail(n)
  \/ \E h \in Handlers : BeginSome(h) \/ Continue(h)
  \/ Restart

Spec == Init /\ [][Next]_vars

-----------------------------------------------------------------------------
(* Properties *)

\* Rows are well formed, and a client has notifications listed only while it is connected.
TypeOK ==
  /\ \A tok \in token : tok.user \in Users /\ tok.roles \subseteq Roles
  /\ \A n \in mailing \cup posting \cup dropped : note[n].user \in Users
  /\ \A k \in Sockets : socket[k] = None => ~listed[k]

\* A request is served only for an account that was active and allowed to at some moment
\* since the request arrived, and a mail goes out only for one that was active at some moment
\* since it was set off, whatever tokens say and whatever changes between a check and its use.
RightsAreCurrent == breach = {}

\* A code of the Google sign-in signs in once.
CodesWorkOnce == \A c \in Codes : completed[c] <= 1

\* A client that got a list that was read after it had joined was pushed or listed all the
\* notifications of its user, those inserted between the reading and the answer included, but
\* for those just inserted that are about to be pushed, or whose handler died before.
InboxIsComplete ==
  \A k \in Sockets :
    listed[k] =>
      NotesOf(socket[k]) \subseteq
        received[k] \cup dropped \cup UNION {task[h].unpushed : h \in Handlers}
=============================================================================
