------------------------------- MODULE Access -------------------------------
(***************************************************************************)
(* Logging in and using the API with the token (app/auth), from browsers   *)
(* that show the login form until they have a token (App.jsx, Login.jsx).  *)
(* Registration is one step here; Registration.tla has its statements.     *)
(* Where a client's call is:                                               *)
(*   idle                                                                  *)
(*   limit    POST /auth/...: about to spend the address's budget          *)
(*   create   AuthService.register                                         *)
(*   lookup   AuthService.authenticate, about to read the user's row       *)
(*   verify   bcrypt is at work on the row that was read                   *)
(*   token    get_current_user, about to read the token                    *)
(*   user     the token is valid, about to read the user's row             *)
(*   budget   about to spend the user's budget                             *)
(*   handler  the endpoint runs for the user                               *)
(***************************************************************************)
EXTENDS Integers, FiniteSets

CONSTANTS Clients,
          Emails,
          Passwords,
          Lifetime,    \* access_token_expire_minutes
          MaxTime,     \* bound: the last tick
          MaxCalls,    \* bound: calls of a client
          MaxChanges,  \* bound: changes an operator makes to accounts
          MaxErrors    \* bound: statements that fail

VARIABLES clock,
          account,  \* per address, the row of users
          lastId,   \* of the table's sequence
          token,    \* per client, the state `token` of the page
          call,     \* per client, its call
          told,     \* per client, the status of its last call
          history,  \* per client, what has been the row of the account its call
                    \* is about, since the call was sent
          calls, changes, errors

counters   == <<calls, changes, errors>>
accessVars == <<clock, account, lastId, token, call, told, history, counters>>

NoAccount == [id |-> 0, password |-> "none", active |-> FALSE]
NoToken   == [id |-> 0, email |-> "none", expires |-> 0]
Idle      == [at |-> "idle", kind |-> "none", email |-> "none", password |-> "none",
              row |-> NoAccount, sent |-> 0]

Rows == [id : Nat, password : Passwords \cup {"none"}, active : BOOLEAN]

Tokens == [id : Nat, email : Emails \cup {"none"}, expires : Nat]

Calls == [at : {"idle", "limit", "create", "lookup", "verify",
                "token", "user", "budget", "handler"},
          kind : {"none", "register", "login", "use"},
          email : Emails \cup {"none"}, password : Passwords \cup {"none"},
          row : Rows, sent : Nat]

AccessTypeOK ==
  /\ clock \in Nat /\ lastId \in Nat
  /\ account \in [Emails -> Rows]
  /\ token \in [Clients -> Tokens]
  /\ call \in [Clients -> Calls]
  /\ told \in [Clients -> {0, 200, 201, 401, 409, 413, 429, 503}]
  /\ history \in [Clients -> SUBSET Rows]
  /\ calls \in [Clients -> Nat] /\ changes \in Nat /\ errors \in Nat

AccessInit ==
  /\ clock = 0
  /\ account = [e \in Emails |-> NoAccount]
  /\ lastId = 0
  /\ token = [c \in Clients |-> NoToken]
  /\ call = [c \in Clients |-> Idle]
  /\ told = [c \in Clients |-> 0]
  /\ history = [c \in Clients |-> {}]
  /\ calls = [c \in Clients |-> 0]
  /\ changes = 0
  /\ errors = 0

MovesTo(c, place) == call' = [call EXCEPT ![c].at = place]
Answer(c, s)   == /\ told' = [told EXCEPT ![c] = s]
                  /\ call' = [call EXCEPT ![c].at = "idle"]

\* An account becomes another: calls that are about it notice.
Becomes(e, row) ==
  /\ account' = [account EXCEPT ![e] = row]
  /\ history' = [c \in Clients |-> IF call[c].at # "idle" /\ call[c].email = e
                                   THEN history[c] \cup {row} ELSE history[c]]

Begin(c, kind, place, e, p) ==
  /\ call[c].at = "idle"
  /\ calls[c] < MaxCalls
  /\ calls' = [calls EXCEPT ![c] = @ + 1]
  /\ call' = [call EXCEPT ![c] = [at |-> place, kind |-> kind, email |-> e, password |-> p,
                                  row |-> NoAccount, sent |-> clock]]
  /\ history' = [history EXCEPT ![c] = IF e \in Emails THEN {account[e]} ELSE {}]
  /\ told' = [told EXCEPT ![c] = 0]
  /\ UNCHANGED <<clock, account, lastId, token, changes, errors>>

---------------------------------------------------------------------------
(* The browser.                                                            *)

\* The form is there while the page has no token.
Submit(c) ==
  /\ token[c] = NoToken
  /\ \E kind \in {"register", "login"}, e \in Emails, p \in Passwords : Begin(c, kind, "limit", e, p)

\* An authenticated call; some clients have no token.
Use(c) == Begin(c, "use", "token", token[c].email, "none")

LogOut(c) ==
  /\ call[c].at = "idle"
  /\ token[c] # NoToken
  /\ token' = [token EXCEPT ![c] = NoToken]
  /\ UNCHANGED <<clock, account, lastId, call, told, history, counters>>

---------------------------------------------------------------------------
(* The API.                                                                *)

\* limit_body_size, in front of everything, from the headers.
TooLarge(c) ==
  /\ call[c].at \in {"limit", "token"}
  /\ Answer(c, 413)
  /\ UNCHANGED <<clock, account, lastId, token, history, counters>>

\* limit_auth_attempts before the service, limit_... after get_current_user.
Enforce(c) ==
  /\ call[c].at \in {"limit", "budget"}
  /\ \/ Answer(c, 429)
     \/ /\ MovesTo(c, CASE call[c].at = "budget" -> "handler"
                     [] call[c].kind = "register" -> "create"
                     [] OTHER -> "lookup")
        /\ UNCHANGED told
  /\ UNCHANGED <<clock, account, lastId, token, history, counters>>

\* request() throws unless the status is a success; register goes on to log in.
AfterRegister(c, s) ==
  IF s = 201 THEN /\ call' = [call EXCEPT ![c].at = "limit", ![c].kind = "login"]
                  /\ UNCHANGED told
  ELSE Answer(c, s)

Registers(c) ==
  LET e == call[c].email
  IN /\ call[c].at = "create"
     /\ \/ /\ account[e] = NoAccount
           /\ lastId' = lastId + 1
           /\ Becomes(e, [id |-> lastId + 1, password |-> call[c].password, active |-> TRUE])
           /\ AfterRegister(c, 201)
        \/ /\ account[e] # NoAccount
           /\ AfterRegister(c, 409)
           /\ UNCHANGED <<account, lastId, history>>
     /\ UNCHANGED <<clock, token, counters>>

LookUp(c) ==
  /\ call[c].at = "lookup"
  /\ call' = [call EXCEPT ![c].at = "verify", ![c].row = account[call[c].email]]
  /\ UNCHANGED <<clock, account, lastId, token, told, history, counters>>

\* Mutant of Accepted: the password alone is checked.
AcceptedDisabled(row, p) == row # NoAccount /\ row.password = p

\* An unknown address costs the same time, against the dummy hash.
Accepted(row, p) == row # NoAccount /\ row.password = p /\ row.active

\* The row may have changed since it was read.
Verify(c) ==
  LET row == call[c].row
  IN /\ call[c].at = "verify"
     /\ \/ /\ Accepted(row, call[c].password)
           /\ token' = [token EXCEPT ![c] = [id |-> row.id, email |-> call[c].email,
                                             expires |-> clock + Lifetime]]
           /\ Answer(c, 200)
        \/ /\ ~ Accepted(row, call[c].password)
           /\ Answer(c, 401)
           /\ UNCHANGED token
     /\ UNCHANGED <<clock, account, lastId, history, counters>>

Valid(t) == t # NoToken /\ clock < t.expires

\* get_current_user up to read_access_token
ReadToken(c) ==
  /\ call[c].at = "token"
  /\ \/ Valid(token[c]) /\ MovesTo(c, "user") /\ UNCHANGED told
     \/ ~ Valid(token[c]) /\ Answer(c, 401)
  /\ UNCHANGED <<clock, account, lastId, token, history, counters>>

UserOf(id) == {e \in Emails : account[e].id = id}

\* Mutant of Present: the token alone is trusted to name an active user.
PresentOnly(id) == UserOf(id) # {}

Present(id) == \E e \in UserOf(id) : account[e].active

\* What the token alone cannot give.
LoadUser(c) ==
  /\ call[c].at = "user"
  /\ \/ Present(token[c].id) /\ MovesTo(c, "budget") /\ UNCHANGED told
     \/ ~ Present(token[c].id) /\ Answer(c, 401)
  /\ UNCHANGED <<clock, account, lastId, token, history, counters>>

Handle(c) ==
  /\ call[c].at = "handler"
  /\ Answer(c, 200)
  /\ UNCHANGED <<clock, account, lastId, token, history, counters>>

\* Mutant of Unavailable: an unknown caller, whatever the reason.
UnavailableAsUnknown(c) == Answer(c, 401)

Unavailable(c) == Answer(c, 503)

\* StorageError: we could not determine who they are, and do not say 401.
StorageFails(c) ==
  /\ call[c].at \in {"create", "lookup", "user"}
  /\ errors < MaxErrors
  /\ errors' = errors + 1
  /\ Unavailable(c)
  /\ UNCHANGED <<clock, account, lastId, token, history, calls, changes>>

\* Nothing in the code disables or removes an account: an operator does, in the
\* database.
Change(e) ==
  /\ account[e] # NoAccount
  /\ changes < MaxChanges
  /\ changes' = changes + 1
  /\ \/ Becomes(e, [account[e] EXCEPT !.active = ~ @])
     \/ Becomes(e, NoAccount)
  /\ UNCHANGED <<clock, lastId, token, call, told, calls, errors>>

Tick ==
  /\ clock < MaxTime
  /\ clock' = clock + 1
  /\ UNCHANGED <<account, lastId, token, call, told, history, counters>>

Serve(c) ==
  \/ TooLarge(c) \/ Enforce(c) \/ Registers(c) \/ LookUp(c) \/ Verify(c)
  \/ ReadToken(c) \/ LoadUser(c) \/ Handle(c) \/ StorageFails(c)

AccessNext ==
  \/ \E c \in Clients : Submit(c) \/ Use(c) \/ LogOut(c) \/ Serve(c)
  \/ \E e \in Emails : Change(e)
  \/ Tick

AccessSpec == AccessInit /\ [][AccessNext]_accessVars

---------------------------------------------------------------------------

\* No endpoint runs for a caller whose token had expired when the call was sent,
\* or whose account has been disabled or gone all the while, even if it was
\* disabled between the login's read of the row and its token, and even if
\* the address has a new account by now.
AdmittedRightly ==
  \A c \in Clients : call[c].at = "handler" =>
    /\ call[c].sent < token[c].expires
    /\ \E row \in history[c] : row.id = token[c].id /\ row.active

\* Who holds a token typed the password of an account that was active then.
TokensEarned ==
  \A c \in Clients : told[c] = 200 /\ call[c].kind = "login" /\ token[c] # NoToken =>
    \E row \in history[c] :
      row.id = token[c].id /\ row.active /\ row.password = call[c].password

\* 401 is about the caller, never about us: it is told only if the token, the
\* password or the account was at some moment of the call not in order.
RefusedForAReason ==
  \A c \in Clients : told[c] = 401 =>
    IF call[c].kind = "use"
    THEN \/ token[c] = NoToken \/ clock >= token[c].expires
         \/ \E row \in history[c] : row.id # token[c].id \/ ~ row.active
    ELSE \E row \in history[c] :
           row = NoAccount \/ ~ row.active \/ row.password # call[c].password

=============================================================================
