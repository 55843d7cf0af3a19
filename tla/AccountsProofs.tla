--------------------------- MODULE AccountsProofs ---------------------------
(***************************************************************************)
(* Accounts, for any number of requests, organisations, addresses and      *)
(* faults, and who is admitted and refused, for any number of clients and  *)
(* passwords, however often accounts are disabled, deleted and registered  *)
(* again while calls are under way.                                        *)
(***************************************************************************)
EXTENDS Registration, Access, TLAPS

---------------------------------------------------------------------------
(* Registration: accounts are unique and the answers true.                 *)

LEMMA InitHolds == Init => IInv
BY RegistrationAssumption DEF Init, IInv, TypeOK, UsersInv, FormsInv, AnswersAreTrue

\* The row a request inserts.
Row(r) == [email |-> email[r], organization |-> name[r], request |-> r]

\* Everything but an insert into users: at most an organisation more, and a
\* request moved on that had not answered yet.
LEMMA QuietStep ==
  ASSUME IInv, NEW r \in Requests, NEW p \in {"email", "org", "newOrg", "user", "done"},
         NEW e \in Spellings, NEW s \in {"none", "conflict", "unavailable", "error"},
         place[r] # "done", Goes(r, p), Lower[e] = e,
         email' = [email EXCEPT ![r] = e], place[r] = "idle" \/ e = email[r],
         status' = [status EXCEPT ![r] = s], p = "done" <=> s # "none",
         s = "conflict" => Taken(e), s = "error" => name[r] \in organizations,
         organizations \subseteq organizations', organizations' \subseteq Names,
         p = "user" => name[r] \in organizations',
         UNCHANGED <<users, name>>, faults' \in Nat
  PROVE  IInv'
<1>1. /\ organizations \subseteq Names /\ users \subseteq Users
      /\ place \in [Requests -> {"idle", "email", "org", "newOrg", "user", "done"}]
      /\ name \in [Requests -> Names] /\ email \in [Requests -> Spellings]
      /\ status \in [Requests -> {"none", "created", "conflict", "unavailable", "error"}]
  BY DEF IInv, TypeOK
<1>2. /\ place'[r] = p /\ email'[r] = e /\ status'[r] = s
      /\ \A q \in Requests \ {r} : place'[q] = place[q] /\ email'[q] = email[q] /\ status'[q] = status[q]
  BY <1>1 DEF Goes
<1>3. TypeOK'
  BY <1>1 DEF TypeOK, Goes
<1>4. \A u \in users : u.request \in Requests \ {r}
  BY <1>1 DEF IInv, UsersInv, Users
<1>5. UsersInv'
  BY <1>2, <1>4 DEF IInv, UsersInv
<1>6. FormsInv'
  BY <1>2 DEF IInv, FormsInv
<1>7. AnswersAreTrue'
  <2>1. ASSUME NEW q \in Requests \ {r}
        PROVE  /\ status'[q] = "created" => Row(q)' \in users'
               /\ status'[q] = "conflict" => \E u \in users' : u.email = email'[q] /\ u.request # q
               /\ status'[q] = "error" => name'[q] \in organizations' /\ \A u \in users' : u.request # q
    BY <1>2 DEF IInv, AnswersAreTrue, Row
  <2>2. /\ status'[r] # "created"
        /\ status'[r] = "conflict" => \E u \in users' : u.email = email'[r] /\ u.request # r
        /\ status'[r] = "error" => name'[r] \in organizations' /\ \A u \in users' : u.request # r
    BY <1>2, <1>4 DEF Taken
  <2> QED BY <2>1, <2>2 DEF AnswersAreTrue, Row
<1>8. (\A u \in users : u.organization \in organizations)'
  BY DEF IInv
<1>9. (\A u, v \in users : u.email = v.email => u = v)'
  BY DEF IInv
<1> QED BY <1>3, <1>5, <1>6, <1>7, <1>8, <1>9 DEF IInv

\* The insert of a user whose address is free.
LEMMA InsertStep ==
  ASSUME IInv, NEW r \in Requests, NEW s \in {"created", "unavailable"},
         place[r] = "user", EmailFree(email[r]), users' = users \cup {Row(r)},
         Tell(r, s), UNCHANGED <<organizations, form>>, faults' \in Nat
  PROVE  IInv'
<1>1. /\ organizations \subseteq Names /\ users \subseteq Users
      /\ place \in [Requests -> {"idle", "email", "org", "newOrg", "user", "done"}]
      /\ name \in [Requests -> Names] /\ email \in [Requests -> Spellings]
      /\ status \in [Requests -> {"none", "created", "conflict", "unavailable", "error"}]
  BY DEF IInv, TypeOK
<1>2. /\ place'[r] = "done" /\ status'[r] = s
      /\ \A q \in Requests \ {r} : place'[q] = place[q] /\ status'[q] = status[q]
      /\ UNCHANGED <<organizations, name, email>>
  BY <1>1 DEF Tell, Goes, form
<1>3. /\ Row(r) \in Users
      /\ Row(r).email = email[r] /\ Row(r).organization = name[r] /\ Row(r).request = r
  BY <1>1 DEF Row, Users
<1>4. TypeOK'
  BY <1>1, <1>2, <1>3 DEF TypeOK, Tell, Goes
<1>5. \A u \in users : u.request \in Requests \ {r} /\ u.email # email[r]
  BY <1>1 DEF IInv, UsersInv, Users, EmailFree, Taken
<1>6. UsersInv'
  BY <1>2, <1>3, <1>5 DEF IInv, UsersInv
<1>7. FormsInv'
  BY <1>2 DEF IInv, FormsInv
<1>8. AnswersAreTrue'
  <2>1. ASSUME NEW q \in Requests \ {r}
        PROVE  /\ status'[q] = "created" => Row(q)' \in users'
               /\ status'[q] = "conflict" => \E u \in users' : u.email = email'[q] /\ u.request # q
               /\ status'[q] = "error" => name'[q] \in organizations' /\ \A u \in users' : u.request # q
    BY <1>2, <1>3 DEF IInv, AnswersAreTrue, Row
  <2>2. Row(r)' \in users' /\ status'[r] \notin {"conflict", "error"}
    BY <1>2 DEF Row
  <2> QED BY <2>1, <2>2 DEF AnswersAreTrue, Row
<1>9. (\A u \in users : u.organization \in organizations)'
  BY <1>2, <1>3 DEF IInv, FormsInv
<1>10. (\A u, v \in users : u.email = v.email => u = v)'
  BY <1>3, <1>5 DEF IInv
<1> QED BY <1>4, <1>6, <1>7, <1>8, <1>9, <1>10 DEF IInv

LEMMA RegisterHolds ==
  ASSUME IInv, NEW r \in Requests, Register(r)
  PROVE  IInv'
<1>1. /\ organizations \subseteq Names /\ name[r] \in Names /\ email[r] \in Spellings
      /\ email = [email EXCEPT ![r] = email[r]]
      /\ status = [status EXCEPT ![r] = status[r]]
      /\ faults \in Nat /\ MaxFaults \in Nat
  BY RegistrationAssumption DEF IInv, TypeOK
<1>2. /\ place[r] # "idle" => Lower[email[r]] = email[r]
      /\ place[r] = "user" => name[r] \in organizations
      /\ place[r] # "done" => status[r] = "none"
  BY DEF IInv, FormsInv
<1>3. CASE Send(r)
  <2>1. Lower[email[r]] \in Spellings /\ Lower[Lower[email[r]]] = Lower[email[r]]
    BY <1>1, RegistrationAssumption
  <2>2. /\ place[r] = "idle" /\ status[r] = "none" /\ Goes(r, "email")
        /\ email' = [email EXCEPT ![r] = Lower[email[r]]]
        /\ status' = [status EXCEPT ![r] = "none"]
        /\ UNCHANGED <<organizations, users, name, faults>>
    BY <1>1, <1>2, <1>3 DEF Send, Validated
  <2> QED BY <1>1, <2>1, <2>2, QuietStep
<1>4. CASE LookUpEmail(r)
  <2>1. CASE Taken(email[r])
    <3>1. /\ place[r] = "email" /\ Goes(r, "done")
          /\ email' = [email EXCEPT ![r] = email[r]]
          /\ status' = [status EXCEPT ![r] = "conflict"]
          /\ UNCHANGED <<organizations, users, name, faults>>
      BY <1>1, <1>4, <2>1 DEF LookUpEmail, Tell, form
    <3> QED BY <1>1, <1>2, <2>1, <3>1, QuietStep
  <2>2. CASE ~ Taken(email[r])
    <3>1. /\ place[r] = "email" /\ Goes(r, "org")
          /\ email' = [email EXCEPT ![r] = email[r]]
          /\ status' = [status EXCEPT ![r] = "none"]
          /\ UNCHANGED <<organizations, users, name, faults>>
      BY <1>1, <1>2, <1>4, <2>2 DEF LookUpEmail, form
    <3> QED BY <1>1, <1>2, <3>1, QuietStep
  <2> QED BY <2>1, <2>2
<1>5. CASE LookUpOrganization(r)
  <2>1. /\ place[r] = "org"
        /\ email' = [email EXCEPT ![r] = email[r]]
        /\ status' = [status EXCEPT ![r] = "none"]
        /\ UNCHANGED <<organizations, users, name, faults>>
    BY <1>1, <1>2, <1>5 DEF LookUpOrganization, form
  <2>2. CASE name[r] \in organizations
    <3>1. Goes(r, "user")
      BY <1>5, <2>2 DEF LookUpOrganization
    <3> QED BY <1>1, <1>2, <2>1, <2>2, <3>1, QuietStep
  <2>3. CASE name[r] \notin organizations
    <3>1. Goes(r, "newOrg")
      BY <1>5, <2>3 DEF LookUpOrganization
    <3> QED BY <1>1, <1>2, <2>1, <3>1, QuietStep
  <2> QED BY <2>2, <2>3
<1>6. CASE AddOrganization(r)
  <2>1. /\ place[r] = "newOrg"
        /\ email' = [email EXCEPT ![r] = email[r]]
        /\ UNCHANGED <<users, name, faults>>
    BY <1>1, <1>6 DEF AddOrganization, form
  <2>2. CASE name[r] \notin organizations
    <3>1. /\ organizations' = organizations \cup {name[r]} /\ Goes(r, "user")
          /\ status' = [status EXCEPT ![r] = "none"]
      BY <1>1, <1>2, <1>6, <2>1, <2>2 DEF AddOrganization
    <3> QED BY <1>1, <1>2, <2>1, <3>1, QuietStep
  <2>3. CASE name[r] \in organizations
    <3>1. /\ UNCHANGED organizations /\ Goes(r, "done")
          /\ status' = [status EXCEPT ![r] = "error"]
      BY <1>6, <2>3 DEF AddOrganization, NameTaken, Tell
    <3> QED BY <1>1, <1>2, <2>1, <2>3, <3>1, QuietStep
  <2> QED BY <2>2, <2>3
<1>7. CASE AddUser(r)
  <2>1. CASE EmailFree(email[r])
    <3>1. /\ place[r] = "user" /\ users' = users \cup {Row(r)} /\ Tell(r, "created")
          /\ UNCHANGED <<organizations, form, faults>>
      BY <1>7, <2>1 DEF AddUser, Inserted, Row
    <3> QED BY <1>1, <2>1, <3>1, InsertStep
  <2>2. CASE ~ EmailFree(email[r])
    <3>1. /\ place[r] = "user" /\ Taken(email[r]) /\ Goes(r, "done")
          /\ email' = [email EXCEPT ![r] = email[r]]
          /\ status' = [status EXCEPT ![r] = "conflict"]
          /\ UNCHANGED <<organizations, users, name, faults>>
      BY <1>1, <1>7, <2>2 DEF AddUser, EmailFree, Tell, form
    <3> QED BY <1>1, <1>2, <3>1, QuietStep
  <2> QED BY <2>1, <2>2
<1>8. CASE Fails(r)
  <2>1. /\ place[r] # "done" /\ place[r] # "idle" /\ Goes(r, "done")
        /\ email' = [email EXCEPT ![r] = email[r]]
        /\ status' = [status EXCEPT ![r] = "unavailable"]
        /\ UNCHANGED name /\ faults' \in Nat
    BY <1>1, <1>8 DEF Fails, Tell, form
  <2>2. CASE UNCHANGED <<organizations, users>>
    BY <1>1, <1>2, <2>1, <2>2, QuietStep
  <2>3. CASE organizations' = organizations \cup {name[r]} /\ UNCHANGED users
    <3>1. organizations \subseteq organizations' /\ organizations' \subseteq Names
      BY <1>1, <2>3
    <3> QED BY <1>1, <1>2, <2>1, <2>3, <3>1, QuietStep
  <2>4. CASE /\ place[r] = "user" /\ EmailFree(email[r])
             /\ users' = users \cup {Row(r)} /\ UNCHANGED organizations
    <3>1. Tell(r, "unavailable") /\ UNCHANGED form
      BY <1>8 DEF Fails
    <3> QED BY <2>1, <2>4, <3>1, InsertStep
  <2> QED BY <1>8, <2>2, <2>3, <2>4 DEF Fails, Inserted, Row
<1> QED BY <1>3, <1>4, <1>5, <1>6, <1>7, <1>8 DEF Register

\* The inductive invariant of Registration, in every behaviour.
THEOREM RegistrationInvariant == Spec => []IInv
<1>1. IInv /\ [Next]_vars => IInv'
  <2>1. ASSUME IInv, Next PROVE IInv'
    BY <2>1, RegisterHolds DEF Next
  <2>2. ASSUME IInv, UNCHANGED vars PROVE IInv'
    BY <2>2 DEF IInv, TypeOK, UsersInv, FormsInv, AnswersAreTrue, vars, form
  <2> QED BY <2>1, <2>2
<1> QED BY InitHolds, <1>1, PTL DEF Spec

\* One account per address, however it is spelled: AuthService.register over
\* the unique index of users.email.
THEOREM AccountsAreUnique == Spec => []OneAccountPerAddress
<1>1. IInv => OneAccountPerAddress
  <2>1. ASSUME IInv, NEW u \in users PROVE Lower[u.email] = u.email
    BY <2>1 DEF IInv, TypeOK, Users, UsersInv, FormsInv
  <2> QED BY <2>1 DEF IInv, OneAccountPerAddress
<1> QED BY RegistrationInvariant, <1>1, PTL

\* "created", "conflict" and the 500 of a lost organisation, as
\* AuthService.register answers them, are true.
THEOREM AnswersStayTrue == Spec => []AnswersAreTrue
<1>1. IInv => AnswersAreTrue
  BY DEF IInv
<1> QED BY RegistrationInvariant, <1>1, PTL

\* Who is behind organisation o, if it has no accounts.
Behind(r, o) == name[r] = o /\ (place[r] = "user" \/ status[r] \in {"conflict", "unavailable"})

LEMMA ExplainedStep ==
  ASSUME IInv, OrganizationsExplained, NEW r \in Requests, Register(r)
  PROVE  OrganizationsExplained'
<1>1. /\ place \in [Requests -> {"idle", "email", "org", "newOrg", "user", "done"}]
      /\ status \in [Requests -> {"none", "created", "conflict", "unavailable", "error"}]
  BY DEF IInv, TypeOK
<1>2. /\ \A q \in Requests \ {r} : place'[q] = place[q] /\ status'[q] = status[q]
      /\ UNCHANGED name /\ place[r] # "done" /\ users \subseteq users'
  BY <1>1 DEF Register, Send, LookUpEmail, LookUpOrganization, AddOrganization, AddUser,
              Fails, Tell, Goes, NameTaken, Inserted, form
<1>3. ASSUME place[r] = "user"
      PROVE  \/ status'[r] \in {"conflict", "unavailable"}
             \/ \E u \in users' : u.organization = name[r]
  <2>1. AddUser(r) \/ Fails(r)
    BY <1>3 DEF Register, Send, LookUpEmail, LookUpOrganization, AddOrganization
  <2>2. CASE Fails(r)
    BY <1>1, <2>2 DEF Fails, Tell
  <2>3. CASE AddUser(r) /\ ~ EmailFree(email[r])
    BY <1>1, <2>3 DEF AddUser, Tell
  <2>4. CASE AddUser(r) /\ EmailFree(email[r])
    <3>1. /\ [email |-> email[r], organization |-> name[r], request |-> r] \in users'
          /\ [email |-> email[r], organization |-> name[r], request |-> r].organization = name[r]
      BY <2>4 DEF AddUser, Inserted
    <3> QED BY <3>1
  <2> QED BY <2>1, <2>2, <2>3, <2>4
<1>4. ASSUME NEW o \in organizations' \ organizations
      PROVE  name[r] = o /\ (place'[r] = "user" \/ status'[r] = "unavailable")
  BY <1>1, <1>4 DEF Register, Send, LookUpEmail, LookUpOrganization, AddOrganization, AddUser,
                    Fails, Tell, Goes
<1>5. SUFFICES ASSUME NEW o \in organizations'
               PROVE  (\E u \in users' : u.organization = o) \/ (\E q \in Requests : Behind(q, o)')
  BY DEF OrganizationsExplained, Behind
<1>6. CASE o \notin organizations
  BY <1>2, <1>4, <1>6 DEF Behind
<1>7. CASE \E u \in users : u.organization = o
  BY <1>2, <1>7
<1>8. CASE \E q \in Requests : Behind(q, o)
  <2>1. PICK q \in Requests : Behind(q, o)
    BY <1>8
  <2>2. CASE q # r
    BY <1>2, <2>1, <2>2 DEF Behind
  <2>3. CASE q = r
    <3>1. status[r] = "none"
      BY <1>2 DEF IInv, FormsInv
    <3>2. place[r] = "user" /\ name[r] = o
      BY <2>1, <2>3, <3>1 DEF Behind
    <3> QED BY <1>2, <1>3, <3>2 DEF Behind
  <2> QED BY <2>2, <2>3
<1> QED BY <1>6, <1>7, <1>8 DEF OrganizationsExplained, Behind

\* An organisation without accounts has a request that failed, lost its address
\* or is not over: AuthService.register commits it first.
THEOREM OrganizationsAreExplained == Spec => []OrganizationsExplained
<1>1. Init => OrganizationsExplained
  BY DEF Init, OrganizationsExplained
<1>2. IInv /\ OrganizationsExplained /\ [Next]_vars => OrganizationsExplained'
  <2>1. ASSUME IInv, OrganizationsExplained, Next PROVE OrganizationsExplained'
    BY <2>1, ExplainedStep DEF Next
  <2>2. ASSUME OrganizationsExplained, UNCHANGED vars PROVE OrganizationsExplained'
    BY <2>2 DEF OrganizationsExplained, vars, form
  <2> QED BY <2>1, <2>2
<1> QED BY RegistrationInvariant, <1>1, <1>2, PTL DEF Spec

---------------------------------------------------------------------------
(* Access: who is admitted and who is refused.                             *)

\* Ids are given once, and name one address at a time.
AccountsInv ==
  \A e \in Emails :
    /\ account[e].id <= lastId
    /\ account[e].id = 0 => account[e] = NoAccount
    /\ \A f \in Emails : account[e].id = account[f].id /\ account[e].id # 0 => e = f

\* An id that was given to an address names that address, or nothing any more.
NamesAddress(id, address) ==
  /\ id \in 1..lastId
  /\ address \in Emails
  /\ \A e \in Emails : account[e].id = id => e = address

TokenInv(c) == token[c] # NoToken => NamesAddress(token[c].id, token[c].email)

\* What is known of a call, by its place.
CallInv(c) ==
  /\ call[c].sent <= clock
  /\ call[c].at # "idle" => told[c] = 0
  /\ call[c].at # "idle" /\ call[c].email \in Emails => account[call[c].email] \in history[c]
  /\ call[c].at \in {"limit", "create", "lookup", "verify"} =>
       call[c].email \in Emails /\ call[c].kind \in {"register", "login"}
  /\ call[c].at \in {"lookup", "verify"} => call[c].kind = "login"
  /\ call[c].at \in {"token", "user", "budget", "handler"} =>
       call[c].email = token[c].email /\ call[c].kind = "use"

\* The row that a login has read.
RowInv(c) ==
  call[c].at = "verify" =>
    /\ call[c].row \in history[c]
    /\ call[c].row # NoAccount => NamesAddress(call[c].row.id, call[c].email)

\* How far a call with a token has come.
CheckedInv(c) ==
  /\ call[c].at \in {"user", "budget", "handler"} =>
       token[c] # NoToken /\ call[c].sent < token[c].expires
  /\ call[c].at \in {"budget", "handler"} =>
       \E row \in history[c] : row.id = token[c].id /\ row.active

\* TokensEarned and RefusedForAReason, of one client.
Earned(c) ==
  told[c] = 200 /\ call[c].kind = "login" /\ token[c] # NoToken =>
    \E row \in history[c] :
      row.id = token[c].id /\ row.active /\ row.password = call[c].password

Reasoned(c) ==
  told[c] = 401 =>
    IF call[c].kind = "use"
    THEN \/ token[c] = NoToken \/ clock >= token[c].expires
         \/ \E row \in history[c] : row.id # token[c].id \/ ~ row.active
    ELSE \E row \in history[c] :
           row = NoAccount \/ ~ row.active \/ row.password # call[c].password

ClientInv(c) ==
  TokenInv(c) /\ CallInv(c) /\ RowInv(c) /\ CheckedInv(c) /\ Earned(c) /\ Reasoned(c)

AccessIInv == AccessTypeOK /\ AccountsInv /\ \A c \in Clients : ClientInv(c)

---------------------------------------------------------------------------

\* No accounts, no tokens, no calls.
LEMMA InitIInv == AccessInit => AccessIInv
<1> SUFFICES ASSUME AccessInit PROVE AccessIInv
  OBVIOUS
<1>1. AccessTypeOK
  BY DEF AccessInit, AccessTypeOK, Rows, NoAccount, Tokens, NoToken, Calls, Idle
<1>2. AccountsInv
  BY DEF AccessInit, AccountsInv, NoAccount
<1>3. \A c \in Clients : ClientInv(c)
  BY DEF AccessInit, ClientInv, TokenInv, CallInv, RowInv, CheckedInv, Earned, Reasoned, Idle
<1> QED
  BY <1>1, <1>2, <1>3 DEF AccessIInv

\* What may happen to accounts behind a client's back.
AccountsMove ==
  /\ clock <= clock' /\ clock' \in Nat
  /\ lastId <= lastId' /\ lastId' \in Nat
  /\ \A e \in Emails : account'[e].id \in {0, account[e].id} \/ account'[e].id > lastId

\* A client whose own state stays, and whose history goes on.
Bystander(c) ==
  /\ call'[c] = call[c] /\ token'[c] = token[c] /\ told'[c] = told[c]
  /\ history[c] \subseteq history'[c]
  /\ call[c].at # "idle" /\ call[c].email \in Emails => account'[call[c].email] \in history'[c]

\* An id goes on naming its address, whatever becomes of the accounts.
LEMMA NamesStay ==
  ASSUME AccessTypeOK, AccountsMove, NEW id, NEW address, NamesAddress(id, address)
  PROVE  NamesAddress(id, address)'
BY DEF AccessTypeOK, AccountsMove, NamesAddress

\* Nothing a bystander relies on changes.
LEMMA BystandersKeep ==
  ASSUME AccessIInv, AccountsMove, NEW c \in Clients, Bystander(c)
  PROVE  ClientInv(c)'
<1>1. AccessTypeOK /\ ClientInv(c)
  BY DEF AccessIInv
<1>2. TokenInv(c)'
  BY <1>1, NamesStay DEF ClientInv, TokenInv, Bystander
<1>3. CallInv(c)'
  BY <1>1 DEF ClientInv, CallInv, Bystander, AccountsMove, AccessTypeOK, Calls
<1>4. RowInv(c)'
  BY <1>1, NamesStay DEF ClientInv, RowInv, Bystander
<1>5. CheckedInv(c)'
  BY <1>1 DEF ClientInv, CheckedInv, Bystander
<1>6. Earned(c)'
  BY <1>1 DEF ClientInv, Earned, Bystander
<1>7. Reasoned(c)'
  BY <1>1 DEF ClientInv, Reasoned, Bystander, AccountsMove, AccessTypeOK, Tokens
<1> QED
  BY <1>2, <1>3, <1>4, <1>5, <1>6, <1>7 DEF ClientInv

\* A step of one client that leaves accounts and clock alone.
LEMMA OneMoves ==
  ASSUME AccessIInv, NEW c \in Clients, AccessTypeOK', UNCHANGED <<clock, account, lastId>>,
         \A d \in Clients \ {c} : Bystander(d), ClientInv(c)'
  PROVE  AccessIInv'
<1>1. AccountsMove
  BY DEF AccessIInv, AccessTypeOK, AccountsMove
<1>2. AccountsInv'
  BY DEF AccessIInv, AccountsInv
<1> QED
  BY <1>1, <1>2, BystandersKeep DEF AccessIInv

\* Everything that is known of a client, in one.
LEMMA Known ==
  ASSUME AccessIInv, NEW c \in Clients
  PROVE  /\ AccessTypeOK /\ AccountsInv
         /\ TokenInv(c) /\ CallInv(c) /\ RowInv(c) /\ CheckedInv(c) /\ Earned(c) /\ Reasoned(c)
         /\ call[c] \in Calls /\ token[c] \in Tokens /\ history[c] \in SUBSET Rows
BY DEF AccessIInv, ClientInv, AccessTypeOK

\* A call is sent.
LEMMA Begins ==
  ASSUME AccessIInv, NEW c \in Clients, UNCHANGED token,
         NEW kind, NEW next, NEW e, NEW p, Begin(c, kind, next, e, p),
         \/ /\ kind \in {"register", "login"} /\ next = "limit" /\ e \in Emails
            /\ p \in Passwords
         \/ kind = "use" /\ next = "token" /\ e = token[c].email /\ p = "none"
  PROVE  AccessIInv'
<1> USE Known
<1> DEFINE new == [at |-> next, kind |-> kind, email |-> e, password |-> p,
                   row |-> NoAccount, sent |-> clock]
<1>1. /\ call[c].at = "idle"
      /\ call' = [call EXCEPT ![c] = new]
      /\ calls' = [calls EXCEPT ![c] = @ + 1]
      /\ history' = [history EXCEPT ![c] = IF e \in Emails THEN {account[e]} ELSE {}]
      /\ told' = [told EXCEPT ![c] = 0]
      /\ UNCHANGED <<clock, account, lastId, changes, errors>>
  BY DEF Begin
<1>2. new \in Calls
  BY DEF Calls, AccessTypeOK, Tokens, Rows, NoAccount
<1>3. AccessTypeOK'
  BY <1>1, <1>2 DEF AccessTypeOK
<1>4. \A d \in Clients \ {c} : Bystander(d)
  BY <1>1 DEF Bystander, AccessTypeOK, AccessIInv, ClientInv, CallInv
<1>5. call'[c] = new /\ told'[c] = 0 /\ (e \in Emails => history'[c] = {account[e]})
  BY <1>1 DEF AccessTypeOK
<1>6. TokenInv(c)' /\ CallInv(c)'
  BY <1>1, <1>5 DEF TokenInv, CallInv, NamesAddress, AccessTypeOK
<1>7. RowInv(c)' /\ CheckedInv(c)' /\ Earned(c)' /\ Reasoned(c)'
  BY <1>5 DEF RowInv, CheckedInv, Earned, Reasoned
<1> QED
  BY <1>1, <1>3, <1>4, <1>6, <1>7, OneMoves DEF ClientInv

\* A call that goes to another place, or ends with an answer that promises nothing.
LEMMA PlaceStep ==
  ASSUME AccessIInv, NEW c \in Clients,
         LogOut(c) \/ TooLarge(c) \/ Enforce(c) \/ LookUp(c) \/ Handle(c) \/ StorageFails(c)
  PROVE  AccessIInv'
<1> USE Known
<1>1. /\ UNCHANGED <<clock, account, lastId, history>>
      /\ \A d \in Clients \ {c} : call'[d] = call[d] /\ token'[d] = token[d] /\ told'[d] = told[d]
  BY DEF LogOut, TooLarge, Enforce, LookUp, Handle, StorageFails, Answer, MovesTo, Unavailable,
         AccessTypeOK
<1>2. \A d \in Clients \ {c} : Bystander(d)
  BY <1>1 DEF Bystander, AccessIInv, ClientInv, CallInv
<1>3. CASE LogOut(c)
  <2>1. AccessTypeOK'
    BY <1>3 DEF LogOut, AccessTypeOK, Tokens, NoToken, counters
  <2>2. ClientInv(c)'
    BY <1>3 DEF LogOut, AccessTypeOK, ClientInv, TokenInv, CallInv, RowInv, CheckedInv, Earned,
                Reasoned
  <2> QED
    BY <1>1, <1>2, <2>1, <2>2, OneMoves
<1>4. CASE TooLarge(c) \/ Handle(c) \/ StorageFails(c) \/ (Enforce(c) /\ Answer(c, 429))
  <2>1. PICK s \in {200, 413, 429, 503} :
          /\ told' = [told EXCEPT ![c] = s] /\ call' = [call EXCEPT ![c].at = "idle"]
          /\ UNCHANGED token /\ (s = 200 => call[c].at = "handler")
          /\ UNCHANGED <<calls, changes>> /\ errors' \in Nat
    BY <1>4 DEF TooLarge, Handle, StorageFails, Enforce, Answer, Unavailable, counters, AccessTypeOK
  <2>2. AccessTypeOK'
    <3>1. [call[c] EXCEPT !.at = "idle"] \in Calls
      BY DEF Calls
    <3>2. call' \in [Clients -> Calls] /\ told' \in [Clients -> {0, 200, 201, 401, 409, 413, 429, 503}]
      BY <2>1, <3>1 DEF AccessTypeOK
    <3> QED
      BY <1>1, <2>1, <3>2 DEF AccessTypeOK
  <2>3. /\ call'[c].at = "idle" /\ call'[c].kind = call[c].kind /\ call'[c].sent = call[c].sent
        /\ told'[c] = s
    BY <2>1 DEF AccessTypeOK, Calls
  <2>4. ClientInv(c)'
    BY <1>1, <2>1, <2>3 DEF ClientInv, TokenInv, NamesAddress, CallInv, RowInv, CheckedInv, Earned,
                            Reasoned
  <2> QED
    BY <1>1, <1>2, <2>2, <2>4, OneMoves
<1>5. CASE Enforce(c) /\ ~ Answer(c, 429)
  <2> DEFINE next == CASE call[c].at = "budget" -> "handler"
                       [] call[c].kind = "register" -> "create"
                       [] OTHER -> "lookup"
  <2>7. /\ call' = [call EXCEPT ![c].at = next]
        /\ call[c].at \in {"limit", "budget"}
        /\ UNCHANGED <<token, told, counters>>
    BY <1>5 DEF Enforce, MovesTo
  <2>8. \/ call[c].at = "budget" /\ next = "handler"
        \/ call[c].at = "limit" /\ call[c].kind = "register" /\ next = "create"
        \/ call[c].at = "limit" /\ call[c].kind # "register" /\ next = "lookup"
    <3>1. CASE call[c].at = "budget"
      BY <3>1 DEF CallInv
    <3>2. CASE call[c].at = "limit" /\ call[c].kind = "register"
      BY <3>2
    <3>3. CASE call[c].at = "limit" /\ call[c].kind # "register"
      BY <3>3
    <3> QED
      BY <2>7, <3>1, <3>2, <3>3
  <2> HIDE DEF next
  <2>1. /\ call' = [call EXCEPT ![c].at = next]
        /\ next \in {"handler", "create", "lookup"}
        /\ UNCHANGED <<token, told, counters>>
    BY <2>7, <2>8
  <2>2. AccessTypeOK'
    <3>1. [call[c] EXCEPT !.at = next] \in Calls
      BY <2>1 DEF Calls
    <3>2. call' \in [Clients -> Calls]
      BY <2>1, <3>1 DEF AccessTypeOK
    <3> QED
      BY <1>1, <2>1, <3>2 DEF AccessTypeOK, counters
  <2>3. /\ call'[c].at = next /\ call'[c].kind = call[c].kind /\ call'[c].sent = call[c].sent
        /\ call'[c].email = call[c].email
    BY <2>1 DEF AccessTypeOK, Calls
  <2>4. CallInv(c)'
    BY <1>1, <2>1, <2>8, <2>3 DEF CallInv
  <2>5. ClientInv(c)'
    BY <1>1, <2>1, <2>8, <2>3, <2>4 DEF ClientInv, TokenInv, NamesAddress, CallInv, RowInv, CheckedInv,
                                  Earned, Reasoned
  <2> QED
    BY <1>1, <1>2, <2>2, <2>5, OneMoves
<1>6. CASE LookUp(c)
  <2> DEFINE row == account[call[c].email]
  <2>1. /\ call[c].at = "lookup" /\ call[c].email \in Emails
        /\ call' = [call EXCEPT ![c].at = "verify", ![c].row = row]
        /\ UNCHANGED <<token, told, counters>>
    BY <1>6 DEF LookUp, CallInv
  <2>2. AccessTypeOK'
    <3>1. row \in Rows
      BY <2>1 DEF AccessTypeOK
    <3>2. [call[c] EXCEPT !.at = "verify", !.row = row] \in Calls
      BY <3>1 DEF Calls
    <3>3. call' = [call EXCEPT ![c] = [call[c] EXCEPT !.at = "verify", !.row = row]]
      BY <2>1
    <3>4. call' \in [Clients -> Calls]
      BY <3>2, <3>3 DEF AccessTypeOK
    <3> QED
      BY <1>1, <2>1, <3>4 DEF AccessTypeOK, counters
  <2>3. /\ call'[c].at = "verify" /\ call'[c].kind = call[c].kind /\ call'[c].sent = call[c].sent
        /\ call'[c].email = call[c].email /\ call'[c].row = row
    BY <2>1 DEF AccessTypeOK, Calls
  <2>4. CallInv(c)'
    BY <1>1, <2>1, <2>3 DEF CallInv
  <2>5. RowInv(c)'
    BY <1>1, <2>1, <2>3 DEF CallInv, RowInv, NamesAddress, AccountsInv, AccessTypeOK, Rows
  <2>6. ClientInv(c)'
    BY <1>1, <2>1, <2>3, <2>4, <2>5 DEF ClientInv, TokenInv, NamesAddress, CallInv, CheckedInv,
                                        Earned, Reasoned
  <2> QED
    BY <1>1, <1>2, <2>2, <2>6, OneMoves
<1> QED
  BY <1>3, <1>4, <1>5, <1>6

\* The password is compared with the row that was read, of whom the token is.
LEMMA VerifyStep ==
  ASSUME AccessIInv, Lifetime \in Nat, NEW c \in Clients, Verify(c)
  PROVE  AccessIInv'
<1> USE Known
<1> DEFINE row == call[c].row
           new == [id |-> row.id, email |-> call[c].email, expires |-> clock + Lifetime]
<1>1. /\ call[c].at = "verify" /\ call[c].kind = "login" /\ call[c].email \in Emails
      /\ row \in history[c] /\ row \in Rows
      /\ call' = [call EXCEPT ![c].at = "idle"]
      /\ UNCHANGED <<clock, account, lastId, history, calls, changes, errors>>
  BY DEF Verify, Answer, CallInv, RowInv, Calls, counters
<1>2. /\ call'[c].at = "idle" /\ call'[c].kind = "login" /\ call'[c].sent = call[c].sent
      /\ call'[c].password = call[c].password
      /\ call' \in [Clients -> Calls]
  <2>1. [call[c] EXCEPT !.at = "idle"] \in Calls
    BY DEF Calls
  <2> QED
    BY <1>1, <2>1 DEF AccessTypeOK, Calls
<1>3. CASE Accepted(row, call[c].password) /\ token' = [token EXCEPT ![c] = new] /\ told' = [told EXCEPT ![c] = 200]
  <2>1. new \in Tokens
    BY <1>1 DEF Tokens, Rows, AccessTypeOK
  <2>2. AccessTypeOK'
    BY <1>1, <1>2, <1>3, <2>1 DEF AccessTypeOK
  <2>3. token'[c] = new /\ told'[c] = 200
    BY <1>3 DEF AccessTypeOK
  <2>4. \A d \in Clients \ {c} : Bystander(d)
    BY <1>1, <1>3 DEF Bystander, AccessIInv, ClientInv, CallInv, AccessTypeOK
  <2>5. TokenInv(c)'
    BY <1>1, <1>3, <2>3 DEF TokenInv, RowInv, NamesAddress, Accepted
  <2>6. Earned(c)'
    BY <1>1, <1>2, <1>3, <2>3 DEF Earned, Accepted
  <2>7. CallInv(c)' /\ RowInv(c)' /\ CheckedInv(c)' /\ Reasoned(c)'
    BY <1>1, <1>2, <2>3 DEF CallInv, RowInv, CheckedInv, Reasoned
  <2> QED
    BY <1>1, <2>2, <2>4, <2>5, <2>6, <2>7, OneMoves DEF ClientInv
<1>4. CASE ~ Accepted(row, call[c].password) /\ UNCHANGED token /\ told' = [told EXCEPT ![c] = 401]
  <2>1. AccessTypeOK'
    BY <1>1, <1>2, <1>4 DEF AccessTypeOK
  <2>2. told'[c] = 401
    BY <1>4 DEF AccessTypeOK
  <2>3. \A d \in Clients \ {c} : Bystander(d)
    BY <1>1, <1>4 DEF Bystander, AccessIInv, ClientInv, CallInv, AccessTypeOK
  <2>4. TokenInv(c)'
    BY <1>1, <1>4 DEF TokenInv, NamesAddress
  <2>5. Reasoned(c)'
    BY <1>1, <1>2, <1>4 DEF Reasoned, Accepted
  <2>6. CallInv(c)' /\ RowInv(c)' /\ CheckedInv(c)' /\ Earned(c)'
    BY <1>1, <1>2, <2>2 DEF CallInv, RowInv, CheckedInv, Earned
  <2> QED
    BY <1>1, <2>1, <2>3, <2>4, <2>5, <2>6, OneMoves DEF ClientInv
<1> QED
  BY <1>3, <1>4 DEF Verify, Answer

\* What an authenticated call needs is looked at one thing after the other: the
\* token, which keeps its expiry, and the account that it names, if any.
LEMMA CheckStep ==
  ASSUME AccessIInv, NEW c \in Clients, ReadToken(c) \/ LoadUser(c)
  PROVE  AccessIInv'
<1> USE Known
<1>1. /\ UNCHANGED <<clock, account, lastId, token, history, calls, changes, errors>>
      /\ call[c].at \in {"token", "user"} /\ call[c].kind = "use" /\ call[c].email = token[c].email
  BY DEF ReadToken, LoadUser, counters, CallInv
<1>2. PICK next \in {"idle", "user", "budget"}, s \in {0, 401} :
        /\ call' = [call EXCEPT ![c].at = next]
        /\ told' = [told EXCEPT ![c] = s]
        /\ next = "idle" <=> s = 401
        /\ next = "idle" => \/ call[c].at = "token" /\ ~ Valid(token[c])
                            \/ call[c].at = "user" /\ ~ Present(token[c].id)
        /\ next = "user" => Valid(token[c])
        /\ next = "budget" => call[c].at = "user" /\ Present(token[c].id)
  <2>1. told[c] = 0
    BY <1>1 DEF CallInv
  <2>2. [told EXCEPT ![c] = 0] = told
    BY <2>1 DEF AccessTypeOK
  <2> QED
    BY <2>2 DEF ReadToken, LoadUser, MovesTo, Answer
<1>3. /\ call'[c].at = next /\ call'[c].kind = "use" /\ call'[c].sent = call[c].sent
      /\ call'[c].email = call[c].email /\ told'[c] = s
      /\ call' \in [Clients -> Calls]
  <2>1. [call[c] EXCEPT !.at = next] \in Calls
    BY DEF Calls
  <2> QED
    BY <1>1, <1>2, <2>1 DEF AccessTypeOK, Calls
<1>4. AccessTypeOK'
  BY <1>1, <1>2, <1>3 DEF AccessTypeOK
<1>5. \A d \in Clients \ {c} : Bystander(d)
  BY <1>1, <1>2 DEF Bystander, AccessIInv, ClientInv, CallInv, AccessTypeOK
<1>6. TokenInv(c)' /\ CallInv(c)' /\ RowInv(c)' /\ Earned(c)'
  BY <1>1, <1>2, <1>3 DEF TokenInv, NamesAddress, CallInv, RowInv, Earned
<1>7. CheckedInv(c)'
  <2>1. CASE next = "idle"
    BY <1>3, <2>1 DEF CheckedInv
  <2>2. CASE next = "user"
    BY <1>1, <1>2, <1>3, <2>2 DEF CheckedInv, CallInv, Valid, AccessTypeOK, Calls, Tokens
  <2>3. CASE next = "budget"
    <3>1. PICK e \in Emails : account[e].id = token[c].id /\ account[e].active
      BY <1>2, <2>3 DEF Present, UserOf
    <3>2. e = token[c].email
      BY <1>2, <2>3, <3>1 DEF CheckedInv, TokenInv, NamesAddress
    <3>3. account[e] \in history[c]
      BY <1>1, <3>2 DEF CallInv
    <3> QED
      BY <1>1, <1>2, <1>3, <2>3, <3>1, <3>3 DEF CheckedInv
  <2> QED
    BY <2>1, <2>2, <2>3
<1>8. Reasoned(c)'
  <2>1. SUFFICES ASSUME s = 401
                 PROVE  \/ token[c] = NoToken \/ clock >= token[c].expires
                        \/ \E row \in history[c] : row.id # token[c].id \/ ~ row.active
    BY <1>1, <1>3 DEF Reasoned
  <2>2. CASE ~ Valid(token[c])
    BY <2>2 DEF Valid, AccessTypeOK, Tokens
  <2>3. CASE token[c] # NoToken /\ ~ Present(token[c].id)
    <3>1. token[c].email \in Emails /\ account[token[c].email] \in history[c]
      BY <1>1, <2>3 DEF TokenInv, NamesAddress, CallInv
    <3> QED
      BY <2>3, <3>1 DEF Present, UserOf
  <2> QED
    BY <1>2, <2>1, <2>2, <2>3
<1> QED
  BY <1>1, <1>4, <1>5, <1>6, <1>7, <1>8, OneMoves DEF ClientInv

\* An account becomes another, or a first one: the calls about it notice.
LEMMA AccountsChange ==
  ASSUME AccessIInv, NEW e \in Emails, NEW row \in Rows, Becomes(e, row),
         clock' = clock, lastId <= lastId', lastId' \in Nat,
         \/ row.id = account[e].id /\ row # NoAccount /\ account[e] # NoAccount
         \/ row = NoAccount
         \/ row.id = lastId' /\ lastId' = lastId + 1
  PROVE  /\ AccountsMove /\ AccountsInv'
         /\ account' \in [Emails -> Rows] /\ history' \in [Clients -> SUBSET Rows]
         /\ \A c \in Clients :
              /\ history[c] \subseteq history'[c]
              /\ call[c].at # "idle" /\ call[c].email \in Emails =>
                   account'[call[c].email] \in history'[c]
<1> AccessTypeOK /\ AccountsInv
  BY DEF AccessIInv
<1>1. account' \in [Emails -> Rows] /\ history' \in [Clients -> SUBSET Rows]
  BY DEF Becomes, AccessTypeOK
<1>2. \A f \in Emails : account'[f] = IF f = e THEN row ELSE account[f]
  BY DEF Becomes, AccessTypeOK
<1>3. AccountsMove
  BY <1>2 DEF AccountsMove, AccessTypeOK, Rows, NoAccount
<1>4. AccountsInv'
  <2> USE <1>2 DEF AccountsInv
  <2>1. \A f \in Emails : account[f] \in Rows /\ account[f].id \in Nat /\ row.id \in Nat
    BY DEF AccessTypeOK, Rows
  <2>2. lastId \in Nat
    BY DEF AccessTypeOK
  <2>3. CASE row.id = account[e].id /\ row # NoAccount /\ account[e] # NoAccount
    BY <2>1, <2>2, <2>3
  <2>4. CASE row = NoAccount
    BY <2>1, <2>2, <2>4 DEF NoAccount
  <2>5. CASE row.id = lastId' /\ lastId' = lastId + 1
    BY <2>1, <2>2, <2>5
  <2> QED
    BY <2>3, <2>4, <2>5
<1>5. ASSUME NEW c \in Clients
      PROVE  /\ history[c] \subseteq history'[c]
             /\ call[c].at # "idle" /\ call[c].email \in Emails =>
                  account'[call[c].email] \in history'[c]
  BY <1>2 DEF Becomes, AccessIInv, ClientInv, CallInv
<1> QED
  BY <1>1, <1>3, <1>4, <1>5

\* Time passes, or an operator changes an account: every client is a bystander.
LEMMA WorldStep ==
  ASSUME AccessIInv, Tick \/ \E e \in Emails : Change(e)
  PROVE  AccessIInv'
<1>1. CASE Tick
  <2>1. AccessTypeOK' /\ AccountsInv' /\ AccountsMove
    BY <1>1 DEF Tick, AccessIInv, AccessTypeOK, AccountsInv, AccountsMove, counters
  <2>2. \A c \in Clients : Bystander(c)
    BY <1>1 DEF Tick, Bystander, AccessIInv, ClientInv, CallInv
  <2> QED
    BY <2>1, <2>2, BystandersKeep DEF AccessIInv
<1>2. ASSUME NEW e \in Emails, Change(e)
      PROVE  AccessIInv'
  <2> AccessTypeOK
    BY DEF AccessIInv
  <2>1. PICK row \in Rows :
          /\ Becomes(e, row)
          /\ \/ row.id = account[e].id /\ row # NoAccount /\ account[e] # NoAccount
             \/ row = NoAccount
    <3>1. NoAccount \in Rows
      BY DEF Rows, NoAccount
    <3>2. DEFINE other == [account[e] EXCEPT !.active = ~ account[e].active]
    <3>3. other \in Rows /\ other.id = account[e].id
      <4>1. account[e] \in [id : Nat, password : Passwords \cup {"none"}, active : BOOLEAN]
        BY DEF AccessTypeOK, Rows
      <4>2. (~ account[e].active) \in BOOLEAN
        OBVIOUS
      <4> QED
        BY <4>1, <4>2 DEF Rows
    <3>4. other # NoAccount
      BY <1>2, <3>3 DEF Change, AccessIInv, AccountsInv, NoAccount
    <3> QED
      BY <1>2, <3>1, <3>3, <3>4 DEF Change
  <2>2. UNCHANGED <<clock, lastId, token, call, told, calls, errors>> /\ changes' \in Nat
    BY <1>2 DEF Change, AccessTypeOK
  <2>3. lastId <= lastId' /\ lastId' \in Nat
    BY <2>2 DEF AccessTypeOK
  <2>4. /\ AccountsMove /\ AccountsInv'
        /\ account' \in [Emails -> Rows] /\ history' \in [Clients -> SUBSET Rows]
        /\ \A c \in Clients : Bystander(c)
    BY <2>1, <2>2, <2>3, AccountsChange DEF Bystander
  <2>5. AccessTypeOK'
    BY <2>2, <2>4 DEF AccessTypeOK
  <2> QED
    BY <2>4, <2>5, BystandersKeep DEF AccessIInv
<1> QED
  BY <1>1, <1>2

\* A registration that succeeds goes on as a login, one that does not ends.
LEMMA RegisterStep ==
  ASSUME AccessIInv, NEW c \in Clients, Registers(c)
  PROVE  AccessIInv'
<1> USE Known
<1> DEFINE e == call[c].email
<1>1. /\ call[c].at = "create" /\ e \in Emails /\ told[c] = 0
      /\ UNCHANGED <<clock, token, calls, changes, errors>>
  BY DEF Registers, CallInv, counters
<1>2. CASE /\ lastId' = lastId + 1
           /\ Becomes(e, [id |-> lastId + 1, password |-> call[c].password, active |-> TRUE])
           /\ call' = [call EXCEPT ![c].at = "limit", ![c].kind = "login"]
           /\ UNCHANGED told
  <2> DEFINE row == [id |-> lastId + 1, password |-> call[c].password, active |-> TRUE]
             new == [call[c] EXCEPT !.at = "limit", !.kind = "login"]
  <2>1. row \in Rows
    BY DEF Rows, Calls, AccessTypeOK
  <2>2. lastId <= lastId' /\ lastId' \in Nat /\ row.id = lastId'
    BY <1>2 DEF AccessTypeOK
  <2>3. /\ AccountsMove /\ AccountsInv'
        /\ account' \in [Emails -> Rows] /\ history' \in [Clients -> SUBSET Rows]
        /\ \A d \in Clients :
              /\ history[d] \subseteq history'[d]
              /\ call[d].at # "idle" /\ call[d].email \in Emails =>
                   account'[call[d].email] \in history'[d]
    BY <1>1, <1>2, <2>1, <2>2, AccountsChange
  <2>4. call' = [call EXCEPT ![c] = new]
    BY <1>2
  <2>5. new \in Calls
    BY DEF Calls
  <2>6. AccessTypeOK'
    BY <1>1, <1>2, <2>2, <2>3, <2>4, <2>5 DEF AccessTypeOK
  <2>7. \A d \in Clients \ {c} : Bystander(d)
    BY <1>1, <1>2, <2>3, <2>4 DEF Bystander, AccessTypeOK
  <2>8. /\ call'[c].at = "limit" /\ call'[c].kind = "login" /\ call'[c].email = e
        /\ call'[c].sent = call[c].sent /\ told'[c] = 0
    BY <1>1, <1>2, <2>4 DEF AccessTypeOK, Calls
  <2>9. TokenInv(c)'
    BY <1>1, <2>3, NamesStay DEF TokenInv
  <2>10. CallInv(c)'
    BY <1>1, <2>3, <2>8 DEF CallInv
  <2>11. RowInv(c)' /\ CheckedInv(c)' /\ Earned(c)' /\ Reasoned(c)'
    BY <2>8 DEF RowInv, CheckedInv, Earned, Reasoned
  <2>12. ClientInv(c)'
    BY <2>9, <2>10, <2>11 DEF ClientInv
  <2> QED
    BY <2>3, <2>6, <2>7, <2>12, BystandersKeep DEF AccessIInv
<1>3. CASE Answer(c, 409) /\ UNCHANGED <<account, lastId, history>>
  <2>1. [call[c] EXCEPT !.at = "idle"] \in Calls
    BY DEF Calls
  <2>2. AccessTypeOK'
    BY <1>1, <1>3, <2>1 DEF Answer, AccessTypeOK
  <2>3. \A d \in Clients \ {c} : Bystander(d)
    BY <1>1, <1>3 DEF Answer, Bystander, AccessIInv, ClientInv, CallInv, AccessTypeOK
  <2>4. call'[c].at = "idle" /\ call'[c].sent = call[c].sent /\ told'[c] = 409
    BY <1>3 DEF Answer, AccessTypeOK, Calls
  <2>5. ClientInv(c)'
    BY <1>1, <1>3, <2>4 DEF ClientInv, TokenInv, NamesAddress, CallInv, RowInv, CheckedInv, Earned,
                            Reasoned
  <2> QED
    BY <1>1, <1>3, <2>2, <2>3, <2>5, OneMoves
<1> QED
  BY <1>2, <1>3 DEF Registers, AfterRegister

\* Every step of the specification preserves the invariant.
LEMMA Inductive ==
  ASSUME Lifetime \in Nat, AccessIInv, [AccessNext]_accessVars
  PROVE  AccessIInv'
<1>1. ASSUME NEW c \in Clients, Submit(c)
      PROVE  AccessIInv'
  <2>1. PICK kind \in {"register", "login"}, e \in Emails, p \in Passwords :
          Begin(c, kind, "limit", e, p)
    BY <1>1 DEF Submit
  <2>2. UNCHANGED token
    BY <2>1 DEF Begin
  <2> QED
    BY <2>1, <2>2, Begins
<1>2. ASSUME NEW c \in Clients, Use(c)
      PROVE  AccessIInv'
  <2>1. UNCHANGED token
    BY <1>2 DEF Use, Begin
  <2> QED
    BY <1>2, <2>1, Begins DEF Use
<1>3. ASSUME NEW c \in Clients, LogOut(c) \/ Serve(c)
      PROVE  AccessIInv'
  BY <1>3, PlaceStep, VerifyStep, CheckStep, RegisterStep DEF Serve
<1>4. CASE UNCHANGED accessVars
  <2>1. AccountsMove /\ AccessTypeOK' /\ AccountsInv'
    BY <1>4 DEF accessVars, counters, AccessIInv, AccessTypeOK, AccountsInv, AccountsMove
  <2>2. \A c \in Clients : Bystander(c)
    BY <1>4 DEF accessVars, Bystander, AccessIInv, ClientInv, CallInv
  <2> QED
    BY <2>1, <2>2, BystandersKeep DEF AccessIInv
<1> QED
  BY <1>1, <1>2, <1>3, <1>4, WorldStep DEF AccessNext

\* The invariant holds in every reachable state, whatever the lifetime of tokens.
THEOREM AccessInvariant ==
  ASSUME Lifetime \in Nat
  PROVE  AccessSpec => []AccessIInv
<1>1. AccessInit => AccessIInv
  BY InitIInv
<1>2. AccessIInv /\ [AccessNext]_accessVars => AccessIInv'
  BY Inductive
<1> QED
  BY <1>1, <1>2, PTL DEF AccessSpec

\* Nobody is served with an expired token, or for an account that was disabled
\* or gone for the whole of the call, though token and account are looked at one
\* after the other and addresses are registered again.
THEOREM CallersAdmittedRightly ==
  ASSUME Lifetime \in Nat
  PROVE  AccessSpec => []AdmittedRightly
<1>1. AccessIInv => AdmittedRightly
  BY DEF AccessIInv, ClientInv, CheckedInv, AdmittedRightly
<1> QED
  BY <1>1, AccessInvariant, PTL

\* A token goes to who typed the password of an account that was active during
\* the login, and names that account.
THEOREM TokensAreEarned ==
  ASSUME Lifetime \in Nat
  PROVE  AccessSpec => []TokensEarned
<1>1. AccessIInv => TokensEarned
  BY DEF AccessIInv, ClientInv, Earned, TokensEarned
<1> QED
  BY <1>1, AccessInvariant, PTL

\* A caller who is told 401 had, at some moment of the call, a token, a password
\* or an account that was not in order.
THEOREM RefusalsHaveReasons ==
  ASSUME Lifetime \in Nat
  PROVE  AccessSpec => []RefusedForAReason
<1>1. AccessIInv => RefusedForAReason
  BY DEF AccessIInv, ClientInv, Reasoned, RefusedForAReason
<1> QED
  BY <1>1, AccessInvariant, PTL

=============================================================================
