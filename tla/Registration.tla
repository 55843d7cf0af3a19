---------------------------- MODULE Registration ----------------------------
(***************************************************************************)
(* POST /auth/register: AuthService.register over the tables organizations *)
(* and users (app/auth).  Every repository call is a transaction or a      *)
(* statement of its own, so other requests come in between.  Where a       *)
(* request is:                                                             *)
(*   idle      not sent yet                                                *)
(*   email     about to look its address up                                *)
(*   org       about to look its organisation up                           *)
(*   newOrg    found none, about to insert it                              *)
(*   user      has an organisation, about to insert the user               *)
(*   done                                                                  *)
(***************************************************************************)
EXTENDS Naturals, FiniteSets

CONSTANTS Requests,     \* bound: the registrations
          Names,        \* organisation names
          Spellings,    \* addresses as people type them
          Lower,        \* str.lower on an address
          MaxFaults     \* bound: faults of the database or of the API

ASSUME RegistrationAssumption ==
  /\ Lower \in [Spellings -> Spellings]
  /\ \A s \in Spellings : Lower[Lower[s]] = Lower[s]
  /\ MaxFaults \in Nat

VARIABLES organizations,  \* the names of the rows
          users,          \* the rows: address, organisation, and whose it is
          place,          \* per request, see above
          name,           \* per request, organization_name
          email,          \* per request, the address after validation
          status,         \* per request, what its sender was told
          faults

form == <<name, email>>
vars == <<organizations, users, place, form, status, faults>>

Users == [email : Spellings, organization : Names, request : Requests]

TypeOK ==
  /\ organizations \subseteq Names
  /\ users \subseteq Users
  /\ place \in [Requests -> {"idle", "email", "org", "newOrg", "user", "done"}]
  /\ name \in [Requests -> Names]
  /\ email \in [Requests -> Spellings]
  /\ status \in [Requests -> {"none", "created", "conflict", "unavailable", "error"}]
  /\ faults \in Nat

Init ==
  /\ organizations = {}
  /\ users = {}
  /\ place = [r \in Requests |-> "idle"]
  /\ name \in [Requests -> Names]
  /\ email \in [Requests -> Spellings]
  /\ status = [r \in Requests |-> "none"]
  /\ faults = 0

Goes(r, p) == place' = [place EXCEPT ![r] = p]

Tell(r, s) == Goes(r, "done") /\ status' = [status EXCEPT ![r] = s]

Taken(e) == \E u \in users : u.email = e

---------------------------------------------------------------------------

\* Mutant of Validated: addresses are kept as they were typed.
ValidatedAsTyped(r) == email[r]

\* RegisterRequest._lowercase
Validated(r) == Lower[email[r]]

Send(r) ==
  /\ place[r] = "idle"
  /\ Goes(r, "email")
  /\ email' = [email EXCEPT ![r] = Validated(r)]
  /\ UNCHANGED <<organizations, users, name, status, faults>>

LookUpEmail(r) ==
  /\ place[r] = "email"
  /\ IF Taken(email[r]) THEN Tell(r, "conflict") ELSE Goes(r, "org") /\ UNCHANGED status
  /\ UNCHANGED <<organizations, users, form, faults>>

LookUpOrganization(r) ==
  /\ place[r] = "org"
  /\ Goes(r, IF name[r] \in organizations THEN "user" ELSE "newOrg")
  /\ UNCHANGED <<organizations, users, form, status, faults>>

\* Mutant of NameTaken: the service's handler covers both inserts.
NameTakenHandled(r) == Tell(r, "conflict")

\* add_organization's AlreadyExistsError: nobody on the way handles it.
NameTaken(r) == Tell(r, "error")

\* A transaction of its own.
AddOrganization(r) ==
  /\ place[r] = "newOrg"
  /\ \/ /\ name[r] \notin organizations
        /\ organizations' = organizations \cup {name[r]}
        /\ Goes(r, "user")
        /\ UNCHANGED status
     \/ /\ name[r] \in organizations
        /\ NameTaken(r)
        /\ UNCHANGED organizations
  /\ UNCHANGED <<users, form, faults>>

\* Mutant of Inserted: the transaction is not committed.
InsertedNot(r) == users

Inserted(r) ==
  users \cup {[email |-> email[r], organization |-> name[r], request |-> r]}

\* The unique index.
EmailFree(e) == ~ Taken(e)

AddUser(r) ==
  /\ place[r] = "user"
  /\ \/ /\ EmailFree(email[r])
        /\ users' = Inserted(r)
        /\ Tell(r, "created")
     \/ /\ ~ EmailFree(email[r])
        /\ Tell(r, "conflict")
        /\ UNCHANGED users
  /\ UNCHANGED <<organizations, form, faults>>

\* StorageError from any statement, or the API stops: the open transaction is
\* rolled back, or its commit took effect without the API hearing of it.
Fails(r) ==
  /\ place[r] \notin {"idle", "done"}
  /\ faults < MaxFaults
  /\ faults' = faults + 1
  /\ Tell(r, "unavailable")
  /\ \/ UNCHANGED <<organizations, users>>
     \/ /\ place[r] = "newOrg"
        /\ organizations' = organizations \cup {name[r]}
        /\ UNCHANGED users
     \/ /\ place[r] = "user" /\ EmailFree(email[r])
        /\ users' = Inserted(r)
        /\ UNCHANGED organizations
  /\ UNCHANGED form

Register(r) ==
  \/ Send(r) \/ LookUpEmail(r) \/ LookUpOrganization(r)
  \/ AddOrganization(r) \/ AddUser(r) \/ Fails(r)

Next == \E r \in Requests : Register(r)

Spec == Init /\ [][Next]_vars

---------------------------------------------------------------------------

\* One account per address, however it is spelled and whoever is first: the
\* check in the service alone would let two racing requests through.
OneAccountPerAddress ==
  \A u, v \in users : Lower[u.email] = Lower[v.email] => u = v

\* What the sender is told is true: "created" means that the account is this
\* request's own, in the organisation it named; "conflict" means that somebody
\* else has the address, also after a lost race; and after an "error" nothing of
\* the request is stored, and its organisation exists, so that it will not lose
\* the same race when it is sent again.
AnswersAreTrue ==
  \A r \in Requests :
    /\ status[r] = "created" =>
         [email |-> email[r], organization |-> name[r], request |-> r] \in users
    /\ status[r] = "conflict" =>
         \E u \in users : u.email = email[r] /\ u.request # r
    /\ status[r] = "error" =>
         name[r] \in organizations /\ \A u \in users : u.request # r

\* UserRepository says of an organisation and its first user that they "must
\* succeed or fail as a unit" (repository.py:16-19): an organisation has an
\* account, or a request that is still under way.  The code does not keep this:
\* add_organization commits on its own (service.py:44), and the user that was to
\* follow may lose its address to another request.
RegisteredAsUnit ==
  \A o \in organizations :
    \/ \E u \in users : u.organization = o
    \/ \E r \in Requests : name[r] = o /\ place[r] \notin {"idle", "done"}

\* What is left of it: an organisation without accounts is not there for no
\* reason.  It has a request that is about to add one, or one whose sender was
\* told that it got none, because its address was taken or because of a fault.
OrganizationsExplained ==
  \A o \in organizations :
    \/ \E u \in users : u.organization = o
    \/ \E r \in Requests : name[r] = o /\ (place[r] = "user" \/ status[r] \in {"conflict", "unavailable"})

---------------------------------------------------------------------------
(* The inductive invariant.                                                *)

\* An account is made by a request that is over, under its own address, and was
\* not told of another request.
UsersInv ==
  \A u \in users :
    LET r == u.request
    IN /\ place[r] = "done" /\ u.email = email[r] /\ u.organization = name[r]
       /\ status[r] \in {"created", "unavailable"}

FormsInv ==
  \A r \in Requests :
    /\ place[r] = "user" => name[r] \in organizations
    /\ place[r] # "idle" => Lower[email[r]] = email[r]
    /\ place[r] # "done" <=> status[r] = "none"

IInv ==
  /\ TypeOK /\ UsersInv /\ FormsInv
  /\ AnswersAreTrue
  /\ \A u \in users : u.organization \in organizations
  /\ \A u, v \in users : u.email = v.email => u = v

=============================================================================
