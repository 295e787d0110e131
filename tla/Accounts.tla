------------------------------ MODULE Accounts ------------------------------
(***************************************************************************)
(* The accounts of modules/backend/routes/auth.mjs over the users table of *)
(* UserRepository.mjs: requests that read, await a query or a hash, and    *)
(* write.  The database applies one statement at a time and refuses a      *)
(* second row with a username or an email (UNIQUE in its schema).          *)
(*                                                                         *)
(* A password is itself, not its hash; tokens live on whatever happens to  *)
(* the account, so that anybody who has one may call.  Lengths, display    *)
(* names and roles are left out, and a logout, which changes nothing.      *)
(***************************************************************************)
EXTENDS Integers, Sequences, FiniteSets

CONSTANTS Names,      \* usernames
          Emails,
          Passwords,
          MaxRequests   \* bound

ASSUME AccountsAssumption == Names # {} /\ Emails # {} /\ Passwords # {}

VARIABLES users,      \* the rows, the id of a user is its index
          tokens,     \* ids that have been issued a token
          requests,   \* each with what it read and where it stands
          changes     \* history: the passwords an account has had

accountsVars == <<users, tokens, requests, changes>>

Nobody == 0
Request == [kind : {"register", "login", "password", "profile"},
            name : Names, email : Emails, password : Passwords, new : Passwords,
            id : Nat,
            pc : {"name", "email", "write", "verified", "200", "201", "401", "409", "500"}]

Some(S) == CHOOSE x \in S : TRUE

AccountsInit == users = <<>> /\ tokens = {} /\ requests = <<>> /\ changes = <<>>

\* find...(): active users only.
FindBy(field, value) ==
  LET found == {u \in DOMAIN users : users[u].active /\ users[u][field] = value}
  IN IF found = {} THEN Nobody ELSE CHOOSE u \in found : TRUE

Arrive(kind, name, email, password, new, id, pc) ==
  /\ Len(requests) < MaxRequests
  /\ requests' = Append(requests, [kind |-> kind, name |-> name, email |-> email,
       password |-> password, new |-> new, id |-> id, pc |-> pc])
  /\ UNCHANGED <<users, tokens, changes>>

Register(name, email, password) ==
  Arrive("register", name, email, password, password, Nobody, "name")
\* The name, or the email of the user in its place.
Login(name, password) ==
  Arrive("login", name, Some(Emails), password, password, Nobody, "name")
ChangePassword(id, current, new) ==
  id \in tokens /\ Arrive("password", Some(Names), Some(Emails), current, new, id, "name")
UpdateProfile(id, email) ==
  id \in tokens /\ Arrive("profile", Some(Names), email, Some(Passwords), Some(Passwords), id, "write")

Goto(r, pc) == requests' = [requests EXCEPT ![r].pc = pc]
At(r, kind, pc) == requests[r].kind = kind /\ requests[r].pc = pc

FindName(r) ==
  /\ At(r, "register", "name")
  /\ Goto(r, IF FindBy("name", requests[r].name) # Nobody THEN "409" ELSE "email")
  /\ UNCHANGED <<users, tokens, changes>>

FindEmail(r) ==
  /\ At(r, "register", "email")
  /\ Goto(r, IF FindBy("email", requests[r].email) # Nobody THEN "409" ELSE "write")
  /\ UNCHANGED <<users, tokens, changes>>

\* Mutant of the next operator: the lookups are relied upon.
UniqueByLookup(name, email) == FindBy("name", name) = Nobody

\* The table's constraints, which count the deactivated.
Unique(name, email) ==
  \A u \in DOMAIN users : users[u].name # name /\ users[u].email # email

CreateUser(r) ==
  /\ At(r, "register", "write")
  /\ LET q == requests[r]
     IN IF Unique(q.name, q.email)
        THEN /\ users' = Append(users, [name |-> q.name, email |-> q.email,
                                        password |-> q.password, active |-> TRUE])
             /\ changes' = Append(changes, <<q.password>>)
             /\ requests' = [requests EXCEPT ![r].pc = "201", ![r].id = Len(users) + 1]
             /\ tokens' = tokens \cup {Len(users) + 1}
        ELSE Goto(r, "500") /\ UNCHANGED <<users, tokens, changes>>

\* The row as it was read is what the password is compared with.
Verify(r) ==
  LET q  == requests[r]
      id == IF q.kind = "login" THEN FindBy("name", q.name)
            ELSE IF users[q.id].active THEN q.id ELSE Nobody
  IN /\ q.kind \in {"login", "password"} /\ q.pc = "name"
     /\ requests' = [requests EXCEPT ![r] =
          [q EXCEPT !.id = IF id = Nobody THEN q.id ELSE id,
                    !.pc = IF id = Nobody THEN (IF q.kind = "login" THEN "401" ELSE "500")
                           ELSE IF users[id].password = q.password THEN "verified" ELSE "401"]]
     /\ UNCHANGED <<users, tokens, changes>>

\* updateLastLogin() and the token.
IssueToken(r) ==
  /\ At(r, "login", "verified") /\ Goto(r, "200")
  /\ tokens' = tokens \cup {requests[r].id}
  /\ UNCHANGED <<users, changes>>

\* After the new hash was awaited; whatever the password is by then.
UpdatePassword(r) ==
  /\ At(r, "password", "verified") /\ Goto(r, "200")
  /\ LET q == requests[r]
     IN /\ users' = [users EXCEPT ![q.id].password = q.new]
        /\ changes' = [changes EXCEPT ![q.id] = Append(@, q.new)]
  /\ UNCHANGED tokens

\* A deactivated user's row is updated, too.
WriteProfile(r) ==
  /\ At(r, "profile", "write")
  /\ LET q == requests[r]
     IN IF \A u \in DOMAIN users \ {q.id} : users[u].email # q.email
        THEN users' = [users EXCEPT ![q.id].email = q.email] /\ Goto(r, "200")
        ELSE Goto(r, "500") /\ UNCHANGED users
  /\ UNCHANGED <<tokens, changes>>

Deactivate(u) ==
  /\ users[u].active /\ users' = [users EXCEPT ![u].active = FALSE]
  /\ UNCHANGED <<tokens, requests, changes>>

AccountsNext ==
  \/ \E name \in Names, email \in Emails, p \in Passwords : Register(name, email, p)
  \/ \E name \in Names, p \in Passwords : Login(name, p)
  \/ \E id \in tokens, p, new \in Passwords : ChangePassword(id, p, new)
  \/ \E id \in tokens, email \in Emails : UpdateProfile(id, email)
  \/ \E r \in DOMAIN requests : \/ FindName(r) \/ FindEmail(r) \/ CreateUser(r) \/ Verify(r)
                                \/ IssueToken(r) \/ UpdatePassword(r) \/ WriteProfile(r)
  \/ \E u \in DOMAIN users : Deactivate(u)

AccountsSpec == AccountsInit /\ [][AccountsNext]_accountsVars

----------------------------------------------------------------------------
\* /me, and what the repository lists, counts and finds.
Me(id) == IF users[id].active THEN id ELSE Nobody
List == {u \in DOMAIN users : users[u].active}
Count == Cardinality(List)
Search(term) == {u \in List : term \in {users[u].name, users[u].email}}

----------------------------------------------------------------------------
AccountsTyped ==
  /\ users \in Seq([name : Names, email : Emails, password : Passwords, active : BOOLEAN])
  /\ tokens \subseteq DOMAIN users
  /\ requests \in Seq(Request)
  /\ changes \in Seq(Seq(Passwords))

\* Registrations that overlap between the lookup and the insert still make one
\* account for a name and for an email, each told so by one 201 only; and a password
\* is only ever replaced by a request that gave one the account had before
\* (not always the last one: the check is older than the write).  Whoever is still
\* active, and nobody else, is found by its own name and by its own email.
AccountsSound ==
  /\ \A u, v \in DOMAIN users : u # v =>
       users[u].name # users[v].name /\ users[u].email # users[v].email
  /\ \A r, q \in DOMAIN requests :
       r # q /\ requests[r].pc = "201" /\ requests[q].pc = "201" => requests[r].id # requests[q].id
  /\ \A u \in DOMAIN users : users[u].password = changes[u][Len(changes[u])]
  /\ \A r \in DOMAIN requests : requests[r].kind = "password" /\ requests[r].pc = "200" =>
       \E i \in 1..(Len(changes[requests[r].id]) - 1) : changes[requests[r].id][i] = requests[r].password
  /\ \A u \in tokens : Me(u) = u <=> FindBy("name", users[u].name) = u /\ FindBy("email", users[u].email) = u
  /\ UNION {Search(term) : term \in Names \cup Emails} = List
  /\ Count <= Cardinality({r \in DOMAIN requests : requests[r].pc = "201"})
=============================================================================
