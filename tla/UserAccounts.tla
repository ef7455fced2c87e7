---------------------------- MODULE UserAccounts ----------------------------
(***************************************************************************)
(* The tables users and user_roles and what changes them except a          *)
(* redemption: registration with its mailed code (worker/src/user_api/     *)
(* user.ts), the OAuth2 callback (oauth2.ts) and the admin's endpoints     *)
(* (admin_api/admin_user_api.ts).  One action per awaited statement.       *)
(***************************************************************************)
EXTENDS Sql, Naturals, FiniteSetsExt

CONSTANTS MaxUser,      \* bound on user ids
          Emails,       \* who registers
          Passwords,    \* password hashes; OAuth2 accounts have NoPassword
          NoPassword,
          Pins,         \* verification codes
          Calls,        \* requests to these endpoints
          Roles,        \* USER_ROLES, the admin role among them
          DefaultRole   \* USER_DEFAULT_ROLE, Null when it is not configured

Users == 1..MaxUser

ASSUME AccountAssumption ==
  /\ MaxUser \in Nat \ {0}
  /\ DefaultRole \in Roles \cup {Null} /\ Null \notin Roles
  /\ Null \notin Pins
  /\ NoPassword \notin Passwords

VARIABLES users,      \* table users, Null for no row
          roles,      \* table user_roles: Null for no row, NULL or ''
          verifying,  \* setting enableMailVerify
          pins,       \* KV temp-mail:*
          call,       \* the requests' local state
          mailed,     \* history: the codes that were mailed to an email
          adjusted    \* history: ids whose role an admin ever set or removed

accountVars == <<users, roles, verifying, pins, call, mailed, adjusted>>

Uncalled == [pc |-> "idle", kind |-> "register", email |-> Null, password |-> Null,
             pin |-> Null, id |-> Null, new |-> FALSE, reply |-> "none"]

Registered(i) == users[i] # Null
Ids(e) == {i \in Users : Registered(i) /\ users[i].email = e}

\* INTEGER PRIMARY KEY without AUTOINCREMENT.
NextUser == Max({0} \cup {i \in Users : Registered(i)}) + 1

AccountInit(emails, role, verified) ==
  /\ users = [i \in Users |->
                IF i \in DOMAIN emails THEN [email |-> emails[i], password |-> NoPassword] ELSE Null]
  /\ roles = [i \in Users |-> IF i \in DOMAIN emails THEN role ELSE Null]
  /\ verifying = verified
  /\ pins = [e \in Emails |-> Null]
  /\ call = [k \in Calls |-> Uncalled]
  /\ mailed = [e \in Emails |-> {}]
  /\ adjusted = {}

CallAt(k, place) == call[k].pc = place
Onward(k, place) == call' = [call EXCEPT ![k].pc = place]
Answered(k, reply) == call' = [call EXCEPT ![k].pc = "done", ![k].reply = reply]

Insert(e, p) ==
  /\ NextUser \in Users
  /\ users' = [users EXCEPT ![NextUser] = [email |-> e, password |-> p]]

-----------------------------------------------------------------------------
(* The mailed code. *)

\* KV.get: nothing is sent while a code is there.
AskPin(k, e) ==
  /\ CallAt(k, "idle")
  /\ IF pins[e] # Null THEN Answered(k, "refused")
     ELSE \E pin \in Pins \ mailed[e] :
            call' = [call EXCEPT ![k] = [Uncalled EXCEPT !.pc = "mail", !.kind = "verify",
                                                         !.email = e, !.pin = pin]]
  /\ UNCHANGED <<users, roles, verifying, pins, mailed, adjusted>>

MailPin(k) ==
  /\ CallAt(k, "mail")
  /\ \/ Answered(k, "refused") /\ UNCHANGED mailed
     \/ Onward(k, "keep") /\ mailed' = [mailed EXCEPT ![call[k].email] = @ \cup {call[k].pin}]
  /\ UNCHANGED <<users, roles, verifying, pins, adjusted>>

KeepPin(k) ==
  /\ CallAt(k, "keep")
  /\ pins' = [pins EXCEPT ![call[k].email] = call[k].pin]
  /\ Answered(k, "ok")
  /\ UNCHANGED <<users, roles, verifying, mailed, adjusted>>

\* expirationTtl: five minutes; using the code does not remove it.
PinExpires(e) ==
  /\ pins[e] # Null
  /\ pins' = [pins EXCEPT ![e] = Null]
  /\ UNCHANGED <<users, roles, verifying, call, mailed, adjusted>>

-----------------------------------------------------------------------------
(* Registration and the OAuth2 callback. *)

\* The settings are read once, at the start.
Register(k, e, p, pin) ==
  /\ CallAt(k, "idle")
  /\ call' = [call EXCEPT ![k] = [Uncalled EXCEPT
                !.pc = IF verifying THEN "check" ELSE "insert",
                !.email = e, !.password = p, !.pin = pin]]
  /\ UNCHANGED <<users, roles, verifying, pins, mailed, adjusted>>

\* Mutant: an empty KV entry is no reason to refuse.
CheckPinIfAny(k) ==
  /\ CallAt(k, "check")
  /\ IF pins[call[k].email] \in {Null, call[k].pin} THEN Onward(k, "upsert") ELSE Answered(k, "refused")
  /\ UNCHANGED <<users, roles, verifying, pins, mailed, adjusted>>

CheckPin(k) ==
  /\ CallAt(k, "check")
  /\ IF pins[call[k].email] = call[k].pin THEN Onward(k, "upsert") ELSE Answered(k, "refused")
  /\ UNCHANGED <<users, roles, verifying, pins, mailed, adjusted>>

\* Without verification: a plain INSERT, UNIQUE(user_email), and no role.
InsertUser(k) ==
  /\ CallAt(k, "insert")
  /\ IF Ids(call[k].email) # {} THEN Answered(k, "refused") /\ UNCHANGED users
     ELSE Insert(call[k].email, call[k].password) /\ Answered(k, "ok")
  /\ UNCHANGED <<roles, verifying, pins, mailed, adjusted>>

\* ON CONFLICT(user_email) DO UPDATE, of the password when it was registered
\* and of updated_at alone after an OAuth2 login.
Upsert(k, next, password) ==
  LET ids == Ids(call[k].email)
  IN /\ IF ids = {} THEN Insert(call[k].email, password)
        ELSE users' = [i \in Users |->
                 IF i \in ids /\ password # NoPassword
                   THEN [users[i] EXCEPT !.password = password] ELSE users[i]]
     /\ call' = [call EXCEPT ![k].pc = next, ![k].new = ids = {},
                   ![k].reply = IF next = "done" THEN "ok" ELSE @]
     /\ UNCHANGED <<roles, verifying, pins, mailed, adjusted>>

UpsertRegistered(k) ==
  /\ CallAt(k, "upsert")
  /\ Upsert(k, IF DefaultRole = Null THEN "done" ELSE "find", call[k].password)

\* The provider's calls end with an email, or the request ends.
OAuthLogin(k, e) ==
  /\ CallAt(k, "idle")
  /\ call' = [call EXCEPT ![k] = [Uncalled EXCEPT !.pc = "login", !.kind = "oauth", !.email = e]]
  /\ UNCHANGED <<users, roles, verifying, pins, mailed, adjusted>>

UpsertLoggedIn(k) == CallAt(k, "login") /\ Upsert(k, "find", NoPassword)

\* SELECT id FROM users WHERE user_email = ?
FindId(k) ==
  /\ CallAt(k, "find")
  /\ LET ids == Ids(call[k].email)
     IN IF ids = {} THEN Answered(k, "refused")
        ELSE call' = [call EXCEPT ![k].id = CHOOSE i \in ids : TRUE,
                        ![k].pc = IF DefaultRole = Null THEN "done" ELSE "role",
                        ![k].reply = IF DefaultRole = Null THEN "ok" ELSE @]
  /\ UNCHANGED <<users, roles, verifying, pins, mailed, adjusted>>

\* INSERT INTO user_roles ... ON CONFLICT(user_id) DO NOTHING
GiveDefaultRole(k) ==
  /\ CallAt(k, "role")
  /\ roles' = [roles EXCEPT ![call[k].id] = IF @ = Null THEN DefaultRole ELSE @]
  /\ Answered(k, "ok")
  /\ UNCHANGED <<users, verifying, pins, mailed, adjusted>>

\* A statement throws or the isolate dies.
CallDies(k) ==
  /\ call[k].pc \notin {"idle", "done"}
  /\ Answered(k, "lost")
  /\ UNCHANGED <<users, roles, verifying, pins, mailed, adjusted>>

CallStep(k) ==
  \/ MailPin(k) \/ KeepPin(k)
  \/ CheckPin(k) \/ InsertUser(k) \/ UpsertRegistered(k)
  \/ UpsertLoggedIn(k) \/ FindId(k) \/ GiveDefaultRole(k)
  \/ CallDies(k)

CallStarts(k, e) ==
  \/ AskPin(k, e) \/ OAuthLogin(k, e)
  \/ \E p \in Passwords, pin \in Pins : Register(k, e, p, pin)

-----------------------------------------------------------------------------
(* The admin. *)

SaveUserSettings ==
  /\ verifying' = ~verifying
  /\ UNCHANGED <<users, roles, pins, call, mailed, adjusted>>

CreateUser(e, p) ==
  /\ Ids(e) = {}
  /\ Insert(e, p)
  /\ UNCHANGED <<roles, verifying, pins, call, mailed, adjusted>>

\* The row in user_roles stays.
DeleteUser(i) ==
  /\ Registered(i)
  /\ users' = [users EXCEPT ![i] = Null]
  /\ UNCHANGED <<roles, verifying, pins, call, mailed, adjusted>>

ResetPassword(i, p) ==
  /\ Registered(i)
  /\ users' = [users EXCEPT ![i].password = p]
  /\ UNCHANGED <<roles, verifying, pins, call, mailed, adjusted>>

\* An upsert, or a DELETE when the role is empty.
UpdateUserRoles(i, role) ==
  /\ roles' = [roles EXCEPT ![i] = role]
  /\ adjusted' = adjusted \cup {i}
  /\ UNCHANGED <<users, verifying, pins, call, mailed>>

-----------------------------------------------------------------------------
\* The password of an account changes only by an admin's reset or by somebody
\* who has read a code mailed to its email, whatever the settings become while
\* requests are under way, and OAuth2 logins keep it (user.ts register,
\* oauth2.ts oauth2Login).
PasswordKept ==
  [][\A i \in Users :
       Registered(i) /\ Registered(i)' /\ users'[i].password # users[i].password =>
         \/ \E p \in Passwords : ResetPassword(i, p)
         \/ \E k \in Calls : call'[k] # call[k] /\ call[k].pin \in mailed[users[i].email]
    ]_accountVars
=============================================================================
