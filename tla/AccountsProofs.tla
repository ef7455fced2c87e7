--------------------------- MODULE AccountsProofs ---------------------------
(***************************************************************************)
(* For every number of users, requests, codes and page calls: passwords    *)
(* change only as they may, one role code wins and leaves the role in its  *)
(* result, role redemption implements the ledger, and a page renews an     *)
(* expired token once and only for requests of its session.                *)
(***************************************************************************)
EXTENDS Accounts, SharedLemmas

-----------------------------------------------------------------------------
(* Accounts: types. *)

User == [email : Emails, password : Passwords \cup {NoPassword}]

CallState ==
  [pc : {"idle", "mail", "keep", "check", "insert", "upsert", "login", "find", "role", "done"},
   kind : {"register", "verify", "oauth"}, email : Emails \cup {Null},
   password : Passwords \cup {Null}, pin : Pins \cup {Null}, id : Users \cup {Null},
   new : BOOLEAN, reply : {"none", "ok", "refused", "lost"}]

AccountTypeOK ==
  /\ users \in [Users -> User \cup {Null}]
  /\ roles \in [Users -> Roles \cup {Null}]
  /\ verifying \in BOOLEAN
  /\ pins \in [Emails -> Pins \cup {Null}]
  /\ call \in [Calls -> CallState]
  /\ mailed \in [Emails -> SUBSET Pins]
  /\ adjusted \subseteq Users

\* A request under way knows its email, and a registration its password.
CallsSet ==
  \A k \in Calls :
    /\ call[k].pc \notin {"idle", "done"} => call[k].email \in Emails
    /\ call[k].pc \in {"check", "insert", "upsert"} => call[k].password \in Passwords
    /\ call[k].pc \in {"mail", "keep", "check"} => call[k].pin \in Pins

\* A code that is kept, about to be kept or accepted was mailed to its email.
PinsAreMailed ==
  /\ \A e \in Emails : pins[e] # Null => pins[e] \in mailed[e]
  /\ \A k \in Calls : call[k].pc \in {"keep", "upsert"} => call[k].pin \in mailed[call[k].email]

\* The inductive invariant behind PasswordKept.
AccountInv ==
  /\ AccountTypeOK
  /\ CallsSet
  /\ PinsAreMailed

\* The ids a world calls or administers with.
WorldSet ==
  /\ world.emails \in Seq(Emails) /\ world.role \in Roles \cup {Null} /\ world.verifying \in BOOLEAN
  /\ world.callers \subseteq Emails /\ world.redeemers \subseteq Emails /\ world.created \subseteq Emails
  /\ world.passwords \subseteq Passwords
  /\ world.administered \subseteq Users /\ world.given \subseteq Roles \cup {Null}
  /\ world.tokens \subseteq UserTokens \cup {Null}

\* A new id is one nobody has.
LEMMA NextUserIsFree ==
  ASSUME NEW i \in Users, i = NextUser
  PROVE  ~Registered(i)
<1> DEFINE S == {0} \cup {j \in Users : Registered(j)}
           Bounds == {n \in Nat : \A j \in S : j <= n}
<1>1. S \in SUBSET Nat /\ 0 \in S
  BY AccountAssumption DEF Users
<1>2. MaxUser \in Bounds
  BY AccountAssumption DEF Users
<1>3. PICK n \in Bounds : \A m \in Bounds : n <= m
  BY <1>2, LeastNat
<1>4. n \in S
  <2>1. SUFFICES ASSUME n \notin S PROVE FALSE
    OBVIOUS
  <2>2. \A j \in S : j \in Nat /\ j < n
    BY <1>1, <1>3, <2>1
  <2>3. n - 1 \in Nat
    BY <1>1, <1>3, <2>2
  <2>4. n - 1 \in Bounds
    BY <1>3, <2>2, <2>3
  <2> QED BY <1>3, <2>4
<1>5. Max(S) \in S /\ \A j \in S : Max(S) >= j
  <2>1. \A j \in S : n >= j
    BY <1>1, <1>3
  <2> QED BY <1>4, <2>1 DEF Max
<1> QED BY <1>1, <1>5 DEF NextUser

LEMMA InitAccount == Init => AccountInv /\ WorldSet
<1> SUFFICES ASSUME Init PROVE AccountInv /\ WorldSet
  OBVIOUS
<1>1. WorldSet
  BY WorldAssumption DEF Init, WorldSet
<1>2. Uncalled \in CallState
  BY DEF Uncalled, CallState
<1>3. \A i \in DOMAIN world.emails : [email |-> world.emails[i], password |-> NoPassword] \in User
  BY <1>1 DEF WorldSet, User
<1>4. AccountTypeOK
  BY <1>1, <1>2, <1>3 DEF Init, AccountInit, AccountTypeOK, WorldSet
<1>5. CallsSet /\ PinsAreMailed
  BY DEF Init, AccountInit, CallsSet, PinsAreMailed, Uncalled
<1> QED BY <1>1, <1>4, <1>5 DEF AccountInv

\* A new account is an account.
LEMMA InsertType ==
  ASSUME AccountTypeOK, NEW e \in Emails, NEW p \in Passwords \cup {NoPassword}, Insert(e, p)
  PROVE  users' \in [Users -> User \cup {Null}]
BY DEF Insert, AccountTypeOK, User

\* What a step of one request does to the requests.
LEMMA OneCall ==
  ASSUME AccountInv, NEW k \in Calls, NEW x \in CallState, call' = [call EXCEPT ![k] = x],
         mailed' \in [Emails -> SUBSET Pins], \A e \in Emails : mailed[e] \subseteq mailed'[e],
         pins' \in [Emails -> Pins \cup {Null}], \A e \in Emails : pins'[e] # Null => pins'[e] \in mailed'[e],
         x.pc \notin {"idle", "done"} => x.email \in Emails,
         x.pc \in {"check", "insert", "upsert"} => x.password \in Passwords,
         x.pc \in {"mail", "keep", "check"} => x.pin \in Pins,
         x.pc \in {"keep", "upsert"} => x.pin \in mailed'[x.email],
         users' \in [Users -> User \cup {Null}], roles' \in [Users -> Roles \cup {Null}],
         UNCHANGED <<verifying, adjusted>>
  PROVE  AccountInv'
<1>1. call'[k] = x /\ \A q \in Calls \ {k} : call'[q] = call[q]
  BY DEF AccountInv, AccountTypeOK
<1>2. AccountTypeOK'
  BY DEF AccountInv, AccountTypeOK
<1>3. CallsSet'
  BY <1>1 DEF AccountInv, CallsSet
<1>4. PinsAreMailed'
  BY <1>1 DEF AccountInv, CallsSet, PinsAreMailed
<1> QED BY <1>2, <1>3, <1>4 DEF AccountInv


\* Every statement of a request keeps what it needs for the next one.
LEMMA CallsKeepAccount ==
  ASSUME AccountInv, NEW k \in Calls, CallStep(k)
  PROVE  AccountInv'
<1> DEFINE e == call[k].email
<1>0. /\ AccountTypeOK /\ CallsSet /\ PinsAreMailed /\ call[k] \in CallState
      /\ users \in [Users -> User \cup {Null}] /\ roles \in [Users -> Roles \cup {Null}]
      /\ pins \in [Emails -> Pins \cup {Null}] /\ mailed \in [Emails -> SUBSET Pins]
      /\ \A d \in Emails : pins[d] # Null => pins[d] \in mailed[d]
  BY DEF AccountInv, AccountTypeOK, PinsAreMailed
<1>1. ASSUME NEW reply \in {"none", "ok", "refused", "lost"}, Answered(k, reply),
             UNCHANGED <<verifying, mailed, adjusted>>,
             users' \in [Users -> User \cup {Null}], roles' \in [Users -> Roles \cup {Null}],
             pins' \in [Emails -> Pins \cup {Null}], \A d \in Emails : pins'[d] # Null => pins'[d] \in mailed[d]
      PROVE  AccountInv'
  <2> DEFINE x == [call[k] EXCEPT !.pc = "done", !.reply = reply]
  <2>1. x \in CallState /\ x.pc = "done" /\ call' = [call EXCEPT ![k] = x]
    BY <1>0, <1>1 DEF Answered, CallState, AccountTypeOK
  <2> HIDE DEF x
  <2> QED BY <1>0, <1>1, <2>1, OneCall
<1>2. CASE MailPin(k)
  <2>1. CASE Answered(k, "refused") /\ UNCHANGED mailed
    BY <1>0, <1>1, <1>2, <2>1 DEF MailPin
  <2>2. CASE Onward(k, "keep") /\ mailed' = [mailed EXCEPT ![e] = @ \cup {call[k].pin}]
    <3> DEFINE x == [call[k] EXCEPT !.pc = "keep"]
    <3>1. /\ x \in CallState /\ x.pc = "keep" /\ x.email = e /\ x.pin = call[k].pin
          /\ call' = [call EXCEPT ![k] = x] /\ e \in Emails /\ call[k].pin \in Pins
      BY <1>0, <1>2, <2>2 DEF MailPin, CallAt, Onward, CallState, AccountTypeOK, CallsSet
    <3>2. /\ mailed' \in [Emails -> SUBSET Pins] /\ \A d \in Emails : mailed[d] \subseteq mailed'[d]
          /\ call[k].pin \in mailed'[e]
      BY <1>0, <2>2, <3>1
    <3> HIDE DEF x, e
    <3> QED BY <1>0, <1>2, <3>1, <3>2, OneCall DEF MailPin
  <2> QED BY <1>2, <2>1, <2>2 DEF MailPin
<1>3. CASE KeepPin(k)
  <2>1. e \in Emails /\ call[k].pin \in mailed[e] /\ call[k].pin \in Pins
    BY <1>0, <1>3 DEF KeepPin, CallAt, CallsSet, PinsAreMailed
  <2>2. /\ pins' \in [Emails -> Pins \cup {Null}]
        /\ \A d \in Emails : pins'[d] # Null => pins'[d] \in mailed[d]
    BY <1>0, <1>3, <2>1 DEF KeepPin
  <2> QED BY <1>0, <1>1, <1>3, <2>2 DEF KeepPin
<1>4. CASE CheckPin(k)
  <2>1. CASE pins[e] = call[k].pin
    <3> DEFINE x == [call[k] EXCEPT !.pc = "upsert"]
    <3>1. /\ x \in CallState /\ x.pc = "upsert" /\ x.email = e /\ x.pin = call[k].pin
          /\ x.password = call[k].password
          /\ call' = [call EXCEPT ![k] = x] /\ e \in Emails /\ call[k].pin \in Pins
          /\ call[k].password \in Passwords
      BY <1>0, <1>4, <2>1 DEF CheckPin, CallAt, Onward, CallState, AccountTypeOK, CallsSet
    <3>2. call[k].pin \in mailed[e]
      BY <1>0, <2>1, <3>1, AccountAssumption
    <3> HIDE DEF x, e
    <3> QED BY <1>0, <1>4, <3>1, <3>2, OneCall DEF CheckPin
  <2>2. CASE pins[e] # call[k].pin
    BY <1>0, <1>1, <1>4, <2>2 DEF CheckPin
  <2> QED BY <2>1, <2>2
<1>5. CASE InsertUser(k)
  <2>1. e \in Emails /\ call[k].password \in Passwords
    BY <1>0, <1>5 DEF InsertUser, CallAt, CallsSet
  <2>2. users' \in [Users -> User \cup {Null}]
    BY <1>0, <1>5, <2>1, InsertType DEF InsertUser
  <2>3. Answered(k, "refused") \/ Answered(k, "ok")
    BY <1>5 DEF InsertUser
  <2> QED BY <1>0, <1>1, <1>5, <2>2, <2>3 DEF InsertUser
<1>6. ASSUME NEW next \in {"done", "find"}, NEW p \in Passwords \cup {NoPassword}, Upsert(k, next, p),
             e \in Emails
      PROVE  AccountInv'
  <2> DEFINE x == [call[k] EXCEPT !.pc = next, !.new = (Ids(e) = {}),
                                  !.reply = IF next = "done" THEN "ok" ELSE @]
  <2>1. /\ x \in CallState /\ x.pc = next /\ x.email = e /\ call' = [call EXCEPT ![k] = x]
    BY <1>0, <1>6 DEF Upsert, CallState, AccountTypeOK
  <2>2. users' \in [Users -> User \cup {Null}]
    <3>1. CASE Ids(e) = {}
      BY <1>0, <1>6, <3>1, InsertType DEF Upsert
    <3>2. CASE Ids(e) # {}
      <4>1. \A i \in Ids(e) : users[i] \in User
        BY <1>0 DEF Ids, Registered
      <4>2. users' = [i \in Users |-> IF i \in Ids(e) /\ p # NoPassword
                                        THEN [users[i] EXCEPT !.password = p] ELSE users[i]]
        BY <1>6, <3>2 DEF Upsert
      <4>3. \A u \in User : [u EXCEPT !.password = p] \in User
        BY DEF User
      <4> QED BY <1>0, <4>1, <4>2, <4>3
    <3> QED BY <3>1, <3>2
  <2> HIDE DEF x, e
  <2> QED BY <1>0, <1>6, <2>1, <2>2, OneCall DEF Upsert, e
<1>7. CASE UpsertRegistered(k)
  <2>1. e \in Emails /\ call[k].password \in Passwords
    BY <1>0, <1>7 DEF UpsertRegistered, CallAt, CallsSet
  <2> QED BY <1>6, <1>7, <2>1 DEF UpsertRegistered
<1>8. CASE UpsertLoggedIn(k)
  <2>1. e \in Emails
    BY <1>0, <1>8 DEF UpsertLoggedIn, CallAt, CallsSet
  <2> QED BY <1>6, <1>8, <2>1 DEF UpsertLoggedIn
<1>9. CASE FindId(k)
  <2>1. CASE Ids(e) = {}
    BY <1>0, <1>1, <1>9, <2>1 DEF FindId
  <2>2. CASE Ids(e) # {}
    <3> DEFINE x == [call[k] EXCEPT !.id = CHOOSE i \in Ids(e) : TRUE,
                       !.pc = IF DefaultRole = Null THEN "done" ELSE "role",
                       !.reply = IF DefaultRole = Null THEN "ok" ELSE @]
    <3>1. (CHOOSE i \in Ids(e) : TRUE) \in Users
      BY <2>2 DEF Ids
    <3>2. /\ x \in CallState /\ x.pc \in {"done", "role"} /\ x.email = e
          /\ call' = [call EXCEPT ![k] = x] /\ e \in Emails
      BY <1>0, <1>9, <2>2, <3>1 DEF FindId, CallAt, CallState, AccountTypeOK, CallsSet
    <3> HIDE DEF x, e
    <3> QED BY <1>0, <1>9, <3>2, OneCall DEF FindId
  <2> QED BY <2>1, <2>2
<1>10. CASE GiveDefaultRole(k)
  <2>1. roles' \in [Users -> Roles \cup {Null}]
    BY <1>0, <1>10, AccountAssumption DEF GiveDefaultRole
  <2> QED BY <1>0, <1>1, <1>10, <2>1 DEF GiveDefaultRole
<1>11. CASE CallDies(k)
  BY <1>0, <1>1, <1>11 DEF CallDies
<1> QED
  BY <1>2, <1>3, <1>4, <1>5, <1>7, <1>8, <1>9, <1>10, <1>11 DEF CallStep

\* A request starts with what it was called with.
LEMMA StartsKeepAccount ==
  ASSUME AccountInv, NEW k \in Calls, NEW e \in Emails, CallStarts(k, e)
  PROVE  AccountInv'
<1>0. /\ AccountTypeOK /\ CallsSet /\ PinsAreMailed /\ call[k] \in CallState
      /\ users \in [Users -> User \cup {Null}] /\ roles \in [Users -> Roles \cup {Null}]
      /\ pins \in [Emails -> Pins \cup {Null}] /\ mailed \in [Emails -> SUBSET Pins]
      /\ \A d \in Emails : pins[d] # Null => pins[d] \in mailed[d]
  BY DEF AccountInv, AccountTypeOK, PinsAreMailed
<1>1. CASE AskPin(k, e)
  <2>1. CASE pins[e] # Null
    <3> DEFINE x == [call[k] EXCEPT !.pc = "done", !.reply = "refused"]
    <3>1. x \in CallState /\ x.pc = "done" /\ call' = [call EXCEPT ![k] = x]
      BY <1>0, <1>1, <2>1 DEF AskPin, Answered, CallState, AccountTypeOK
    <3> HIDE DEF x
    <3> QED BY <1>0, <1>1, <3>1, OneCall DEF AskPin
  <2>2. CASE pins[e] = Null
    <3>1. PICK pin \in Pins \ mailed[e] :
            call' = [call EXCEPT ![k] = [Uncalled EXCEPT !.pc = "mail", !.kind = "verify",
                                                         !.email = e, !.pin = pin]]
      BY <1>1, <2>2 DEF AskPin
    <3> DEFINE x == [Uncalled EXCEPT !.pc = "mail", !.kind = "verify", !.email = e, !.pin = pin]
    <3>2. x \in CallState /\ x.pc = "mail" /\ x.email = e /\ x.pin = pin
      BY DEF Uncalled, CallState
    <3> HIDE DEF x
    <3>3. call' = [call EXCEPT ![k] = x]
      BY <3>1 DEF x
    <3> QED BY <1>0, <1>1, <3>2, <3>3, OneCall DEF AskPin
  <2> QED BY <2>1, <2>2
<1>2. CASE OAuthLogin(k, e)
  <2> DEFINE x == [Uncalled EXCEPT !.pc = "login", !.kind = "oauth", !.email = e]
  <2>1. x \in CallState /\ x.pc = "login" /\ x.email = e /\ call' = [call EXCEPT ![k] = x]
    BY <1>2 DEF OAuthLogin, Uncalled, CallState
  <2> HIDE DEF x
  <2> QED BY <1>0, <1>2, <2>1, OneCall DEF OAuthLogin
<1>3. ASSUME NEW p \in Passwords, NEW pin \in Pins, Register(k, e, p, pin)
      PROVE  AccountInv'
  <2> DEFINE x == [Uncalled EXCEPT !.pc = IF verifying THEN "check" ELSE "insert",
                                   !.email = e, !.password = p, !.pin = pin]
  <2>1. /\ x \in CallState /\ x.pc \in {"check", "insert"} /\ x.email = e /\ x.password = p
        /\ x.pin = pin /\ call' = [call EXCEPT ![k] = x]
    BY <1>3 DEF Register, Uncalled, CallState
  <2> HIDE DEF x
  <2> QED BY <1>0, <1>3, <2>1, OneCall DEF Register
<1> QED BY <1>1, <1>2, <1>3 DEF CallStarts

\* What the admin and the clock do leaves the requests alone.
LEMMA AdminKeepsAccount ==
  ASSUME AccountInv, WorldSet, Admin
  PROVE  AccountInv'
<1>0. /\ users \in [Users -> User \cup {Null}] /\ roles \in [Users -> Roles \cup {Null}]
      /\ pins \in [Emails -> Pins \cup {Null}]
  BY DEF AccountInv, AccountTypeOK
<1>1. ASSUME UNCHANGED <<call, mailed>>, verifying' \in BOOLEAN, adjusted' \subseteq Users,
             users' \in [Users -> User \cup {Null}], roles' \in [Users -> Roles \cup {Null}],
             pins' \in [Emails -> Pins \cup {Null}], \A d \in Emails : pins'[d] \in {Null, pins[d]}
      PROVE  AccountInv'
  BY <1>1 DEF AccountInv, AccountTypeOK, CallsSet, PinsAreMailed
<1>2. verifying \in BOOLEAN /\ adjusted \subseteq Users
  BY DEF AccountInv, AccountTypeOK
<1>3. ASSUME NEW p \in world.passwords, NEW e \in world.created, CreateUser(e, p) PROVE AccountInv'
  <2>1. users' \in [Users -> User \cup {Null}]
    BY <1>3, InsertType DEF CreateUser, WorldSet, AccountInv
  <2> QED BY <1>0, <1>1, <1>2, <1>3, <2>1 DEF CreateUser
<1>4. ASSUME NEW p \in world.passwords, NEW i \in world.administered, ResetPassword(i, p)
      PROVE  AccountInv'
  <2>1. users[i] \in User /\ p \in Passwords /\ i \in Users
    BY <1>0, <1>4 DEF ResetPassword, Registered, WorldSet
  <2>2. users' \in [Users -> User \cup {Null}]
    BY <1>0, <1>4, <2>1 DEF ResetPassword, User
  <2> QED BY <1>0, <1>1, <1>2, <1>4, <2>2 DEF ResetPassword
<1>5. ASSUME NEW i \in world.administered, DeleteUser(i) PROVE AccountInv'
  BY <1>0, <1>1, <1>2, <1>5 DEF DeleteUser
<1>6. ASSUME NEW i \in world.administered, NEW role \in world.given, UpdateUserRoles(i, role)
      PROVE  AccountInv'
  <2>1. role \in Roles \cup {Null} /\ i \in Users
    BY <1>6 DEF WorldSet
  <2> QED BY <1>0, <1>1, <1>2, <1>6, <2>1 DEF UpdateUserRoles
<1>7. CASE SaveUserSettings
  BY <1>0, <1>1, <1>2, <1>7 DEF SaveUserSettings
<1>8. ASSUME NEW e \in world.callers, PinExpires(e) PROVE AccountInv'
  BY <1>0, <1>1, <1>2, <1>8 DEF PinExpires
<1> QED BY <1>3, <1>4, <1>5, <1>6, <1>7, <1>8 DEF Admin

-----------------------------------------------------------------------------
(* Codes for roles. *)

RoleResult == [to : Users, role : Values, by : Requests]

RoleGrant == [code : Codes, value : Values, to : Users, by : Requests]

RequestState ==
  [pc : {"start", "user", "role", "batch", "reply", "done"}, code : Codes \cup {Null},
   value : Values \cup {Null}, email : Emails \cup {Null}, to : Users \cup {Null},
   reply : {"none", "ok", "refused", "lost"}]

RoleTypeOK ==
  /\ codes \in [Codes -> CodeRow(RoleResult)]
  /\ req \in [Requests -> RequestState]
  /\ grants \subseteq RoleGrant

\* The request has passed getRedeemCodeForRedemption, and then found its user.
LocalsSet ==
  \A r \in Requests :
    /\ req[r].pc \in {"user", "role", "batch"} =>
         req[r].code \in Codes /\ req[r].value \in Values /\ req[r].email \in Emails
    /\ req[r].pc \in {"role", "batch"} => req[r].to \in Users

\* A role that was given stays until an admin changes it, unless it is the
\* default, which a code may replace.
GivenRoleStays ==
  \A g \in grants :
    g.to \notin adjusted /\ g.value # DefaultRole => roles[g.to] = g.value

\* The inductive invariant: OneRoleWins compares two grants and says nothing of
\* the role a third one would find, GivenRoleStays does.
RoleInv ==
  /\ RoleTypeOK
  /\ TableShape
  /\ LocalsSet
  /\ ResultIsTheGrant
  /\ GivenRoleStays

LEMMA InitRole == Init => RoleInv
<1> SUFFICES ASSUME Init PROVE RoleInv
  OBVIOUS
<1> USE DEF Init, RoleInit
<1>1. Idle \in RequestState
  BY DEF Idle, RequestState
<1>2. codes \in [Codes -> CodeRow(RoleResult)]
  BY DEF CodesInit, CodeRow, NoRow
<1>3. RoleTypeOK
  BY <1>1, <1>2 DEF RoleTypeOK
<1>4. TableShape /\ ResultIsTheGrant
  BY DEF TableShape, CodesInit, NoRow, ResultIsTheGrant
<1>5. LocalsSet /\ GivenRoleStays
  BY DEF LocalsSet, GivenRoleStays, Idle
<1> QED BY <1>3, <1>4, <1>5 DEF RoleInv

\* The four statements of the batch give all of the redemption or nothing: the
\* mark of one that did not get the role is gone again.
LEMMA BatchOutcome ==
  ASSUME RoleInv, AccountTypeOK, NEW r \in Requests, Batch(r),
         NEW c, c = req[r].code, NEW v, v = req[r].value, NEW u, u = req[r].to
  PROVE  /\ c \in Codes /\ v \in Values /\ u \in Users /\ UNCHANGED adjusted
         /\ \/ /\ Claimable(c, v) /\ Replaceable(roles[u], v)
               /\ codes' = [codes EXCEPT ![c] = Redeemed(c, [to |-> u, role |-> v, by |-> r])]
               /\ roles' = [roles EXCEPT ![u] = v]
               /\ grants' = grants \cup {[code |-> c, value |-> v, to |-> u, by |-> r]}
               /\ req' = Goto(r, "reply")
            \/ /\ UNCHANGED <<codes, roles, grants>>
               /\ req' = Finish(r, "refused")
<1> DEFINE enc == [to |-> u, role |-> v, by |-> r]
           row == codes[c]
           marked == Claimable(c, v)
           afterMark == [row EXCEPT !.result = IF marked THEN enc ELSE @]
           written == marked /\ Writable(roles[u], v)
           closed == written /\ afterMark.result = enc /\ ~afterMark.redeemed
           afterClose == [afterMark EXCEPT !.redeemed = closed \/ @]
<1>1. c \in Codes /\ v \in Values /\ u \in Users
  BY DEF Batch, RoleInv, LocalsSet
<1>2. row \in CodeRow(RoleResult) /\ enc \in RoleResult
  BY <1>1 DEF RoleInv, RoleTypeOK, RoleResult
<1>3. /\ codes' = [codes EXCEPT ![c] = Unmark(afterClose, enc)]
      /\ IF written
           THEN /\ roles' = [roles EXCEPT ![u] = v]
                /\ grants' = grants \cup {[code |-> c, value |-> v, to |-> u, by |-> r]}
           ELSE UNCHANGED <<roles, grants>>
      /\ req' = IF closed THEN Goto(r, "reply") ELSE Finish(r, "refused")
      /\ UNCHANGED adjusted
  BY DEF Batch
<1>4. CASE written
  <2>1. ~row.redeemed /\ marked
    BY <1>4 DEF Claimable
  <2>2. closed
    BY <1>2, <1>4, <2>1 DEF CodeRow
  <2>3. Unmark(afterClose, enc) = Redeemed(c, enc)
    BY <1>2, <2>1, <2>2 DEF CodeRow, Unmark, Redeemed
  <2> QED BY <1>1, <1>3, <1>4, <2>1, <2>2, <2>3 DEF Writable
<1>5. CASE ~written
  <2>1. ~closed /\ (~row.redeemed => row.result = Null)
    BY <1>1, <1>5 DEF RoleInv, ResultIsTheGrant
  <2>2. Unmark(afterClose, enc) = row
    <3>1. CASE marked
      <4>1. ~row.redeemed
        BY <3>1 DEF Claimable
      <4> QED BY <1>2, <2>1, <3>1, <4>1 DEF CodeRow, Unmark
    <3>2. CASE ~marked
      BY <1>2, <2>1, <3>2 DEF CodeRow, Unmark
    <3> QED BY <3>1, <3>2
  <2>3. codes' = codes
    BY <1>1, <1>3, <2>2 DEF RoleInv, RoleTypeOK
  <2> QED BY <1>1, <1>3, <1>5, <2>1, <2>3
<1> QED BY <1>4, <1>5

\* A step that leaves the table, the grants and the roles alone, and moves one request.
LEMMA RequestMoves ==
  ASSUME RoleInv, NEW r \in Requests, NEW x \in RequestState, req' = [req EXCEPT ![r] = x],
         UNCHANGED <<codes, grants, roles, adjusted>>,
         x.pc \in {"user", "role", "batch"} =>
           x.code \in Codes /\ x.value \in Values /\ x.email \in Emails,
         x.pc \in {"role", "batch"} => x.to \in Users
  PROVE  RoleInv'
<1>1. req'[r] = x /\ \A q \in Requests \ {r} : req'[q] = req[q]
  BY DEF RoleInv, RoleTypeOK
<1>2. RoleTypeOK' /\ TableShape' /\ ResultIsTheGrant' /\ GivenRoleStays'
  BY DEF RoleInv, RoleTypeOK, TableShape, ResultIsTheGrant, GivenRoleStays
<1>3. LocalsSet'
  BY <1>1 DEF RoleInv, LocalsSet
<1> QED BY <1>2, <1>3 DEF RoleInv

\* Going on and ending, as one request's new state.
LEMMA RequestEnds ==
  ASSUME RoleInv, NEW r \in Requests, NEW label \in {"batch", "reply"},
         NEW answer \in {"ok", "refused", "lost"}
  PROVE  /\ \E x \in RequestState : /\ Finish(r, answer) = [req EXCEPT ![r] = x]
                                     /\ x.pc = "done"
         /\ \E x \in RequestState : /\ Goto(r, label) = [req EXCEPT ![r] = x]
                                     /\ x.pc = label /\ x.code = req[r].code /\ x.value = req[r].value
                                     /\ x.email = req[r].email /\ x.to = req[r].to
<1>0. req[r] \in RequestState
  BY DEF RoleInv, RoleTypeOK
<1>1. LET x == [req[r] EXCEPT !.pc = "done", !.reply = answer]
      IN  x \in RequestState /\ x.pc = "done" /\ Finish(r, answer) = [req EXCEPT ![r] = x]
  BY <1>0 DEF Finish, RequestState
<1>2. LET x == [req[r] EXCEPT !.pc = label]
      IN  /\ x \in RequestState /\ Goto(r, label) = [req EXCEPT ![r] = x]
          /\ x.pc = label /\ x.code = req[r].code /\ x.value = req[r].value
          /\ x.email = req[r].email /\ x.to = req[r].to
  BY <1>0 DEF Goto, RequestState
<1> QED BY <1>1, <1>2

\* Requests keep the roles they gave and the results they wrote.
LEMMA RequestsKeepRole ==
  ASSUME RoleInv, AccountTypeOK, NEW r \in Requests, Request(r, world.redeemers), WorldSet
  PROVE  RoleInv'
<1>1. ASSUME UNCHANGED <<codes, grants, accountVars>>,
             \/ \E answer \in {"ok", "refused", "lost"} : req' = Finish(r, answer)
             \/ req[r].pc = "role" /\ req' = Goto(r, "batch")
      PROVE  RoleInv'
  <2>1. UNCHANGED <<codes, grants, roles, adjusted>>
    BY <1>1 DEF accountVars
  <2>2. CASE \E answer \in {"ok", "refused", "lost"} : req' = Finish(r, answer)
    <3>1. PICK answer \in {"ok", "refused", "lost"} : req' = Finish(r, answer)
      BY <2>2
    <3>2. PICK x \in RequestState : Finish(r, answer) = [req EXCEPT ![r] = x] /\ x.pc = "done"
      BY RequestEnds
    <3> QED BY <2>1, <3>1, <3>2, RequestMoves
  <2>3. CASE req[r].pc = "role" /\ req' = Goto(r, "batch")
    <3>1. PICK x \in RequestState :
            /\ Goto(r, "batch") = [req EXCEPT ![r] = x]
            /\ x.pc = "batch" /\ x.code = req[r].code /\ x.value = req[r].value
            /\ x.email = req[r].email /\ x.to = req[r].to
      BY RequestEnds
    <3>2. x.code \in Codes /\ x.value \in Values /\ x.email \in Emails /\ x.to \in Users
      BY <2>3, <3>1 DEF RoleInv, LocalsSet
    <3> QED BY <2>1, <2>3, <3>1, <3>2, RequestMoves
  <2> QED BY <1>1, <2>2, <2>3
<1>2. ASSUME NEW c \in Codes, NEW e \in world.redeemers, ReadCode(r, c, e)
      PROVE  RoleInv'
  <2>1. CASE Available(c) /\ ~codes[c].redeemed
    <3> DEFINE x == [Idle EXCEPT !.pc = "user", !.code = c, !.value = codes[c].value, !.email = e]
    <3>1. codes[c].value \in Values /\ e \in Emails
      BY <2>1 DEF Available, RoleInv, TableShape, WorldSet
    <3>2. /\ x \in RequestState /\ x.pc = "user" /\ x.code = c /\ x.value = codes[c].value
          /\ x.email = e
      BY <3>1 DEF Idle, RequestState
    <3>3. req' = [req EXCEPT ![r] = x] /\ UNCHANGED <<codes, grants, roles, adjusted>>
      BY <1>2, <2>1 DEF ReadCode, accountVars
    <3> HIDE DEF x
    <3> QED BY <3>1, <3>2, <3>3, RequestMoves
  <2>2. CASE ~(Available(c) /\ ~codes[c].redeemed)
    BY <1>1, <1>2, <2>2 DEF ReadCode
  <2> QED BY <2>1, <2>2
<1>3. CASE FindUser(r)
  <2> DEFINE ids == Ids(req[r].email)
  <2>1. CASE ids = {}
    BY <1>1, <1>3, <2>1 DEF FindUser
  <2>2. CASE ids # {}
    <3> DEFINE x == [req[r] EXCEPT !.pc = "role", !.to = CHOOSE i \in ids : TRUE]
    <3>1. (CHOOSE i \in ids : TRUE) \in Users
      BY <2>2 DEF Ids
    <3>2. /\ req[r] \in RequestState /\ req[r].code \in Codes /\ req[r].value \in Values
          /\ req[r].email \in Emails
      BY <1>3 DEF FindUser, RoleInv, RoleTypeOK, LocalsSet
    <3>3. /\ x \in RequestState /\ x.pc = "role" /\ x.code = req[r].code
          /\ x.value = req[r].value /\ x.email = req[r].email /\ x.to \in Users
      BY <3>1, <3>2 DEF RequestState
    <3>4. req' = [req EXCEPT ![r] = x] /\ UNCHANGED <<codes, grants, roles, adjusted>>
      BY <1>3, <2>2 DEF FindUser, accountVars
    <3> HIDE DEF x
    <3> QED BY <3>2, <3>3, <3>4, RequestMoves
  <2> QED BY <2>1, <2>2
<1>4. CASE CheckRole(r)
  BY <1>1, <1>4 DEF CheckRole
<1>5. CASE Batch(r)
  <2> DEFINE c == req[r].code
             v == req[r].value
             u == req[r].to
             g == [code |-> c, value |-> v, to |-> u, by |-> r]
             enc == [to |-> u, role |-> v, by |-> r]
  <2>1. c \in Codes /\ v \in Values /\ u \in Users /\ UNCHANGED adjusted
    BY <1>5, BatchOutcome
  <2>2. CASE /\ Claimable(c, v) /\ Replaceable(roles[u], v)
             /\ codes' = [codes EXCEPT ![c] = Redeemed(c, enc)]
             /\ roles' = [roles EXCEPT ![u] = v]
             /\ grants' = grants \cup {g}
             /\ req' = Goto(r, "reply")
    <3>0. codes \in [Codes -> CodeRow(RoleResult)] /\ enc \in RoleResult /\ g \in RoleGrant
      BY <2>1 DEF RoleInv, RoleTypeOK, RoleResult, RoleGrant
    <3>1. PICK x \in RequestState : req' = [req EXCEPT ![r] = x] /\ x.pc = "reply"
      BY <2>2, RequestEnds
    <3>2. /\ codes'[c] = Redeemed(c, enc) /\ Redeemed(c, enc) \in CodeRow(RoleResult)
          /\ codes'[c].redeemed /\ codes'[c].result = enc
          /\ codes'[c].status = "live" /\ codes'[c].value = v
          /\ \A d \in Codes \ {c} : codes'[d] = codes[d]
      BY <2>1, <2>2, <3>0 DEF Redeemed, CodeRow, Claimable, Available
    <3> HIDE DEF c, v, u
    <3>3. RoleTypeOK'
      <4>1. codes' \in [Codes -> CodeRow(RoleResult)]
        BY <2>1, <2>2, <3>0, <3>2
      <4>2. req' \in [Requests -> RequestState]
        BY <3>1 DEF RoleInv, RoleTypeOK
      <4>3. grants' \subseteq RoleGrant
        BY <2>2, <3>0 DEF RoleInv, RoleTypeOK
      <4> QED BY <4>1, <4>2, <4>3 DEF RoleTypeOK
    <3>4. TableShape'
      BY <2>1, <3>2 DEF RoleInv, TableShape, NoRow
    <3>5. LocalsSet'
      BY <3>1 DEF RoleInv, RoleTypeOK, LocalsSet
    <3>6. ResultIsTheGrant'
      <4>1. [code |-> c, value |-> codes'[c].result.role, to |-> codes'[c].result.to,
             by |-> codes'[c].result.by] = g
        BY <3>2
      <4> QED BY <2>2, <3>2, <4>1 DEF RoleInv, ResultIsTheGrant
    <3>7. GivenRoleStays'
      <4>1. SUFFICES ASSUME NEW h \in grants', h.to \notin adjusted', h.value # DefaultRole
                     PROVE  roles'[h.to] = h.value
        BY DEF GivenRoleStays
      <4>2. roles'[u] = v /\ \A i \in Users : i # u => roles'[i] = roles[i]
        BY <2>1, <2>2 DEF AccountTypeOK
      <4>3. CASE h = g
        BY <4>2, <4>3
      <4>4. CASE h \in grants
        <5>1. h.to \in Users /\ h.value \in Values /\ roles[h.to] = h.value
          BY <2>1, <4>1, <4>4 DEF RoleInv, GivenRoleStays, RoleTypeOK, RoleGrant
        <5>2. CASE h.to = u
          <6>1. h.value = v
            BY <2>2, <4>1, <5>1, <5>2, NullAssumption DEF Replaceable
          <6> QED BY <4>2, <5>2, <6>1
        <5> QED BY <4>2, <5>1, <5>2
      <4> QED BY <2>2, <4>3, <4>4
    <3> QED BY <3>3, <3>4, <3>5, <3>6, <3>7 DEF RoleInv
  <2>3. CASE UNCHANGED <<codes, roles, grants>> /\ req' = Finish(r, "refused")
    <3>1. PICK x \in RequestState : req' = [req EXCEPT ![r] = x] /\ x.pc = "done"
      BY <2>3, RequestEnds
    <3> QED BY <2>1, <2>3, <3>1, RequestMoves
  <2> QED BY <1>5, <2>2, <2>3, BatchOutcome
<1>6. CASE Reply(r)
  BY <1>1, <1>6 DEF Reply
<1>7. CASE Abandon(r)
  BY <1>1, <1>7 DEF Abandon
<1> QED BY <1>2, <1>3, <1>4, <1>5, <1>6, <1>7 DEF Request

\* The admin's edits of codes and the clock keep results and roles.
LEMMA TableKeepsRole ==
  ASSUME RoleInv, TableStep, UNCHANGED <<req, grants, accountVars>>
  PROVE  RoleInv'
<1>0. codes \in [Codes -> CodeRow(RoleResult)] /\ TableShape
  BY DEF RoleInv, RoleTypeOK
<1>1. codes' \in [Codes -> CodeRow(RoleResult)]
  BY <1>0, TableStepType
<1>2. /\ TableShape'
      /\ \A c \in Codes : codes'[c].status = "live" =>
           codes'[c].redeemed = codes[c].redeemed /\ codes'[c].result = codes[c].result
  BY <1>0, TableStepKeeps
<1>3. ResultIsTheGrant'
  <2>1. ASSUME NEW c \in Codes, codes'[c].status # "live"
        PROVE  codes'[c].redeemed = FALSE /\ codes'[c].result = Null
    <3>1. codes'[c] = NoRow(codes'[c].status)
      BY <1>2, <2>1 DEF TableShape
    <3>2. \A status : NoRow(status).redeemed = FALSE /\ NoRow(status).result = Null
      BY DEF NoRow
    <3> QED BY <3>1, <3>2
  <2> QED BY <1>2, <2>1 DEF RoleInv, ResultIsTheGrant
<1>4. LocalsSet' /\ GivenRoleStays'
  BY DEF RoleInv, LocalsSet, GivenRoleStays, accountVars
<1> QED BY <1>1, <1>2, <1>3, <1>4 DEF RoleInv, RoleTypeOK

\* Registration gives the default role only to who has none, and what an admin
\* changes is marked.
LEMMA AccountsKeepRole ==
  ASSUME RoleInv, AccountTypeOK, Calling \/ Admin, UNCHANGED roleVars
  PROVE  RoleInv'
<1>1. \A i \in Users : roles'[i] # roles[i] => roles[i] = Null \/ i \in adjusted'
  <2>1. ASSUME NEW k \in Calls, CallStep(k)
        PROVE  \A i \in Users : roles'[i] # roles[i] => roles[i] = Null
    BY <2>1 DEF AccountTypeOK, CallStep, MailPin, KeepPin, CheckPin, InsertUser, UpsertRegistered,
                UpsertLoggedIn, Upsert, FindId, GiveDefaultRole, CallDies
  <2>2. ASSUME NEW k \in Calls, NEW e, CallStarts(k, e) PROVE roles' = roles
    BY <2>2 DEF CallStarts, AskPin, OAuthLogin, Register
  <2>3. CASE Admin
    BY <2>3 DEF AccountTypeOK, Admin, CreateUser, ResetPassword, DeleteUser, UpdateUserRoles,
                SaveUserSettings, PinExpires
  <2> QED BY <2>1, <2>2, <2>3 DEF Calling
<1>2. adjusted \subseteq adjusted'
  BY DEF Calling, Admin, CallStep, MailPin, KeepPin, CheckPin, InsertUser, UpsertRegistered,
         UpsertLoggedIn, Upsert, FindId, GiveDefaultRole, CallDies, CallStarts, AskPin, OAuthLogin,
         Register, CreateUser, ResetPassword, DeleteUser, UpdateUserRoles, SaveUserSettings,
         PinExpires
<1>3. GivenRoleStays'
  <2>1. SUFFICES ASSUME NEW g \in grants, g.to \notin adjusted', g.value # DefaultRole
                 PROVE  roles'[g.to] = g.value
    BY DEF GivenRoleStays, roleVars
  <2>2. g.to \in Users /\ g.value \in Values /\ roles[g.to] = g.value
    BY <1>2, <2>1 DEF RoleInv, RoleTypeOK, RoleGrant, GivenRoleStays
  <2> QED BY <1>1, <2>1, <2>2, NullAssumption
<1>4. RoleTypeOK' /\ TableShape' /\ LocalsSet' /\ ResultIsTheGrant'
  BY DEF RoleInv, RoleTypeOK, TableShape, LocalsSet, ResultIsTheGrant, roleVars
<1> QED BY <1>3, <1>4 DEF RoleInv

-----------------------------------------------------------------------------
(* The ledger of role codes. *)

\* Before anything is issued the ledger is in its initial state.
LEMMA InitInLedger == Init => Ledger!Init
BY DEF Init, RoleInit, CodesInit, NoRow, Ledger!Init, LedgerState, LedgerOffer, Available

\* A batch that gets the role is the exchange of the ledger, one that does not
\* is nothing.
LEMMA BatchInLedger ==
  ASSUME RoleInv, AccountTypeOK, NEW r \in Requests, Batch(r)
  PROVE  \/ Ledger!Spend(req[r].code, req[r].to, r) /\ req[r].code \in Codes /\ req[r].to \in Users
         \/ UNCHANGED <<codes, grants>>
<1> DEFINE c == req[r].code
           v == req[r].value
           u == req[r].to
           enc == [to |-> u, role |-> v, by |-> r]
<1>1. c \in Codes /\ v \in Values /\ u \in Users
  BY BatchOutcome
<1>2. SUFFICES ASSUME Claimable(c, v), codes' = [codes EXCEPT ![c] = Redeemed(c, enc)],
                      grants' = grants \cup {[code |-> c, value |-> v, to |-> u, by |-> r]}
               PROVE  Ledger!Spend(c, u, r)
  BY <1>1, BatchOutcome
<1>3. /\ codes[c].status = "live" /\ ~codes[c].redeemed
      /\ Available(c) /\ codes[c].value = v
  BY <1>2 DEF Claimable, Available
<1>4. LedgerState[c] = "open" /\ LedgerOffer[c] = v /\ v # Null
  BY <1>1, <1>3, NullAssumption DEF LedgerState, LedgerOffer
<1>5. /\ codes'[c].status = "live" /\ codes'[c].value = v
      /\ codes'[c].enabled = codes[c].enabled /\ codes'[c].expired = codes[c].expired
      /\ \A d \in Codes \ {c} : codes'[d] = codes[d]
  BY <1>1, <1>2, <1>3 DEF RoleInv, RoleTypeOK, CodeRow, Redeemed
<1>6. codes'[c].redeemed
  BY <1>1, <1>2 DEF RoleInv, RoleTypeOK, CodeRow, Redeemed
<1> HIDE DEF c, v, u, enc
<1>7. LedgerState' = [LedgerState EXCEPT ![c] = "spent"]
  BY <1>1, <1>5, <1>6 DEF LedgerState
<1>8. LedgerOffer' = LedgerOffer
  <2>1. \A d \in Codes : codes'[d].value = codes[d].value
    BY <1>3, <1>5
  <2>2. \A d \in Codes : Available(d)' <=> Available(d)
    BY <1>3, <1>5, Zenon DEF Available
  <2> QED BY <2>1, <2>2 DEF LedgerOffer
<1> QED BY <1>2, <1>4, <1>7, <1>8 DEF Ledger!Spend

\* Every step of the worker, the admin and the page is a step of the ledger or
\* leaves it alone.
LEMMA NextInLedger ==
  ASSUME RoleInv, AccountTypeOK, [Next]_vars
  PROVE  [Ledger!Next]_(Ledger!ledgerVars)
<1>1. ASSUME NEW r \in Requests, Batch(r), ~UNCHANGED <<codes, grants>> PROVE Ledger!Next
  BY <1>1, BatchInLedger DEF Ledger!Next
<1>2. ASSUME TableStep, UNCHANGED grants PROVE Ledger!Next
  <2>1. \/ \E S \in SUBSET Codes, o \in Values \cup {Null} : Ledger!Issue(S, o)
        \/ \E c \in Codes :
             \/ \E o \in Values \cup {Null} : Ledger!Reoffer(c, o)
             \/ Ledger!Lapse(c) \/ Ledger!Retire(c)
    BY <1>2, TableStepInLedger
       DEF RoleInv, RoleTypeOK, Ledger!Issue, Ledger!Reoffer, Ledger!Lapse, Ledger!Retire
  <2> QED BY <2>1 DEF Ledger!Next
<1>3. ASSUME UNCHANGED <<codes, grants>> PROVE UNCHANGED Ledger!ledgerVars
  BY <1>3 DEF Ledger!ledgerVars, LedgerState, LedgerOffer, Available
<1>4. \/ TableStep /\ UNCHANGED grants
      \/ UNCHANGED <<codes, grants>>
      \/ \E r \in Requests : Batch(r)
  BY DEF Next, vars, roleVars, RoleStep, Request, ReadCode, FindUser, CheckRole, Reply, Abandon
<1> QED BY <1>1, <1>2, <1>3, <1>4

-----------------------------------------------------------------------------
(* The page's session. *)

Access == [id : Users, role : Roles \cup {Null}, expired : BOOLEAN]

Settings == [access : Access \cup {Null}, renewed : UserTokens \cup {Null}]

FetchState ==
  [pc : {"idle", "sent", "waiting", "settled"}, path : {"mailbox", "user", "admin"},
   user : UserTokens \cup {Null}, access : Access \cup {Null}, jwt : Mailboxes \cup {Null},
   answer : {"none", "ok", "denied", "expired", "lost", "failed", "changed"},
   again : BOOLEAN, moved : BOOLEAN]

LoadState == [pc : {"idle", "asked", "trying"}, user : UserTokens \cup {Null}]

SessionTypeOK ==
  /\ userJwt \in UserTokens \cup {Null}
  /\ jwt \in Mailboxes
  /\ settings \in Settings
  /\ fetch \in [Fetches -> FetchState]
  /\ load \in [Loads -> LoadState]
  /\ pending \subseteq UserTokens
  /\ renewals \in Nat

\* The one access token that is expired: the page's first.
Expired(access) == access # Null /\ access.expired

FirstAccess == [id |-> 1, role |-> world.role, expired |-> TRUE]

\* A call under way that was not marked belongs to the session; one that waits
\* was refused with an expired token and has not been repeated; one that was
\* repeated carries another token.
CallOfSession(x) ==
  /\ Expired(x.access) => x.access = FirstAccess
  /\ InFlight(x) /\ ~x.moved => IsCurrentSession(x)
  /\ x.pc = "waiting" => ~x.again /\ Expired(x.access)
  /\ x.again => ~Expired(x.access)
  /\ x.pc = "settled" /\ x.path = "mailbox" /\ ~x.moved => x.answer \in {"ok", "lost"}

\* The inductive invariant: once a session has renewed its token it holds one
\* that is not expired and no refresh of its own is under way.
SessionInv ==
  /\ SessionTypeOK
  /\ \A f \in Fetches : CallOfSession(fetch[f])
  /\ \A g \in Loads : load[g].pc # "idle" => load[g].user \in UserTokens
  /\ Expired(settings.access) => settings.access = FirstAccess
  /\ renewals <= 1
  /\ renewals = 1 => ~Expired(settings.access) /\ userJwt \notin pending

\* What GET /user_api/settings hands out is not expired.
LEMMA AnswersAreFresh ==
  ASSUME AccountTypeOK, NEW t \in UserTokens, NEW answer \in SettingsAnswers(t), answer # Null
  PROVE  answer \in Settings /\ ~Expired(answer.access)
<1> DEFINE access == IF roles[t.id] = Null THEN Null
                     ELSE [id |-> t.id, role |-> roles[t.id], expired |-> FALSE]
           renewed == IF t.age = "new" THEN Null ELSE [t EXCEPT !.age = "new"]
<1>1. answer = [access |-> access, renewed |-> renewed]
  BY DEF SettingsAnswers
<1>2. t.id \in Users /\ roles[t.id] \in Roles \cup {Null}
  BY DEF AccountTypeOK, UserTokens
<1>3. access \in Access \cup {Null} /\ ~Expired(access)
  BY <1>2 DEF Access, Expired
<1>4. renewed \in UserTokens \cup {Null}
  BY DEF UserTokens
<1> HIDE DEF access, renewed
<1> QED BY <1>1, <1>3, <1>4 DEF Settings

LEMMA InitSession == Init /\ WorldSet => SessionInv
<1> SUFFICES ASSUME Init, WorldSet PROVE SessionInv
  OBVIOUS
<1>1. 1 \in Users
  BY AccountAssumption DEF Users
<1>2. settings \in Settings /\ settings.access = FirstAccess
  BY <1>1 DEF Init, SessionInit, Settings, Access, FirstAccess, WorldSet
<1>3. userJwt \in UserTokens /\ jwt \in Mailboxes
  BY <1>1, SessionAssumption DEF Init, SessionInit, UserTokens
<1>4. Unsent \in FetchState /\ Unloaded \in LoadState
  BY DEF Unsent, FetchState, Unloaded, LoadState
<1>5. CallOfSession(Unsent)
  BY DEF CallOfSession, Unsent, InFlight, Expired
<1> QED
  BY <1>2, <1>3, <1>4, <1>5 DEF Init, SessionInit, SessionInv, SessionTypeOK, Unloaded

\* A call that is repeated or waits, and one that is settled.
LEMMA CallSteps ==
  ASSUME NEW x \in FetchState, NEW access \in Access \cup {Null}, x.pc \in {"sent", "waiting"},
         NEW answer \in {"ok", "denied", "expired", "lost", "failed", "changed"}
  PROVE  /\ Again(x, access) \in FetchState
         /\ Again(x, access).pc = "sent" /\ Again(x, access).again
         /\ Again(x, access).access = access /\ Again(x, access).path = x.path
         /\ Again(x, access).user = x.user /\ Again(x, access).jwt = x.jwt
         /\ Again(x, access).moved = x.moved
         /\ Settled(x, answer) \in FetchState
         /\ Settled(x, answer).pc = "settled" /\ Settled(x, answer).path = x.path
         /\ Settled(x, answer).answer = answer /\ Settled(x, answer).moved = x.moved
         /\ ~Settled(x, answer).again /\ Settled(x, answer).access = Null
<1>1. /\ Again(x, access) \in FetchState
      /\ Again(x, access).pc = "sent" /\ Again(x, access).again
      /\ Again(x, access).access = access /\ Again(x, access).path = x.path
      /\ Again(x, access).user = x.user /\ Again(x, access).jwt = x.jwt
      /\ Again(x, access).moved = x.moved
  BY DEF Again, FetchState
<1>2. x.path \in {"mailbox", "user", "admin"} /\ x.moved \in BOOLEAN
  BY DEF FetchState
<1>3. /\ Settled(x, answer) \in FetchState
      /\ Settled(x, answer).pc = "settled" /\ Settled(x, answer).path = x.path
      /\ Settled(x, answer).answer = answer /\ Settled(x, answer).moved = x.moved
      /\ ~Settled(x, answer).again /\ Settled(x, answer).access = Null
  BY <1>2 DEF Settled, FetchState, Unsent
<1> QED BY <1>1, <1>3

\* A repeated call keeps its session, whatever other token it gets.
LEMMA RepeatedCall ==
  ASSUME NEW x \in FetchState, CallOfSession(x), NEW access \in Access \cup {Null},
         x.pc \in {"sent", "waiting"}, ~Expired(access)
  PROVE  CallOfSession(Again(x, access))
<1>1. InFlight(x)
  BY DEF InFlight
<1> QED BY <1>1, CallSteps DEF CallOfSession, InFlight, IsCurrentSession

\* A call of the session that ends: a mailbox request got what its path gives.
LEMMA EndedCall ==
  ASSUME NEW x \in FetchState, NEW answer \in {"ok", "denied", "expired", "lost", "failed", "changed"},
         x.pc \in {"sent", "waiting"},
         x.path = "mailbox" /\ ~x.moved => answer \in {"ok", "lost"}
  PROVE  CallOfSession(Settled(x, answer))
BY CallSteps DEF CallOfSession, InFlight, Expired

\* One call's new state, when the session stays as it is.
LEMMA OneFetch ==
  ASSUME SessionInv, NEW f \in Fetches, NEW y \in FetchState, Put(f, y), CallOfSession(y),
         UNCHANGED <<world, userJwt, jwt, settings, load, renewals>>,
         pending' \subseteq UserTokens, renewals = 1 => userJwt \notin pending'
  PROVE  SessionInv'
<1>1. fetch' = [fetch EXCEPT ![f] = y] /\ fetch \in [Fetches -> FetchState]
  BY DEF SessionInv, SessionTypeOK, Put
<1>2. \A z : CallOfSession(z) => CallOfSession(z)'
  BY DEF CallOfSession, IsCurrentSession, FirstAccess
<1>3. \A h \in Fetches : CallOfSession(fetch[h]) /\ (h # f => fetch'[h] = fetch[h])
  BY <1>1 DEF SessionInv
<1>4. \A h \in Fetches : CallOfSession(fetch'[h])
  BY <1>1, <1>3
<1>5. \A h \in Fetches : CallOfSession(fetch[h])'
  BY <1>4 DEF CallOfSession, IsCurrentSession, FirstAccess
<1>6. SessionTypeOK'
  BY <1>1 DEF SessionInv, SessionTypeOK
<1> QED BY <1>5, <1>6 DEF SessionInv, FirstAccess

\* What a refused or answered request becomes.
LEMMA HandleKeepsSession ==
  ASSUME SessionInv, NEW f \in Fetches, Handle(f), UNCHANGED world
  PROVE  SessionInv'
<1> DEFINE x == fetch[f]
<1>0. /\ x \in FetchState /\ CallOfSession(x) /\ x.pc = "sent" /\ userJwt \in UserTokens \cup {Null}
      /\ settings.access \in Access \cup {Null} /\ pending \subseteq UserTokens
      /\ (renewals = 1 => ~Expired(settings.access) /\ userJwt \notin pending)
      /\ fetch \in [Fetches -> FetchState] /\ UNCHANGED <<userJwt, jwt, settings, load, renewals>>
      /\ x.user \in UserTokens \cup {Null}
      /\ (Expired(settings.access) => settings.access = FirstAccess)
  BY DEF SessionInv, SessionTypeOK, Settings, Handle, FetchState
<1>1. PICK answer \in {Verdict(x), "lost"} :
        IF Matches(x, answer) THEN Renew(f)
        ELSE Put(f, Settled(x, answer)) /\ UNCHANGED pending
  BY DEF Handle
<1>2. /\ answer \in {"ok", "denied", "expired", "lost"}
      /\ answer = "expired" => Expired(x.access)
      /\ x.path = "mailbox" => answer \in {"ok", "expired", "lost"}
  BY DEF Verdict, Expired
<1> HIDE DEF x
<1>3. CASE ~Matches(x, answer)
  <2>1. x.path = "mailbox" /\ ~x.moved => answer \in {"ok", "lost"}
    BY <1>0, <1>2, <1>3 DEF CallOfSession, Matches, InFlight
  <2>2. CallOfSession(Settled(x, answer)) /\ Settled(x, answer) \in FetchState
    BY <1>0, <1>2, <2>1, EndedCall, CallSteps
  <2> QED BY <1>0, <1>1, <1>3, <2>2, OneFetch
<1>4. CASE Matches(x, answer)
  <2>1. Expired(x.access) /\ x.access = FirstAccess /\ ~x.again /\ IsCurrentSession(x)
    BY <1>0, <1>2, <1>4 DEF Matches, CallOfSession
  <2>2. CASE x.user = Null
    <3>1. Put(f, Again(x, Null)) /\ UNCHANGED pending
      BY <1>1, <1>4, <2>2 DEF Renew, x
    <3>2. CallOfSession(Again(x, Null)) /\ Again(x, Null) \in FetchState
      BY <1>0, CallSteps, RepeatedCall DEF Expired
    <3> QED BY <1>0, <3>1, <3>2, OneFetch
  <2>3. CASE x.user # Null /\ settings.access # x.access
    <3>1. Put(f, Again(x, settings.access)) /\ UNCHANGED pending
      BY <1>1, <1>4, <2>3 DEF Renew, x
    <3>2. CallOfSession(Again(x, settings.access)) /\ Again(x, settings.access) \in FetchState
      BY <1>0, <2>1, <2>3, CallSteps, RepeatedCall
    <3> QED BY <1>0, <3>1, <3>2, OneFetch
  <2>4. CASE x.user # Null /\ settings.access = x.access
    <3> DEFINE y == [x EXCEPT !.pc = "waiting"]
    <3>1. Put(f, y) /\ pending' = pending \cup {x.user}
      BY <1>1, <1>4, <2>4 DEF Renew, Ask, x
    <3>2. /\ y \in FetchState /\ y.pc = "waiting" /\ y.access = x.access /\ y.again = x.again
          /\ y.user = x.user /\ y.jwt = x.jwt
      BY <1>0 DEF FetchState
    <3>3. CallOfSession(y)
      BY <1>0, <2>1, <3>2 DEF CallOfSession, IsCurrentSession
    <3>4. pending' \subseteq UserTokens /\ renewals # 1
      BY <1>0, <2>1, <2>4, <3>1
    <3> HIDE DEF y
    <3> QED BY <1>0, <3>1, <3>2, <3>3, <3>4, OneFetch
  <2> QED BY <2>2, <2>3, <2>4
<1> QED BY <1>3, <1>4

\* A request that is sent belongs to the session.
LEMMA SendKeepsSession ==
  ASSUME SessionInv, NEW f \in Fetches, NEW path \in {"mailbox", "user", "admin"}, Send(f, path),
         UNCHANGED world
  PROVE  SessionInv'
<1> DEFINE y == [Unsent EXCEPT !.pc = "sent", !.path = path,
                               !.user = userJwt, !.access = settings.access, !.jwt = jwt]
<1>1. /\ userJwt \in UserTokens \cup {Null} /\ jwt \in Mailboxes /\ pending \subseteq UserTokens
      /\ settings.access \in Access \cup {Null}
      /\ (Expired(settings.access) => settings.access = FirstAccess)
  BY DEF SessionInv, SessionTypeOK, Settings
<1>2. /\ y \in FetchState /\ y.pc = "sent" /\ y.access = settings.access /\ ~y.again
      /\ y.user = userJwt /\ y.jwt = jwt
  BY <1>1 DEF Unsent, FetchState
<1>3. Put(f, y) /\ UNCHANGED <<userJwt, jwt, settings, load, pending, renewals>>
  BY DEF Send
<1> HIDE DEF y
<1>4. CallOfSession(y)
  BY <1>1, <1>2 DEF CallOfSession, IsCurrentSession
<1> QED BY <1>1, <1>2, <1>3, <1>4, OneFetch DEF SessionInv

\* A refresh whose session has ended settles what waited for it, in marked
\* calls; one of the session leaves a token that is not expired.
LEMMA RefreshKeepsSession ==
  ASSUME SessionInv, AccountTypeOK, NEW t \in UserTokens, Refreshed(t), UNCHANGED world
  PROVE  SessionInv'
<1>1. PICK answer \in SettingsAnswers(t) :
        LET used == answer # Null /\ userJwt = t
            now == IF used THEN answer ELSE settings
        IN /\ settings' = now
           /\ renewals' = renewals + IF used THEN 1 ELSE 0
           /\ fetch' = [f \in Fetches |->
                IF Waiting(fetch[f], t)
                  THEN AfterRefresh(fetch[f], answer # Null, now.access) ELSE fetch[f]]
  BY DEF Refreshed
<1> DEFINE ok == answer # Null
           used == ok /\ userJwt = t
           now == IF used THEN answer ELSE settings
<1>2. t \in pending /\ pending' = pending \ {t} /\ UNCHANGED <<userJwt, jwt, load>>
  BY DEF Refreshed
<1>3. now \in Settings /\ (used => ~Expired(now.access))
  BY AnswersAreFresh DEF SessionInv, SessionTypeOK
<1>4. now.access \in Access \cup {Null} /\ renewals \in Nat
  BY <1>3 DEF Settings, SessionInv, SessionTypeOK
<1>5. settings' = now /\ renewals' = renewals + IF used THEN 1 ELSE 0
  BY <1>1
<1>6. ASSUME NEW f \in Fetches
      PROVE  fetch'[f] \in FetchState /\ CallOfSession(fetch'[f])
  <2> DEFINE x == fetch[f]
  <2>0. x \in FetchState /\ CallOfSession(x)
    BY DEF SessionInv, SessionTypeOK
  <2>1. fetch'[f] = IF Waiting(x, t) THEN AfterRefresh(x, ok, now.access) ELSE x
    BY <1>1
  <2> HIDE DEF x, now, ok
  <2>2. SUFFICES ASSUME Waiting(x, t)
                 PROVE  AfterRefresh(x, ok, now.access) \in FetchState
                        /\ CallOfSession(AfterRefresh(x, ok, now.access))
    BY <2>0, <2>1
  <2>3. x.pc = "waiting" /\ x.user = t
    BY <2>2 DEF Waiting
  <2>4. CASE ~ok /\ x.path # "mailbox"
    BY <2>0, <2>3, <2>4, EndedCall, CallSteps DEF AfterRefresh
  <2>5. CASE ~(~ok /\ x.path # "mailbox") /\ ~IsCurrentSession(x)
    <3>1. x.moved
      BY <2>0, <2>3, <2>5 DEF CallOfSession, InFlight
    <3> QED BY <2>0, <2>3, <2>5, <3>1, EndedCall, CallSteps DEF AfterRefresh
  <2>6. CASE ~(~ok /\ x.path # "mailbox") /\ IsCurrentSession(x)
    <3> DEFINE access == IF ok THEN now.access ELSE Null
    <3>1. userJwt = t
      BY <2>3, <2>6 DEF IsCurrentSession
    <3>2. access \in Access \cup {Null} /\ ~Expired(access)
      BY <1>3, <1>4, <3>1 DEF Expired
    <3>3. AfterRefresh(x, ok, now.access) = Again(x, access)
      BY <2>6 DEF AfterRefresh
    <3> HIDE DEF access
    <3> QED BY <2>0, <2>3, <3>2, <3>3, RepeatedCall, CallSteps
  <2> QED BY <2>4, <2>5, <2>6
<1>7. \A f \in Fetches : CallOfSession(fetch[f])'
  BY <1>2, <1>6 DEF CallOfSession, IsCurrentSession, FirstAccess
<1>8. fetch' \in [Fetches -> FetchState]
  BY <1>1, <1>6
<1>9. (Expired(settings.access) => settings.access = FirstAccess)'
  BY <1>3, <1>5 DEF SessionInv, FirstAccess
<1>10. renewals' <= 1 /\ (renewals' = 1 => ~Expired(settings'.access) /\ userJwt' \notin pending')
  <2>1. CASE used
    <3>1. renewals = 0
      BY <1>2, <1>4, <2>1 DEF SessionInv
    <3> QED BY <1>2, <1>3, <1>5, <2>1, <3>1
  <2>2. CASE ~used
    BY <1>2, <1>4, <1>5, <2>2 DEF SessionInv
  <2> QED BY <2>1, <2>2
<1> HIDE DEF now, used
<1>11. SessionTypeOK'
  BY <1>2, <1>3, <1>4, <1>5, <1>8 DEF SessionInv, SessionTypeOK, used
<1> QED BY <1>2, <1>7, <1>9, <1>10, <1>11 DEF SessionInv

\* Moving on, every call under way is marked, and nothing was renewed yet.
LEMMA MoveKeepsSession ==
  ASSUME SessionInv, Move, userJwt' \in UserTokens \cup {Null}, jwt' \in Mailboxes,
         load' \in [Loads -> LoadState], \A g \in Loads : load'[g].pc # "idle" => load'[g].user \in UserTokens,
         UNCHANGED <<world, settings, pending>>
  PROVE  SessionInv'
<1>1. ASSUME NEW f \in Fetches
      PROVE  fetch'[f] \in FetchState /\ CallOfSession(fetch[f])'
  <2>1. fetch[f] \in FetchState /\ CallOfSession(fetch[f])
    BY DEF SessionInv, SessionTypeOK
  <2>2. fetch'[f] = [fetch[f] EXCEPT !.moved = @ \/ InFlight(fetch[f])]
    BY DEF Move
  <2>3. /\ fetch'[f] \in FetchState
        /\ fetch'[f].pc = fetch[f].pc /\ fetch'[f].access = fetch[f].access
        /\ fetch'[f].again = fetch[f].again /\ fetch'[f].path = fetch[f].path
        /\ fetch'[f].answer = fetch[f].answer
        /\ (fetch'[f].moved <=> fetch[f].moved \/ InFlight(fetch[f]))
    BY <2>1, <2>2 DEF FetchState, InFlight
  <2> QED BY <2>1, <2>3 DEF CallOfSession, InFlight, FirstAccess
<1>2. fetch' \in [Fetches -> FetchState] /\ renewals' = 0
  BY <1>1 DEF Move
<1> QED BY <1>1, <1>2 DEF SessionInv, SessionTypeOK, FirstAccess

\* getUserSettings and other tabs.
LEMMA LoadKeepsSession ==
  ASSUME SessionInv, AccountTypeOK, NEW g \in Loads, Load(g) \/ Loaded(g) \/ Tried(g), UNCHANGED world
  PROVE  SessionInv'
<1>0. /\ Unloaded \in LoadState /\ Unloaded.pc = "idle" /\ load \in [Loads -> LoadState]
      /\ userJwt \in UserTokens \cup {Null} /\ jwt \in Mailboxes /\ settings \in Settings
  BY DEF Unloaded, LoadState, SessionInv, SessionTypeOK
<1>1. ASSUME NEW x \in LoadState, Become(g, x), x.pc # "idle" => x.user \in UserTokens,
             UNCHANGED <<userJwt, jwt, fetch, pending, renewals>>, settings' \in Settings,
             settings' = settings \/ ~Expired(settings'.access)
      PROVE  SessionInv'
  <2>1. load' \in [Loads -> LoadState] /\ \A h \in Loads : load'[h].pc # "idle" => load'[h].user \in UserTokens
    BY <1>0, <1>1 DEF Become, SessionInv
  <2>2. \A f \in Fetches : CallOfSession(fetch[f])'
    BY <1>1 DEF SessionInv, CallOfSession, IsCurrentSession, FirstAccess
  <2> QED BY <1>1, <2>1, <2>2 DEF SessionInv, SessionTypeOK, FirstAccess
<1>2. CASE Load(g)
  <2> DEFINE x == [pc |-> "asked", user |-> userJwt]
  <2>1. x \in LoadState /\ x.user \in UserTokens /\ Become(g, x)
    BY <1>0, <1>2 DEF Load, LoadState
  <2> QED BY <1>0, <1>1, <1>2, <2>1 DEF Load
<1>3. CASE Loaded(g)
  <2>1. PICK answer \in SettingsAnswers(load[g].user) :
          IF answer = Null THEN Become(g, Unloaded) /\ UNCHANGED settings
          ELSE /\ settings' = answer
               /\ Become(g, IF answer.renewed = Null THEN Unloaded
                            ELSE [pc |-> "trying", user |-> answer.renewed])
    BY <1>3 DEF Loaded
  <2>2. load[g].user \in UserTokens
    BY <1>3 DEF Loaded, SessionInv
  <2>3. CASE answer = Null
    BY <1>0, <1>1, <1>3, <2>1, <2>3 DEF Loaded
  <2>4. CASE answer # Null
    <3> DEFINE x == IF answer.renewed = Null THEN Unloaded
                    ELSE [pc |-> "trying", user |-> answer.renewed]
    <3>1. answer \in Settings /\ ~Expired(answer.access)
      BY <2>2, <2>4, AnswersAreFresh
    <3>2. x \in LoadState /\ (x.pc # "idle" => x.user \in UserTokens)
      BY <1>0, <3>1 DEF Settings, LoadState
    <3> QED BY <1>1, <1>3, <2>1, <2>4, <3>1, <3>2 DEF Loaded
  <2> QED BY <2>3, <2>4
<1>4. CASE Tried(g)
  <2>1. CASE UNCHANGED <<userJwt, fetch, renewals>>
    BY <1>0, <1>1, <1>4, <2>1 DEF Tried
  <2>2. CASE userJwt' = settings.renewed /\ Move
    <3>1. userJwt' \in UserTokens \cup {Null}
      BY <1>0, <2>2 DEF Settings
    <3>2. load' \in [Loads -> LoadState] /\ \A h \in Loads : load'[h].pc # "idle" => load'[h].user \in UserTokens
      BY <1>0, <1>4 DEF Tried, Become, SessionInv
    <3> QED BY <1>0, <1>4, <2>2, <3>1, <3>2, MoveKeepsSession DEF Tried
  <2> QED BY <1>4, <2>1, <2>2 DEF Tried
<1> QED BY <1>2, <1>3, <1>4

LEMMA OtherTabKeepsSession ==
  ASSUME SessionInv, WorldSet, OtherTab(world.tokens), UNCHANGED world
  PROVE  SessionInv'
<1>1. userJwt' \in UserTokens \cup {Null} /\ jwt' \in Mailboxes
  BY DEF OtherTab, WorldSet, SessionInv, SessionTypeOK
<1> QED BY <1>1, MoveKeepsSession DEF OtherTab, SessionInv, SessionTypeOK

-----------------------------------------------------------------------------
(* The invariant and what follows. *)

\* The inductive invariant of the composition: each part changes its own
\* tables, and reads the others' through their types.
IInv ==
  /\ WorldSet
  /\ AccountInv
  /\ RoleInv
  /\ SessionInv

LEMMA NextIInv == IInv /\ [Next]_vars => IInv'
<1> SUFFICES ASSUME IInv, [Next]_vars PROVE IInv'
  OBVIOUS
<1>0. WorldSet /\ AccountInv /\ RoleInv /\ SessionInv /\ AccountTypeOK
  BY DEF IInv, AccountInv
<1>1. UNCHANGED world /\ WorldSet'
  BY <1>0 DEF Next, vars, WorldSet
<1>2. UNCHANGED accountVars => AccountInv'
  BY <1>0 DEF accountVars, AccountInv, AccountTypeOK, CallsSet, PinsAreMailed
<1>3. UNCHANGED <<roleVars, roles, adjusted>> => RoleInv'
  BY <1>0 DEF roleVars, RoleInv, RoleTypeOK, TableShape, LocalsSet, ResultIsTheGrant, GivenRoleStays
<1>4. UNCHANGED sessionVars => SessionInv'
  BY <1>0, <1>1 DEF sessionVars, SessionInv, SessionTypeOK, CallOfSession, IsCurrentSession, FirstAccess
<1>5. CASE (Calling \/ Admin) /\ UNCHANGED <<world, roleVars, sessionVars>>
  <2>1. AccountInv'
    <3>1. ASSUME NEW k \in Calls, NEW e \in world.callers, CallStarts(k, e) PROVE AccountInv'
      BY <1>0, <3>1, StartsKeepAccount DEF WorldSet
    <3>2. ASSUME NEW k \in Calls, CallStep(k) PROVE AccountInv'
      BY <1>0, <3>2, CallsKeepAccount
    <3> QED BY <1>0, <1>5, <3>1, <3>2, AdminKeepsAccount DEF Calling
  <2>2. RoleInv'
    BY <1>0, <1>5, AccountsKeepRole
  <2> QED BY <1>1, <1>4, <1>5, <2>1, <2>2 DEF IInv
<1>6. CASE RoleStep(world.redeemers) /\ UNCHANGED <<world, sessionVars>>
  <2>1. ASSUME NEW r \in Requests, Request(r, world.redeemers) PROVE AccountInv' /\ RoleInv'
    <3>1. RoleInv'
      BY <1>0, <2>1, RequestsKeepRole
    <3>2. CASE Batch(r)
      <4>1. roles' \in [Users -> Roles \cup {Null}]
        <5>1. req[r].value \in Values /\ \/ roles' = [roles EXCEPT ![req[r].to] = req[r].value]
                                         \/ roles' = roles
          BY <1>0, <3>2, BatchOutcome
        <5> QED BY <1>0, <5>1, RoleAssumption DEF AccountTypeOK
      <4>2. UNCHANGED <<users, verifying, pins, call, mailed, adjusted>>
        BY <3>2 DEF Batch
      <4> QED BY <1>0, <3>1, <4>1, <4>2 DEF AccountInv, AccountTypeOK, CallsSet, PinsAreMailed
    <3>3. CASE ~Batch(r)
      <4>1. UNCHANGED accountVars
        BY <2>1, <3>3 DEF Request, ReadCode, FindUser, CheckRole, Reply, Abandon
      <4> QED BY <1>2, <3>1, <4>1
    <3> QED BY <3>2, <3>3
  <2>2. ASSUME TableStep, UNCHANGED <<req, grants, accountVars>> PROVE AccountInv' /\ RoleInv'
    BY <1>0, <1>2, <2>2, TableKeepsRole
  <2> QED BY <1>1, <1>4, <1>6, <2>1, <2>2 DEF IInv, RoleStep
<1>7. CASE Page /\ UNCHANGED <<world, accountVars, roleVars>>
  <2>1. AccountInv' /\ RoleInv'
    BY <1>2, <1>3, <1>7 DEF accountVars
  <2>2. ASSUME NEW f \in Fetches, \/ \E path \in {"mailbox", "user", "admin"} : Send(f, path)
                                  \/ Handle(f)
        PROVE  SessionInv'
    BY <1>0, <1>1, <2>2, SendKeepsSession, HandleKeepsSession
  <2>3. ASSUME NEW t \in UserTokens, Refreshed(t) PROVE SessionInv'
    BY <1>0, <1>1, <2>3, RefreshKeepsSession
  <2>4. ASSUME NEW g \in Loads, Load(g) \/ Loaded(g) \/ Tried(g) PROVE SessionInv'
    BY <1>0, <1>1, <2>4, LoadKeepsSession
  <2>5. ASSUME OtherTab(world.tokens) PROVE SessionInv'
    BY <1>0, <1>1, <2>5, OtherTabKeepsSession
  <2> QED BY <1>1, <1>7, <2>1, <2>2, <2>3, <2>4, <2>5 DEF IInv, Page, SessionStep
<1>8. CASE UNCHANGED vars
  BY <1>1, <1>2, <1>3, <1>4, <1>8 DEF vars, accountVars, IInv
<1> QED BY <1>5, <1>6, <1>7, <1>8 DEF Next

\* The inductive invariant holds in every state of every execution.
THEOREM AccountsIInv == Spec => []IInv
<1>1. Init => IInv
  BY InitAccount, InitRole, InitSession DEF IInv
<1>2. IInv /\ [Next]_vars => IInv'
  BY NextIInv
<1> QED BY <1>1, <1>2, PTL DEF Spec

\* A redeemed code tells the role that was really given, and the batch that
\* lost leaves no trace in its code, for any number of codes and requests.
THEOREM RoleResultIsTheGrant == Spec => []ResultIsTheGrant
<1>1. IInv => ResultIsTheGrant
  BY DEF IInv, RoleInv
<1> QED BY <1>1, AccountsIInv, PTL

\* Of two codes for different roles one user gets only one, unless one of the
\* roles is the default, whatever the checks before the batch saw.
THEOREM RoleOneRoleWins == Spec => []OneRoleWins
<1>1. IInv => OneRoleWins
  <2> SUFFICES ASSUME IInv, NEW g \in grants, NEW h \in grants, g.to = h.to, g.to \notin adjusted,
                      g.value # DefaultRole, h.value # DefaultRole
               PROVE  g.value = h.value
    BY DEF OneRoleWins
  <2> QED BY DEF IInv, RoleInv, GivenRoleStays
<1> QED BY <1>1, AccountsIInv, PTL

\* Redeeming codes for roles implements the ledger of redemption codes.
THEOREM RoleImplementsLedger == Spec => ImplementsLedger
<1>1. Init => Ledger!Init
  BY InitInLedger
<1>2. IInv /\ [Next]_vars => [Ledger!Next]_(Ledger!ledgerVars)
  BY NextInLedger DEF IInv, AccountInv
<1> QED BY <1>1, <1>2, AccountsIInv, PTL DEF Spec, ImplementsLedger, Ledger!Spec

\* An upsert changes a password only for a request whose code was mailed to the
\* account's email.
LEMMA UpsertOfPassword ==
  ASSUME AccountInv, NEW k \in Calls, CallStep(k), NEW i \in Users,
         Registered(i), Registered(i)', users'[i].password # users[i].password
  PROVE  call'[k] # call[k] /\ call[k].pin \in mailed[users[i].email]
<1> DEFINE e == call[k].email
<1>0. AccountTypeOK /\ CallsSet /\ PinsAreMailed /\ users \in [Users -> User \cup {Null}]
  BY DEF AccountInv, AccountTypeOK
<1>1. \A d, p : Insert(d, p) => users'[i] = users[i]
  <2>1. ASSUME NEW d, NEW p, Insert(d, p) PROVE i # NextUser
    BY <2>1, NextUserIsFree DEF Insert
  <2> QED BY <1>0, <2>1 DEF Insert
<1>2. users' # users
  OBVIOUS
<1>3. CASE InsertUser(k)
  BY <1>1, <1>2, <1>3 DEF InsertUser
<1>4. CASE UpsertLoggedIn(k)
  BY <1>0, <1>1, <1>4 DEF UpsertLoggedIn, Upsert
<1>5. CASE UpsertRegistered(k)
  <2>1. call[k].pc = "upsert" /\ i \in Ids(e)
    BY <1>0, <1>1, <1>5 DEF UpsertRegistered, CallAt, Upsert
  <2>2. users[i].email = e /\ call[k].pin \in mailed[e]
    BY <1>0, <2>1 DEF Ids, PinsAreMailed
  <2>3. call'[k].pc \in {"done", "find"}
    BY <1>0, <1>5 DEF UpsertRegistered, Upsert, AccountTypeOK, CallState
  <2> QED BY <2>1, <2>2, <2>3
<1> QED
  BY <1>2, <1>3, <1>4, <1>5
     DEF CallStep, MailPin, KeepPin, CheckPin, FindId, GiveDefaultRole, CallDies

\* A password changes by an admin's reset or by who read a code mailed to the
\* account's email, however registrations, logins and settings interleave.
THEOREM AccountsPasswordKept == Spec => PasswordKept
<1> DEFINE Kept ==
      \A i \in Users :
        Registered(i) /\ Registered(i)' /\ users'[i].password # users[i].password =>
          \/ \E p \in Passwords : ResetPassword(i, p)
          \/ \E k \in Calls : call'[k] # call[k] /\ call[k].pin \in mailed[users[i].email]
<1>1. IInv /\ [Next]_vars => [Kept]_accountVars
  <2> SUFFICES ASSUME IInv, [Next]_vars, NEW i \in Users, Registered(i), Registered(i)',
                      users'[i].password # users[i].password
               PROVE  \/ \E p \in Passwords : ResetPassword(i, p)
                      \/ \E k \in Calls : call'[k] # call[k] /\ call[k].pin \in mailed[users[i].email]
    OBVIOUS
  <2>0. AccountInv /\ WorldSet /\ users \in [Users -> User \cup {Null}] /\ users' # users
    BY DEF IInv, AccountInv, AccountTypeOK
  <2>1. Calling \/ Admin
    BY <2>0 DEF Next, vars, accountVars, RoleStep, Request, ReadCode, FindUser, CheckRole, Batch,
                Reply, Abandon
  <2>2. CASE Calling
    <3>1. \A k \in Calls : \A e : CallStarts(k, e) => users' = users
      BY DEF CallStarts, AskPin, OAuthLogin, Register
    <3> QED BY <2>0, <2>2, <3>1, UpsertOfPassword DEF Calling
  <2>3. CASE Admin
    <3>1. ASSUME NEW p, NEW e, CreateUser(e, p) PROVE FALSE
      <4>1. i # NextUser
        BY <3>1, NextUserIsFree DEF CreateUser, Insert
      <4> QED BY <2>0, <3>1, <4>1 DEF CreateUser, Insert
    <3>2. ASSUME NEW p \in world.passwords, NEW j \in world.administered, ResetPassword(j, p)
          PROVE  \E q \in Passwords : ResetPassword(i, q)
      <4>1. p \in Passwords /\ i = j
        BY <2>0, <3>2 DEF ResetPassword, WorldSet
      <4> QED BY <3>2, <4>1
    <3>3. ASSUME NEW j, DeleteUser(j) PROVE FALSE
      BY <2>0, <3>3 DEF DeleteUser, Registered
    <3> QED BY <2>0, <2>3, <3>1, <3>2, <3>3 DEF Admin, UpdateUserRoles, SaveUserSettings, PinExpires
  <2> QED BY <2>1, <2>2, <2>3
<1> QED BY <1>1, AccountsIInv, PTL DEF Spec, PasswordKept

\* However many requests of a session are refused with one expired token, it
\* is renewed once.
THEOREM SessionOneRenewal == Spec => []OneRenewal
<1>1. IInv => OneRenewal
  BY DEF IInv, SessionInv, OneRenewal
<1> QED BY <1>1, AccountsIInv, PTL

\* A mailbox request of a session that stays fails neither with the account's
\* token nor with its refresh.
THEOREM SessionMailboxIsIndependent == Spec => []MailboxIsIndependent
<1>1. IInv => MailboxIsIndependent
  BY DEF IInv, SessionInv, CallOfSession, MailboxIsIndependent
<1> QED BY <1>1, AccountsIInv, PTL

\* A request is repeated only in its own session and with another token than
\* the one it was refused with, whatever answers come late.
THEOREM SessionRetriesKeepSession == Spec => RetriesKeepSession
<1> DEFINE Keeps ==
      \A f \in Fetches :
        fetch'[f].again /\ ~fetch[f].again =>
          /\ fetch[f].user = userJwt /\ fetch[f].jwt = jwt
          /\ fetch'[f].access # fetch[f].access
<1>1. IInv /\ [Next]_vars => [Keeps]_sessionVars
  <2> SUFFICES ASSUME IInv, [Next]_vars, NEW f \in Fetches, fetch'[f].again, ~fetch[f].again
               PROVE  /\ fetch[f].user = userJwt /\ fetch[f].jwt = jwt
                      /\ fetch'[f].access # fetch[f].access
    OBVIOUS
  <2> DEFINE x == fetch[f]
  <2>0. /\ AccountTypeOK /\ CallOfSession(x) /\ x \in FetchState
        /\ fetch \in [Fetches -> FetchState] /\ settings \in Settings
    BY DEF IInv, AccountInv, SessionInv, SessionTypeOK
  <2>1. fetch' # fetch
    OBVIOUS
  <2>2. SessionStep \/ OtherTab(world.tokens)
    BY <2>1 DEF Next, vars, sessionVars, Page
  <2>3. ~Move
    <3>1. SUFFICES ASSUME Move PROVE FALSE
      OBVIOUS
    <3>2. fetch'[f].again = fetch[f].again
      BY <2>0, <3>1 DEF Move, FetchState
    <3> QED BY <3>2
  <2>4. ASSUME NEW h \in Fetches, NEW path, Send(h, path) PROVE FALSE
    <3>1. ~fetch'[f].again
      BY <2>0, <2>4 DEF Send, Put, Unsent
    <3> QED BY <3>1
  <2>5. ASSUME NEW h \in Fetches, Handle(h)
        PROVE  x.user = userJwt /\ x.jwt = jwt /\ fetch'[f].access # x.access
    <3>1. PICK answer \in {Verdict(fetch[h]), "lost"} :
            IF Matches(fetch[h], answer) THEN Renew(h)
            ELSE Put(h, Settled(fetch[h], answer)) /\ UNCHANGED pending
      BY <2>5 DEF Handle
    <3>2. \A y : Put(h, y) => h = f /\ fetch'[f] = y
      BY <2>0 DEF Put
    <3>3. Matches(fetch[h], answer)
      <4>1. answer \in {"ok", "denied", "expired", "lost"} /\ fetch[h].pc = "sent"
        BY <2>5 DEF Handle, Verdict
      <4>2. fetch[h] \in FetchState
        BY <2>0
      <4>3. ~Settled(fetch[h], answer).again
        BY <4>1, <4>2, CallSteps
      <4> QED BY <3>1, <3>2, <4>3
    <3>4. h = f
      BY <3>1, <3>2, <3>3 DEF Renew, Ask
    <3>5. Expired(x.access) /\ IsCurrentSession(x)
      BY <3>3, <3>4 DEF Matches, Verdict, Expired
    <3>6. ~Put(f, [x EXCEPT !.pc = "waiting"])
      BY <2>0, <3>2, <3>4 DEF FetchState
    <3>7. \/ Put(f, Again(x, Null)) 
          \/ Put(f, Again(x, settings.access)) /\ settings.access # x.access
      BY <3>1, <3>3, <3>4, <3>6 DEF Renew, Ask
    <3>8. \A access : Again(x, access).access = access
      BY <2>0 DEF Again, FetchState
    <3> QED BY <3>2, <3>4, <3>5, <3>7, <3>8 DEF Expired, IsCurrentSession
  <2>6. ASSUME NEW t \in UserTokens, Refreshed(t)
        PROVE  x.user = userJwt /\ x.jwt = jwt /\ fetch'[f].access # x.access
    <3>1. PICK answer \in SettingsAnswers(t) :
            LET used == answer # Null /\ userJwt = t
                now == IF used THEN answer ELSE settings
            IN fetch' = [d \in Fetches |->
                 IF Waiting(fetch[d], t)
                   THEN AfterRefresh(fetch[d], answer # Null, now.access) ELSE fetch[d]]
      BY <2>6 DEF Refreshed
    <3> DEFINE ok == answer # Null
               used == ok /\ userJwt = t
               now == IF used THEN answer ELSE settings
               access == IF ok THEN now.access ELSE Null
    <3>2. Waiting(x, t) /\ fetch'[f] = AfterRefresh(x, ok, now.access)
      BY <3>1
    <3>3. \A a \in {"failed", "changed"} : ~Settled(x, a).again
      <4>1. x.pc \in {"sent", "waiting"}
        BY <3>2 DEF Waiting
      <4> HIDE DEF x
      <4> QED BY <2>0, <4>1, CallSteps
    <3>4. IsCurrentSession(x) /\ fetch'[f] = Again(x, access)
      BY <3>2, <3>3 DEF AfterRefresh
    <3>5. x.user = t /\ Expired(x.access)
      BY <2>0, <3>2 DEF Waiting, CallOfSession
    <3>6. ~Expired(access)
      BY <2>0, <3>4, <3>5, AnswersAreFresh DEF IsCurrentSession, Expired
    <3>7. fetch'[f].access = access
      BY <2>0, <3>4 DEF Again, FetchState
    <3> QED BY <3>4, <3>5, <3>6, <3>7 DEF IsCurrentSession
  <2>7. ASSUME NEW g \in Loads, Load(g) \/ Loaded(g) \/ Tried(g) PROVE FALSE
    BY <2>1, <2>3, <2>7 DEF Load, Loaded, Tried
  <2>8. ~OtherTab(world.tokens)
    BY <2>3 DEF OtherTab
  <2> QED BY <2>2, <2>4, <2>5, <2>6, <2>7, <2>8 DEF SessionStep
<1> QED BY <1>1, AccountsIInv, PTL DEF Spec, RetriesKeepSession
=============================================================================
