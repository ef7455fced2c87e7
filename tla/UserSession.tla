---------------------------- MODULE UserSession ----------------------------
(***************************************************************************)
(* A page of the web frontend: apiFetch and getUserSettings of             *)
(* frontend/src/api/index.js, and user-access-token-interceptor.js, which  *)
(* renews an access token the worker refused as expired and sends the      *)
(* request again.  userJwt and jwt are kept in localStorage, where another *)
(* tab may change them; userSettings is the page's own.  Within the time   *)
(* looked at no new token expires: a request lasts 30 s, a token an hour.  *)
(***************************************************************************)
EXTENDS UserAccounts

CONSTANTS Fetches,    \* calls of apiFetch
          Loads,      \* calls of getUserSettings
          Mailboxes,  \* address credentials
          AdminRole   \* ADMIN_USER_ROLE

ASSUME SessionAssumption == Mailboxes # {}

VARIABLES userJwt,    \* the user token, Null for none
          jwt,        \* the address credential
          settings,   \* userSettings: its access_token and new_user_token
          fetch,      \* the calls' local state
          load,       \* those of getUserSettings
          pending,    \* pendingRefreshes: the user tokens it has a request for
          renewals    \* history: refreshes that replaced the access token in this session

sessionVars == <<userJwt, jwt, settings, fetch, load, pending, renewals>>

\* Ages of user tokens: less than seven days left, or new.
UserTokens == [id : Users, age : {"old", "new"}]

Unsent == [pc |-> "idle", path |-> "admin", user |-> Null, access |-> Null, jwt |-> Null,
           answer |-> "none", again |-> FALSE, moved |-> FALSE]
Unloaded == [pc |-> "idle", user |-> Null]

InFlight(x) == x.pc \notin {"idle", "settled"}

\* The access token is an hour old.
SessionInit(role) ==
  /\ userJwt = [id |-> 1, age |-> "old"]
  /\ jwt = CHOOSE m \in Mailboxes : TRUE
  /\ settings = [access |-> [id |-> 1, role |-> role, expired |-> TRUE], renewed |-> Null]
  /\ fetch = [f \in Fetches |-> Unsent]
  /\ load = [g \in Loads |-> Unloaded]
  /\ pending = {}
  /\ renewals = 0

-----------------------------------------------------------------------------
(* The worker's answers: worker.ts and user_api/settings.ts. *)

\* GET /user_api/settings: the role as it is now, in a token of one hour, and a
\* new user token for one about to expire; or nothing.  An answer is taken as
\* given when it is handled: what it says does not depend on the page.
SettingsAnswers(token) ==
  {Null} \cup
  IF ~Registered(token.id) THEN {}
  ELSE {[access  |-> IF roles[token.id] = Null THEN Null
                     ELSE [id |-> token.id, role |-> roles[token.id], expired |-> FALSE],
         renewed |-> IF token.age = "new" THEN Null ELSE [token EXCEPT !.age = "new"]]}

\* checkoutUserRolePayload for mailbox and user paths, the admin's middleware.
Verdict(x) ==
  IF x.path = "user" /\ x.user = Null THEN "denied"
  ELSE IF x.access # Null /\ x.access.expired THEN "expired"
  ELSE IF x.path = "admin" /\ (x.access = Null \/ x.access.role # AdminRole) THEN "denied"
  ELSE "ok"

-----------------------------------------------------------------------------
(* apiFetch. *)

Put(f, x) == fetch' = [fetch EXCEPT ![f] = x]
Settled(x, answer) ==
  [Unsent EXCEPT !.pc = "settled", !.path = x.path, !.answer = answer, !.moved = x.moved]

Send(f, path) ==
  /\ fetch[f].pc = "idle"
  /\ Put(f, [Unsent EXCEPT !.pc = "sent", !.path = path,
               !.user = userJwt, !.access = settings.access, !.jwt = jwt])
  /\ UNCHANGED <<userJwt, jwt, settings, load, pending, renewals>>

\* Mutant: the session at the time of the answer does not matter.
AnySession(x) == TRUE
IsCurrentSession(x) == x.user = userJwt /\ x.jwt = jwt

\* Only the first answer of a call is intercepted.
Matches(x, answer) ==
  /\ answer = "expired" /\ ~x.again
  /\ IsCurrentSession(x)
  /\ x.user # Null \/ x.path = "mailbox"

Again(x, access) ==
  [x EXCEPT !.pc = "sent", !.access = access, !.again = TRUE]

Waiting(x, token) == x.pc = "waiting" /\ x.user = token

Ask(f) ==
  /\ Put(f, [fetch[f] EXCEPT !.pc = "waiting"])
  /\ pending' = pending \cup {fetch[f].user}

\* Mutant: whoever is refused asks for a refresh.
RenewAlways(f) ==
  IF fetch[f].user = Null THEN Put(f, Again(fetch[f], Null)) /\ UNCHANGED pending
  ELSE Ask(f)

\* The token in use by now, or the refresh that is under way, or a new one.
Renew(f) ==
  LET x == fetch[f]
  IN IF x.user = Null THEN Put(f, Again(x, Null)) /\ UNCHANGED pending
     ELSE IF settings.access # x.access
       THEN Put(f, Again(x, settings.access)) /\ UNCHANGED pending
     ELSE Ask(f)

\* The answer arrives, or the request fails.
Handle(f) ==
  LET x == fetch[f]
  IN /\ x.pc = "sent"
     /\ \E answer \in {Verdict(x), "lost"} :
          IF Matches(x, answer) THEN Renew(f)
          ELSE Put(f, Settled(x, answer)) /\ UNCHANGED pending
     /\ UNCHANGED <<userJwt, jwt, settings, load, renewals>>

\* Mutant: a failed refresh fails whatever waits for it.
AfterRefreshStrict(x, ok, access) ==
  IF ~ok THEN Settled(x, "failed")
  ELSE IF ~IsCurrentSession(x) THEN Settled(x, "changed") ELSE Again(x, access)

\* What becomes of a call that waited: a mailbox does without the token.
AfterRefresh(x, ok, access) ==
  IF ~ok /\ x.path # "mailbox" THEN Settled(x, "failed")
  ELSE IF ~IsCurrentSession(x) THEN Settled(x, "changed")
  ELSE Again(x, IF ok THEN access ELSE Null)

\* The answer is used if the user token is still the one it was asked with;
\* then everything that waits goes on before any other event.
Refreshed(t) ==
  /\ t \in pending
  /\ \E answer \in SettingsAnswers(t) :
       LET used == answer # Null /\ userJwt = t
           now == IF used THEN answer ELSE settings
       IN /\ settings' = now
          /\ renewals' = renewals + IF used THEN 1 ELSE 0
          /\ fetch' = [f \in Fetches |->
               IF Waiting(fetch[f], t)
                 THEN AfterRefresh(fetch[f], answer # Null, now.access) ELSE fetch[f]]
  /\ pending' = pending \ {t}
  /\ UNCHANGED <<userJwt, jwt, load>>

-----------------------------------------------------------------------------
(* getUserSettings, which several components call while the page is mounted. *)

Become(g, x) == load' = [load EXCEPT ![g] = x]

Load(g) ==
  /\ load[g].pc = "idle" /\ userJwt # Null
  /\ Become(g, [pc |-> "asked", user |-> userJwt])
  /\ UNCHANGED <<userJwt, jwt, settings, fetch, pending, renewals>>

\* The session of what is in flight is not the current one any more.
Move ==
  /\ fetch' = [f \in Fetches |-> [fetch[f] EXCEPT !.moved = @ \/ InFlight(fetch[f])]]
  /\ renewals' = 0

\* The answer is taken whoever is logged in by now; then its new user token is
\* tried, and the one userSettings holds after that becomes userJwt.
Loaded(g) ==
  /\ load[g].pc = "asked"
  /\ \E answer \in SettingsAnswers(load[g].user) :
       IF answer = Null THEN Become(g, Unloaded) /\ UNCHANGED settings
       ELSE /\ settings' = answer
            /\ Become(g, IF answer.renewed = Null THEN Unloaded
                         ELSE [pc |-> "trying", user |-> answer.renewed])
  /\ UNCHANGED <<userJwt, jwt, fetch, pending, renewals>>

Tried(g) ==
  /\ load[g].pc = "trying"
  /\ \E answer \in SettingsAnswers(load[g].user) :
       IF answer = Null THEN UNCHANGED <<userJwt, fetch, renewals>>
       ELSE userJwt' = settings.renewed /\ Move
  /\ Become(g, Unloaded)
  /\ UNCHANGED <<jwt, settings, pending>>

\* Another tab logs in, logs out or opens another mailbox.
OtherTab(tokens) ==
  /\ \/ \E t \in tokens : t # userJwt /\ userJwt' = t /\ UNCHANGED jwt
     \/ \E m \in Mailboxes : m # jwt /\ jwt' = m /\ UNCHANGED userJwt
  /\ Move
  /\ UNCHANGED <<settings, load, pending>>

SessionStep ==
  \/ \E f \in Fetches :
       (\E path \in {"mailbox", "user", "admin"} : Send(f, path)) \/ Handle(f)
  \/ \E t \in UserTokens : Refreshed(t)
  \/ \E g \in Loads : Load(g) \/ Loaded(g) \/ Tried(g)

-----------------------------------------------------------------------------
\* "concurrent and late responses share one access token refresh"
\* (e2e/tests/browser/user-access-token.spec.ts): in one session an expired
\* token is replaced once, however many requests it was refused to.
OneRenewal == renewals <= 1

\* "failed shared refresh preserves independent mailbox requests": a mailbox
\* request whose session stays is refused neither for an expired access token
\* nor for a failed refresh, whatever becomes of the account it came with.
MailboxIsIndependent ==
  \A f \in Fetches :
    fetch[f].pc = "settled" /\ fetch[f].path = "mailbox" /\ ~fetch[f].moved
      => fetch[f].answer \in {"ok", "lost"}

\* No request is sent again in another session than the one it was made in,
\* nor with the access token it was refused with.
RetriesKeepSession ==
  [][\A f \in Fetches :
       fetch'[f].again /\ ~fetch[f].again =>
         /\ fetch[f].user = userJwt /\ fetch[f].jwt = jwt
         /\ fetch'[f].access # fetch[f].access]_sessionVars
=============================================================================
