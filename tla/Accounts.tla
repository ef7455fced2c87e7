------------------------------ MODULE Accounts ------------------------------
(***************************************************************************)
(* Accounts, the codes that change their roles, and a page that is logged  *)
(* in to one of them, over the tables they share.                          *)
(***************************************************************************)
EXTENDS RedeemRole, UserSession, Sequences

\* A world says which emails have accounts at first, with what role, and
\* whether codes are mailed; for which emails the endpoints are called, codes
\* are redeemed and an admin creates accounts, and the passwords these get; which
\* ids the admin deletes and gives which roles; whether a page is open, and the
\* tokens other tabs, if there are any, log in with.
CONSTANT Worlds

ASSUME WorldAssumption ==
  \A w \in Worlds :
    /\ w.emails \in Seq(Emails) /\ w.role \in Roles \cup {Null} /\ w.verifying \in BOOLEAN
    /\ w.callers \subseteq Emails /\ w.redeemers \subseteq Emails /\ w.created \subseteq Emails
    /\ w.passwords \subseteq Passwords
    /\ w.administered \subseteq Users /\ w.given \subseteq Roles \cup {Null}
    /\ w.tokens \subseteq UserTokens \cup {Null}

VARIABLE world

vars == <<world, accountVars, roleVars, sessionVars>>

Init ==
  /\ world \in Worlds
  /\ AccountInit(world.emails, world.role, world.verifying)
  /\ RoleInit
  /\ SessionInit(world.role)

Calling == \E k \in Calls : CallStep(k) \/ \E e \in world.callers : CallStarts(k, e)

Admin ==
  \/ \E p \in world.passwords :
       \/ \E e \in world.created : CreateUser(e, p)
       \/ \E i \in world.administered : ResetPassword(i, p)
  \/ \E i \in world.administered :
       DeleteUser(i) \/ \E role \in world.given : UpdateUserRoles(i, role)
  \/ world.callers # {} /\ (SaveUserSettings \/ \E e \in world.callers : PinExpires(e))

Page ==
  /\ world.page
  /\ SessionStep \/ (world.tokens # {} /\ OtherTab(world.tokens))

Next ==
  \/ (Calling \/ Admin) /\ UNCHANGED <<world, roleVars, sessionVars>>
  \/ world.redeemers # {} /\ RoleStep(world.redeemers) /\ UNCHANGED <<world, sessionVars>>
  \/ Page /\ UNCHANGED <<world, accountVars, roleVars>>

Spec == Init /\ [][Next]_vars

\* "Default role for new users, only effective when email verification is
\* enabled" (vitepress-docs/docs/en/guide/worker-vars.md:144): a new user who
\* was told of success has that role, unless an admin or a code changed it.
NewUsersHaveDefaultRole ==
  \A k \in Calls :
    call[k].reply = "ok" /\ call[k].new /\ call[k].id # Null =>
      \/ roles[call[k].id] = DefaultRole
      \/ call[k].id \in adjusted \/ \E g \in grants : g.to = call[k].id
=============================================================================
