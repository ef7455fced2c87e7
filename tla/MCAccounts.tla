----------------------------- MODULE MCAccounts -----------------------------
(***************************************************************************)
(* Instances of Accounts for TLC.                                          *)
(***************************************************************************)
EXTENDS Accounts, TLC

AnEmail == CHOOSE e \in Emails : TRUE
Another == CHOOSE e \in Emails : e # AnEmail

Quiet ==
  [emails |-> <<>>, role |-> AdminRole, verifying |-> TRUE,
   callers |-> {}, redeemers |-> {}, created |-> {}, passwords |-> {},
   administered |-> {}, given |-> {}, page |-> FALSE, tokens |-> {}]

\* One email registers and logs in by every way, twice at a time.
Registering ==
  [Quiet EXCEPT !.callers = {AnEmail}, !.passwords = {CHOOSE p \in Passwords : TRUE},
                !.administered = {1}, !.given = {Null}]

\* Two requests redeem two codes for one user whom the admin deletes, creates
\* again and gives roles to.
Redeeming ==
  [Quiet EXCEPT !.created = {AnEmail}, !.redeemers = {AnEmail}, !.administered = {1},
                !.passwords = {CHOOSE p \in Passwords : TRUE}, !.given = {Null, AdminRole}]

\* A page whose access token has expired; its account may lose its role.
Browsing ==
  [Quiet EXCEPT !.emails = <<AnEmail>>, !.page = TRUE, !.administered = {1}, !.given = {Null}]

\* Other tabs log out and in as another user.
Switching ==
  [Quiet EXCEPT !.emails = <<AnEmail, Another>>, !.page = TRUE,
                !.tokens = {Null, [id |-> 2, age |-> "new"]}]

Everyday == {Registering, Redeeming, Browsing, Switching}

\* An email registers after another account of the same id was deleted.
Inheritance ==
  {[Quiet EXCEPT !.emails = <<AnEmail>>, !.callers = {Another}, !.administered = {1}]}

Symmetry ==
  Permutations(Requests) \cup Permutations(Codes) \cup Permutations(Fetches)
=============================================================================
