# Verification of the temporary-mail service

This directory holds a TLA+ model of the Cloudflare temporary-mail service of this
repository: modules, TLC configurations and TLAPS proofs. The code is the reference:
every definition is translated from the lines that `PROJECT.json` names under `map`.

## 1. The system

The service is a Cloudflare Worker (`worker/src`) in front of a D1 (SQLite) database
(`db/schema.sql`) and a KV namespace, with a Vue front end and two Python proxies
(`smtp_proxy_server`). Nothing runs in the background but the scheduled cleanup and the
email handler; everything else is an HTTP request.

What makes it hard is the same everywhere:

* a request is a chain of awaited calls, and other requests run between any two of them;
* one D1 statement is atomic and one `DB.batch` is a transaction, but a handler usually
  reads in one statement and writes in another;
* KV has no transaction and no compare-and-swap;
* a call may fail, or take effect and still throw; the isolate may die between two calls;
* the schema has no foreign keys: rows refer to mailboxes and users by name or number,
  and both can be deleted and made again.

| component | state | operations | what makes it correct |
|---|---|---|---|
| redeem codes, `redeem_api/` | table `redeem_codes` | admin creates, edits, deletes; a user redeems for credit, a role or a mailbox | a code pays once; what it paid is what it offered; the answer is true |
| sender rows, `send_balance.ts`, `address_sender_api.ts` | table `address_sender` | default balance, credit, deduction, admin edits | no credit or deduction is lost; a ban stays |
| sending mail, `send_mail_api.ts`, `send_mail_limit_utils.ts` | `address_sender`, `settings` counters, `sendbox` | check balance, check limits, call the provider, count, deduct, file | limits and balance overshoot only by what is in flight; every mail is charged and filed |
| mailbox lifecycle, `common.ts`, `bind_address.ts`, `address_api.ts` | `address`, `users_address` and five tables keyed by name | create, bind, unbind, transfer, delete | no rows without a mailbox; a mailbox has one owner; old credentials die with a transfer |
| telegram binding, `telegram_api/common.ts` | two KV keys per binding | new, bind, unbind, delete, clean | the two keys agree; no binding is lost; the maximum holds |
| receiving mail, `email/` | `raw_mails`, the column cache of the isolate, calls to others | filter, store, forward, extract, push, webhook, answer | one failing step does not stop the others; a mail is stored once; links stay with their mail |
| scheduled cleanup, `scheduled.ts` | all tables | a sequence of deletions | each enabled cleanup happens |
| users, `user_api/` | `users`, `user_roles`, `user_passkeys`, KV codes | register, log in, verify, OAuth2, passkey | a password changes only by its owner or an admin; new users have the default role |
| session of the front end, `frontend/src/api/` | tokens in localStorage, settings of the page | request, renew, send again | one renewal serves all; nothing is sent again for another session |
| page of mails, `MailBox.vue` | page, rows, open mail, `loading`, functions that wait | refresh, turn pages, open, delete, timer | it comes back to what the server has |
| pages of redemption codes, `Redeem.vue`, `admin/RedeemCodes.vue` | what was looked up, rows, a form, requests under way | query, redeem, show the result; list, edit, save, delete | a late answer changes nothing; a code keeps a value of its type |
| access control, `ip_blacklist.ts`, `worker.ts` | a settings blob, KV counters | allow, deny, count | an allowed address is never counted; the daily limit |
| migration, `db_api.ts` | `db_version` | initialise, migrate | a failed migration can be repeated |
| IMAP proxy, `imap_mailbox.py`, `flag_store.py` | UID index, message cache, SQLite flags | select, fetch, store, status | the index becomes complete; no flag lost |
| SMTP proxy, parsers, other views, docs | none | conversions | - |

The components meet in the tables. A redemption credits the sender row that a mail
deducts from; deleting a mailbox removes rows that a redemption or a mail is about to
write; a role redemption and an admin edit the same `user_roles` row.

## 2. Modules

| module | models |
|---|---|
| `Sql` | the NULL of SQL |
| `RedeemLedger` | what redeeming promises: a code is exchanged once, in one step, for what it offers in that step |
| `RedeemCodeTable` | `redeem_codes` and the admin's operations on it; the conditional claim |
| `SenderTable` | `address_sender` and everybody's updates of it |
| `RedeemSendBalance`, `RedeemRole`, `RedeemAddress` | the three redemption handlers, each extending the table and implementing the ledger |
| `SendMail` | `sendMail` with its balance and its two limits, extending `SenderTable` |
| `AddressTable` | table `address`, its AUTOINCREMENT ids and what makes a credential good |
| `AddressLifecycle` | bind, unbind, transfer, delete and clean up mailboxes, extending `AddressTable` |
| `TelegramBinding` | the two KV entries of a Telegram binding, extending `AddressTable` |
| `UserAccounts` | `users`, `user_roles` and the mailed codes: registration, OAuth2, the admin's endpoints |
| `UserSession` | a page of the front end with its tokens: requests, the interceptor that renews the access token, the renewal of the user token, other tabs |
| `Accounts` | composition: role codes, accounts and a page over the same tables |
| `DbMigrate` | `initialize` and `migrate` |
| `EmailPipeline` | the handler of a received mail, extending `DbMigrate` for the columns it finds |
| `Scheduled` | the run of cleanups |
| `Background` | composition: what the worker does besides answering the web: mails that arrive, migrations, cron, and the Telegram bot |
| `FlagLedger` | what the IMAP proxy promises of flags: each STORE applied whole, or refused |
| `MailList` | the mails of one mailbox, listed by limit and offset |
| `ImapMailbox` | IMAP sessions, their index and the flags they share, extending `MailList` and implementing the ledger |
| `MailBoxPage` | the list of mails in the browser, extending `MailList` |
| `RedeemPages` | the two pages of redemption codes and the queries they make, extending `RedeemCodeTable` |
| `Clients` | composition: the programs that ask the worker over HTTP and keep what it said, `ImapMailbox`, `MailBoxPage` and `RedeemPages` |
| `SharedLemmas` | facts about sums and about the table of codes that several proofs use |
| `*Proofs` | the theorems of the module they extend |
| `MC*` | the small instances |

Each module keeps the program's own control flow. A request is a record: a program
counter named after what the handler does next, its arguments, and every value it read
earlier and will still use. One action is one awaited call with the code up to the next
one, so the interleavings TLC explores are exactly those of the event loop. A batch is
one action, because D1 runs it as one transaction. `Abandon`, `Crash`, `CallDies` and
`RequestFails` are the exception or the killed isolate at any await.

Data is abstract where no property looks at it: codes, mailboxes and users are model
values, the value of a code is a number or a role, the content of a mail is nothing.

### Redeem codes

`RedeemCodeTable` holds `codes`, one row per code or `NoRow`. `Available` is what
`getRedeemCodeForRedemption` accepts; `Claimable` is the WHERE clause of the claiming
UPDATE, which asks the row again. The handlers read the row first (`ReadCode`) and go by
that copy until they claim, so an admin's edit, an expiry or a second request in between
is what the runs are about. Three histories record what happened: `grants` (what each
code paid), and per request the answer it gave.

`RedeemSendBalance` credits a mailbox: existence check, default balance, one batch of
claim and credit chained by `changes()`. `RedeemRole` is a batch of four statements: mark
the code, write the role if it may be written, unmark when it was not, complete the
result. `RedeemAddress` has no batch: it creates the mailbox, claims the code in a second
call and deletes the mailbox when the claim is lost or throws. A request for a code that
is already redeemed answers with the stored mailbox.

### Sending

`SendMail` follows `sendMail`: `EnsureDefault`, `ReadBalance`, `ReadLimits`, `CheckDaily`,
`CheckMonthly`, the provider (`Rejected`, `Accepted`), `ReadCountLimits`, `IncDaily`,
`IncMonthly`, `Cleanup`, `Deduct`, `SaveSendbox`. The configuration is read twice, before
and after the provider, and the two counter keys are made from the clock when it is read
(`Keyed`). Three kinds of mail differ in what they pay: a user's, one that is exempt (an
admin, a role or an address without a limit, a verified recipient) and the admin's raw
route. A read that fails is swallowed by `getSetting`: of the configuration it is taken for none
(`LimiterFails`), of a counter for 0 (`Readings`), after which the monthly check is still made. `CountFails`
is the `catch` of the counting: it lets the mail go on.

### Mailboxes

`AddressLifecycle` has one request record for all operations: `bindByID` (`CheckMailbox`,
`CheckUser`, `CheckOwned`, `CheckLimit`, `InsertBinding`), `unbind`, `transferAddress` (which
removes the binding, deletes the row, inserts it again under a new id, reads that id back by name
and binds it), `deleteAddressWithData` and three conditions of `batchDeleteAddressWithData`.
`mails` stands for the tables keyed by name; `Sweep`, `Release` and `Drop` are the deletion's
three phases (data, bindings, row), and `Doomed` is the condition that each statement of a batch
cleanup asks again. A mail is `late` when its mailbox is gone or already swept, `kept` otherwise;
`origin` and `gap` record what transfers did.

`TelegramBinding` keeps the two KV entries of a binding, a user's `list` of credentials and a
mailbox's `owner`. Each KV get and put is an action of its own, and `slot` holds the copy of the
list a request read and will write back. Deletions and transfers of a mailbox elsewhere unbind it
first (`LookUp`, `GetOwner`, `DropOwner`, then `GoOn`); an admin's deletion does not. `Verify` checks one
credential: `jwtListToAddressData` takes whatever the check throws for a bad credential, an error of D1
too, so a good one may be found `bad`. A cleanup then drops it; `lost` remembers that it did. `Kept` is
JavaScript's `filter`, as a recursive function, and `Stop` a worker that ends between two calls.

### Accounts and the page that is logged in

`UserAccounts` has one record per call of `verify_code`, `register` or `oauth2_login`. `AskPin`,
`MailPin`, `KeepPin` are the three awaits of a code; `CheckPin` compares with what KV holds by then;
`InsertUser` is the INSERT without verification, `UpsertRegistered` the one with it, and `FindId`,
`GiveDefaultRole` what follows. Ids are given again after a deletion, as SQLite does without
AUTOINCREMENT. `RedeemRole` reads and writes the same `users` and `roles`.

`UserSession` is a page. `Send` takes the tokens as they are, `Handle` is the answer, which
`Matches` may hand to the interceptor: `Renew` uses the token that is there by now, joins the
request that is pending for this user token, or makes one, and `Refreshed` is its answer and
everything that waited for it, which the event loop runs before any other event. `Load`, `Loaded`
and `Tried` are `getUserSettings`; `OtherTab` writes localStorage. The worker's half is `Verdict`
and `SettingsAnswers`, over the tables of `UserAccounts`, so an account may lose its role or
disappear under the page.

### What happens in the background

`DbMigrate` starts from what the code of some version set up (`AsOf`), or from a database without a
version: empty, or made by the `db/schema.sql` of this version (`Found`), as the guide has it
(`vitepress-docs/docs/en/guide/cli/d1.md:12`, `ui/d1.md:17`), which makes the tables and saves no version. One
that an older `schema.sql` made is not among the starts, see section 5. The module
keeps `schema` as the set of what the versions have in more than one way, and climbs the
`Ladder` of `migrate`: `Look`, `Alter`, `CreateIndex`, then `Exec` with the statements of
`DB_INIT_QUERIES` and `SaveVersion`. `Ask` is what the admin's page offers for the version it read.
`getSetting` swallows the error of a failed query and answers null: `mishaps.reads` says how often.

`EmailPipeline` follows one delivery: `Deliver` (block list), `Filter` (junk mail, unknown
mailboxes), `Columns` and `Store`, and then `Perform` for each of seven blocks. An error leaves the
handler only at the block list; anywhere else it is caught by a `try` of the block (`AfterBlock`).
A block attempts its `Entries` in turn until one throws: the forwards of both lists, the users of the
admin's push list before the mailbox's own (`PushTargets`), the admin's webhook before the mailbox's
(`WebhookTargets`). `ChannelsIndependent` is therefore about blocks: within one, a target that throws keeps
the mail from those after it. The push list is one entry, however many users it has.
`Crash` is the isolate going away; the sender then delivers again, `MaxTries` times at most. `links`
holds the signed links that webhooks carried, and `Opens` is the check of their signature.

`Scheduled` walks through `Kinds`. A cleanup that is on and has no sensible days throws and ends the
run, as does an error of D1; a custom statement answers with its error. `Remaining` is what a batch
leaves: the oldest rows go first. `CleanupNow` is the admin's own request.

### IMAP

`ImapMailbox` has one record per connection: `Select` and `Refresh` start an index, `ReadCount`,
`ReadPage` and `LoadFlags` build it, with pages cut by offset from a list whose newest mail is first.
`StoreFlags`, `Lock`, `Commit` and `Answer` are a STORE; the lock is that of the SQLite file, over
threads and processes. `Restart` loses every session and rolls back what was not committed.

### The page of mails

`MailBoxPage` is `MailBox.vue`. Each element of `Tasks` is a function of the page that awaits something: a
`refresh` (`ReadMails`, then `Parsed` when the mails have been decoded) or a deletion (`DeleteNext` for
each mail, then a refresh). The number of the page is watched, so that whoever changes it and refreshes
has two requests under way (`FetchPage`), and `then` is what `prevMail` and `nextMail` open afterwards.
`loading` is the page's one flag: every request sets and clears it, the user's clicks are held off by it,
and the timer (`Tick`) waits for it. No function remembers which request was the newest.

### The pages of redemption codes

`RedeemPages` has the page where a code is redeemed (`shop`: the input, what the last query said,
whether the form was opened, the result) and the admin's (`desk`: the type selected, the rows shown,
the form). `call` holds the requests of both pages. An answer comes back in any order, as an error
although the worker did what was asked, or never; it may be taken late. Target fields, pagination and
downloads are left out: a list is one page of rows. The pages show one flag
`loading`, which the first answer clears, so that they can be used while other requests are under way.
`newest` is the number a query or a list took (`latestQueryRequest`, `latestFetchRequest`):
`Outdated` is the increment. A query whose answer is shown goes on to load the page's settings and may
fail in that (`ContextLoaded`). `learned` records of which codes a query, a redemption or a result told the shop that they
are redeemed; `Overtaken` is the one exception, item 10 of section 5. The worker's half is one step per request (`Serve`): what a query, a list and a
result answer (`Info`, `Rows`, `Result`), and the redemption as one atomic `Grant`, since its own steps
are in the redemption modules. `Elsewhere` is another user, the admin and the clock.

## 3. Runs

A run of a module that has a constant `Worlds` checks several situations at once: the first state
picks a world, which says who acts and what may fail, and keeps it. This keeps every world small
where one instance with everything would not be checked in the time there is.

| run | worlds | shows |
|---|---|---|
| `send_balance` | | two requests, two credit codes, one mailbox, with admin edits, mails, bans and expiry: each code credits once, the answers are true, no credit or deduction is lost, and the handler implements `RedeemLedger` |
| `address` | `Calm`, `Faulty` | losing claims are undone by a DELETE; claims commit and throw; mailboxes are deleted meanwhile: no mailbox serves two codes, a mailbox that was handed out stays, all successful answers for a code name one mailbox, losers leave none behind, and the handler implements `RedeemLedger` |
| `address_lost_ack` | `OnlyLostAck` | expects a violation, see section 5 |
| `lifecycle` | `Binding`, `Deleting` | binds, transfers and cleanups of two mailboxes by two users; and a worker that stops anywhere, mails that arrive, a user who leaves: the limit is exceeded by less than the requests in flight, a transfer binds the mailbox it made or a later one of that name, no mailbox goes without the mails it had, but for the two cleanups of item 4 in section 5 |
| `send_mail` | | with limits that cannot be read, counters, deductions, filing, provider and worker that fail: each accepted mail is charged, once |
| `send_mail_limits` | | across midnights and the end of a month, with a provider, deductions and filing that fail: the overshoot of limits and balance is bounded by the requests in flight (with these bounds only the day's limit can be exceeded; the theorem is about both), no request deletes today's counter, and with both limits on and no count lost the month counts no less than its days, increments under way included |
| `telegram` | `Overlapping`, `Alternating`, `Doubting` | two overlapping requests of one user that may stop anywhere: the maximum holds; two users, one request after the other: list and owner agree, the last to bind a mailbox gets its pushes, what was bound is listed; the same with checks of credentials that fail: only a cleanup drops a good credential |
| `accounts` | `Registering`, `Redeeming`, `Browsing`, `Switching` | two calls register one email by every way; two role codes for a user who is deleted and made again; a page with an expired access token, whose account loses its role or whose session is changed by another tab |
| `accounts_inheritance` | `Inheritance` | expects a violation, see section 5 |
| `background` | `Delivering`, `Failing`, `Upgrading`, `Migrations`, `Cleanups` | two mails delivered while mails are read and deleted; one mail with everything failing; mails delivered during a migration; two admins migrating any version, an empty database and one of `schema.sql`, with two D1 errors; cron with one kind of row, settings that change and an error |
| `background_lost_read` | `LostRead` | expects a violation, see section 5 |
| `clients` | `Growing`, `Flagging`, `Changing`, `Looking`, `Tidying`, `Clearing`, `Shop`, `AddressShop`, `Lists`, `Editor` | an index read while mails arrive, over restarts; two connections that store flags of the same messages; mails that come and go while requests fail; the page of mails read, tidied and refreshed by its timer while mails arrive and requests fail, which comes back to the newest mails; two requests of the shop while somebody else redeems the code, for a role's code and for a mailbox's; two lists of the desk; and its editor with codes of two types: the desk ends up with rows of the selected type, the shop shows nothing as unused that it was told is redeemed, but for item 10 of section 5, and no code gets a value of another type |

**Bounds.** Two requests are enough for every race of this code, since no handler waits for another;
`Symmetry` swaps them. A slot of `SendMail`, `AddressLifecycle` and `TelegramBinding` is reused, so
their runs hold more requests than slots. What would grow without end is bounded in a guard, by a
constant of the module that names it: `MaxBatch` codes made at a time, `MaxSends` mails per mailbox
and `MaxMails` in all, `MaxDay` days, `MaxId` rows in `address`, `MaxMail` ids in `raw_mails`, `MaxUser` users,
`MaxUid` mails of an IMAP mailbox, `MaxSecond` seconds of `created_at`, `MaxTries` deliveries. A
world bounds how often something fails (`mishaps`, `errors`) and how often settings change
(`edits`). Each is high enough that every kind of step happens before, between and after the steps
of a request: a transfer needs two ids, so three let another creation or transfer come in between;
two users let an id be given again; four mails in pages of two shift a page while it is read; two
requests under way are answered in both orders, which is what one refresh of the page of mails
makes, and the editor has one, since it reads the list again itself; two rows of a kind in batches
of one leave a backlog. Limits and balances are one or two, so that two requests reach them. A code
is edited, withdrawn and restored any number of times. Three days, two to a month, show both kinds
of rollover.

The two values of a code in `send_balance` are what a stale copy of the row could be
confused with. `address` has two codes in `Calm` and one in `Faulty`, where its subject is two
requests for the same one; `MailboxIsExclusive` and `HandedOutStays` are about the world where nobody
deletes a mailbox while it is made. `lifecycle` has the cleanup of empty mailboxes only where it
looks at mails, see section 5.

**Deadlock.** Runs say `CHECK_DEADLOCK FALSE` where the bounds let everything come to an
end.

**Fairness.** Four properties are about what must happen in the end.

* `MigrationConverges`: requests in flight go on (weak fairness of `DbStep`), and an admin who is
  told that the database is not up to date asks again (strong fairness of `Ask`, since other
  requests keep disabling it). Failures are finitely many. Without the look before each ALTER the second attempt
  would fail for ever.
* `DueIsDeleted`: the platform sends cron events and runs their handler (weak fairness of `Trigger`
  and `Cleanup`). Rows arrive for ever and need no fairness. The property assumes that the settings stay
  such that the cleanup is reached: settings without sensible days for an earlier cleanup stop it
  for good.
* `IndexHeals`: a command that was begun goes on (weak fairness), and the client goes on asking for
  the status (strong fairness of `Refresh`).

* `ListCatchesUp`: what the page of mails waits for comes or fails (weak fairness of `ReadMails`, `Parsed`,
  `DeleteNext`; failures are finitely many), and now and then a tick of its timer finds it not loading
  (strong fairness of `Tick`, as the user may go on clicking). It is about the time when the timer stays
  on; mails arrive or are deleted, but not both for ever.

The workers of the other modules promise nothing about a request that is never answered, and
have no fairness.

## 4. Proofs

TLC shows the properties on two or three requests; the theorems hold for any set of requests, codes,
users, mailboxes, mails, connections, limits, days and faults, and for every set of worlds. They rest
only on the named assumptions of the modules, which TLC evaluates with every run:

* constants have their types, and NULL is no value (`SenderAssumption`, `SendMailAssumption`,
  `AccountAssumption`, `RoleAssumption`, `AddressAssumption`, `LifecycleAssumption`, `KindAssumption` and so on);
* a world has the fields its module reads (`WorldAssumption`, `BackgroundAssumption`, `ClientsAssumption`);
* request slots are finitely many where they are counted (`SlotsAssumption`, `LifecycleSlots`);
* the calendar does not run backwards (`CalendarAssumption`), forwarding lists are sequences of targets
  (`PipelineAssumption`), there is a mailbox to log in to (`SessionAssumption`), and each type of code has
  a value (`KindAssumption`).

Nearly every property needs a stronger invariant than itself. It says what a request in flight has seen
or done by its program counter, and relates that to the tables.

* `SharedLemmas`: what the admin's steps and the clock preserve of `redeem_codes` and that they are
  steps of the ledger; and what `MapThenSumSet` computes for every finite set: 0 for none, one
  addend more with each element, whichever `CHOOSE` takes first. The proof is by a set with the fewest
  elements for which it fails, as `<` is well founded.
* `RedeemSendBalanceProofs`: `ConsumedOnce`, `ReplyIsTruthful`, `GrantHonoursOffer`, the refinement
  `ImplementsLedger`, `BalanceAccounts`, and that the ledger itself pays a code once. The invariant adds to
  the types that the values a request will use were set by its earlier steps, that
  each grant is accounted for by the row it redeemed, and that a request that says success
  has its grant. The refinement follows step by step: the batch maps to the ledger's
  exchange, everything else to an edit of the offer or a stutter. `AccountInv` says of every mailbox no
  admin adjusted that its balance is the default, plus the sum of its grants, less its mails.
* `RedeemAddressProofs`: `MailboxIsExclusive`, `RepliesConverge`, `NoMailboxLeaks`, `HandedOutStays` and
  `ImplementsLedger`. The invariant ties each request to the row it made (`OwnRow`, `HoldsOwn`), the result of each
  redeemed code to its grant, and each answer to the result of the code.
* `AccountsProofs`: for role codes `ResultIsTheGrant`, `OneRoleWins` and `ImplementsLedger`; for accounts
  `PasswordKept`; for the page `OneRenewal`, `MailboxIsIndependent` and `RetriesKeepSession`. One invariant for the
  composition, since deleting a user moves all three: `AccountInv`, `RoleInv`, and `SessionInv`, which says of
  every call under way which tokens it was sent with and what it waits for.
* `SendMailProofs`: `BalanceFloor`, `OvershootBounded`, `MailsAreCharged`, `MonthCoversDays` and
  `CurrentCountKept`. None is inductive: a balance of -1 with two requests past the check may reach -3.
  `FloorInv` adds the requests that have passed the check and not yet deducted: the balance less
  their number stays above minus the number of slots. `DayInv` and `MonthInv` do the same for each counter
  with the requests that will still count, and `KeysPast` says that no request holds a key of a day to
  come, which the step over midnight needs. `ChargedInv` counts what requests still owe as charged,
  and `CoverInv` what they have counted for the day and not yet for the month. `MonthCoversDays` is about
  runs in which both limits stay on and no counting fails (`BothCounted`).
* `AddressLifecycleProofs`: `BindOvershoot`, `TransfersItsOwn` and `MailsGoWithMailbox`. `CountInv` adds the
  requests past the limit check to a user's bindings; `OriginInv` says that the id a transfer has read
  back by name was given after its own INSERT; `MailsInv` that nothing is kept
  under a name whose data a deletion has swept and whose row it will delete. The last is about worlds without the two
  cleanups of finding 4 below (`"created"` and `"unbound"`), for which it is false.
* `BackgroundProofs`: of `EmailPipeline`, `StoredOnce`, `ChannelsIndependent`, `LinkOpensItsMail` and
  `UnreadIsStored`; of the migration, `VersionIsTrue`, in worlds where no read of the settings is lost and from the starts of `Found`
  (`mishaps.reads = 0`; finding `background_lost_read` is what happens otherwise). `DbInv` says which steps
  of the `Ladder` every migration under way has seen to, by its position; `MailInv` which blocks a delivery has done, and
  that rows, links and the column cache agree.
  `TelegramInv` is the bot's part, of `TelegramBinding`: `LimitHolds`, for any requests that overlap and stop,
  because the copy that a request will append to is shorter than the maximum (`RequestOK`) whatever
  the list is by now; `OwnerIsListed`, `PushFollowsBinding` and `BoundIsListed`, for worlds where one
  request follows the other, because the copy is the list then (`SerialOK`), and an owner who is not
  listed is being unbound or his credential is one a cleanup could not check (`OwnersInv`). Checks may fail
  at will there: the theorems say that only a cleanup can do this harm, and where none fails, nothing. `KeptFacts` says what a filter returns for every list: a list of the entries that
  pass, no longer than it was.
* `ClientsProofs`: that the flags of the IMAP proxy implement `FlagLedger` (`NoUpdateLost`), because one
  connection at most is between its SELECT and its COMMIT and what it read is what is kept; and of
  the pages of redemption codes `LateAnswersIgnored` and `ValuesFitTypes`. `PagesInv` says that one query at
  most is the newest, that the newest list is of the type selected, that an answer on its
  way told the truth when it was given, that a code that was redeemed stays so or is deleted, and that
  no answer on its way that is the newest query's calls a code unused that is in `learned`.

What stays with TLC:

* the four liveness properties, and with them fairness: `MigrationConverges`, `DueIsDeleted`,
  `IndexHeals`, `ListCatchesUp`. The provers have no ENABLED.
* the three violations of section 5, which are counterexamples.

## 5. Disagreements found

Three statements of the repository are refuted by runs that expect their violation, quoted in
`PROJECT.json`.

* `address_lost_ack`: when the claim of a mailbox code commits and its call throws, `redeemAddress`
  deletes the mailbox the code is now redeemed for, even if another request was answered with it.
* `background_lost_read`: `getSetting` answers null when its query fails. `migrate` takes that for a
  database without a version, skips every ALTER, and saves the current version (`db_api.ts:163`,
  234): the column `raw_blob`, which the guide promises after a migration, is missing, and no later
  migration is due.
* `accounts_inheritance`: `deleteUser` (`admin_user_api.ts:103`) leaves the `user_roles` row, and the
  id is given again. The next user who registers with verification keeps the old role, and does
  not get the default one the guide promises to new users.

The modules also reach the following states. They are listed for the reader and have no run of
their own; each follows from a schedule of two requests.

1. `redeemSendBalance` looks for the mailbox (`redeem_code.ts:284`) and credits in a later batch
   (296): a mailbox deleted in between is credited, and the code spent. `redeemRole` has the same
   gap for a deleted user (217, 235).
2. `bindByID` looks for the mailbox (`bind_address.ts:40`) and binds it later (65): deleted in
   between, it leaves a binding that counts against the limit and cannot be removed (88).
3. `deleteAddressWithData` verifies name and id and deletes by name (`common.ts:653`): a mailbox
   that was deleted and made again in between is deleted with its mails.
4. `batchDeleteAddressWithData` asks its condition in six statements (`common.ts:581`). For the
   oldest rows, or the unbound ones, it may delete a row whose data an earlier statement did not
   select. `lifecycle` therefore has only the cleanup of empty mailboxes where it looks at mails, for
   which it cannot.
5. Two overlapping Telegram binds of one user write back lists read before (`common.ts:29` and 51,
   85 and 94): one is lost. `removeTelegramBinding` reads the owner and deletes the key in two
   calls (118, 119): a bind by another user in between loses its pushes. A worker that stops
   between the two keys of a binding leaves them apart.
   A check that fails does without any overlap: `jwtListToAddressData` (`common.ts:71`) files the credential
   as invalid whatever was thrown, and `/cleaninvalidaddress` (`telegram.ts:291`) drops it. Its owner
   key stays: the mails are still pushed to the user, who has the mailbox no longer on his list and cannot
   unbind it there. A bind whose check of the list fails appends a credential that is listed already.
6. `getUserSettings` (`frontend/src/api/index.js:187`) takes its answer whoever is logged in by then,
   and makes `userSettings.new_user_token` the user token (195) after another await: a page whose
   session another tab changed may put the former one back.
7. An IMAP session rebuilds its index when the count differs from the one it has. An arrival and a
   deletion between two looks leave the count equal and the index stale; a request that fails after
   the count was stored (`imap_mailbox.py:104`) does the same. `IndexHeals` excludes both.
8. `raw_mails.id` is not AUTOINCREMENT: the id of the newest mail is given again once it is
   deleted, and with it the flags an IMAP proxy keeps for that UID. A signed attachment link does not
   follow, unless both mails have the same second of `created_at` or the row is replaced before the
   webhook reads it (`LinkOpensItsMail` excludes both).
9. Without verification `register` never gives the default role (`user.ts:146`), as the guide says; OAuth2
   logins give it whatever the setting.
10. A query of the shop that was answered before the code was redeemed, and whose answer arrives after
   that of the redemption, removes the result from the page and shows the code as unused
   (`Redeem.vue:151` to 153 ask only for the newest query, and a redemption is none).
   `LateAnswersIgnored` excludes this schedule, by name (`Overtaken`), and no other.
11. `prevMail` on the first mail of a page turns back a page and opens its last mail
   (`MailBox.vue:146`), but the watcher's own refresh (203) then shows the first one, or none in the list
   view. A refresh that is answered after the page was turned shows the mails of the old page under the
   number of the new one (213), until the next refresh.
12. `createRedeemCodes` writes batches of 100 (`admin_redeem_code_api.ts:97`): when a later one fails,
   the codes of the earlier ones exist although the admin is told of an error.
13. A database that was made by an older `schema.sql`, as the guide says, and never initialised has tables
   and no version. `migrate` skips every ALTER for it and saves the current version, as `initialize` does
   (`db_api.ts:146`, 162 to 238), or fails on the index of a missing column for ever (`source_meta`). `VersionIsTrue`
   and `MigrationConverges` are about the starts of `Found`, without these.
14. One target of a push list or of the webhooks that throws keeps the mail from the targets after it
   (`telegram.ts:510`, `common.ts:915`), the mailbox's own coming last.

That limits may be exceeded by concurrent mails is no disagreement: the documentation calls
them a soft guard (`vitepress-docs/docs/en/guide/config-send-mail.md:191`). The run and the
theorem say how soft.

## 6. Plan

1. Redeem codes, sending, `AddressLifecycle`, `TelegramBinding` (done).
2. `ImapMailbox` and `FlagLedger`; `EmailPipeline`, `Scheduled`, `DbMigrate` and their composition
   with the liveness properties; `UserAccounts`, `UserSession` and `Accounts`; `MailBoxPage`,
   `RedeemPages` and `Clients` (done).
3. Proofs: every invariant and every action property of the passing runs, and the refinements (done).
   What is left are the temporal properties, which the provers cannot reach.

## 7. Not modelled

* Statistics and most listings: they change nothing. The deletions of single mails and of the
  sendbox are one statement each; the mail's is `DeleteMail`.
* Formatting and parsing of mail, the rules that find codes in it, the language model's answers and
  the junk-mail policy: conversions of data no property tells apart.
* The views of the front end but the page of mails and the two of redemption codes, its messages in
  seven languages, the pages and the documentation: text and rendering. They are more than half of
  the lines that count as implementation, which is why the share of lines the map covers is small
  although nearly every handler that changes state is modelled.
* Calls to Telegram, webhooks and S3 beyond their success or failure; OAuth2 and WebAuthn
  cryptography; passkeys, whose counter is read and written around a library call.
* The IP lists and the daily counter in KV (`ip_blacklist.ts`), which counts concurrent requests once.
* The SMTP proxy, which makes one HTTP call per message and keeps nothing.
