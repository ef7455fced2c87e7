----------------------------- MODULE Background -----------------------------
(***************************************************************************)
(* What the worker does besides answering the web, in one system: mails    *)
(* arrive while the database is migrated, cron cleans up, and the Telegram *)
(* bot binds mailboxes to the users their mails are pushed to.             *)
(***************************************************************************)
EXTENDS EmailPipeline, Scheduled, TelegramBinding

\* A world says which mails are delivered, whether channels fail and workers
\* stop meanwhile, and whether mails are read and deleted; which admins ask for
\* migrations, of what versions, with how many D1 errors; what kind of row cron
\* is watched with, its first settings, their changes and the errors it meets; the
\* Telegram users, how many of their requests overlap, how many mailboxes may ever
\* be made, whether the admin or a cleanup deletes some, whether a worker may stop
\* between two calls, and whether the check of a credential may fail.
CONSTANT Worlds
VARIABLE world

ASSUME BackgroundAssumption ==
  /\ Null \notin Nat
  /\ \A w \in Worlds : /\ w.mails \subseteq Mails /\ w.admins \subseteq Admins
                       /\ w.versions \subseteq Versions \cup {Null}
                       /\ w.mishaps \in [reads : Nat, others : Nat]
                       /\ w.users \subseteq Users /\ w.slots \subseteq Slots
                       /\ w.ids \in 0..MaxId /\ {w.removals, w.stops, w.doubts} \subseteq BOOLEAN

vars == <<world, mailVars, dbVars, cronVars, telegramVars>>

Init ==
  /\ world \in Worlds
  /\ \E v \in world.versions : DbInit(v, world.mishaps)
  /\ MailInit
  /\ \E s \in world.settings : CronInit(world.watched, s, world.edits, world.errors)
  /\ TelegramInit

Mailing == \E m \in world.mails : MailStep(m, world.failing)
Inbox ==
  /\ world.inbox
  /\ \/ \E i \in 1..MaxMail : DeleteMail(i) \/ MarkRead(i, 0) \/ MarkRead(i, 1)
     \/ Tick

Migrating == \E r \in world.admins : DbRequest(r)
Cron == world.watched # {} /\ CronNext

Telegram ==
  /\ \/ world.slots # {} /\ Elsewhere(world.removals)
     \/ \E s \in world.slots : Request(s, world.users, world.stops, world.doubts)
  /\ lastId' <= world.ids

Next ==
  \/ (Mailing \/ Inbox) /\ UNCHANGED <<world, dbVars, cronVars, telegramVars>>
  \/ Migrating /\ UNCHANGED <<world, mailVars, cronVars, telegramVars>>
  \/ Cron /\ UNCHANGED <<world, mailVars, dbVars, telegramVars>>
  \/ Telegram /\ UNCHANGED <<world, mailVars, dbVars, cronVars>>

\* Requests in flight are carried on, and an admin who is told that the
\* database is not up to date asks again until it is; the platform keeps
\* sending cron events and runs their handler.
Fairness ==
  /\ \A r \in Admins : WF_dbVars(DbStep(r)) /\ SF_dbVars(r \in world.admins /\ Ask(r))
  /\ WF_cronVars(world.watched # {} /\ Trigger)
  /\ WF_cronVars(world.watched # {} /\ Cleanup)

Spec == Init /\ [][Next]_vars /\ Fairness

-----------------------------------------------------------------------------
\* A database that says it is current has every table, column and index the
\* code uses, whichever requests overlapped and failed on the way; as long as
\* no read of the version itself failed (db_api.ts migrate, initialize).
VersionIsTrue ==
  world.mishaps.reads = 0 /\ version = Current => schema = Everything

\* Requests come one after the other, and nothing else removes mailboxes.
Serial == (\E s \in Slots : world.slots = {s}) /\ ~world.removals /\ ~world.stops

Settled == \A s \in Slots : At(s, "idle")

\* Requests one after the other leave the two entries of a binding in step:
\* who is pushed a mailbox's mails has it on his list and can unbind it, unless
\* the check of his credential failed during a cleanup, which dropped it and let
\* the owner stay (telegram_api/common.ts jwtListToAddressData,
\* removeTelegramBinding).
OwnerIsListed ==
  Serial /\ Settled =>
    \A n \in Names : owner[n] # Null =>
      \E c \in Range(list[owner[n]]) \cup lost[owner[n]] : c.name = n

\* "Once bound, you will automatically receive push notifications": the last
\* user who bound a mailbox is pushed its mails until he unbinds it.
PushFollowsBinding ==
  Serial => \A n \in Names : pushed[n] # Null => owner[n] = pushed[n]

\* "Use /address to view your bound addresses": what a user bound is listed,
\* until he unbinds it, its mailbox is deleted or a cleanup could not check it.
\* As long as no check fails a cleanup drops nothing that is good.
BoundIsListed ==
  Serial => \A u \in Users : /\ mine[u] \subseteq Range(list[u]) \cup lost[u]
                             /\ world.doubts \/ lost[u] = {}
=============================================================================
