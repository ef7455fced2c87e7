---------------------------- MODULE EmailPipeline ----------------------------
(***************************************************************************)
(* Receiving a mail: the handler of worker/src/email/index.ts, from the    *)
(* block list to the auto reply, the row it stores (email/storage.ts) and  *)
(* the signed attachment links its webhooks carry (utils/webhook.ts,       *)
(* open_api/webhook_attachment.ts).  All mails go to one mailbox, where an *)
(* address tells no two rows apart; links are kept without their expiry.   *)
(***************************************************************************)
EXTENDS DbMigrate, FiniteSetsExt

CONSTANTS Mails,      \* the mails their senders deliver, with a Message-ID each
          MaxMail,    \* bound on the ids of raw_mails
          MaxSecond,  \* bound on the clock
          MaxTries,   \* times a sender delivers one mail
          Required,   \* columns the switches call for: raw_blob, is_unread
          GlobalList, \* FORWARD_ADDRESS_LIST
          RuleList    \* targets of the rules that match

Blocks == <<"global", "rules", "extract", "telegram", "webhook", "worker", "reply">>

\* The users of the admin's push list, one entry for all, come before the mailbox's.
PushTargets == <<"globalMailPush", "userPush">>

\* The admin's webhook comes before the mailbox's.  An answer of either is a success,
\* whatever it says.
WebhookTargets == <<"adminWebhook", "userWebhook">>

\* What a block attempts one after the other until an attempt throws.
Entries(block) ==
  CASE block = "global" -> GlobalList
    [] block = "rules" -> RuleList
    [] block = "telegram" -> PushTargets
    [] block = "webhook" -> WebhookTargets
    [] OTHER -> <<block>>

ASSUME PipelineAssumption ==
  /\ MaxMail \in Nat /\ MaxSecond \in Nat /\ MaxTries \in Nat
  /\ Required \subseteq {"raw_blob", "is_unread"}
  /\ GlobalList \in Seq(STRING) /\ RuleList \in Seq(STRING)
  /\ Null \notin [mail : Mails, at : Nat, packed : BOOLEAN, meta : Mails \cup {Null},
                  had : SUBSET Required, unread : {0, 1, Null}]

VARIABLES rawMails,   \* raw_mails: the row under each id, Null when there is none
          cache,      \* rawMailTableColumns of the isolate
          handler,    \* each mail's delivery
          tried,      \* channels that were offered the mail
          missed,     \* channels that failed
          links,      \* signed links sent, each to attachments of one mail
          second,     \* the clock of created_at
          copies,     \* history: times each mail was stored
          crashes,    \* history: times its worker stopped
          hasty       \* history: mails deleted in their second, or before their webhook

mailVars == <<rawMails, cache, handler, tried, missed, links, second, copies, crashes, hasty>>

AtSender == [at |-> "sender", tries |-> 0, id |-> 0, seen |-> {}, had |-> {}]

MailInit ==
  /\ rawMails = [i \in 1..MaxMail |-> Null]
  /\ cache = {}
  /\ handler = [m \in Mails |-> AtSender]
  /\ tried = [m \in Mails |-> {}] /\ missed = [m \in Mails |-> {}]
  /\ links = {} /\ second = 0
  /\ copies = [m \in Mails |-> 0] /\ crashes = [m \in Mails |-> 0]
  /\ hasty = {}

IsAt(m, place) == handler[m].at = place
GoTo(m, place) == handler' = [handler EXCEPT ![m].at = place]

\* The handler threw or its worker stopped: the sender may deliver again.
Again(m) ==
  handler' = [handler EXCEPT ![m] = [AtSender EXCEPT !.tries = handler[m].tries + 1]]

\* isBlocked is the one await whose error leaves the handler.
Deliver(m, failing) ==
  /\ IsAt(m, "sender") /\ handler[m].tries < MaxTries
  /\ \/ handler' = [handler EXCEPT ![m].at = "filter", ![m].had = schema \cap Required]
     \/ GoTo(m, "rejected")
     \/ failing /\ Again(m)
  /\ UNCHANGED <<rawMails, cache, tried, missed, links, second, copies, crashes, hasty>>

\* Junk mail and unknown addresses are rejected; errors let the mail through.
Filter(m) ==
  /\ IsAt(m, "filter")
  /\ GoTo(m, "columns") \/ GoTo(m, "rejected")
  /\ UNCHANGED <<rawMails, cache, tried, missed, links, second, copies, crashes, hasty>>

\* Mutant: columns are cached whatever they are.
ColumnsKept(m) ==
  /\ IsAt(m, "columns")
  /\ LET columns == IF cache # {} THEN cache ELSE schema
     IN /\ handler' = [handler EXCEPT ![m].at = "store", ![m].seen = columns \cap Required]
        /\ cache' = columns
  /\ UNCHANGED <<rawMails, tried, missed, links, second, copies, crashes, hasty>>

\* PRAGMA table_info, unless columns were cached that have all that is required.
Columns(m) ==
  /\ IsAt(m, "columns")
  /\ LET columns == IF Required \subseteq cache THEN cache ELSE schema
     IN \/ /\ handler' = [handler EXCEPT ![m].at = "store", ![m].seen = columns \cap Required]
           /\ cache' = IF Required \subseteq columns THEN columns ELSE cache
        \/ ~(Required \subseteq cache) /\ GoTo(m, Blocks[1]) /\ UNCHANGED cache
  /\ UNCHANGED <<rawMails, tried, missed, links, second, copies, crashes, hasty>>

\* INTEGER PRIMARY KEY without AUTOINCREMENT: one more than the largest id there.
Stored == {i \in 1..MaxMail : rawMails[i] # Null}
NextId == IF Stored = {} THEN 1 ELSE Max(Stored) + 1

\* A failure is logged, or told to the sender, and the handler goes on.
Store(m) ==
  /\ IsAt(m, "store")
  /\ \/ /\ NextId <= MaxMail
        /\ \E packed \in {FALSE, "raw_blob" \in handler[m].seen} :
             rawMails' = [rawMails EXCEPT ![NextId] =
               [mail |-> m, at |-> second, packed |-> packed, meta |-> Null,
                had |-> handler[m].had,
                unread |-> IF "is_unread" \in handler[m].seen THEN 1 ELSE Null]]
        /\ handler' = [handler EXCEPT ![m].at = Blocks[1], ![m].id = NextId]
        /\ copies' = [copies EXCEPT ![m] = @ + 1]
     \/ GoTo(m, Blocks[1]) /\ UNCHANGED <<rawMails, copies>>
  /\ UNCHANGED <<cache, tried, missed, links, second, crashes, hasty>>

\* UPDATE raw_mails SET metadata = ? WHERE message_id = ?
Extracted(m) ==
  [i \in 1..MaxMail |-> IF i \in Stored /\ rawMails[i].mail = m
                        THEN [rawMails[i] EXCEPT !.meta = m] ELSE rawMails[i]]

\* A link goes by the row now under the id that was stored.
Linked(m) ==
  LET i == handler[m].id
  IN IF i \in Stored THEN {[id |-> i, at |-> rawMails[i].at, mail |-> m]} ELSE {}

Onward(m, b) == GoTo(m, IF b = Len(Blocks) THEN "done" ELSE Blocks[b + 1])

\* Mutant: a forward that fails ends the handler.
AfterBlockHalts(m, b, failed) ==
  IF failed /\ Blocks[b] \in {"global", "rules"} THEN GoTo(m, "done") ELSE Onward(m, b)

\* Mutant: an error of the auto reply leaves the handler.
AfterBlockThrows(m, b, failed) ==
  IF failed /\ b = Len(Blocks) THEN Again(m) ELSE Onward(m, b)

\* Each block has a try of its own.
AfterBlock(m, b, failed) == Onward(m, b)

\* The first n entries of the block succeed, and the next one throws.
Perform(m, failing) ==
  \E b \in DOMAIN Blocks : \E n \in 0..Len(Entries(Blocks[b])) :
    LET entries == Entries(Blocks[b])
    IN /\ IsAt(m, Blocks[b]) /\ (failing \/ n = Len(entries))
       /\ tried' = [tried EXCEPT ![m] = @ \cup {entries[j] : j \in (1..(n + 1)) \cap DOMAIN entries}]
       /\ missed' = [missed EXCEPT ![m] = @ \cup {entries[j] : j \in {n + 1} \cap DOMAIN entries}]
       /\ rawMails' = IF Blocks[b] = "extract" /\ n = 1 THEN Extracted(m) ELSE rawMails
       /\ links' = IF Blocks[b] = "webhook" /\ n > 0 THEN links \cup Linked(m) ELSE links
       /\ AfterBlock(m, b, n < Len(entries))
       /\ UNCHANGED <<cache, second, copies, crashes, hasty>>

Handling(m) == handler[m].at \notin {"sender", "rejected", "done"}

\* The isolate goes, and its cache with it.
Crash(m) ==
  /\ Handling(m)
  /\ Again(m)
  /\ cache' = {}
  /\ crashes' = [crashes EXCEPT ![m] = @ + 1]
  /\ UNCHANGED <<rawMails, tried, missed, links, second, copies, hasty>>

\* By its owner or a cleanup.
DeleteMail(i) ==
  /\ i \in Stored
  /\ rawMails' = [rawMails EXCEPT ![i] = Null]
  /\ LET m == rawMails[i].mail
     IN hasty' = IF rawMails[i].at = second \/ Handling(m) THEN hasty \cup {m} ELSE hasty
  /\ UNCHANGED <<cache, handler, tried, missed, links, second, copies, crashes>>

MarkRead(i, value) ==
  /\ i \in Stored /\ "is_unread" \in schema \cap Required
  /\ value # (IF rawMails[i].unread = Null THEN 0 ELSE rawMails[i].unread)
  /\ rawMails' = [rawMails EXCEPT ![i].unread = value]
  /\ UNCHANGED <<cache, handler, tried, missed, links, second, copies, crashes, hasty>>

Tick ==
  /\ second < MaxSecond
  /\ second' = second + 1
  /\ UNCHANGED <<rawMails, cache, handler, tried, missed, links, copies, crashes, hasty>>

\* Channels fail and workers stop only in some worlds of the composition.
MailStep(m, failing) ==
  \/ Deliver(m, failing) \/ Filter(m) \/ Columns(m) \/ Store(m) \/ Perform(m, failing)
  \/ failing /\ Crash(m)

\* Mutant: created_at is not signed.
OpensAnyTime(l) == l.id \in Stored

\* getWebhookAttachment: the signature is checked against the row that is there.
Opens(l) == l.id \in Stored /\ rawMails[l.id].at = l.at

-----------------------------------------------------------------------------
\* A mail is stored once, and once more only when a worker stopped half way:
\* no later failure makes the sender deliver again (email/index.ts, the try
\* blocks after storeRawMail).
StoredOnce == \A m \in Mails : copies[m] <= 1 + crashes[m]

\* When a delivery is done every channel was attempted, unless an earlier target
\* of its own list failed: an address or a rule forwarded to, a user of the global
\* push list before the mailbox's user, the admin's webhook before the mailbox's
\* (email/index.ts, email/forward.ts, telegram.ts sendMailToTelegram, common.ts
\* triggerWebhook).
ChannelsIndependent ==
  \A m \in Mails : IsAt(m, "done") =>
    \A b \in Range(Blocks) : \A j \in DOMAIN Entries(b) :
      \/ Entries(b)[j] \in tried[m]
      \/ \E h \in 1..(j - 1) : Entries(b)[h] \in missed[m]

\* A signed link opens the attachments of its own mail or nothing, although
\* ids of deleted mails are used again (utils/webhook.ts getSignaturePayload).
LinkOpensItsMail ==
  \A l \in links : Opens(l) /\ l.mail \notin hasty => rawMails[l.id].mail = l.mail

\* A mail delivered after the migration carries a read status, whatever
\* columns the isolate cached before (email/storage.ts).
UnreadIsStored ==
  \A i \in Stored : "is_unread" \in rawMails[i].had => rawMails[i].unread # Null
=============================================================================
