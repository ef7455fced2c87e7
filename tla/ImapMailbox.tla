----------------------------- MODULE ImapMailbox -----------------------------
(***************************************************************************)
(* The IMAP proxy: sessions that keep an index of a mailbox they read page *)
(* by page over HTTP (smtp_proxy_server/imap_mailbox.py), and the flags    *)
(* they share in a SQLite file (flag_store.py).  A UID is the id of the    *)
(* mail's row, the newest mail is listed first and its id is the largest.  *)
(* A session handles one command at a time; parsed messages are left out.  *)
(***************************************************************************)
EXTENDS MailList

CONSTANTS Sessions,   \* IMAP connections, of one process or of several
          Flags       \* IMAP flags

VARIABLES kept,       \* imap_flags
          session,    \* what each connection has in memory
          mishaps     \* how much may still fail

imapVars == <<inbox, kept, session, mishaps>>

NoFlags == [u \in Uids |-> {}]

Fresh == [pc |-> "idle", built |-> FALSE, count |-> 0, index |-> {}, flags |-> NoFlags,
          total |-> 0, offset |-> 0, found |-> {}, op |-> {}, seen |-> NoFlags]

ImapInit(mails, n) ==
  /\ inbox = mails
  /\ kept = NoFlags
  /\ session = [s \in Sessions |-> Fresh]
  /\ mishaps = n

At(s, place) == session[s].pc = place
Become(s, x) == session' = [session EXCEPT ![s] = x]

\* SELECT always builds the index; STATUS and FETCH do when the count changed.
Select(s) ==
  /\ At(s, "idle")
  /\ Become(s, [session[s] EXCEPT !.pc = "count"])
  /\ UNCHANGED <<inbox, kept>>

Refresh(s) ==
  /\ At(s, "idle")
  /\ ~session[s].built \/ Cardinality(inbox) # session[s].count
  /\ Become(s, [session[s] EXCEPT !.pc = "count",
                  !.count = IF session[s].built THEN Cardinality(inbox) ELSE @])
  /\ UNCHANGED <<inbox, kept>>

ReadCount(s) ==
  /\ At(s, "count")
  /\ LET n == Cardinality(inbox)
     IN Become(s, IF n = 0
                    THEN [session[s] EXCEPT !.pc = "idle", !.built = TRUE, !.count = 0,
                                            !.index = {}, !.flags = NoFlags]
                    ELSE [session[s] EXCEPT !.pc = "page", !.count = n, !.total = n,
                                            !.offset = 0, !.found = {}])
  /\ UNCHANGED <<inbox, kept>>

ReadPage(s) ==
  /\ At(s, "page")
  /\ LET x == session[s]
         limit == Min({PageSize, x.total - x.offset})
         found == x.found \cup Listed(limit, x.offset)
     IN Become(s, IF x.offset + limit < x.total
                    THEN [x EXCEPT !.offset = @ + limit, !.found = found]
                    ELSE [x EXCEPT !.pc = "load", !.built = TRUE, !.index = found,
                                   !.total = 0, !.offset = 0, !.found = {}])
  /\ UNCHANGED <<inbox, kept>>

\* Mutant: the count is taken again when the index is complete.
LoadFlagsRecounting(s) ==
  /\ At(s, "load")
  /\ Become(s, [session[s] EXCEPT !.pc = "idle", !.flags = kept,
                                  !.count = Cardinality(inbox)])
  /\ UNCHANGED <<inbox, kept>>

LoadFlags(s) ==
  /\ At(s, "load")
  /\ Become(s, [session[s] EXCEPT !.pc = "idle", !.flags = kept])
  /\ UNCHANGED <<inbox, kept>>

\* STORE, or a FETCH that sets \Seen first.
StoreFlags(s, op) ==
  /\ At(s, "idle") /\ session[s].built
  /\ op.targets # {} /\ op.targets \subseteq session[s].index
  /\ Become(s, [session[s] EXCEPT !.pc = "lock", !.op = {op}])
  /\ UNCHANGED <<inbox, kept>>

\* Mutant: BEGIN without IMMEDIATE takes no lock to read.
LockShared(s) ==
  /\ At(s, "lock")
  /\ Become(s, [session[s] EXCEPT !.pc = "write", !.seen = kept])
  /\ UNCHANGED <<inbox, kept>>

\* BEGIN IMMEDIATE, and the SELECT: one writer at a time, over all processes.
Lock(s) ==
  /\ At(s, "lock")
  /\ \A r \in Sessions : ~At(r, "write")
  /\ Become(s, [session[s] EXCEPT !.pc = "write", !.seen = kept])
  /\ UNCHANGED <<inbox, kept>>

Ledger == INSTANCE FlagLedger WITH
  Clients <- Sessions,
  flags   <- kept,
  asked   <- [s \in Sessions |-> session[s].op]

\* The upserts and COMMIT; the new flags are on their way to the session.
Commit(s) ==
  /\ At(s, "write")
  /\ LET op == CHOOSE o \in session[s].op : TRUE
         new == Ledger!Applied(session[s].seen, op)
     IN /\ kept' = [u \in Uids |-> IF u \in op.targets THEN new[u] ELSE kept[u]]
        /\ Become(s, [session[s] EXCEPT !.pc = "answer", !.op = {}, !.seen = new, !.found = op.targets])
  /\ UNCHANGED inbox

Answer(s) ==
  /\ At(s, "answer")
  /\ LET x == session[s]
     IN Become(s, [x EXCEPT !.pc = "idle", !.seen = NoFlags, !.found = {},
                     !.flags = [u \in Uids |-> IF u \in x.found THEN x.seen[u] ELSE @[u]]])
  /\ UNCHANGED <<inbox, kept>>

\* The file is locked too long or cannot be written: ROLLBACK.
StoreFails(s) ==
  /\ At(s, "lock") \/ At(s, "write")
  /\ Become(s, [session[s] EXCEPT !.pc = "idle", !.op = {}, !.seen = NoFlags])
  /\ UNCHANGED <<inbox, kept>>

\* A request to the backend raises: the command ends, the count it has stays.
RequestFails(s) ==
  /\ At(s, "count") \/ At(s, "page")
  /\ Become(s, [session[s] EXCEPT !.pc = "idle", !.total = 0, !.offset = 0, !.found = {}])
  /\ UNCHANGED <<inbox, kept>>

\* The connection ends and the client makes a new one.
Reconnect(s) ==
  /\ At(s, "idle") \/ At(s, "count") \/ At(s, "page") \/ At(s, "load")
  /\ Become(s, Fresh)
  /\ UNCHANGED <<inbox, kept>>

\* The proxy restarts: what was not committed is rolled back.
Restart ==
  /\ session' = [s \in Sessions |-> Fresh]
  /\ UNCHANGED <<inbox, kept>>

Indexing(s) == ReadCount(s) \/ ReadPage(s) \/ LoadFlags(s)
Storing(s) == Lock(s) \/ Commit(s) \/ Answer(s)

Command(s, stores) ==
  \/ Select(s) \/ Refresh(s) \/ Indexing(s) \/ Storing(s)
  \/ \E op \in stores : StoreFlags(s, op)

\* Requests to the backend may be answered always.
Mishap(s, unreachable) ==
  \/ StoreFails(s) \/ Reconnect(s)
  \/ unreachable /\ RequestFails(s)

-----------------------------------------------------------------------------
\* Sessions that store at the same time lose none of each other's changes
\* (flag_store.py update_flags).
NoUpdateLost == Ledger!Spec
=============================================================================
