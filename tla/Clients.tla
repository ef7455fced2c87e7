------------------------------ MODULE Clients ------------------------------
(***************************************************************************)
(* Programs that ask the worker over HTTP and keep what it said: the IMAP  *)
(* proxy with its index of a mailbox, the page with the same mails, and    *)
(* the pages of redemption codes.                                          *)
(***************************************************************************)
EXTENDS ImapMailbox, MailBoxPage, RedeemPages

\* A world says which mails there are first, whether mails arrive and go, which
\* IMAP connections there are, the STOREs they make, how often something fails,
\* and whether requests to the backend fail too; which codes are issued at
\* first, the requests each of the two pages may have under way, and whether the
\* admin changes codes; how the page of mails shows them, and whether it is used
\* to read and to delete.
CONSTANT Worlds
VARIABLE world

ASSUME ClientsAssumption ==
  Worlds \subseteq
    [inbox : SUBSET Uids, arrivals : BOOLEAN, deletions : BOOLEAN, sessions : SUBSET Sessions,
     stores : SUBSET Ledger!Operation, mishaps : Nat, unreachable : BOOLEAN, split : BOOLEAN,
     browsing : BOOLEAN, tidying : BOOLEAN, issued : SUBSET Codes, shop : SUBSET Slots,
     desk : SUBSET Slots, editing : BOOLEAN]

vars == <<world, imapVars, boxVars, pageVars>>

Init ==
  /\ world \in Worlds
  /\ ImapInit(world.inbox, world.mishaps)
  /\ BoxInit(world.split, world.browsing)
  /\ PagesInit(world.issued)

Imap ==
  \/ \E s \in world.sessions : Command(s, world.stores) /\ UNCHANGED mishaps
  \/ /\ mishaps > 0
     /\ Restart \/ \E s \in world.sessions : Mishap(s, world.unreachable)
     /\ mishaps' = mishaps - 1

Mails ==
  /\ \/ world.arrivals /\ MailArrives
     \/ world.deletions /\ \E u \in Uids : MailGoes(u)
  /\ UNCHANGED <<kept, session, mishaps, boxVars>>

MailBox ==
  /\ \/ /\ \/ Tick \/ Browse
           \/ \E t \in Tasks : ReadMails(t) \/ Parsed(t)
           \/ world.tidying /\ Tidy
        /\ UNCHANGED <<inbox, mishaps>>
     \/ (\E t \in Tasks : DeleteNext(t)) /\ UNCHANGED mishaps
     \/ /\ mishaps > 0
        /\ \E t \in Tasks : Fails(t)
        /\ mishaps' = mishaps - 1 /\ UNCHANGED inbox
  /\ UNCHANGED <<kept, session>>

Pages ==
  \/ world.shop # {} /\ (Shopping(world.shop) \/ Elsewhere)
  \/ Listing(world.desk)
  \/ world.editing /\ Editing(world.desk)
  \/ Serving

Next ==
  \/ Mails /\ UNCHANGED <<world, pageVars>>
  \/ world.sessions # {} /\ Imap /\ UNCHANGED <<world, boxVars, pageVars>>
  \/ world.browsing /\ MailBox /\ UNCHANGED <<world, pageVars>>
  \/ Pages /\ UNCHANGED <<world, imapVars, boxVars>>

\* A command that was begun is carried on, and clients go on asking for the
\* status of the mailbox.  What the page waits for comes, or fails, and now and
\* then a tick of its timer finds it not loading.
Fairness ==
  /\ \A s \in Sessions :
       /\ WF_imapVars(Indexing(s) /\ UNCHANGED mishaps)
       /\ WF_imapVars(Storing(s) /\ UNCHANGED mishaps)
       /\ SF_imapVars(s \in world.sessions /\ Refresh(s) /\ UNCHANGED mishaps)
  /\ \A t \in Tasks : WF_boxVars(world.browsing /\ (ReadMails(t) \/ Parsed(t) \/ DeleteNext(t)))
  /\ SF_boxVars(world.browsing /\ Tick)

Spec == Init /\ [][Next]_vars /\ Fairness

-----------------------------------------------------------------------------
\* A session whose client goes on asking ends up with an index of the whole
\* mailbox, although mails arrive while it is read page by page
\* (imap_mailbox.py _build_uid_index, requestStatus).  As long as none is deleted
\* and every request is answered: a count that is back where it was, or that
\* was kept when the pages after it failed, hides the change for good.
IndexHeals ==
  \A s \in Sessions :
    s \in world.sessions /\ ~world.deletions /\ ~world.unreachable
      => <>[](session[s].built /\ session[s].index = inbox)
=============================================================================
