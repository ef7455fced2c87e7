------------------------------ MODULE MailList ------------------------------
(***************************************************************************)
(* The mails of one mailbox as its clients list them: the newest first, by *)
(* limit and offset.  Ids are not AUTOINCREMENT: the id of the newest mail *)
(* is given again once it is deleted.                                      *)
(***************************************************************************)
EXTENDS Naturals, FiniteSetsExt

CONSTANTS MaxUid,     \* bound on the ids of mails
          PageSize    \* mails a request asks for

Uids == 1..MaxUid

ASSUME ListAssumption == MaxUid \in Nat /\ PageSize \in Nat \ {0}

VARIABLE inbox        \* ids of the mails there are

MailArrives ==
  LET id == IF inbox = {} THEN 1 ELSE Max(inbox) + 1
  IN /\ id <= MaxUid
     /\ inbox' = inbox \cup {id}

MailGoes(u) ==
  /\ u \in inbox
  /\ inbox' = inbox \ {u}

\* ORDER BY id DESC LIMIT ? OFFSET ?
Listed(limit, offset) ==
  {u \in inbox : Cardinality({v \in inbox : v > u}) \in offset..(offset + limit - 1)}
=============================================================================
