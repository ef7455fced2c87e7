---------------------------- MODULE MCBackground ----------------------------
(***************************************************************************)
(* Instances of Background for TLC.                                        *)
(***************************************************************************)
EXTENDS Background

Forwards == <<"g1", "g2">>
Rules == <<"f1">>

AllOn == [k \in Range(Kinds) |-> "on"]
Cleaning ==
  {AllOn, [AllOn EXCEPT !["sendbox"] = "senseless"],
   [AllOn EXCEPT !["mails"] = "off", !["inactiveAddress"] = "senseless"],
   [AllOn EXCEPT !["custom"] = "senseless"]}

Quiet ==
  [mails |-> {}, failing |-> FALSE, inbox |-> FALSE, admins |-> {}, versions |-> {Current},
   mishaps |-> [reads |-> 0, others |-> 0], watched |-> {},
   settings |-> {AllOn}, edits |-> 0, errors |-> 0,
   users |-> {}, slots |-> {}, ids |-> 0, removals |-> FALSE, stops |-> FALSE,
   doubts |-> FALSE]

Delivering == [Quiet EXCEPT !.mails = Mails, !.inbox = TRUE]
Failing ==
  [Quiet EXCEPT !.mails = {CHOOSE m \in Mails : TRUE}, !.failing = TRUE]
Upgrading ==
  [Quiet EXCEPT !.mails = Mails, !.admins = {CHOOSE r \in Admins : TRUE}, !.versions = {7}]
Migrations ==
  [Quiet EXCEPT !.admins = Admins, !.versions = Versions \cup {Null}, !.mishaps.others = 2]
Cleanups ==
  {[Quiet EXCEPT !.watched = {k}, !.settings = Cleaning, !.edits = 1, !.errors = 1] :
     k \in {"mails", "mails_unknow", "addressCreated", "custom"}}

Everyday == {Delivering, Failing, Upgrading, Migrations} \cup Cleanups

\* The one read of the version fails.
LostRead == {[Quiet EXCEPT !.admins = Admins, !.versions = {6}, !.mishaps.reads = 1]}
=============================================================================
