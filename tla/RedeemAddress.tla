--------------------------- MODULE RedeemAddress ---------------------------
(***************************************************************************)
(* Redeeming a code for a mailbox: redeemCode, redeemAddress and           *)
(* claimRedeemedAddress of worker/src/redeem_api/redeem_code.ts, with the  *)
(* part of newAddress (worker/src/common.ts) that touches table address.   *)
(* Unlike the other two benefits the mailbox cannot be made in the         *)
(* transaction that takes the code: it is inserted first, the code is      *)
(* claimed for it, and a request that loses the claim deletes its mailbox  *)
(* again and answers with the winner's.                                    *)
(***************************************************************************)
EXTENDS RedeemCodeTable

CONSTANTS Requests,        \* the redemption requests
          Names,           \* mailbox names
          MaxId,           \* bound: rows ever inserted in table address
          Worlds           \* what may go wrong around the requests, see world

ASSUME AddressAssumption ==
  /\ MaxId \in Nat
  /\ Worlds \subseteq [lostAcks : BOOLEAN, inFlightDeletes : BOOLEAN, issues : Nat]
  /\ Null \notin Codes /\ Null \notin Names /\ Null \notin Requests
  /\ Null \notin Nat /\ Null \notin [id : Nat, name : Names]

\* A world says whether D1 may commit a claim and its call still throw, whether
\* others may delete a mailbox that is still being made, and, as a bound, how
\* many codes the admin issues.
VARIABLES world,   \* the world this behaviour is in
          rows,    \* table address: the name of each id, Null if there is none
          nextId,  \* AUTOINCREMENT: no id is used twice
          req,     \* the requests' local state
          grants,  \* history: every mailbox a code was claimed for
          maker,   \* history: the request that inserted the row, Null if another
          broken   \* history: requests whose newAddress failed after its INSERT

vars == <<world, codes, rows, nextId, req, grants, maker, broken>>

Ids == 1..MaxId

\* The complete response: address, id and the credential made from them.
Mailbox == [id : Ids, name : Names]

Idle == [pc |-> "start", code |-> Null, value |-> Null, seen |-> Null,
         name |-> Null, id |-> Null, reply |-> "none", given |-> Null]

Init ==
  /\ world \in Worlds
  /\ CodesInit
  /\ rows = [i \in Ids |-> Null]
  /\ nextId = 1
  /\ req = [r \in Requests |-> Idle]
  /\ grants = {}
  /\ maker = [i \in Ids |-> Null]
  /\ broken = {}

-----------------------------------------------------------------------------
(* The steps of a request. *)

Goto(r, label) == [req EXCEPT ![r] = [@ EXCEPT !.pc = label]]

Finish(r, answer, box) ==
  [req EXCEPT ![r] = [@ EXCEPT !.pc = "done", !.reply = answer, !.given = box]]

\* getRedeemCodeForRedemption; a redeemed code of this type is answered with
\* the mailbox it was redeemed for.
ReadCode(r, c) ==
  /\ req[r].pc = "start"
  /\ req' = IF Available(c)
              THEN [req EXCEPT ![r] =
                     [Idle EXCEPT !.code = c, !.value = codes[c].value,
                        !.seen = codes[c].result,
                        !.pc = IF codes[c].redeemed THEN "replay" ELSE "create"]]
              ELSE Finish(r, "refused", Null)
  /\ UNCHANGED <<codes, rows, nextId, grants, maker, broken>>

\* SELECT id FROM address WHERE id = ? AND name = ?
Exists(box) == box # Null /\ rows[box.id] = box.name

\* getRedeemedAddress on the row read last, and the answer from it.
Replay(r) ==
  /\ req[r].pc = "replay"
  /\ req' = IF Exists(req[r].seen) THEN Finish(r, "ok", req[r].seen)
                                   ELSE Finish(r, "refused", Null)
  /\ UNCHANGED <<codes, rows, nextId, grants, maker, broken>>

\* Mutant: address.name is not UNIQUE.
TakenNever(n) == FALSE

Taken(n) == \E i \in Ids : rows[i] = n

\* INSERT INTO address(name, source_meta); with a random subdomain the loop of
\* newAddress comes here again with another name until one is free.
InsertAddress(r, n) ==
  /\ req[r].pc = "create"
  /\ ~Taken(n) /\ nextId \in Ids
  /\ rows' = [rows EXCEPT ![nextId] = n]
  /\ maker' = [maker EXCEPT ![nextId] = r]
  /\ nextId' = nextId + 1
  /\ req' = [req EXCEPT ![r] = [@ EXCEPT !.pc = "select", !.name = n]]
  /\ UNCHANGED <<codes, grants, broken>>

\* newAddress throws before it inserts: the name is taken, or it is refused.
CreateFails(r) ==
  /\ req[r].pc = "create"
  /\ req' = Goto(r, "reread")
  /\ UNCHANGED <<codes, rows, nextId, grants, maker, broken>>

\* SELECT id FROM address WHERE name = ?: the row with that name by now.
SelectId(r) ==
  /\ req[r].pc = "select"
  /\ \/ \E i \in Ids :
          /\ rows[i] = req[r].name
          /\ req' = [req EXCEPT ![r] = [@ EXCEPT !.pc = "claim", !.id = i]]
     \/ ~Taken(req[r].name) /\ req' = Goto(r, "reread")
  /\ UNCHANGED <<codes, rows, nextId, grants, maker, broken>>

\* A statement of newAddress after its INSERT throws; nothing deletes the row.
SelectFails(r) ==
  /\ req[r].pc = "select"
  /\ req' = Goto(r, "reread")
  /\ broken' = broken \cup {r}
  /\ UNCHANGED <<codes, rows, nextId, grants, maker>>

\* The conditional UPDATE of claimRedeemedAddress, when it changes one row.
TakeCode(r) ==
  LET c == req[r].code
      box == [id |-> req[r].id, name |-> req[r].name]
  IN /\ Claimable(c, req[r].value)
     /\ codes' = [codes EXCEPT ![c] = Redeemed(c, box)]
     /\ grants' = grants \cup {[code |-> c, value |-> req[r].value,
                                to |-> req[r].id, by |-> r]}

\* Mutants: meta.changes is not looked at, or misread.
ClaimUnchecked(r) ==
  /\ req[r].pc = "claim"
  /\ TakeCode(r) \/ (~Claimable(req[r].code, req[r].value) /\ UNCHANGED <<codes, grants>>)
  /\ req' = Goto(r, "reply")
  /\ UNCHANGED <<rows, nextId, maker, broken>>
ClaimMisread(r) ==
  /\ req[r].pc = "claim"
  /\ TakeCode(r) \/ (~Claimable(req[r].code, req[r].value) /\ UNCHANGED <<codes, grants>>)
  /\ req' = Goto(r, "undo")
  /\ UNCHANGED <<rows, nextId, maker, broken>>

\* The UPDATE and the look at meta.changes.
Claim(r) ==
  /\ req[r].pc = "claim"
  /\ \/ TakeCode(r) /\ req' = Goto(r, "reply")
     \/ /\ ~Claimable(req[r].code, req[r].value)
        /\ req' = Goto(r, "undo")
        /\ UNCHANGED <<codes, grants>>
  /\ UNCHANGED <<rows, nextId, maker, broken>>

\* The call throws, with or without its statement having been committed.
ClaimThrows(r) ==
  /\ req[r].pc = "claim"
  /\ \/ world.lostAcks /\ TakeCode(r)
     \/ UNCHANGED <<codes, grants>>
  /\ req' = Goto(r, "undoThrow")
  /\ UNCHANGED <<rows, nextId, maker, broken>>

Reply(r) ==
  /\ req[r].pc = "reply"
  /\ req' = Finish(r, "ok", [id |-> req[r].id, name |-> req[r].name])
  /\ UNCHANGED <<codes, rows, nextId, grants, maker, broken>>

\* Mutant: no compensation.
UndoNothing(r) ==
  /\ req[r].pc \in {"undo", "undoThrow"}
  /\ req' = IF req[r].pc = "undo" THEN Goto(r, "reread")
                                  ELSE Finish(r, "lost", Null)
  /\ UNCHANGED <<codes, rows, nextId, grants, maker, broken>>

\* DELETE FROM address WHERE id = ? AND name = ?, after a lost claim or a claim
\* that threw; the exception is then thrown on.
Undo(r) ==
  /\ req[r].pc \in {"undo", "undoThrow"}
  /\ rows' = [rows EXCEPT ![req[r].id] = IF @ = req[r].name THEN Null ELSE @]
  /\ req' = IF req[r].pc = "undo" THEN Goto(r, "reread")
                                  ELSE Finish(r, "lost", Null)
  /\ UNCHANGED <<codes, nextId, grants, maker, broken>>

\* getRedeemCodeForRedemption once more, for the result of another request.
Reread(r) ==
  /\ req[r].pc = "reread"
  /\ req' = IF Available(req[r].code)
              THEN [req EXCEPT ![r] = [@ EXCEPT !.pc = "replay",
                                         !.seen = codes[req[r].code].result]]
              ELSE Finish(r, "refused", Null)
  /\ UNCHANGED <<codes, rows, nextId, grants, maker, broken>>

\* Another call throws or the isolate dies: the caller learns nothing.
Abandon(r) ==
  /\ req[r].pc \notin {"start", "done"}
  /\ req' = Finish(r, "lost", Null)
  /\ UNCHANGED <<codes, rows, nextId, grants, maker, broken>>

Request(r) ==
  \/ \E c \in Codes : ReadCode(r, c)
  \/ Replay(r)
  \/ \E n \in Names : InsertAddress(r, n)
  \/ CreateFails(r)
  \/ SelectId(r)
  \/ SelectFails(r)
  \/ Claim(r)
  \/ ClaimThrows(r)
  \/ Reply(r)
  \/ Undo(r)
  \/ Reread(r)
  \/ Abandon(r)

-----------------------------------------------------------------------------
(* The rest of the system, as far as it touches these tables. *)

TableChanges ==
  /\ TableStep
  /\ Cardinality({c \in Codes : codes'[c].status # "unissued"}) <= world.issues
  /\ UNCHANGED <<rows, nextId, req, grants, maker, broken>>

\* Any other creation of a mailbox.
CreateOther(n) ==
  /\ ~Taken(n) /\ nextId \in Ids
  /\ rows' = [rows EXCEPT ![nextId] = n]
  /\ nextId' = nextId + 1
  /\ UNCHANGED <<codes, req, grants, maker, broken>>

\* The mailbox is still in the hands of the request that makes it.
BeingMade(i) ==
  maker[i] # Null /\ req[maker[i]].pc \in {"select", "claim", "undo", "undoThrow"}

\* The admin's deleteAddress, the owner's, or a cleanup.
DeleteRow(i) ==
  /\ rows[i] # Null
  /\ BeingMade(i) => world.inFlightDeletes
  /\ rows' = [rows EXCEPT ![i] = Null]
  /\ UNCHANGED <<codes, nextId, req, grants, maker, broken>>

Environment ==
  \/ TableChanges
  \/ \E n \in Names : CreateOther(n)
  \/ \E i \in Ids : DeleteRow(i)

Next == (Environment \/ \E r \in Requests : Request(r)) /\ UNCHANGED world

Spec == Init /\ [][Next]_vars

-----------------------------------------------------------------------------
(* Safety. *)

\* All requests that succeed with one code, concurrent ones and later retries,
\* answer with one and the same mailbox: the one the code was claimed for.
RepliesConverge ==
  \A r \in Requests : req[r].reply = "ok" =>
    \E g \in grants : g.code = req[r].code /\ g.to = req[r].given.id

\* No mailbox is handed out for two codes.  A request learns the id of its
\* mailbox by name, so this rests on nobody deleting the row and creating the
\* name anew between its INSERT and its SELECT.
MailboxIsExclusive ==
  ~world.inFlightDeletes =>
    \A g, h \in grants : g.to = h.to => g = h

\* A mailbox that a request inserted and no code was claimed for does not stay
\* behind, except if the request was cut short.
NoMailboxLeaks ==
  \A i \in Ids :
    (rows[i] # Null /\ maker[i] # Null) =>
      \/ \E g \in grants : g.to = i
      \/ BeingMade(i)
      \/ req[maker[i]].reply = "lost" \/ maker[i] \in broken

\* Once a request answered with a mailbox, no redemption takes it away again,
\* as long as a call that throws did nothing and nobody deletes a mailbox that
\* is being made: then two requests may hold one id.
HandedOutStays ==
  [][\A r, s \in Requests :
       (Undo(r) /\ req[s].reply = "ok" /\ ~world.lostAcks /\ ~world.inFlightDeletes)
         => rows'[req[s].given.id] = rows[req[s].given.id]]_vars

\* The documentation says the first successful request fixes its complete
\* result, which remains retrievable until expiry: no redemption takes back
\* what one of them answered with.
ResultRemains ==
  [][\A r, s \in Requests :
       (Undo(r) /\ req[s].reply = "ok")
         => rows'[req[s].given.id] = rows[req[s].given.id]]_vars

-----------------------------------------------------------------------------
(* The handler implements the ledger. *)

Ledger == INSTANCE RedeemLedger WITH
            Targets <- Ids, Claimants <- Requests, Withheld <- Null,
            state <- LedgerState, offer <- LedgerOffer, paid <- grants

\* Redemption of a mailbox is an exchange in a ledger that pays a code at most
\* once, at the value it is offered at in the step that closes it.
ImplementsLedger == Ledger!Spec
=============================================================================
