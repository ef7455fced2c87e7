-------------------------- MODULE TelegramBinding ---------------------------
(***************************************************************************)
(* Mailboxes bound to Telegram users: worker/src/telegram_api/common.ts,   *)
(* the /cleaninvalidaddress command of telegram.ts, and unbinding on       *)
(* behalf of a deletion or a transfer.  A binding is two KV entries, the   *)
(* user's list of credentials and the mailbox's owner, who is pushed its   *)
(* mails.  KV has single gets and puts only, so every change of a list     *)
(* writes back a copy that was read some calls before.                     *)
(***************************************************************************)
EXTENDS AddressTable, SequencesExt

CONSTANTS Users,        \* Telegram users
          Slots,        \* requests in flight at a time; a slot is reused
          MaxAddress    \* TG_MAX_ADDRESS

Ops == {"new", "bind", "unbind", "clean", "delete", "transfer"}

ASSUME TelegramAssumption == Null \notin Users /\ MaxAddress \in Nat

VARIABLES list,     \* KV temp-mail-telegram:<user>, a list of credentials
          owner,    \* KV temp-mail-telegram:<address>, the user or Null
          slot,     \* the requests' local state
          pushed,   \* history: who bound each name last and did not unbind it
          mine,     \* history: credentials each user bound and did not unbind
          lost      \* history: good credentials a cleanup dropped, since a check failed

telegramVars == <<address, lastId, list, owner, slot, pushed, mine, lost>>

Credential == [name : Names, id : Ids]

Holds(cred) == Valid(cred.name, cred.id)

Idle == [op |-> "new", pc |-> "idle", user |-> Null, name |-> Null, id |-> 0,
         copy |-> <<>>, todo |-> <<>>, good |-> {}, bad |-> {}]

TelegramInit ==
  /\ AddressInit
  /\ list = [u \in Users |-> <<>>]
  /\ owner = [n \in Names |-> Null]
  /\ slot = [s \in Slots |-> Idle]
  /\ pushed = [n \in Names |-> Null]
  /\ mine = [u \in Users |-> {}]
  /\ lost = [u \in Users |-> {}]

Put(s, x) == slot' = [slot EXCEPT ![s] = x]
Goto(s, label) == Put(s, [slot[s] EXCEPT !.pc = label])
Leave(s) == Put(s, Idle)
At(s, label) == slot[s].pc = label

Own(s) == [name |-> slot[s].name, id |-> slot[s].id]

\* The entries of a list that are among the good ones, in their order: SelectSeq,
\* of which the provers know nothing.
Kept(creds, good) ==
  LET kept[i \in 0..Len(creds)] ==
        IF i = 0 THEN <<>>
        ELSE IF creds[i] \in good THEN Append(kept[i - 1], creds[i]) ELSE kept[i - 1]
  IN kept[Len(creds)]

Named(n) == {c \in Credential : c.name = n}

\* Mutant: the filter is the wrong way round.
WithoutOthers(creds, n) == Kept(creds, Named(n))

\* The entries of a list that are not about a name.
Without(creds, n) == Kept(creds, Credential \ Named(n))

\* What an unbinding is followed by: a deletion or a transfer goes on.
GoOn(s) == IF slot[s].op \in {"delete", "transfer"} THEN Goto(s, "drop") ELSE Leave(s)

-----------------------------------------------------------------------------
(* Requests begin. *)

Begin(s, op, label, u, n, i) ==
  /\ At(s, "idle")
  /\ Put(s, [Idle EXCEPT !.op = op, !.pc = label, !.user = u, !.name = n, !.id = i])
  /\ UNCHANGED <<address, lastId, list, owner, pushed, mine, lost>>

StartNew(s, u, n) == Begin(s, "new", "read", u, n, 0)

\* verifyAddressToken, which needs the mailbox.
StartBind(s, u, n) == address[n] # Null /\ Begin(s, "bind", "read", u, n, address[n])

StartUnbind(s, u, n) == Begin(s, "unbind", "read", u, n, 0)

StartClean(s, u) == Begin(s, "clean", "read", u, Null, 0)

\* A user's deletion, over HTTP or with /delete for an entry of his list.
StartDelete(s, n) == address[n] # Null /\ Begin(s, "delete", "look", Null, n, address[n])

StartTransfer(s, n) == address[n] # Null /\ Begin(s, "transfer", "look", Null, n, address[n])

-----------------------------------------------------------------------------
(* The list is read, its credentials are verified one by one, and the copy *)
(* is written back changed.                                                *)

\* Mutant: only the credentials that still hold count.
RoomAmongGood(x) == Cardinality(x.good) < MaxAddress

Room(x) == Len(x.copy) < MaxAddress

Listed(x) == \E c \in x.good : c.name = x.name

\* What a request that has verified the list does next.
Verified(x) ==
  CASE x.op = "clean" -> [x EXCEPT !.pc = "putList"]
    [] x.op = "unbind" -> Idle
    [] x.op = "bind" /\ Listed(x) -> [x EXCEPT !.pc = "putOwner"]
    [] x.op = "bind" /\ ~Listed(x) /\ Room(x) -> [x EXCEPT !.pc = "putList"]
    [] OTHER -> Idle

Read(s) ==
  LET l == list[slot[s].user]
      x == [slot[s] EXCEPT !.copy = l]
      check == IF x.op = "unbind" THEN Kept(l, Named(x.name)) ELSE l
  IN /\ At(s, "read")
     /\ Put(s, CASE x.op = "new" -> IF Room(x) THEN [x EXCEPT !.pc = "create"] ELSE Idle
                 [] x.op \in {"delete", "transfer"} -> [x EXCEPT !.pc = "putList"]
                 [] OTHER -> IF check = <<>> THEN Verified(x)
                             ELSE [x EXCEPT !.pc = "verify", !.todo = check])
     /\ UNCHANGED <<address, lastId, list, owner, pushed, mine, lost>>

\* A credential counts as good when its mailbox is found.  Whatever the check
\* throws counts against it, an error of D1 too.  An unbinding goes on with the
\* first credential of the name that is good.
Verify(s, doubts) ==
  /\ At(s, "verify")
  /\ \E sound \in {TRUE} \cup {~doubts} :
       LET c == Head(slot[s].todo)
           isGood == sound /\ Holds(c)
           x == [slot[s] EXCEPT !.todo = Tail(@), !.good = IF isGood THEN @ \cup {c} ELSE @,
                                !.bad = IF isGood THEN @ ELSE @ \cup {c}]
       IN Put(s, IF x.op = "unbind" /\ isGood THEN [x EXCEPT !.pc = "putList", !.todo = <<>>]
                 ELSE IF x.todo = <<>> THEN Verified(x) ELSE x)
  /\ UNCHANGED <<address, lastId, list, owner, pushed, mine, lost>>

\* newAddress: the name may be taken.
Create(s) ==
  /\ At(s, "create")
  /\ IF address[slot[s].name] # Null
       THEN Leave(s) /\ UNCHANGED <<address, lastId>>
       ELSE /\ InsertRow(slot[s].name)
            /\ Put(s, [slot[s] EXCEPT !.pc = "putList", !.id = lastId + 1])
  /\ UNCHANGED <<list, owner, pushed, mine, lost>>

\* A cleanup leaves out every copy of a credential whose check failed once.
PutList(s) ==
  LET x == slot[s]
      u == x.user
  IN /\ At(s, "putList")
     /\ CASE x.op \in {"new", "bind"} ->
               /\ list' = [list EXCEPT ![u] = Append(x.copy, Own(s))]
               /\ mine' = [mine EXCEPT ![u] = @ \cup {Own(s)}]
               /\ lost' = [lost EXCEPT ![u] = @ \ {Own(s)}]
               /\ Goto(s, "putOwner")
          [] x.op = "clean" ->
               /\ list' = [list EXCEPT ![u] = Kept(x.copy, Credential \ x.bad)]
               /\ mine' = [mine EXCEPT ![u] = {c \in @ : Holds(c)}]
               /\ lost' = [lost EXCEPT ![u] = {c \in @ \cup x.bad : Holds(c)}]
               /\ Leave(s)
          [] OTHER ->
               /\ list' = [list EXCEPT ![u] = Without(x.copy, x.name)]
               /\ mine' = [mine EXCEPT ![u] = @ \ Named(x.name)]
               /\ lost' = [lost EXCEPT ![u] = @ \ Named(x.name)]
               /\ Goto(s, "getOwner")
     /\ UNCHANGED <<address, lastId, owner, pushed>>

PutOwner(s) ==
  /\ At(s, "putOwner")
  /\ owner' = [owner EXCEPT ![slot[s].name] = slot[s].user]
  /\ pushed' = [pushed EXCEPT ![slot[s].name] = slot[s].user]
  /\ Leave(s)
  /\ UNCHANGED <<address, lastId, list, mine, lost>>

-----------------------------------------------------------------------------
(* removeTelegramBinding, for a user or for whoever owns the mailbox. *)

\* unbindTelegramByAddress
LookUp(s) ==
  LET u == owner[slot[s].name]
  IN /\ At(s, "look")
     /\ IF u = Null THEN GoOn(s)
                    ELSE Put(s, [slot[s] EXCEPT !.pc = "read", !.user = u])
     /\ UNCHANGED <<address, lastId, list, owner, pushed, mine, lost>>

\* Mutant: the entry of another user is deleted too.
GetOwnerAnyway(s) ==
  /\ At(s, "getOwner")
  /\ Goto(s, "dropOwner")
  /\ UNCHANGED <<address, lastId, list, owner, pushed, mine, lost>>

GetOwner(s) ==
  /\ At(s, "getOwner")
  /\ IF owner[slot[s].name] = slot[s].user THEN Goto(s, "dropOwner") ELSE GoOn(s)
  /\ UNCHANGED <<address, lastId, list, owner, pushed, mine, lost>>

\* Mutant: the entry is forgotten.
DropOwnerNot(s) ==
  /\ At(s, "dropOwner")
  /\ pushed' = [pushed EXCEPT ![slot[s].name] = IF @ = slot[s].user THEN Null ELSE @]
  /\ GoOn(s)
  /\ UNCHANGED <<address, lastId, list, owner, mine, lost>>

DropOwner(s) ==
  /\ At(s, "dropOwner")
  /\ owner' = [owner EXCEPT ![slot[s].name] = Null]
  /\ pushed' = [pushed EXCEPT ![slot[s].name] = IF @ = slot[s].user THEN Null ELSE @]
  /\ GoOn(s)
  /\ UNCHANGED <<address, lastId, list, mine, lost>>

\* The mailbox's row is deleted, by name or for a transfer by id.
Drop(s) ==
  /\ At(s, "drop")
  /\ DeleteRows({n \in {slot[s].name} : slot[s].op = "delete" \/ address[n] = slot[s].id})
  /\ IF slot[s].op = "transfer" THEN Goto(s, "insert") ELSE Leave(s)
  /\ UNCHANGED <<lastId, list, owner, pushed, mine, lost>>

Insert(s) ==
  /\ At(s, "insert")
  /\ IF address[slot[s].name] # Null THEN UNCHANGED <<address, lastId>>
                                     ELSE InsertRow(slot[s].name)
  /\ Leave(s)
  /\ UNCHANGED <<list, owner, pushed, mine, lost>>

Stop(s) ==
  /\ ~At(s, "idle")
  /\ Leave(s)
  /\ UNCHANGED <<address, lastId, list, owner, pushed, mine, lost>>

\* A request of one of the users, of whom a worker may stop between two calls and
\* the check of a credential may fail.
Request(s, users, stops, doubts) ==
  \/ \E u \in users, n \in Names : StartNew(s, u, n) \/ StartBind(s, u, n) \/ StartUnbind(s, u, n)
  \/ \E u \in users : StartClean(s, u)
  \/ \E n \in Names : StartDelete(s, n) \/ StartTransfer(s, n)
  \/ Read(s) \/ Verify(s, doubts) \/ Create(s) \/ PutList(s) \/ PutOwner(s)
  \/ LookUp(s) \/ GetOwner(s) \/ DropOwner(s) \/ Drop(s) \/ Insert(s)
  \/ stops /\ Stop(s)

-----------------------------------------------------------------------------
(* Mailboxes made elsewhere, and deleted without looking at Telegram. *)

CreateAddress(n) ==
  /\ address[n] = Null
  /\ InsertRow(n)
  /\ UNCHANGED <<list, owner, slot, pushed, mine, lost>>

RemoveAddress(n) ==
  /\ address[n] # Null
  /\ DeleteRows({n})
  /\ UNCHANGED <<lastId, list, owner, slot, pushed, mine, lost>>

Elsewhere(removals) ==
  \E n \in Names : CreateAddress(n) \/ (removals /\ RemoveAddress(n))

-----------------------------------------------------------------------------
\* The maximum is compared with a copy of the list that is old by the time it
\* is written.  It holds all the same, since that very copy is written back.
LimitHolds == \A u \in Users : Len(list[u]) <= MaxAddress
=============================================================================
