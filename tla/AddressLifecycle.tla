-------------------------- MODULE AddressLifecycle --------------------------
(***************************************************************************)
(* The life of a mailbox: binding it to a user, unbinding and transferring *)
(* it (worker/src/user_api/bind_address.ts), deleting it with its data and *)
(* cleaning up (worker/src/common.ts), the admin's deletions of mailboxes  *)
(* and users.  Every request is a chain of single statements on address,   *)
(* users, users_address and the tables keyed by name, of which mails       *)
(* stands for all.                                                         *)
(***************************************************************************)
EXTENDS AddressTable, FiniteSets

CONSTANTS Users,      \* ids of table users; an id may be used again
          Slots,      \* requests in flight at a time; a slot is reused
          Limit,      \* addresses a user may bind, 0 for any number
          Batch,      \* CLEANUP_BATCH_SIZE
          Worlds      \* the loads the system is under, see world

Cleanups == {"unbound", "empty", "created"}
Ops == {"bind", "unbind", "transfer", "delete"} \cup Cleanups

ASSUME LifecycleAssumption ==
  /\ Null \notin Users
  /\ Limit \in Nat /\ Batch \in Nat \ {0}
  /\ Worlds \subseteq [operations : SUBSET Ops, ids : 0..MaxId, members : SUBSET Users,
                       churn : BOOLEAN, inboxes : SUBSET Names, crashes : BOOLEAN]

ASSUME LifecycleSlots == IsFiniteSet(Slots) /\ Slots # {}

\* A world says what kinds of request are made, how many mailboxes may ever be
\* made, who the users are and whether they come and go, what names receive
\* mail, and whether a worker may stop between two statements.
VARIABLES world,      \* the world this behaviour is in
          users,      \* rows of table users
          leaving,    \* users whose row is deleted and bindings are not yet
          bound,      \* users_address: the user each address id is bound to
          mails,      \* raw_mails under each name, see Mail
          slot,       \* the requests' local state
          origin,     \* history: of an id a transfer made, its name and receiver
          gap         \* history: names a transfer deleted and nobody made again

vars == <<world, address, lastId, users, leaving, bound, mails, slot, origin, gap>>

\* A mail is late when its mailbox is gone, or was swept by a deletion under way.
Mail == {"kept", "late"}

Idle == [op |-> "bind", pc |-> "idle", user |-> Null, target |-> Null,
         name |-> Null, id |-> 0, swept |-> {}]

Init ==
  /\ world \in Worlds
  /\ AddressInit
  /\ users = world.members
  /\ leaving = {}
  /\ bound = [i \in Ids |-> Null]
  /\ mails = [n \in Names |-> {}]
  /\ slot = [s \in Slots |-> Idle]
  /\ origin = [i \in Ids |-> Null]
  /\ gap = {}

Put(s, x) == slot' = [slot EXCEPT ![s] = x]
Goto(s, label) == Put(s, [slot[s] EXCEPT !.pc = label])
Leave(s) == Put(s, Idle)

At(s, label) == slot[s].pc = label

\* Go on when a query finds what the request needs, else answer with an error.
GoOnIf(s, found, label) == IF found THEN Goto(s, label) ELSE Leave(s)

Receiver(s) == IF slot[s].op = "transfer" THEN slot[s].target ELSE slot[s].user

-----------------------------------------------------------------------------
(* Requests begin.  A credential is verified before the handler is called. *)

Begin(s, op, label, u, t, n, i) ==
  /\ At(s, "idle") /\ op \in world.operations
  /\ Put(s, [op |-> op, pc |-> label, user |-> u, target |-> t,
             name |-> n, id |-> i, swept |-> {}])
  /\ UNCHANGED <<address, lastId, users, leaving, bound, mails, origin, gap>>

\* With the mailbox's credential, or by the admin for a user.
StartBind(s, u, n) ==
  /\ address[n] # Null
  /\ Begin(s, "bind", "mailbox", u, Null, n, address[n])

StartUnbind(s, u, i) ==
  Begin(s, "unbind", "mailbox", u, Null, Null, i)

StartTransfer(s, u, n, t) ==
  /\ address[n] # Null
  /\ Begin(s, "transfer", "mailbox", u, t, n, address[n])

StartDelete(s, n) ==
  /\ address[n] # Null
  /\ Begin(s, "delete", "sweep", Null, Null, n, address[n])

\* Rows made until now are old enough to be cleaned up.
StartCleanup(s, kind) ==
  Begin(s, kind, "sweep", Null, Null, Null, lastId)

-----------------------------------------------------------------------------
(* bindByID, unbind and transferAddress. *)

tables == <<address, lastId, users, leaving, bound, mails, origin, gap>>

CheckMailbox(s) ==
  /\ At(s, "mailbox")
  /\ GoOnIf(s, Exists(slot[s].id), "user")
  /\ UNCHANGED tables

CheckUser(s) ==
  /\ At(s, "user")
  /\ GoOnIf(s, slot[s].user \in users,
            CASE slot[s].op = "bind" -> "owned"
              [] slot[s].op = "unbind" -> "remove"
              [] OTHER -> "target")
  /\ UNCHANGED tables

CheckTarget(s) ==
  /\ At(s, "target")
  /\ GoOnIf(s, slot[s].target \in users, "limit")
  /\ UNCHANGED tables

Bindings(u) == {i \in Ids : bound[i] = u}

\* Mutant: one address more than the limit.
LimitReachedLate(u) == Limit > 0 /\ Cardinality(Bindings(u)) > Limit

\* isAddressCountLimitReached
LimitReached(u) == Limit > 0 /\ Cardinality(Bindings(u)) >= Limit

CheckLimit(s) ==
  /\ At(s, "limit")
  /\ GoOnIf(s, ~LimitReached(Receiver(s)),
            IF slot[s].op = "transfer" THEN "owned" ELSE "insert")
  /\ UNCHANGED tables

\* Binding what is already bound is done; transferring what is not, an error.
CheckOwned(s) ==
  LET own == bound[slot[s].id] = slot[s].user
  IN /\ At(s, "owned")
     /\ IF slot[s].op = "transfer" THEN GoOnIf(s, own, "remove")
                                   ELSE GoOnIf(s, ~own, "limit")
     /\ UNCHANGED tables

\* DELETE FROM users_address where user_id = ? and address_id = ?
RemoveBinding(s) ==
  /\ At(s, "remove")
  /\ bound' = [bound EXCEPT ![slot[s].id] = IF @ = slot[s].user THEN Null ELSE @]
  /\ GoOnIf(s, slot[s].op = "transfer", "dropId")
  /\ UNCHANGED <<address, lastId, users, leaving, mails, origin, gap>>

DropId(s) ==
  /\ At(s, "dropId")
  /\ DeleteRows({n \in Names : address[n] = slot[s].id})
  /\ gap' = gap \cup {n \in Names : address[n] = slot[s].id}
  /\ Goto(s, "create")
  /\ UNCHANGED <<lastId, users, leaving, bound, mails, origin>>

\* Mutant: a name somebody took meanwhile is no error.
InsertAgainOrIgnore(s) ==
  /\ At(s, "create")
  /\ Goto(s, "find")
  /\ IF address[slot[s].name] # Null
       THEN UNCHANGED <<address, lastId, origin, gap>>
       ELSE /\ InsertRow(slot[s].name)
            /\ origin' = [origin EXCEPT ![lastId + 1] =
                            [name |-> slot[s].name, to |-> slot[s].target]]
            /\ gap' = gap \ {slot[s].name}
  /\ UNCHANGED <<users, leaving, bound, mails>>

\* INSERT INTO address(name): throws when somebody took the name meanwhile.
InsertAgain(s) ==
  /\ At(s, "create")
  /\ IF address[slot[s].name] # Null
       THEN Leave(s) /\ UNCHANGED <<address, lastId, origin, gap>>
       ELSE /\ InsertRow(slot[s].name)
            /\ origin' = [origin EXCEPT ![lastId + 1] =
                            [name |-> slot[s].name, to |-> slot[s].target]]
            /\ gap' = gap \ {slot[s].name}
            /\ Goto(s, "find")
  /\ UNCHANGED <<users, leaving, bound, mails>>

\* SELECT id FROM address WHERE name = ?
FindId(s) ==
  /\ At(s, "find")
  /\ IF address[slot[s].name] = Null
       THEN Leave(s)
       ELSE Put(s, [slot[s] EXCEPT !.pc = "insert", !.id = address[slot[s].name]])
  /\ UNCHANGED tables

\* INSERT INTO users_address: address_id is UNIQUE, a second row throws.
InsertBinding(s) ==
  /\ At(s, "insert")
  /\ bound' = [bound EXCEPT ![slot[s].id] = IF @ = Null THEN Receiver(s) ELSE @]
  /\ Leave(s)
  /\ UNCHANGED <<address, lastId, users, leaving, mails, origin, gap>>

-----------------------------------------------------------------------------
(* deleteAddressWithData and batchDeleteAddressWithData: the data, the     *)
(* bindings, and the mailbox at last.  Each statement of a cleanup asks    *)
(* its condition again.                                                    *)

Oldest(names, k) ==
  {n \in names : Cardinality({m \in names : address[m] < address[n]}) < k}

Old(s) == {n \in Names : address[n] # Null /\ address[n] <= slot[s].id}

\* The names a statement of the request is about.
Doomed(s) ==
  CASE slot[s].op = "unbound" -> {n \in Old(s) : bound[address[n]] = Null}
    [] slot[s].op = "empty"   -> {n \in Old(s) : mails[n] = {}}
    [] slot[s].op = "created" -> Oldest(Old(s), Batch)
    [] OTHER                  -> {slot[s].name}

\* Mutant: a table is forgotten.
SweepForgets(s) ==
  /\ At(s, "sweep")
  /\ Put(s, [slot[s] EXCEPT !.pc = "release", !.swept = Doomed(s)])
  /\ UNCHANGED tables

Sweep(s) ==
  /\ At(s, "sweep")
  /\ mails' = [n \in Names |-> IF n \in Doomed(s) THEN {} ELSE mails[n]]
  /\ Put(s, [slot[s] EXCEPT !.pc = "release", !.swept = Doomed(s)])
  /\ UNCHANGED <<address, lastId, users, leaving, bound, origin, gap>>

Release(s) ==
  LET ids == IF slot[s].op = "delete" THEN {slot[s].id}
                                      ELSE {address[n] : n \in Doomed(s)}
  IN /\ At(s, "release")
     /\ bound' = [i \in Ids |-> IF i \in ids THEN Null ELSE bound[i]]
     /\ Goto(s, "drop")
     /\ UNCHANGED <<address, lastId, users, leaving, mails, origin, gap>>

Drop(s) ==
  /\ At(s, "drop")
  /\ DeleteRows(Doomed(s))
  /\ Leave(s)
  /\ UNCHANGED <<lastId, users, leaving, bound, mails, origin, gap>>

Crash(s) ==
  /\ world.crashes
  /\ ~At(s, "idle")
  /\ Leave(s)
  /\ UNCHANGED tables

Request(s) ==
  \/ \E u \in world.members, n \in Names : StartBind(s, u, n)
  \/ \E u \in world.members, i \in Ids : StartUnbind(s, u, i)
  \/ \E u, t \in world.members, n \in Names : StartTransfer(s, u, n, t)
  \/ \E n \in Names : StartDelete(s, n)
  \/ \E kind \in Cleanups : StartCleanup(s, kind)
  \/ CheckMailbox(s) \/ CheckUser(s) \/ CheckTarget(s) \/ CheckLimit(s) \/ CheckOwned(s)
  \/ RemoveBinding(s) \/ DropId(s) \/ InsertAgain(s) \/ FindId(s) \/ InsertBinding(s)
  \/ Sweep(s) \/ Release(s) \/ Drop(s) \/ Crash(s)

-----------------------------------------------------------------------------
(* Single statements of others, and batches. *)

\* Somebody makes a mailbox; what newAddress does after its INSERT is not
\* about this table.
CreateAddress(n) ==
  /\ address[n] = Null
  /\ InsertRow(n)
  /\ gap' = gap \ {n}
  /\ UNCHANGED <<users, leaving, bound, mails, slot, origin>>

\* The admin's deletion is one transaction.
AdminDeleteAddress(n) ==
  /\ address[n] # Null
  /\ mails' = [mails EXCEPT ![n] = {}]
  /\ bound' = [bound EXCEPT ![address[n]] = Null]
  /\ DeleteRows({n})
  /\ UNCHANGED <<lastId, users, leaving, slot, origin, gap>>

AdminDeleteUser(u) ==
  /\ world.churn /\ u \in users
  /\ users' = users \ {u}
  /\ leaving' = leaving \cup {u}
  /\ UNCHANGED <<address, lastId, bound, mails, slot, origin, gap>>

ReleaseUser(u) ==
  /\ u \in leaving
  /\ leaving' = leaving \ {u}
  /\ bound' = [i \in Ids |-> IF bound[i] = u THEN Null ELSE bound[i]]
  /\ UNCHANGED <<address, lastId, users, mails, slot, origin, gap>>

Register(u) ==
  /\ u \notin users
  /\ users' = users \cup {u}
  /\ UNCHANGED <<address, lastId, leaving, bound, mails, slot, origin, gap>>

Receive(n) ==
  LET late == address[n] = Null \/ \E s \in Slots : n \in slot[s].swept
  IN /\ mails' = [mails EXCEPT ![n] = @ \cup {IF late THEN "late" ELSE "kept"}]
     /\ UNCHANGED <<address, lastId, users, leaving, bound, slot, origin, gap>>

Environment ==
  \/ \E n \in Names : CreateAddress(n) \/ AdminDeleteAddress(n)
  \/ \E u \in world.members : AdminDeleteUser(u) \/ ReleaseUser(u) \/ Register(u)
  \/ \E n \in world.inboxes : Receive(n)

Next ==
  /\ Environment \/ \E s \in Slots : Request(s)
  /\ lastId' <= world.ids
  /\ UNCHANGED world

Spec == Init /\ [][Next]_vars

-----------------------------------------------------------------------------
(* Safety. *)

\* The number of bindings is read before a binding is inserted, so that
\* requests in flight together exceed the limit, but by less than their number.
BindOvershoot ==
  Limit > 0 =>
    \A u \in Users : Cardinality(Bindings(u)) < Limit + Cardinality(Slots)

\* A transfer whose name is taken by somebody else between its DELETE and its
\* INSERT gives nothing away: it binds the mailbox it made for its target, and
\* a later one of that name only when that one is gone.
TransfersItsOwn ==
  [][\A s \in Slots :
       At(s, "insert") /\ slot[s].op = "transfer" /\ bound' # bound =>
         \E i \in 1..slot[s].id :
           origin[i] = [name |-> slot[s].name, to |-> slot[s].target]]_vars

\* A deletion deletes the mailbox last, so that wherever it stops it can be
\* done again: no mailbox goes without the mails that came before it was
\* swept, except to make room for its transfer.  The cleanups by age and of
\* unbound mailboxes, whose statements may choose different rows, promise less.
MailsGoWithMailbox ==
  world.operations \cap {"unbound", "created"} = {} =>
    \A n \in Names : address[n] = Null /\ "kept" \in mails[n] => n \in gap
=============================================================================
