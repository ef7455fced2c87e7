----------------------- MODULE AddressLifecycleProofs -----------------------
(***************************************************************************)
(* For every number of users, mailboxes and requests and every limit: how  *)
(* far the limit is exceeded, whose mailbox a transfer binds, and what     *)
(* becomes of the mails of a mailbox that is deleted.                      *)
(***************************************************************************)
EXTENDS AddressLifecycle, FiniteSetTheorems, TLAPS

BindPlaces == {"mailbox", "user", "target", "limit", "owned", "remove", "dropId", "create",
               "find", "insert"}
DeletePlaces == {"sweep", "release", "drop"}

RequestRecord ==
  [op : Ops, pc : {"idle"} \cup BindPlaces \cup DeletePlaces,
   user : Users \cup {Null}, target : Users \cup {Null}, name : Names \cup {Null},
   id : 0..MaxId, swept : SUBSET Names]

\* What the fields a request will use hold at each place.
Shape(x) ==
  /\ x.pc \in BindPlaces =>
       /\ x.op \in {"bind", "unbind", "transfer"} /\ x.user \in Users /\ x.id \in Ids
       /\ x.op = "transfer" => x.target \in Users /\ x.name \in Names
  /\ x.pc \in {"target", "dropId", "create", "find"} => x.op = "transfer"
  /\ x.pc \in {"limit", "owned", "insert"} => x.op \in {"bind", "transfer"}
  /\ x.pc \in DeletePlaces => x.op \in {"delete"} \cup Cleanups
  /\ x.pc \in DeletePlaces /\ x.op = "delete" => x.name \in Names /\ x.id \in Ids
  /\ x.pc \notin {"release", "drop"} => x.swept = {}
  /\ x.pc \in {"release", "drop"} /\ x.op = "delete" => x.name \in x.swept

TypeOK ==
  /\ world \in Worlds
  /\ address \in [Names -> Ids \cup {Null}] /\ lastId \in 0..MaxId
  /\ users \subseteq Users /\ leaving \subseteq Users
  /\ bound \in [Ids -> Users \cup {Null}]
  /\ mails \in [Names -> SUBSET Mail]
  /\ slot \in [Slots -> RequestRecord]
  /\ origin \in [Ids -> [name : Names, to : Users] \cup {Null}]
  /\ gap \subseteq Names
  /\ \A n \in Names : address[n] # Null => address[n] <= lastId
  /\ \A s \in Slots : /\ Shape(slot[s])
                      /\ slot[s].pc # "idle" => slot[s].op \in world.operations

LEMMA Basics ==
  /\ MaxId \in Nat /\ Ids = 1..MaxId /\ Null \notin Ids /\ Null \notin Users
  /\ {"idle"} \cap (BindPlaces \cup DeletePlaces) = {} /\ BindPlaces \cap DeletePlaces = {}
  /\ \A w \in Worlds : w.operations \subseteq Ops /\ w.members \subseteq Users
                         /\ w.inboxes \subseteq Names
BY AddressAssumption, LifecycleAssumption DEF Ids, BindPlaces, DeletePlaces

\* A request takes a step: its record changes, and nobody else's.
Moves(s, x) == slot' = [slot EXCEPT ![s] = x]

LEMMA IdleIsFine == Idle \in RequestRecord /\ Shape(Idle) /\ Idle.pc = "idle" /\ Idle.swept = {}
BY Basics DEF Idle, RequestRecord, Shape, Ops, BindPlaces, DeletePlaces

\* The request's next record has its type.
Fits(x) ==
  x \in RequestRecord /\ Shape(x) /\ (x.pc # "idle" => x.op \in world.operations)

LEMMA SlotsFit ==
  ASSUME TypeOK, NEW s \in Slots, NEW x, Moves(s, x), Fits(x), UNCHANGED world
  PROVE  /\ slot' \in [Slots -> RequestRecord]
         /\ \A t \in Slots : /\ Shape(slot'[t])
                             /\ slot'[t].pc # "idle" => slot'[t].op \in world'.operations
BY DEF TypeOK, Moves, Fits

\* A request that only goes on, or ends.
LEMMA GoesOn ==
  ASSUME TypeOK, NEW s \in Slots, NEW label \in BindPlaces,
         Goto(s, label) \/ Leave(s), slot[s].pc \in BindPlaces,
         label \in {"target", "dropId", "create", "find"} => slot[s].op = "transfer",
         label \in {"limit", "owned", "insert"} => slot[s].op \in {"bind", "transfer"}
  PROVE  \E x : /\ Moves(s, x) /\ Fits(x)
                /\ \/ x = Idle
                   \/ /\ x.pc = label /\ x.op = slot[s].op /\ x.user = slot[s].user
                      /\ x.target = slot[s].target /\ x.name = slot[s].name
                      /\ x.id = slot[s].id /\ x.swept = slot[s].swept
<1>1. PICK y \in RequestRecord : y = slot[s] /\ Shape(y) /\ y.op \in world.operations
  BY Basics DEF TypeOK
<1>2. CASE Leave(s)
  BY <1>2, IdleIsFine DEF Leave, Put, Moves, Fits
<1>3. CASE Goto(s, label)
  <2>1. PICK x : x = [y EXCEPT !.pc = label]
    OBVIOUS
  <2>2. /\ x \in RequestRecord /\ x.pc = label /\ x.op = y.op /\ x.user = y.user
        /\ x.target = y.target /\ x.name = y.name /\ x.id = y.id /\ x.swept = y.swept
    BY <2>1 DEF RequestRecord
  <2>3. Shape(x)
    BY <1>1, <2>2, Basics DEF Shape, BindPlaces, DeletePlaces
  <2>4. Moves(s, x)
    BY <1>1, <1>3, <2>1 DEF Goto, Put, Moves
  <2> QED BY <1>1, <2>2, <2>3, <2>4 DEF Fits
<1> QED BY <1>2, <1>3

\* Requests that have passed the check of the limit and will bind.
Owner(x) == IF x.op = "transfer" THEN x.target ELSE x.user

PastAt(x) ==
  \/ x.pc = "insert"
  \/ x.op = "transfer" /\ x.pc \in {"owned", "remove", "dropId", "create", "find"}

\* A step after which the request counts no more than before, has not just
\* made or found a mailbox, and has swept nothing more.
Quiet(s, x) ==
  /\ PastAt(x) => PastAt(slot[s]) /\ Owner(x) = Owner(slot[s])
  /\ ~(x.op = "transfer" /\ x.pc \in {"find", "insert"})
  /\ x.swept = {} \/ x.swept = slot[s].swept

\* The ends of the four steps that are not quiet.
Loud(s, x) ==
  \/ CheckLimit(s) /\ (x = Idle \/ (Owner(x) = Receiver(s) /\ ~LimitReached(Receiver(s))
                                      /\ x.pc \in {"owned", "insert"} /\ x.op = slot[s].op
                                      /\ x.swept = slot[s].swept))
  \/ InsertAgain(s) /\ (x = Idle \/ (address[slot[s].name] = Null /\ x.pc = "find"
                                       /\ x.op = slot[s].op /\ x.name = slot[s].name
                                       /\ x.target = slot[s].target /\ x.swept = slot[s].swept))
  \/ FindId(s) /\ (x = Idle \/ (x.id = address[slot[s].name] /\ x.id # Null /\ x.pc = "insert"
                                  /\ x.op = slot[s].op /\ x.name = slot[s].name
                                  /\ x.target = slot[s].target /\ x.swept = slot[s].swept))
  \/ Sweep(s) /\ x.swept = Doomed(s) /\ x.pc = "release"

LEMMA IdleIsQuiet == ASSUME NEW s PROVE Quiet(s, Idle)
BY DEF Quiet, Idle, PastAt

LEMMA BeginMoves ==
  ASSUME TypeOK, NEW s \in Slots, NEW op, NEW label, NEW u, NEW t, NEW n, NEW i,
         Begin(s, op, label, u, t, n, i),
         u \in Users \cup {Null}, t \in Users \cup {Null}, n \in Names \cup {Null}, i \in 0..MaxId,
         \/ /\ label = "mailbox" /\ op \in {"bind", "unbind", "transfer"} /\ u \in Users /\ i \in Ids
            /\ op = "transfer" => t \in Users /\ n \in Names
         \/ /\ label = "sweep" /\ op \in {"delete"} \cup Cleanups
            /\ op = "delete" => n \in Names /\ i \in Ids
  PROVE  \E x : Moves(s, x) /\ Fits(x) /\ Quiet(s, x)
<1>1. PICK x : x = [op |-> op, pc |-> label, user |-> u, target |-> t,
                    name |-> n, id |-> i, swept |-> {}]
  OBVIOUS
<1>2. /\ x.op = op /\ x.pc = label /\ x.user = u /\ x.target = t /\ x.name = n /\ x.id = i
      /\ x.swept = {}
  BY <1>1
<1>3. x \in RequestRecord
  BY <1>1, Basics DEF RequestRecord, Ops, BindPlaces, DeletePlaces
<1>4. Shape(x)
  BY <1>2 DEF Shape, BindPlaces, DeletePlaces, Cleanups
<1>5. Moves(s, x) /\ op \in world.operations
  BY <1>1 DEF Begin, Put, Moves
<1>6. Quiet(s, x)
  BY <1>2 DEF Quiet, PastAt
<1> QED BY <1>2, <1>3, <1>4, <1>5, <1>6 DEF Fits

LEMMA RequestMoves ==
  ASSUME TypeOK, NEW s \in Slots, Request(s)
  PROVE  \E x : Moves(s, x) /\ Fits(x) /\ (Quiet(s, x) \/ Loud(s, x))
<1>0. PICK y \in RequestRecord : y = slot[s]
  BY DEF TypeOK
<1>1. Shape(y) /\ (y.pc # "idle" => y.op \in world.operations) /\ lastId \in 0..MaxId
  BY <1>0 DEF TypeOK
<1>2. world.members \subseteq Users /\ \A n \in Names : address[n] # Null => address[n] \in Ids
  BY Basics DEF TypeOK
<1>3. \A i \in Ids : i \in 0..MaxId
  BY Basics
<1>4. CASE \E u \in world.members, n \in Names : StartBind(s, u, n)
  BY <1>2, <1>3, <1>4, BeginMoves DEF StartBind
<1>5. CASE \E u \in world.members, i \in Ids : StartUnbind(s, u, i)
  BY <1>2, <1>3, <1>5, BeginMoves DEF StartUnbind
<1>6. CASE \E u, t \in world.members, n \in Names : StartTransfer(s, u, n, t)
  BY <1>2, <1>3, <1>6, BeginMoves DEF StartTransfer
<1>7. CASE \E n \in Names : StartDelete(s, n)
  BY <1>2, <1>3, <1>7, BeginMoves DEF StartDelete
<1>8. CASE \E kind \in Cleanups : StartCleanup(s, kind)
  BY <1>1, <1>8, BeginMoves DEF StartCleanup, Cleanups
<1>9. CASE CheckMailbox(s) \/ CheckUser(s) \/ CheckTarget(s) \/ CheckOwned(s)
  <2>1. PICK label \in {"user", "owned", "remove", "target", "limit"} :
          /\ Goto(s, label) \/ Leave(s)
          /\ y.pc \in {"mailbox", "user", "target", "owned"}
          /\ label = "target" => y.op = "transfer"
          /\ label = "owned" => y.op = "bind"
          /\ label = "limit" => y.op \in {"bind", "transfer"} /\ (y.op = "transfer" => y.pc = "target")
          /\ label = "remove" => y.op = "unbind" \/ (y.op = "transfer" /\ y.pc = "owned")
    <3>1. CASE CheckMailbox(s)
      BY <1>0, <3>1 DEF CheckMailbox, GoOnIf, At
    <3>2. CASE CheckUser(s)
      BY <1>0, <1>1, <3>2 DEF CheckUser, GoOnIf, At, Shape, BindPlaces
    <3>3. CASE CheckTarget(s)
      BY <1>0, <1>1, <3>3 DEF CheckTarget, GoOnIf, At, Shape
    <3>4. CASE CheckOwned(s)
      BY <1>0, <1>1, <3>4 DEF CheckOwned, GoOnIf, At, Shape
    <3> QED BY <1>9, <3>1, <3>2, <3>3, <3>4
  <2>2. PICK x : /\ Moves(s, x) /\ Fits(x)
                 /\ \/ x = Idle
                    \/ /\ x.pc = label /\ x.op = y.op /\ x.user = y.user
                       /\ x.target = y.target /\ x.swept = y.swept
    BY <1>0, <2>1, GoesOn DEF BindPlaces
  <2>3. Quiet(s, x)
    BY <1>0, <2>1, <2>2, IdleIsQuiet DEF Quiet, PastAt, Owner
  <2> QED BY <2>2, <2>3
<1>10. CASE CheckLimit(s)
  <2>1. /\ y.pc = "limit" /\ y.op \in {"bind", "transfer"}
        /\ GoOnIf(s, ~LimitReached(Receiver(s)), IF y.op = "transfer" THEN "owned" ELSE "insert")
    BY <1>0, <1>1, <1>10 DEF CheckLimit, At, Shape
  <2>2. CASE LimitReached(Receiver(s))
    BY <2>1, <2>2, IdleIsFine, IdleIsQuiet DEF GoOnIf, Leave, Put, Moves, Fits
  <2>3. CASE ~LimitReached(Receiver(s))
    <3>1. PICK label \in {"owned", "insert"} : Goto(s, label)
      BY <2>1, <2>3 DEF GoOnIf
    <3>2. PICK x : /\ Moves(s, x) /\ Fits(x)
                   /\ \/ x = Idle
                      \/ /\ x.pc = label /\ x.op = y.op /\ x.user = y.user
                         /\ x.target = y.target /\ x.swept = y.swept
      BY <1>0, <2>1, <3>1, GoesOn DEF BindPlaces
    <3>3. Loud(s, x)
      BY <1>0, <1>10, <2>1, <2>3, <3>2 DEF Loud, Owner, Receiver
    <3> QED BY <3>2, <3>3
  <2> QED BY <2>2, <2>3
<1>11. CASE RemoveBinding(s)
  <2>1. y.pc = "remove" /\ (Leave(s) \/ (y.op = "transfer" /\ Goto(s, "dropId")))
    BY <1>0, <1>11 DEF RemoveBinding, GoOnIf, At
  <2>2. CASE Leave(s)
    BY <2>2, IdleIsFine, IdleIsQuiet DEF Leave, Put, Moves, Fits
  <2>3. CASE y.op = "transfer" /\ Goto(s, "dropId")
    <3>1. PICK x : /\ Moves(s, x) /\ Fits(x)
                   /\ \/ x = Idle
                      \/ /\ x.pc = "dropId" /\ x.op = y.op /\ x.user = y.user
                         /\ x.target = y.target /\ x.swept = y.swept
      BY <1>0, <2>1, <2>3, GoesOn DEF BindPlaces
    <3>2. Quiet(s, x)
      BY <1>0, <2>1, <2>3, <3>1, IdleIsQuiet DEF Quiet, PastAt, Owner
    <3> QED BY <3>1, <3>2
  <2> QED BY <2>1, <2>2, <2>3
<1>12. CASE DropId(s)
  <2>1. Goto(s, "create") /\ y.pc = "dropId" /\ y.op = "transfer"
    BY <1>0, <1>1, <1>12 DEF DropId, At, Shape
  <2>2. PICK x : /\ Moves(s, x) /\ Fits(x)
                 /\ \/ x = Idle
                    \/ /\ x.pc = "create" /\ x.op = y.op /\ x.user = y.user
                       /\ x.target = y.target /\ x.swept = y.swept
    BY <1>0, <2>1, GoesOn DEF BindPlaces
  <2>3. Quiet(s, x)
    BY <1>0, <2>1, <2>2, IdleIsQuiet DEF Quiet, PastAt, Owner
  <2> QED BY <2>2, <2>3
<1>13. CASE InsertAgain(s)
  <2>1. y.pc = "create" /\ y.op = "transfer"
    BY <1>0, <1>1, <1>13 DEF InsertAgain, At, Shape
  <2>2. CASE address[y.name] # Null
    BY <1>0, <1>13, <2>2, IdleIsFine, IdleIsQuiet DEF InsertAgain, Leave, Put, Moves, Fits
  <2>3. CASE address[y.name] = Null
    <3>1. Goto(s, "find")
      BY <1>0, <1>13, <2>3 DEF InsertAgain
    <3>2. PICK x : /\ Moves(s, x) /\ Fits(x)
                   /\ \/ x = Idle
                      \/ /\ x.pc = "find" /\ x.op = y.op /\ x.name = y.name
                         /\ x.target = y.target /\ x.swept = y.swept
      BY <1>0, <2>1, <3>1, GoesOn DEF BindPlaces
    <3>3. Loud(s, x)
      BY <1>0, <1>13, <2>3, <3>2 DEF Loud
    <3> QED BY <3>2, <3>3
  <2> QED BY <2>2, <2>3
<1>14. CASE FindId(s)
  <2>1. y.pc = "find" /\ y.op = "transfer"
    BY <1>0, <1>1, <1>14 DEF FindId, At, Shape
  <2>2. y.name \in Names /\ y.target \in Users /\ y.user \in Users
    BY <1>1, <2>1 DEF Shape, BindPlaces
  <2>3. CASE address[slot[s].name] = Null
    BY <1>14, <2>3, IdleIsFine, IdleIsQuiet DEF FindId, Leave, Put, Moves, Fits
  <2>4. CASE address[slot[s].name] # Null
    <3>1. PICK i \in Ids : i = address[y.name] /\ i # Null
      BY <1>0, <1>2, <2>2, <2>4
    <3>2. PICK x : x = [y EXCEPT !.pc = "insert", !.id = i]
      OBVIOUS
    <3>3. /\ x \in RequestRecord /\ x.pc = "insert" /\ x.op = y.op /\ x.user = y.user
          /\ x.target = y.target /\ x.name = y.name /\ x.id = i /\ x.swept = y.swept
      BY <1>3, <3>2 DEF RequestRecord, BindPlaces
    <3>4. Shape(x)
      BY <1>1, <2>1, <2>2, <3>3 DEF Shape, BindPlaces, DeletePlaces
    <3>5. Moves(s, x)
      BY <1>0, <1>14, <2>4, <3>1, <3>2 DEF FindId, Put, Moves
    <3>6. Loud(s, x) /\ x.op \in world.operations
      BY <1>0, <1>1, <1>14, <2>1, <3>1, <3>3 DEF Loud
    <3> QED BY <3>3, <3>4, <3>5, <3>6 DEF Fits
  <2> QED BY <2>3, <2>4
<1>15. CASE InsertBinding(s) \/ Drop(s) \/ Crash(s)
  <2>1. Moves(s, Idle)
    BY <1>15 DEF InsertBinding, Drop, Crash, Leave, Put, Moves
  <2> QED BY <2>1, IdleIsFine, IdleIsQuiet DEF Fits
<1>16. CASE Sweep(s)
  <2>1. y.pc = "sweep" /\ y.op \in {"delete"} \cup Cleanups /\ (y.op = "delete" => y.name \in Names)
    BY <1>0, <1>1, <1>16 DEF Sweep, At, Shape, DeletePlaces
  <2>2. Doomed(s) \subseteq Names /\ (y.op = "delete" => Doomed(s) = {y.name})
    BY <1>0, <2>1 DEF Doomed, Old, Oldest, Cleanups
  <2>3. PICK x : x = [y EXCEPT !.pc = "release", !.swept = Doomed(s)]
    OBVIOUS
  <2>4. /\ x \in RequestRecord /\ x.pc = "release" /\ x.op = y.op /\ x.user = y.user
        /\ x.target = y.target /\ x.name = y.name /\ x.id = y.id /\ x.swept = Doomed(s)
    BY <2>2, <2>3 DEF RequestRecord, DeletePlaces
  <2>5. Shape(x)
    BY <1>1, <2>1, <2>2, <2>4 DEF Shape, BindPlaces, DeletePlaces
  <2>6. Moves(s, x) /\ Loud(s, x)
    BY <1>0, <1>16, <2>3, <2>4 DEF Sweep, Put, Moves, Loud
  <2> QED BY <1>1, <2>1, <2>4, <2>5, <2>6 DEF Fits
<1>17. CASE Release(s)
  <2>1. y.pc = "release"
    BY <1>0, <1>17 DEF Release, At
  <2>2. PICK x : x = [y EXCEPT !.pc = "drop"]
    OBVIOUS
  <2>3. /\ x \in RequestRecord /\ x.pc = "drop" /\ x.op = y.op /\ x.user = y.user
        /\ x.target = y.target /\ x.name = y.name /\ x.id = y.id /\ x.swept = y.swept
    BY <2>2 DEF RequestRecord, DeletePlaces
  <2>4. Shape(x)
    BY <1>1, <2>1, <2>3 DEF Shape, BindPlaces, DeletePlaces
  <2>5. Moves(s, x) /\ Quiet(s, x)
    <3>1. x.op # "transfer"
      BY <1>1, <2>1, <2>3 DEF Shape, DeletePlaces, Cleanups
    <3> QED BY <1>0, <1>17, <2>2, <2>3, <3>1 DEF Release, Goto, Put, Moves, Quiet, PastAt
  <2> QED BY <1>1, <2>1, <2>3, <2>4, <2>5 DEF Fits
<1> QED
  BY <1>4, <1>5, <1>6, <1>7, <1>8, <1>9, <1>10, <1>11, <1>12, <1>13, <1>14, <1>15, <1>16, <1>17
     DEF Request

-----------------------------------------------------------------------------
(* Types. *)

Tables ==
  /\ address \in [Names -> Ids \cup {Null}] /\ lastId \in 0..MaxId
  /\ users \subseteq Users /\ leaving \subseteq Users
  /\ bound \in [Ids -> Users \cup {Null}]
  /\ mails \in [Names -> SUBSET Mail]
  /\ origin \in [Ids -> [name : Names, to : Users] \cup {Null}]
  /\ gap \subseteq Names
  /\ \A n \in Names : address[n] # Null => address[n] <= lastId

LEMMA TablesTyped == TypeOK => Tables
BY DEF TypeOK, Tables

\* A new row gets the next id, and is the only change.
LEMMA RowIsNew ==
  ASSUME Tables, NEW n \in Names, InsertRow(n)
  PROVE  /\ lastId + 1 \in Ids /\ lastId' = lastId + 1 /\ lastId' \in 0..MaxId
         /\ address' \in [Names -> Ids \cup {Null}] /\ address'[n] = lastId + 1
         /\ \A m \in Names \ {n} : address'[m] = address[m]
         /\ \A m \in Names : address'[m] # Null => address'[m] <= lastId'
<1>1. lastId + 1 \in Ids /\ lastId \in Nat /\ MaxId \in Nat
  BY Basics DEF Tables, InsertRow
<1>2. /\ address' \in [Names -> Ids \cup {Null}] /\ address'[n] = lastId + 1
      /\ \A m \in Names \ {n} : address'[m] = address[m]
  BY <1>1 DEF Tables, InsertRow
<1>3. \A m \in Names : address'[m] # Null => address'[m] <= lastId'
  <2> SUFFICES ASSUME NEW m \in Names, address'[m] # Null PROVE address'[m] <= lastId'
    OBVIOUS
  <2>1. CASE m = n
    BY <1>1, <1>2, <2>1 DEF InsertRow
  <2>2. CASE m # n
    <3>1. address[m] \in Ids /\ address[m] <= lastId /\ address'[m] = address[m]
      BY <1>2, <2>2 DEF Tables
    <3> QED BY <1>1, <3>1, Basics DEF InsertRow
  <2> QED BY <2>1, <2>2
<1> QED BY <1>1, <1>2, <1>3 DEF InsertRow, Tables

LEMMA RowsGo ==
  ASSUME Tables, NEW D, DeleteRows(D), UNCHANGED lastId
  PROVE  /\ address' \in [Names -> Ids \cup {Null}]
         /\ \A m \in Names : address'[m] # Null => address'[m] = address[m] /\ address'[m] <= lastId'
BY DEF Tables, DeleteRows

LEMMA BoundGoes ==
  ASSUME Tables, NEW D, bound' = [i \in Ids |-> IF i \in D THEN Null ELSE bound[i]]
  PROVE  bound' \in [Ids -> Users \cup {Null}] /\ \A i \in Ids : bound'[i] \in {bound[i], Null}
BY DEF Tables

LEMMA RequestTables ==
  ASSUME TypeOK, NEW s \in Slots, Request(s), UNCHANGED world
  PROVE  Tables'
<1> USE TablesTyped DEF Tables
<1>0. PICK y \in RequestRecord : y = slot[s] /\ Shape(y)
  BY DEF TypeOK
<1>1. CASE UNCHANGED tables
  BY <1>1 DEF tables
<1>2. CASE RemoveBinding(s) \/ InsertBinding(s)
  <2>1. /\ y.pc \in {"remove", "insert"} /\ UNCHANGED <<address, lastId, users, leaving, mails, origin, gap>>
        /\ \E b : bound' = [bound EXCEPT ![y.id] = b] /\ b \in {Null, bound[y.id], Receiver(s)}
    BY <1>0, <1>2 DEF RemoveBinding, InsertBinding, At
  <2>2. y.id \in Ids /\ y.user \in Users /\ (y.op = "transfer" => y.target \in Users)
    BY <1>0, <2>1 DEF Shape, BindPlaces
  <2>3. Receiver(s) \in Users
    BY <1>0, <2>2 DEF Receiver
  <2> QED BY <2>1, <2>2, <2>3
<1>3. CASE DropId(s)
  <2>1. DeleteRows({n \in Names : address[n] = slot[s].id})
    BY <1>3 DEF DropId
  <2> QED BY <1>3, <2>1, RowsGo DEF DropId
<1>4. CASE InsertAgain(s)
  <2>1. y.pc = "create"
    BY <1>0, <1>4 DEF InsertAgain, At
  <2>2. y.name \in Names /\ y.target \in Users
    BY <1>0, <2>1 DEF Shape, BindPlaces
  <2>3. CASE address[y.name] # Null
    BY <1>0, <1>4, <2>3 DEF InsertAgain
  <2>4. CASE address[y.name] = Null
    <3>1. /\ InsertRow(y.name) /\ gap' = gap \ {y.name}
          /\ origin' = [origin EXCEPT ![lastId + 1] = [name |-> y.name, to |-> y.target]]
          /\ UNCHANGED <<users, leaving, bound, mails>>
      BY <1>0, <1>4, <2>4 DEF InsertAgain
    <3>2. /\ lastId + 1 \in Ids /\ lastId' \in 0..MaxId /\ address' \in [Names -> Ids \cup {Null}]
          /\ \A m \in Names : address'[m] # Null => address'[m] <= lastId'
      BY <2>2, <3>1, RowIsNew
    <3>3. [name |-> y.name, to |-> y.target] \in [name : Names, to : Users]
      BY <2>2
    <3>4. origin' \in [Ids -> [name : Names, to : Users] \cup {Null}]
      BY <3>1, <3>2, <3>3
    <3> QED BY <3>1, <3>2, <3>4
  <2> QED BY <2>3, <2>4
<1>5. CASE Sweep(s)
  BY <1>5 DEF Sweep, Mail
<1>6. CASE Release(s)
  BY <1>6, BoundGoes DEF Release
<1>7. CASE Drop(s)
  <2>1. DeleteRows(Doomed(s))
    BY <1>7 DEF Drop
  <2> QED BY <1>7, <2>1, RowsGo DEF Drop
<1>8. CASE \/ \E u \in world.members, n \in Names : StartBind(s, u, n)
           \/ \E u \in world.members, i \in Ids : StartUnbind(s, u, i)
           \/ \E u, t \in world.members, n \in Names : StartTransfer(s, u, n, t)
           \/ \E n \in Names : StartDelete(s, n)
           \/ \E kind \in Cleanups : StartCleanup(s, kind)
  BY <1>8 DEF StartBind, StartUnbind, StartTransfer, StartDelete, StartCleanup, Begin
<1>9. CASE \/ CheckMailbox(s) \/ CheckUser(s) \/ CheckTarget(s) \/ CheckLimit(s) \/ CheckOwned(s)
           \/ FindId(s) \/ Crash(s)
  BY <1>9 DEF CheckMailbox, CheckUser, CheckTarget, CheckLimit, CheckOwned, FindId, Crash, tables
<1> QED BY <1>2, <1>3, <1>4, <1>5, <1>6, <1>7, <1>8, <1>9 DEF Request

LEMMA EnvironmentTables ==
  ASSUME TypeOK, Environment, UNCHANGED world
  PROVE  Tables' /\ UNCHANGED slot
<1> USE TablesTyped DEF Tables
<1>1. world.members \subseteq Users /\ world.inboxes \subseteq Names
  BY Basics DEF TypeOK
<1>2. ASSUME NEW n \in Names, CreateAddress(n) PROVE Tables' /\ UNCHANGED slot
  BY <1>2, RowIsNew DEF CreateAddress
<1>3. ASSUME NEW n \in Names, AdminDeleteAddress(n) PROVE Tables' /\ UNCHANGED slot
  <2>1. DeleteRows({n}) /\ address[n] \in Ids /\ {} \subseteq Mail
    BY <1>3 DEF AdminDeleteAddress
  <2> QED BY <1>3, <2>1, RowsGo DEF AdminDeleteAddress
<1>4. ASSUME NEW u \in Users, AdminDeleteUser(u) \/ Register(u) PROVE Tables' /\ UNCHANGED slot
  BY <1>4 DEF AdminDeleteUser, Register
<1>5. ASSUME NEW u \in Users, ReleaseUser(u) PROVE Tables' /\ UNCHANGED slot
  BY <1>5 DEF ReleaseUser
<1>6. ASSUME NEW n \in Names, Receive(n) PROVE Tables' /\ UNCHANGED slot
  BY <1>6 DEF Receive, Mail
<1> QED BY <1>1, <1>2, <1>3, <1>4, <1>5, <1>6 DEF Environment

LEMMA InitTypes == Init => TypeOK
<1> SUFFICES ASSUME Init PROVE TypeOK
  OBVIOUS
<1>1. 0 \in 0..MaxId /\ world.members \subseteq Users
  BY Basics DEF Init
<1> QED BY <1>1, IdleIsFine DEF Init, AddressInit, TypeOK

LEMMA NextTypes == TypeOK /\ [Next]_vars => TypeOK'
<1> SUFFICES ASSUME TypeOK, [Next]_vars PROVE TypeOK'
  OBVIOUS
<1>1. CASE Environment /\ UNCHANGED world
  <2>1. Tables' /\ UNCHANGED slot
    BY <1>1, EnvironmentTables
  <2> QED BY <1>1, <2>1 DEF Tables, TypeOK
<1>2. ASSUME NEW s \in Slots, Request(s), UNCHANGED world PROVE TypeOK'
  <2>1. Tables'
    BY <1>2, RequestTables
  <2>2. /\ slot' \in [Slots -> RequestRecord]
        /\ \A t \in Slots : /\ Shape(slot'[t])
                            /\ slot'[t].pc # "idle" => slot'[t].op \in world'.operations
    BY <1>2, RequestMoves, SlotsFit
  <2> QED BY <1>2, <2>1, <2>2 DEF Tables, TypeOK
<1>3. CASE UNCHANGED vars
  BY <1>3 DEF vars, TypeOK
<1> QED BY <1>1, <1>2, <1>3 DEF Next

-----------------------------------------------------------------------------
(* The limit. *)

Past(u) == {s \in Slots : PastAt(slot[s]) /\ Owner(slot[s]) = u}

\* What a user has and what is past the check together stay below the limit
\* and the number of slots.
CountInv ==
  Limit > 0 => \A u \in Users :
    Cardinality(Bindings(u)) + Cardinality(Past(u)) < Limit + Cardinality(Slots)

LEMMA Counts ==
  /\ Cardinality(Slots) \in Nat \ {0}
  /\ \A T \in SUBSET Slots : /\ IsFiniteSet(T) /\ Cardinality(T) \in Nat
                             /\ Cardinality(T) <= Cardinality(Slots)
  /\ \A T \in SUBSET Ids : IsFiniteSet(T) /\ Cardinality(T) \in Nat
<1>1. Cardinality(Slots) \in Nat \ {0}
  BY LifecycleSlots, FS_CardinalityType, FS_EmptySet
<1>2. IsFiniteSet(Ids)
  BY Basics, FS_Interval
<1> QED BY <1>1, <1>2, LifecycleSlots, FS_Subset, FS_CardinalityType

\* Fewer bindings and fewer requests past the check.
LEMMA CountFalls ==
  ASSUME CountInv, NEW u \in Users, Limit > 0,
         Bindings(u)' \subseteq Bindings(u), Past(u)' \subseteq Past(u)
  PROVE  (Cardinality(Bindings(u)) + Cardinality(Past(u)) < Limit + Cardinality(Slots))'
<1>1. Bindings(u) \in SUBSET Ids /\ Past(u) \in SUBSET Slots
  BY DEF Bindings, Past
<1>2. /\ IsFiniteSet(Bindings(u)) /\ Cardinality(Bindings(u)) \in Nat
      /\ IsFiniteSet(Past(u)) /\ Cardinality(Past(u)) \in Nat
  BY <1>1, Counts
<1>3. /\ Cardinality(Bindings(u)') <= Cardinality(Bindings(u))
      /\ Cardinality(Past(u)') <= Cardinality(Past(u))
      /\ Cardinality(Bindings(u)') \in Nat /\ Cardinality(Past(u)') \in Nat
  BY <1>2, FS_Subset, FS_CardinalityType
<1>4. Cardinality(Bindings(u)) + Cardinality(Past(u)) < Limit + Cardinality(Slots)
  BY DEF CountInv
<1>5. Limit \in Nat /\ Cardinality(Slots) \in Nat
  BY Counts, LifecycleAssumption
<1> HIDE DEF Past
<1> QED BY <1>2, <1>3, <1>4, <1>5

\* A quiet step of a request lets no more requests past the check.
LEMMA QuietPast ==
  ASSUME TypeOK, NEW s \in Slots, NEW x, Moves(s, x), Quiet(s, x) \/ ~PastAt(x)
  PROVE  \A u : Past(u)' \subseteq Past(u)
BY DEF TypeOK, Moves, Quiet, Past

LEMMA CheckedCount ==
  ASSUME TypeOK, CountInv, NEW s \in Slots, NEW x, Moves(s, x), UNCHANGED bound,
         Owner(x) = Receiver(s), ~LimitReached(Receiver(s))
  PROVE  CountInv'
<1> SUFFICES ASSUME NEW u \in Users, Limit > 0
             PROVE  (Cardinality(Bindings(u)) + Cardinality(Past(u)) < Limit + Cardinality(Slots))'
  BY DEF CountInv
<1>1. Bindings(u)' = Bindings(u)
  BY DEF Bindings
<1>2. CASE u = Receiver(s)
  <2>1. Bindings(u) \in SUBSET Ids /\ Past(u)' \in SUBSET Slots
    BY DEF Bindings, Past
  <2>2. /\ Cardinality(Bindings(u)) \in Nat /\ Cardinality(Past(u)') \in Nat
        /\ Cardinality(Past(u)') <= Cardinality(Slots) /\ Cardinality(Slots) \in Nat
    BY <2>1, Counts
  <2>3. Cardinality(Bindings(u)) < Limit
    BY <1>2, <2>2, LifecycleAssumption DEF LimitReached
  <2>4. Limit \in Nat
    BY LifecycleAssumption
  <2> HIDE DEF Past
  <2> QED BY <1>1, <2>2, <2>3, <2>4
<1>3. CASE u # Receiver(s)
  <2>1. Past(u)' \subseteq Past(u)
    BY <1>3 DEF TypeOK, Moves, Past
  <2> QED BY <1>1, <2>1, CountFalls
<1> QED BY <1>2, <1>3

LEMMA BoundCount ==
  ASSUME TypeOK, CountInv, NEW s \in Slots, InsertBinding(s)
  PROVE  CountInv'
<1> SUFFICES ASSUME NEW u \in Users, Limit > 0
             PROVE  (Cardinality(Bindings(u)) + Cardinality(Past(u)) < Limit + Cardinality(Slots))'
  BY DEF CountInv
<1>1. Moves(s, Idle) /\ ~PastAt(Idle) /\ slot[s].pc = "insert" /\ PastAt(slot[s])
  BY DEF InsertBinding, Leave, Put, Moves, At, PastAt, Idle
<1>2. Past(u)' \subseteq Past(u)
  BY <1>1, QuietPast
<1>3. CASE u # Receiver(s)
  <2>1. Bindings(u)' \subseteq Bindings(u)
    BY <1>3, Basics DEF InsertBinding, Bindings, TypeOK
  <2> QED BY <1>2, <2>1, CountFalls
<1>4. CASE u = Receiver(s)
  <2>1. s \in Past(u) /\ s \notin Past(u)'
    BY <1>1, <1>4 DEF Past, Owner, Receiver, Moves, TypeOK
  <2>2. PICK i : i = slot[s].id
    OBVIOUS
  <2>3. Bindings(u)' \subseteq Bindings(u) \cup {i}
    BY <2>2 DEF InsertBinding, Bindings, TypeOK
  <2>4. Bindings(u) \in SUBSET Ids /\ Past(u) \in SUBSET Slots /\ Past(u)' \in SUBSET Slots
        /\ Bindings(u)' \in SUBSET Ids
    BY DEF Bindings, Past
  <2>5. /\ IsFiniteSet(Bindings(u)) /\ Cardinality(Bindings(u)) \in Nat
        /\ IsFiniteSet(Past(u)) /\ Cardinality(Past(u)) \in Nat
        /\ Cardinality(Past(u)') \in Nat /\ Cardinality(Bindings(u)') \in Nat
    BY <2>4, Counts
  <2>6. Past(u)' \subseteq Past(u) \ {s}
    BY <1>2, <2>1
  <2>7. Cardinality(Past(u)') <= Cardinality(Past(u)) - 1
    <3>1. IsFiniteSet(Past(u) \ {s}) /\ Cardinality(Past(u) \ {s}) = Cardinality(Past(u)) - 1
      BY <2>1, <2>5, FS_RemoveElement
    <3> QED BY <2>6, <3>1, FS_Subset
  <2>8. Cardinality(Bindings(u)') <= Cardinality(Bindings(u)) + 1
    <3>1. /\ IsFiniteSet(Bindings(u) \cup {i})
          /\ Cardinality(Bindings(u) \cup {i}) \in {Cardinality(Bindings(u)), Cardinality(Bindings(u)) + 1}
      BY <2>5, FS_AddElement
    <3>2. Cardinality(Bindings(u)') <= Cardinality(Bindings(u) \cup {i})
      BY <2>3, <3>1, FS_Subset
    <3> QED BY <2>5, <3>1, <3>2
  <2>9. /\ Cardinality(Bindings(u)) + Cardinality(Past(u)) < Limit + Cardinality(Slots)
        /\ Limit \in Nat /\ Cardinality(Slots) \in Nat
    BY Counts, LifecycleAssumption DEF CountInv
  <2> HIDE DEF Past
  <2> QED BY <2>5, <2>7, <2>8, <2>9
<1> QED BY <1>3, <1>4

\* Bindings go in the other steps, if anything.
LEMMA BindingsFall ==
  ASSUME TypeOK,
         \/ \E s \in Slots : Request(s) /\ ~InsertBinding(s)
         \/ Environment
         \/ UNCHANGED vars
  PROVE  \A u \in Users : Bindings(u)' \subseteq Bindings(u)
<1>1. CASE \E s \in Slots : Request(s) /\ ~InsertBinding(s)
  <2>1. PICK s \in Slots : Request(s) /\ ~InsertBinding(s)
    BY <1>1
  <2>2. CASE RemoveBinding(s)
    BY <2>2, Basics DEF RemoveBinding, Bindings, TypeOK
  <2>3. CASE Release(s)
    BY <2>3, Basics DEF Release, Bindings, TypeOK
  <2>4. CASE ~RemoveBinding(s) /\ ~Release(s)
    <3>1. UNCHANGED bound
      BY <2>1, <2>4
         DEF Request, StartBind, StartUnbind, StartTransfer, StartDelete, StartCleanup, Begin,
             CheckMailbox, CheckUser, CheckTarget, CheckLimit, CheckOwned, DropId, InsertAgain,
             FindId, Sweep, Drop, Crash, tables
    <3> QED BY <3>1 DEF Bindings
  <2> QED BY <2>2, <2>3, <2>4
<1>2. CASE Environment
  <2>1. CASE UNCHANGED bound
    BY <2>1 DEF Bindings
  <2>2. CASE \E n \in Names : AdminDeleteAddress(n)
    BY <2>2, Basics DEF AdminDeleteAddress, Bindings, TypeOK
  <2>3. CASE \E u \in world.members : ReleaseUser(u)
    BY <2>3, Basics DEF ReleaseUser, Bindings, TypeOK
  <2> QED
    BY <1>2, <2>1, <2>2, <2>3
       DEF Environment, CreateAddress, AdminDeleteUser, Register, Receive
<1>3. CASE UNCHANGED vars
  BY <1>3 DEF vars, Bindings
<1> QED BY <1>1, <1>2, <1>3

LEMMA NextCount == TypeOK /\ CountInv /\ [Next]_vars => CountInv'
<1> SUFFICES ASSUME TypeOK, CountInv, [Next]_vars PROVE CountInv'
  OBVIOUS
<1>1. CASE UNCHANGED vars \/ Environment
  <2>1. UNCHANGED slot
    BY <1>1
       DEF vars, Environment, CreateAddress, AdminDeleteAddress, AdminDeleteUser, ReleaseUser,
           Register, Receive
  <2>2. \A u \in Users : Past(u)' \subseteq Past(u)
    BY <2>1 DEF Past
  <2> QED BY <1>1, <2>2, BindingsFall, CountFalls DEF CountInv
<1>2. ASSUME NEW s \in Slots, Request(s) PROVE CountInv'
  <2>1. PICK x : Moves(s, x) /\ Fits(x) /\ (Quiet(s, x) \/ Loud(s, x))
    BY <1>2, RequestMoves
  <2>2. CASE InsertBinding(s)
    BY <2>2, BoundCount
  <2>3. CASE ~InsertBinding(s) /\ (Quiet(s, x) \/ ~PastAt(x))
    <3>1. \A u \in Users : Past(u)' \subseteq Past(u)
      BY <2>1, <2>3, QuietPast
    <3> QED BY <1>2, <2>3, <3>1, BindingsFall, CountFalls DEF CountInv
  <2>4. CASE Loud(s, x) /\ ~Quiet(s, x) /\ PastAt(x)
    <3>1. ~PastAt(Idle)
      BY DEF PastAt, Idle
    <3>2. CASE CheckLimit(s) /\ Owner(x) = Receiver(s) /\ ~LimitReached(Receiver(s))
      <4>1. UNCHANGED bound
        BY <3>2 DEF CheckLimit, tables
      <4> QED BY <2>1, <3>2, <4>1, CheckedCount
    <3>3. CASE InsertAgain(s) \/ FindId(s)
      <4>1. /\ ~InsertBinding(s) /\ slot[s].pc \in {"create", "find"}
            /\ x.op = slot[s].op /\ x.target = slot[s].target
        BY <2>4, <3>1, <3>3
           DEF Loud, InsertAgain, FindId, InsertBinding, CheckLimit, Sweep, At
      <4>2. slot[s].op = "transfer"
        BY <4>1 DEF TypeOK, Shape
      <4>3. \A u \in Users : Past(u)' \subseteq Past(u)
        BY <2>1, <4>1, <4>2 DEF TypeOK, Moves, Past, PastAt, Owner
      <4> QED BY <1>2, <4>1, <4>3, BindingsFall, CountFalls DEF CountInv
    <3>4. CASE Sweep(s)
      <4>1. x.pc = "release" \/ CheckLimit(s) \/ InsertAgain(s) \/ FindId(s)
        BY <2>4, <3>4 DEF Loud
      <4>2. ~CheckLimit(s) /\ ~InsertAgain(s) /\ ~FindId(s)
        BY <3>4 DEF Sweep, CheckLimit, InsertAgain, FindId, At
      <4> QED BY <2>4, <4>1, <4>2 DEF PastAt
    <3> QED BY <2>4, <3>1, <3>2, <3>3, <3>4 DEF Loud
  <2> QED BY <2>1, <2>2, <2>3, <2>4
<1> QED BY <1>1, <1>2 DEF Next

-----------------------------------------------------------------------------
(* Transfers. *)

\* Ids are made in order, and what a transfer made is on record for good.
LEMMA IdsGrow ==
  ASSUME TypeOK, [Next]_vars
  PROVE  /\ lastId \in Nat /\ lastId' \in Nat /\ lastId <= lastId'
         /\ \A i \in 1..lastId : origin'[i] = origin[i]
         /\ \A n \in Names : address'[n] \in {address[n], Null, lastId + 1}
<1>0. lastId \in Nat /\ address \in [Names -> Ids \cup {Null}]
  BY Basics DEF TypeOK
<1>1. CASE UNCHANGED <<address, lastId, origin>>
  BY <1>0, <1>1
<1>2. CASE UNCHANGED <<lastId, origin>> /\ \E D : DeleteRows(D)
  BY <1>0, <1>2 DEF DeleteRows
<1>3. CASE /\ \E n \in Names : InsertRow(n)
           /\ origin' = origin \/ \E r : origin' = [origin EXCEPT ![lastId + 1] = r]
  <2>1. PICK n \in Names : InsertRow(n)
    BY <1>3
  <2>2. /\ lastId' = lastId + 1
        /\ \A m \in Names : address'[m] \in {address[m], lastId + 1}
    BY <1>0, <2>1 DEF InsertRow
  <2>3. \A i \in 1..lastId : origin'[i] = origin[i]
    <3>1. \A i \in 1..lastId : i # lastId + 1 /\ i \in Ids
      BY <1>0, <2>1, Basics DEF InsertRow
    <3> QED BY <1>3, <3>1 DEF TypeOK
  <2> QED BY <1>0, <2>2, <2>3
<1>4. ASSUME NEW s \in Slots, Request(s)
      PROVE  \/ UNCHANGED <<address, lastId, origin>>
             \/ UNCHANGED <<lastId, origin>> /\ \E D : DeleteRows(D)
             \/ /\ \E n \in Names : InsertRow(n)
                /\ origin' = origin \/ \E r : origin' = [origin EXCEPT ![lastId + 1] = r]
  <2>1. CASE DropId(s)
    BY <2>1 DEF DropId
  <2>2. CASE Drop(s)
    BY <2>2 DEF Drop
  <2>3. CASE InsertAgain(s)
    <3>1. slot[s].name \in Names
      BY <2>3 DEF TypeOK, Shape, InsertAgain, At, BindPlaces
    <3> QED BY <2>3, <3>1 DEF InsertAgain
  <2> QED
    BY <1>4, <2>1, <2>2, <2>3
       DEF Request, StartBind, StartUnbind, StartTransfer, StartDelete, StartCleanup, Begin,
           CheckMailbox, CheckUser, CheckTarget, CheckLimit, CheckOwned, RemoveBinding,
           FindId, InsertBinding, Sweep, Release, Crash, tables
<1>5. ASSUME Environment
      PROVE  \/ UNCHANGED <<address, lastId, origin>>
             \/ UNCHANGED <<lastId, origin>> /\ \E D : DeleteRows(D)
             \/ /\ \E n \in Names : InsertRow(n)
                /\ origin' = origin \/ \E r : origin' = [origin EXCEPT ![lastId + 1] = r]
  BY <1>5
     DEF Environment, CreateAddress, AdminDeleteAddress, AdminDeleteUser, ReleaseUser, Register,
         Receive
<1>6. CASE UNCHANGED vars
  BY <1>1, <1>6 DEF vars
<1> QED BY <1>1, <1>2, <1>3, <1>4, <1>5, <1>6 DEF Next

\* The transfer has made mailbox i, and the mailbox of its name is not an older one.
Made(s, i) ==
  /\ origin[i] = [name |-> slot[s].name, to |-> slot[s].target]
  /\ slot[s].pc = "find" /\ address[slot[s].name] # Null => i <= address[slot[s].name]
  /\ slot[s].pc = "insert" => i <= slot[s].id

HasMade(s) ==
  slot[s].op = "transfer" /\ slot[s].pc \in {"find", "insert"} =>
    \E i \in 1..lastId : Made(s, i)

OriginInv == \A s \in Slots : HasMade(s)

\* What a request has made is made, whatever the step of another.
LEMMA MadeLasts ==
  ASSUME TypeOK, [Next]_vars, NEW s \in Slots, slot'[s] = slot[s], HasMade(s)
  PROVE  HasMade(s)'
<1> SUFFICES ASSUME slot[s].op = "transfer", slot[s].pc \in {"find", "insert"}
             PROVE  \E i \in 1..lastId' : Made(s, i)'
  BY DEF HasMade
<1>1. PICK i \in 1..lastId : Made(s, i)
  BY DEF HasMade
<1>2. slot[s].name \in Names
  BY DEF TypeOK, Shape, BindPlaces
<1>3. /\ lastId \in Nat /\ lastId' \in Nat /\ lastId <= lastId' /\ origin'[i] = origin[i]
      /\ address'[slot[s].name] \in {address[slot[s].name], Null, lastId + 1}
  BY <1>2, IdsGrow
<1>4. Made(s, i)'
  BY <1>1, <1>3 DEF Made
<1> QED BY <1>3, <1>4

LEMMA NextOrigin == TypeOK /\ OriginInv /\ [Next]_vars => OriginInv'
<1> SUFFICES ASSUME TypeOK, OriginInv, [Next]_vars,
                    NEW t \in Slots
             PROVE  HasMade(t)'
  BY DEF OriginInv
<1>1. CASE slot'[t] = slot[t]
  BY <1>1, MadeLasts DEF OriginInv
<1>2. CASE slot'[t] # slot[t] /\ slot'[t].op = "transfer" /\ slot'[t].pc \in {"find", "insert"}
  <2>1. PICK s \in Slots : Request(s) /\ UNCHANGED world
    BY <1>2
       DEF Next, vars, Environment, CreateAddress, AdminDeleteAddress, AdminDeleteUser,
           ReleaseUser, Register, Receive
  <2>2. PICK x : Moves(s, x) /\ Fits(x) /\ (Quiet(s, x) \/ Loud(s, x))
    BY <2>1, RequestMoves
  <2>3. s = t /\ slot'[t] = x
    BY <1>2, <2>2 DEF Moves, TypeOK
  <2>4. ~Quiet(s, x) /\ x # Idle
    BY <1>2, <2>3 DEF Quiet, Idle
  <2>5. CASE InsertAgain(s)
    <3>1. x.pc = "find" /\ x.name = slot[s].name /\ x.target = slot[s].target
          /\ address[slot[s].name] = Null
      BY <2>2, <2>4, <2>5 DEF Loud, InsertAgain, CheckLimit, FindId, Sweep, At
    <3>2. /\ InsertRow(x.name)
          /\ origin' = [origin EXCEPT ![lastId + 1] = [name |-> x.name, to |-> x.target]]
      BY <2>5, <3>1 DEF InsertAgain
    <3>3. x.name \in Names
      BY <2>2, <2>3, <3>1 DEF Fits, Shape, BindPlaces
    <3>4. lastId + 1 \in Ids /\ lastId \in Nat /\ address \in [Names -> Ids \cup {Null}]
      BY <3>2, Basics DEF InsertRow, TypeOK
    <3>5. /\ origin'[lastId + 1] = [name |-> x.name, to |-> x.target]
          /\ address'[x.name] = lastId + 1 /\ lastId' = lastId + 1
      BY <3>2, <3>3, <3>4 DEF InsertRow, TypeOK
    <3>6. PICK k \in 1..lastId' : k = lastId + 1
      BY <3>4, <3>5
    <3>7. Made(t, k)'
      BY <2>3, <3>1, <3>4, <3>5, <3>6 DEF Made
    <3> QED BY <3>6, <3>7 DEF HasMade
  <2>6. CASE FindId(s)
    <3>1. /\ x.id = address[slot[s].name] /\ x.id # Null /\ x.pc = "insert" /\ x.op = slot[s].op
          /\ x.name = slot[s].name /\ x.target = slot[s].target
      BY <2>2, <2>4, <2>6 DEF Loud, InsertAgain, CheckLimit, FindId, Sweep, At
    <3>2. slot[s].pc = "find" /\ UNCHANGED <<lastId, origin>>
      BY <2>6 DEF FindId, At, tables
    <3>3. PICK i \in 1..lastId : Made(s, i)
      BY <1>2, <2>3, <3>1, <3>2 DEF OriginInv, HasMade
    <3>4. Made(t, i)'
      BY <2>3, <3>1, <3>2, <3>3 DEF Made
    <3> QED BY <3>2, <3>4 DEF HasMade
  <2>7. CASE CheckLimit(s)
    <3>1. x.pc \in {"owned", "insert"} /\ x.op = slot[s].op /\ slot[s].op = "transfer"
      BY <1>2, <2>2, <2>3, <2>4, <2>7 DEF Loud, InsertAgain, CheckLimit, FindId, Sweep, At
    <3>2. Goto(s, "owned") \/ Leave(s)
      BY <2>7, <3>1 DEF CheckLimit, GoOnIf
    <3> QED BY <1>2, <2>3, <2>4, <3>2 DEF Goto, Leave, Put, TypeOK, RequestRecord, Idle
  <2>8. CASE Sweep(s)
    BY <1>2, <2>2, <2>3, <2>4, <2>8 DEF Loud, InsertAgain, CheckLimit, FindId, Sweep, At
  <2> QED BY <2>2, <2>4, <2>5, <2>6, <2>7, <2>8 DEF Loud
<1> QED BY <1>1, <1>2 DEF HasMade

-----------------------------------------------------------------------------
(* Mails. *)

\* No cleanup whose statements may choose different rows is running.
Settled == world.operations \cap {"unbound", "created"} = {}

MailsInv ==
  Settled =>
    /\ \A n \in Names : address[n] = Null /\ "kept" \in mails[n] => n \in gap
    /\ \A s \in Slots : \A n \in slot[s].swept : "kept" \notin mails[n]

\* Nothing is kept under a name that a deletion drops.
LEMMA DoomedIsEmpty ==
  ASSUME TypeOK, MailsInv, Settled, NEW s \in Slots, Drop(s)
  PROVE  \A n \in Doomed(s) : "kept" \notin mails[n]
<1>1. PICK y \in RequestRecord : y = slot[s] /\ Shape(y) /\ y.pc = "drop" /\ y.op \in world.operations
  BY Basics DEF TypeOK, Drop, At
<1>2. y.op \in {"delete", "empty"}
  BY <1>1 DEF Shape, Settled, Cleanups, DeletePlaces
<1>3. CASE y.op = "delete"
  <2>1. Doomed(s) = {y.name} /\ y.name \in y.swept
    BY <1>1, <1>3 DEF Doomed, Shape
  <2> QED BY <1>1, <2>1 DEF MailsInv
<1>4. CASE y.op = "empty"
  BY <1>1, <1>4 DEF Doomed
<1> QED BY <1>2, <1>3, <1>4

\* A step that delivers nothing and leaves no name without a reason.
LEMMA MailsGo ==
  ASSUME TypeOK, MailsInv, UNCHANGED world,
         \A n \in Names : "kept" \in mails'[n] => "kept" \in mails[n],
         \A n \in Names : address'[n] = Null /\ "kept" \in mails'[n] =>
                            n \in gap' \/ (address[n] = Null /\ n \notin gap),
         Settled => \A s \in Slots : \A n \in slot'[s].swept :
                      n \in slot[s].swept \/ "kept" \notin mails'[n],
         slot' \in [Slots -> RequestRecord]
  PROVE  MailsInv'
<1> SUFFICES ASSUME Settled PROVE MailsInv'
  BY DEF MailsInv, Settled
<1>1. \A s \in Slots : \A n \in slot'[s].swept : n \in Names
  BY DEF RequestRecord
<1> QED BY <1>1 DEF MailsInv

LEMMA RequestMails ==
  ASSUME TypeOK, MailsInv, NEW s \in Slots, Request(s), UNCHANGED world
  PROVE  MailsInv'
<1> SUFFICES ASSUME Settled PROVE MailsInv'
  BY DEF MailsInv, Settled
<1>1. PICK x : Moves(s, x) /\ Fits(x) /\ (Quiet(s, x) \/ Loud(s, x))
  BY RequestMoves
<1>2. slot' \in [Slots -> RequestRecord]
  BY <1>1, SlotsFit
<1>3. x.swept = {} \/ x.swept = slot[s].swept \/ (Sweep(s) /\ x.swept = Doomed(s))
  BY <1>1 DEF Quiet, Loud, Idle
<1>4. ASSUME ~(Sweep(s) /\ x.swept = Doomed(s))
      PROVE  \A t \in Slots : slot'[t].swept \subseteq slot[t].swept
  BY <1>1, <1>3, <1>4 DEF Moves, TypeOK
<1>5. CASE UNCHANGED <<address, mails, gap>>
  <2>1. ~(Sweep(s) /\ x.swept = Doomed(s)) \/ (Sweep(s) /\ x.swept = Doomed(s))
    OBVIOUS
  <2>2. ASSUME Sweep(s), x.swept = Doomed(s)
        PROVE \A t \in Slots : \A n \in slot'[t].swept : n \in slot[t].swept \/ "kept" \notin mails'[n]
    <3>1. \A n \in Doomed(s) : n \in Names => mails'[n] = {}
      BY <2>2 DEF Sweep
    <3>2. x.swept \subseteq Names
      BY <1>1 DEF Fits, RequestRecord
    <3> QED BY <1>1, <2>2, <3>1, <3>2 DEF Moves, TypeOK
  <2> QED BY <1>2, <1>4, <1>5, <2>1, <2>2, MailsGo DEF MailsInv
<1>6. CASE Sweep(s)
  <2>1. \A n \in Names : mails'[n] = {} \/ (n \notin Doomed(s) /\ mails'[n] = mails[n])
    BY <1>6 DEF Sweep
  <2>2. UNCHANGED <<address, gap>>
    BY <1>6 DEF Sweep
  <2>3. x.swept \subseteq Names
    BY <1>1 DEF Fits, RequestRecord
  <2>4. \A t \in Slots : \A n \in slot'[t].swept : n \in slot[t].swept \/ "kept" \notin mails'[n]
    BY <1>1, <1>3, <2>1, <2>3 DEF Moves, TypeOK
  <2> QED BY <1>2, <2>1, <2>2, <2>4, MailsGo DEF MailsInv
<1>7. CASE Drop(s)
  <2>1. /\ \A n \in Names : address'[n] = IF n \in Doomed(s) THEN Null ELSE address[n]
        /\ UNCHANGED <<mails, gap>> /\ ~Sweep(s)
    BY <1>7 DEF Drop, DeleteRows, Sweep, At
  <2>2. \A n \in Names : address'[n] = Null /\ "kept" \in mails'[n] => n \in gap'
    BY <1>7, <2>1, DoomedIsEmpty DEF MailsInv
  <2> QED BY <1>2, <1>4, <2>1, <2>2, MailsGo
<1>8. CASE DropId(s)
  <2>1. PICK D : D = {n \in Names : address[n] = slot[s].id}
    OBVIOUS
  <2>2. /\ \A n \in Names : address'[n] = IF n \in D THEN Null ELSE address[n]
        /\ gap' = gap \cup D /\ UNCHANGED mails /\ ~Sweep(s)
    BY <1>8, <2>1 DEF DropId, DeleteRows, Sweep, At
  <2>3. \A n \in Names : address'[n] = Null /\ "kept" \in mails'[n] => n \in gap'
    BY <2>2 DEF MailsInv
  <2> QED BY <1>2, <1>4, <2>2, <2>3, MailsGo
<1>9. CASE InsertAgain(s) /\ address[slot[s].name] = Null
  <2>1. /\ InsertRow(slot[s].name) /\ gap' = gap \ {slot[s].name} /\ UNCHANGED mails
        /\ ~Sweep(s) /\ slot[s].name \in Names
    BY <1>9 DEF InsertAgain, Sweep, At, TypeOK, Shape, BindPlaces
  <2>2. \A n \in Names : address'[n] = IF n = slot[s].name THEN lastId + 1 ELSE address[n]
    BY <2>1 DEF InsertRow, TypeOK
  <2>3. lastId + 1 # Null
    BY <2>1, RowIsNew, TablesTyped, Basics
  <2>4. \A n \in Names : address'[n] = Null /\ "kept" \in mails'[n] => n \in gap'
    BY <2>1, <2>2, <2>3 DEF MailsInv
  <2> QED BY <1>2, <1>4, <2>1, <2>4, MailsGo
<1> QED
  BY <1>5, <1>6, <1>7, <1>8, <1>9
     DEF Request, StartBind, StartUnbind, StartTransfer, StartDelete, StartCleanup, Begin,
         CheckMailbox, CheckUser, CheckTarget, CheckLimit, CheckOwned, RemoveBinding, InsertAgain,
         FindId, InsertBinding, Release, Crash, tables

LEMMA EnvironmentMails ==
  ASSUME TypeOK, MailsInv, Environment, UNCHANGED world
  PROVE  MailsInv'
<1> SUFFICES ASSUME Settled PROVE MailsInv'
  BY DEF MailsInv, Settled
<1>0. UNCHANGED slot /\ slot \in [Slots -> RequestRecord]
  BY EnvironmentTables DEF TypeOK
<1>1. CASE UNCHANGED <<address, mails, gap>>
  BY <1>0, <1>1, MailsGo DEF MailsInv
<1>2. ASSUME NEW n \in Names, CreateAddress(n) PROVE MailsInv'
  <2>1. /\ InsertRow(n) /\ gap' = gap \ {n} /\ UNCHANGED mails
    BY <1>2 DEF CreateAddress
  <2>2. \A m \in Names : address'[m] = IF m = n THEN lastId + 1 ELSE address[m]
    BY <2>1 DEF InsertRow, TypeOK
  <2>3. lastId + 1 # Null
    BY <2>1, RowIsNew, TablesTyped, Basics
  <2>4. \A m \in Names : address'[m] = Null /\ "kept" \in mails'[m] => m \in gap'
    BY <2>1, <2>2, <2>3 DEF MailsInv
  <2> QED BY <1>0, <2>1, <2>4, MailsGo
<1>3. ASSUME NEW n \in Names, AdminDeleteAddress(n) PROVE MailsInv'
  <2>1. /\ \A m \in Names : address'[m] = IF m = n THEN Null ELSE address[m]
        /\ \A m \in Names : mails'[m] = IF m = n THEN {} ELSE mails[m]
        /\ UNCHANGED gap
    BY <1>3 DEF AdminDeleteAddress, DeleteRows, TypeOK
  <2> QED BY <1>0, <2>1, MailsGo DEF MailsInv
<1>4. ASSUME NEW n \in Names, Receive(n) PROVE MailsInv'
  <2>1. PICK m : /\ m \in {"late", "kept"} /\ mails' = [mails EXCEPT ![n] = @ \cup {m}]
                 /\ m = "kept" => address[n] # Null /\ \A s \in Slots : n \notin slot[s].swept
    <3>1. CASE address[n] = Null \/ \E s \in Slots : n \in slot[s].swept
      <4>1. mails' = [mails EXCEPT ![n] = @ \cup {"late"}]
        BY <1>4, <3>1 DEF Receive
      <4> WITNESS "late"
      <4> QED BY <4>1
    <3>2. CASE address[n] # Null /\ \A s \in Slots : n \notin slot[s].swept
      <4>1. mails' = [mails EXCEPT ![n] = @ \cup {"kept"}]
        BY <1>4, <3>2 DEF Receive
      <4> WITNESS "kept"
      <4> QED BY <3>2, <4>1
    <3> QED BY <3>1, <3>2
  <2>2. UNCHANGED <<address, gap>>
    BY <1>4 DEF Receive
  <2>3. \A k \in Names : "kept" \in mails'[k] =>
           \/ "kept" \in mails[k]
           \/ address[k] # Null /\ \A s \in Slots : k \notin slot[s].swept
    BY <2>1 DEF TypeOK
  <2>4. \A s \in Slots : \A k \in slot[s].swept : k \in Names
    BY <1>0 DEF RequestRecord
  <2> QED BY <1>0, <2>2, <2>3, <2>4 DEF MailsInv, Settled
<1> QED
  BY <1>1, <1>2, <1>3, <1>4, Basics
     DEF Environment, AdminDeleteUser, ReleaseUser, Register, TypeOK

-----------------------------------------------------------------------------
(* The theorems. *)

IInv == TypeOK /\ CountInv /\ OriginInv /\ MailsInv

LEMMA InitInv == Init => IInv
<1> SUFFICES ASSUME Init PROVE IInv
  OBVIOUS
<1>1. TypeOK
  BY InitTypes
<1>2. CountInv
  <2> SUFFICES ASSUME Limit > 0, NEW u \in Users
               PROVE  Cardinality(Bindings(u)) + Cardinality(Past(u)) < Limit + Cardinality(Slots)
    BY DEF CountInv
  <2>1. Bindings(u) = {}
    BY Basics DEF Init, Bindings
  <2>2. Past(u) = {}
    BY DEF Init, Past, PastAt, Idle
  <2> HIDE DEF Past
  <2> QED BY <2>1, <2>2, Counts, FS_EmptySet, LifecycleAssumption
<1>3. OriginInv /\ MailsInv
  BY DEF Init, Idle, OriginInv, HasMade, MailsInv
<1> QED BY <1>1, <1>2, <1>3 DEF IInv

LEMMA NextInv == IInv /\ [Next]_vars => IInv'
<1> SUFFICES ASSUME IInv, [Next]_vars PROVE IInv'
  OBVIOUS
<1>1. TypeOK' /\ CountInv' /\ OriginInv'
  BY NextTypes, NextCount, NextOrigin DEF IInv
<1>2. MailsInv'
  <2>1. CASE UNCHANGED vars
    BY <2>1 DEF vars, IInv, MailsInv, Settled
  <2> QED BY <2>1, RequestMails, EnvironmentMails DEF IInv, Next
<1> QED BY <1>1, <1>2 DEF IInv

\* The inductive invariant: what requests that are past the check of the limit
\* may still bind, what a transfer has made, what a deletion has swept.
THEOREM LifecycleInv == Spec => []IInv
BY InitInv, NextInv, PTL DEF Spec

\* The limit of bind_address.ts (isAddressCountLimitReached) is read before the
\* binding is inserted: however many requests overlap, a user is never bound to
\* as many mailboxes as the limit and the requests in flight together.
THEOREM LifecycleBindOvershoot == Spec => []BindOvershoot
<1>1. IInv => BindOvershoot
  <2> SUFFICES ASSUME IInv, Limit > 0, NEW u \in Users
               PROVE  Cardinality(Bindings(u)) < Limit + Cardinality(Slots)
    BY DEF BindOvershoot
  <2>1. Bindings(u) \in SUBSET Ids /\ Past(u) \in SUBSET Slots
    BY DEF Bindings, Past
  <2>2. /\ Cardinality(Bindings(u)) \in Nat /\ Cardinality(Past(u)) \in Nat
        /\ Cardinality(Slots) \in Nat /\ Limit \in Nat
    BY <2>1, Counts, LifecycleAssumption
  <2>3. Cardinality(Bindings(u)) + Cardinality(Past(u)) < Limit + Cardinality(Slots)
    BY DEF IInv, CountInv
  <2> HIDE DEF Past
  <2> QED BY <2>2, <2>3
<1> QED BY <1>1, LifecycleInv, PTL

\* transferAddress deletes the row, inserts the name again and finds its id, in
\* three statements: what it binds is the mailbox it made for its target, or a
\* later one of that name.
THEOREM LifecycleTransfersItsOwn == Spec => TransfersItsOwn
<1>1. IInv /\ [Next]_vars =>
        [\A s \in Slots :
           At(s, "insert") /\ slot[s].op = "transfer" /\ bound' # bound =>
             \E i \in 1..slot[s].id :
               origin[i] = [name |-> slot[s].name, to |-> slot[s].target]]_vars
  <2> SUFFICES ASSUME IInv, NEW s \in Slots, At(s, "insert"), slot[s].op = "transfer"
               PROVE  \E i \in 1..slot[s].id :
                        origin[i] = [name |-> slot[s].name, to |-> slot[s].target]
    OBVIOUS
  <2>1. PICK i \in 1..lastId : Made(s, i)
    BY DEF IInv, OriginInv, HasMade, At
  <2>2. slot[s].id \in Ids
    BY DEF IInv, TypeOK, Shape, At, BindPlaces
  <2>3. i \in 1..slot[s].id
    BY <2>1, <2>2, Basics DEF Made, At, IInv, TypeOK
  <2> QED BY <2>1, <2>3 DEF Made
<1> QED BY <1>1, LifecycleInv, PTL DEF Spec, TransfersItsOwn

\* deleteAddressWithData (common.ts) deletes the data, the bindings and the
\* mailbox in that order: wherever it stops, and whoever else deletes, no
\* mailbox goes before the mails it had when it was swept.
THEOREM LifecycleMailsGoWithMailbox == Spec => []MailsGoWithMailbox
<1>1. IInv => MailsGoWithMailbox
  BY DEF IInv, MailsInv, MailsGoWithMailbox, Settled
<1> QED BY <1>1, LifecycleInv, PTL
=============================================================================
