-------------------------- MODULE BackgroundProofs --------------------------
(***************************************************************************)
(* For every number of mails, admins and errors, every forwarding list and *)
(* every world: a mail is stored once unless a worker stopped half way, a  *)
(* channel that fails holds up no other, a link opens its own mail, read   *)
(* status is stored, and a database that says it is current is.  For any   *)
(* number of users, mailboxes and requests in flight: no user has more     *)
(* mailboxes than the maximum, and where requests do not overlap the two   *)
(* entries of a binding agree with what the users did.                     *)
(***************************************************************************)
EXTENDS Background, SequenceTheorems, WellFoundedInduction, TLAPS

\* A set of numbers that is not empty has a least element.
LEMMA LeastGap ==
  ASSUME NEW T \in SUBSET Nat, T # {}
  PROVE  \E n \in T : \A m \in T : n <= m
<1>1. IsWellFoundedOn(OpToRel(<, Nat), Nat)
  BY NatLessThanWellFounded
<1>2. PICK n \in T : \A m \in T : <<m, n>> \notin OpToRel(<, Nat)
  BY <1>1, WFMin
<1>3. \A m \in T : ~ (m < n)
  BY <1>2 DEF OpToRel
<1> QED BY <1>3

(* The database. *)

RequestRow ==
  {x \in [op : {"migrate", "initialize"},
          step : {"idle", "look", "alter", "index", "exec", "check", "save"}, rung : 1..Top] :
     x.step \in {"look", "alter", "index"} => x.rung < Top}

DbTypeOK ==
  /\ schema \subseteq Everything
  /\ version \in Versions \cup {Null}
  /\ admin \in [Admins -> RequestRow]
  /\ mishaps \in [reads : Nat, others : Nat]

\* A table that is there has all its columns.
TablesWhole ==
  \A t \in {"raw_mails", "address"} : t \in schema => ColumnsOf(t) \subseteq schema

\* What a migration adds before rung k is there.
Reached(k) == \A j \in 1..(k - 1) : Ladder[j].object \in schema

\* What the database has tells its version, as far as it is known.
SchemaOfVersion ==
  /\ version = Null => TablesWhole
  /\ version \notin {Null, Current} => AsOf(version) \subseteq schema
  /\ version = Current => schema = Everything

\* What a request has seen to by now.
RequestSaw(x) ==
  /\ x.step \in {"look", "alter"} => Reached(x.rung)
  /\ x.step = "index" => Reached(x.rung + 1)
  /\ x.step = "exec" /\ x.op = "migrate" => TablesWhole
  /\ x.step = "check" => Range(InitQueries) \subseteq schema
  /\ x.step = "save" => schema = Everything

\* The inductive invariant of the database, for worlds in which the version can
\* be read.
DbInv ==
  world.mishaps.reads = 0 =>
    mishaps.reads = 0 /\ SchemaOfVersion /\ \A r \in Admins : RequestSaw(admin[r])

LEMMA SchemaNames ==
  /\ Everything = {"raw_mails", "message_id_index", "address", "source_meta_index", "settings",
                   "redeem_codes", "metadata", "raw_blob", "is_unread", "password", "source_meta"}
  /\ Range(InitQueries) = {"raw_mails", "message_id_index", "address", "source_meta_index",
                           "settings", "redeem_codes"}
  /\ ColumnsOf("raw_mails") = {"metadata", "raw_blob", "is_unread"}
  /\ ColumnsOf("address") = {"password", "source_meta"}
  /\ \A t : t \notin {"raw_mails", "address"} => ColumnsOf(t) = {}
<1>1. Range(InitQueries) = {"raw_mails", "message_id_index", "address", "source_meta_index",
                            "settings", "redeem_codes"}
  <2>1. DOMAIN InitQueries = {1, 2, 3, 4, 5, 6}
    BY DEF InitQueries
  <2>2. /\ InitQueries[1] = "raw_mails" /\ InitQueries[2] = "message_id_index"
        /\ InitQueries[3] = "address" /\ InitQueries[4] = "source_meta_index"
        /\ InitQueries[5] = "settings" /\ InitQueries[6] = "redeem_codes"
    BY DEF InitQueries
  <2> QED BY <2>1, <2>2 DEF Range
<1>2. /\ ColumnsOf("raw_mails") = {"metadata", "raw_blob", "is_unread"}
      /\ ColumnsOf("address") = {"password", "source_meta"}
      /\ \A t : t \notin {"raw_mails", "address"} => ColumnsOf(t) = {}
  BY DEF ColumnsOf
<1> QED BY <1>1, <1>2 DEF Everything

LEMMA Rungs ==
  /\ Top = 7 /\ DOMAIN Ladder = 1..6
  /\ \A k \in 1..6 : Ladder[k].last = k + 1
  /\ Ladder[1].object = "password" /\ Ladder[2].object = "metadata"
  /\ Ladder[3].object = "source_meta" /\ Ladder[4].object = "message_id_index"
  /\ Ladder[5].object = "raw_blob" /\ Ladder[6].object = "is_unread"
<1>1. Len(Ladder) = 6 /\ DOMAIN Ladder = 1..6
  BY DEF Ladder
<1>2. /\ Ladder[1] = [last |-> 2, object |-> "password"]
      /\ Ladder[2] = [last |-> 3, object |-> "metadata"]
      /\ Ladder[3] = [last |-> 4, object |-> "source_meta"]
      /\ Ladder[4] = [last |-> 5, object |-> "message_id_index"]
      /\ Ladder[5] = [last |-> 6, object |-> "raw_blob"]
      /\ Ladder[6] = [last |-> 7, object |-> "is_unread"]
  BY DEF Ladder
<1> QED BY <1>1, <1>2 DEF Top

\* Statements of db/schema.sql make tables with their columns, and nothing goes.
LEMMA ExecutedSchema ==
  ASSUME schema \subseteq Everything, NEW n \in 0..6
  PROVE  /\ schema \subseteq Executed(n) /\ Executed(n) \subseteq Everything
         /\ TablesWhole => \A t \in {"raw_mails", "address"} :
              t \in Executed(n) => ColumnsOf(t) \subseteq Executed(n)
         /\ n = 6 => Range(InitQueries) \subseteq Executed(n)
<1>1. \A j \in 1..n : InitQueries[j] \in Range(InitQueries)
  BY DEF Range, InitQueries
<1>2. \A t \in Range(InitQueries) : t \notin {"metadata", "raw_blob", "is_unread", "password",
                                              "source_meta"}
  BY SchemaNames
<1>3. n = 6 => Range(InitQueries) = {InitQueries[j] : j \in 1..n}
  BY DEF Range, InitQueries
<1> DEFINE new == {InitQueries[j] : j \in 1..n} \ schema
<1>4. new \subseteq Range(InitQueries) /\ (n = 6 => Range(InitQueries) \subseteq schema \cup new)
  BY <1>1, <1>3
<1>5. Executed(n) = schema \cup new \cup UNION {ColumnsOf(t) : t \in new}
  BY DEF Executed
<1> HIDE DEF new
<1>6. Executed(n) \subseteq Everything
  <2>1. \A t \in new : ColumnsOf(t) \subseteq Everything
    BY DEF Everything, ColumnsOf
  <2>2. new \subseteq Everything
    BY <1>4 DEF Everything
  <2> QED BY <1>5, <2>1, <2>2
<1>7. ASSUME TablesWhole, NEW t \in {"raw_mails", "address"}, t \in Executed(n)
      PROVE  ColumnsOf(t) \subseteq Executed(n)
  <2>1. \A u : t \notin ColumnsOf(u)
    BY SchemaNames
  <2>2. t \in schema \/ t \in new
    BY <1>5, <1>7, <2>1
  <2> QED BY <1>5, <1>7, <2>2 DEF TablesWhole
<1> QED BY <1>4, <1>5, <1>6, <1>7

\* With all its columns a database has everything once all tables are there.
LEMMA WholeIsEverything ==
  ASSUME schema \subseteq Everything, TablesWhole, Range(InitQueries) \subseteq schema
  PROVE  schema = Everything
BY SchemaNames DEF TablesWhole, Everything

\* A migration that climbed to the top has added all columns.
LEMMA TopIsWhole == Reached(Top) => TablesWhole
<1> SUFFICES ASSUME Reached(Top) PROVE TablesWhole
  OBVIOUS
<1>1. \A j \in {1, 2, 3, 5, 6} : Ladder[j].object \in schema
  BY Rungs DEF Reached
<1>2. {"password", "metadata", "source_meta", "raw_blob", "is_unread"} \subseteq schema
  BY <1>1, Rungs
<1> QED BY <1>2, SchemaNames DEF TablesWhole

\* The first rung of a migration from a known version: all before it came with
\* the version.
LEMMA FirstRung ==
  ASSUME NEW v \in Versions, v # Current, AsOf(v) \subseteq schema, v # Null
  PROVE  LET k == CHOOSE i \in 1..Top :
                    /\ i = Top \/ v <= Ladder[i].last
                    /\ \A j \in 1..(i - 1) : v > Ladder[j].last
         IN k \in 1..Top /\ Reached(k)
<1> DEFINE First(k) == /\ k = Top \/ v <= Ladder[k].last
                       /\ \A j \in 1..(k - 1) : v > Ladder[j].last
<1>1. v \in 2..8
  BY DEF Versions, Current
<1>2. v - 1 \in 1..Top /\ First(v - 1)
  BY <1>1, Rungs
<1>3. PICK k : k = (CHOOSE i \in 1..Top : First(i))
  OBVIOUS
<1>4. k \in 1..Top /\ First(k)
  <2> HIDE DEF First
  <2> QED BY <1>2, <1>3
<1>5. ASSUME NEW j \in 1..(k - 1) PROVE Ladder[j].object \in schema
  <2>1. j \in DOMAIN Ladder /\ Ladder[j].last < v
    BY <1>1, <1>4, <1>5, Rungs
  <2> QED BY <2>1 DEF AsOf
<1> QED BY <1>3, <1>4, <1>5 DEF Reached

\* Where a migration goes on from rung k.
LEMMA ClimbTo ==
  ASSUME NEW r \in Admins, NEW k \in 1..Top, Climb(r, k)
  PROVE  \E x \in RequestRow :
           /\ admin' = [admin EXCEPT ![r] = x] /\ x.op = "migrate" /\ x.rung = k
           /\ IF k = Top THEN x.step = "exec" ELSE x.step \in {"look", "alter"}
<1>1. ASSUME NEW step \in {"exec", "look", "alter"}, step # "exec" => k # Top
      PROVE  [op |-> "migrate", step |-> step, rung |-> k] \in RequestRow
  BY <1>1, Rungs DEF RequestRow
<1>2. Top \in 1..Top
  BY Rungs
<1> QED BY <1>1, <1>2 DEF Climb, Proceed

\* Every step of a request in one: its own state changes, nothing goes from the
\* schema, tables stay whole, and the version moves to the current one only.
LEMMA DbStepFacts ==
  ASSUME DbTypeOK, NEW r \in Admins, DbRequest(r)
  PROVE  /\ \E x \in RequestRow : admin' = [admin EXCEPT ![r] = x]
         /\ schema \subseteq schema' /\ schema' \subseteq Everything
         /\ TablesWhole => TablesWhole'
         /\ version' = version \/ (version' = Current /\ SaveVersion(r))
         /\ mishaps' \in [reads : Nat, others : Nat]
         /\ mishaps.reads = 0 => mishaps'.reads = 0
<1> DEFINE Goal ==
      /\ \E x \in RequestRow : admin' = [admin EXCEPT ![r] = x]
      /\ schema \subseteq schema' /\ schema' \subseteq Everything
      /\ TablesWhole => TablesWhole'
      /\ version' = version \/ (version' = Current /\ SaveVersion(r))
      /\ mishaps' \in [reads : Nat, others : Nat]
      /\ mishaps.reads = 0 => mishaps'.reads = 0
<1>0. /\ admin[r] \in RequestRow /\ AdminIdle \in RequestRow /\ Top \in 1..Top
      /\ schema \subseteq Everything /\ mishaps \in [reads : Nat, others : Nat]
  BY Rungs DEF DbTypeOK, RequestRow, AdminIdle
<1>1. UNCHANGED schema => (TablesWhole => TablesWhole')
  BY DEF TablesWhole
<1>2. \A v : ReadVersion(v) => /\ mishaps' \in [reads : Nat, others : Nat]
                               /\ mishaps.reads = 0 => mishaps'.reads = 0 /\ v = version
  BY <1>0 DEF ReadVersion
<1>3. ASSUME NEW op \in {"migrate", "initialize"},
             NEW step \in {"idle", "look", "alter", "index", "exec", "check", "save"},
             NEW k \in 1..Top, Proceed(r, op, step, k),
             step \in {"look", "alter", "index"} => k < Top
      PROVE  \E x \in RequestRow : admin' = [admin EXCEPT ![r] = x]
  BY <1>3 DEF Proceed, RequestRow
<1>4. EndRequest(r) => \E x \in RequestRow : admin' = [admin EXCEPT ![r] = x]
  BY <1>0 DEF EndRequest
<1>5. CASE Migrate(r)
  <2>1. PICK v \in {version, Null} :
          /\ ReadVersion(v) /\ v # Current
          /\ Climb(r, IF v = Null THEN Top
                      ELSE CHOOSE k \in 1..Top :
                             /\ k = Top \/ v <= Ladder[k].last
                             /\ \A j \in 1..(k - 1) : v > Ladder[j].last)
    BY <1>5 DEF Migrate
  <2>2. ASSUME NEW k, Climb(r, k) PROVE \E op, step, j : Proceed(r, op, step, j)
    BY <2>2 DEF Climb
  <2>3. PICK k : k = IF v = Null THEN Top
                     ELSE CHOOSE i \in 1..Top :
                            /\ i = Top \/ v <= Ladder[i].last
                            /\ \A j \in 1..(i - 1) : v > Ladder[j].last
    OBVIOUS
  <2>4. k \in 1..Top
    <3>1. v # Null => v \in 2..8
      BY <2>1 DEF DbTypeOK, Versions, Current
    <3>2. v # Null => \E i \in 1..Top : /\ i = Top \/ v <= Ladder[i].last
                                        /\ \A j \in 1..(i - 1) : v > Ladder[j].last
      <4>1. CASE v \in 2..8
        <5>1. v - 1 \in 1..Top /\ (v - 1 = Top \/ v <= Ladder[v - 1].last)
              /\ \A j \in 1..(v - 1 - 1) : v > Ladder[j].last
          BY <4>1, Rungs
        <5> QED BY <5>1
      <4> QED BY <3>1, <4>1
    <3> QED BY <1>0, <2>3, <3>2
  <2>5. Climb(r, k)
    BY <2>1, <2>3
  <2>6. UNCHANGED <<schema, version>>
    BY <1>5 DEF Migrate
  <2> QED BY <1>0, <1>1, <1>2, <2>1, <2>4, <2>5, <2>6, ClimbTo
<1>6. CASE Look(r) \/ Alter(r) \/ CreateIndex(r)
  <2>1. admin[r].rung \in 1..6 /\ admin[r].rung + 1 \in 1..Top
    BY <1>0, <1>6, Rungs DEF Look, Alter, CreateIndex, Doing, RequestRow
  <2>2. \E x \in RequestRow : admin' = [admin EXCEPT ![r] = x]
    BY <1>3, <1>4, <1>6, <2>1, ClimbTo, Rungs DEF Look, Alter, CreateIndex
  <2>3. \A k \in 1..6 : Ladder[k].object \in Everything
    BY Rungs, SchemaNames
  <2>4. "source_meta_index" \in Everything
    BY SchemaNames
  <2>5. UNCHANGED <<version, mishaps>> /\ schema \subseteq schema' /\ schema' \subseteq Everything
    BY <1>0, <1>6, <2>1, <2>3, <2>4 DEF Look, Alter, CreateIndex
  <2>6. \A t \in {"raw_mails", "address"} : t \in schema' => t \in schema
    <3>1. \A k \in 1..6 : Ladder[k].object \notin {"raw_mails", "address"}
      BY Rungs
    <3> QED BY <1>6, <2>1, <3>1 DEF Look, Alter, CreateIndex
  <2> QED BY <1>0, <2>2, <2>5, <2>6 DEF TablesWhole
<1>7. CASE Initialize(r)
  BY <1>0, <1>1, <1>3, <1>7 DEF Initialize
<1>8. ASSUME NEW n \in 0..6, schema' = Executed(n)
      PROVE  /\ schema \subseteq schema' /\ schema' \subseteq Everything
             /\ TablesWhole => TablesWhole'
  BY <1>0, <1>8, ExecutedSchema DEF TablesWhole
<1>9. Possible \in 0..6 /\ Possible <= Len(InitQueries) /\ Len(InitQueries) = 6
  BY DEF Possible, InitQueries
<1>10. CASE Exec(r)
  <2>1. schema' = Executed(Possible) /\ UNCHANGED <<version, mishaps>>
    BY <1>10 DEF Exec
  <2>2. \E x \in RequestRow : admin' = [admin EXCEPT ![r] = x]
    BY <1>0, <1>3, <1>4, <1>10 DEF Exec, RequestRow
  <2> QED BY <1>0, <1>8, <1>9, <2>1, <2>2
<1>11. CASE CheckVersion(r)
  BY <1>0, <1>1, <1>2, <1>3, <1>4, <1>11 DEF CheckVersion
<1>12. CASE SaveVersion(r)
  BY <1>0, <1>1, <1>4, <1>12 DEF SaveVersion
<1>13. CASE RequestFails(r)
  <2>1. /\ mishaps' = [mishaps EXCEPT !.others = @ - 1] /\ mishaps.others > 0
        /\ EndRequest(r) /\ UNCHANGED version
    BY <1>13 DEF RequestFails
  <2>2. /\ schema \subseteq schema' /\ schema' \subseteq Everything
        /\ TablesWhole => TablesWhole'
    BY <1>0, <1>1, <1>8, <1>9, <1>13 DEF RequestFails
  <2> QED BY <1>0, <1>4, <2>1, <2>2
<1> QED
  BY <1>5, <1>6, <1>7, <1>10, <1>11, <1>12, <1>13 DEF DbRequest, DbStep

\* What the request that moves has seen to then; the version it read is the one
\* there is.
LEMMA MoverSaw ==
  ASSUME DbTypeOK, NEW r \in Admins, DbRequest(r), mishaps.reads = 0, SchemaOfVersion,
         RequestSaw(admin[r]), schema \subseteq schema', schema' \subseteq Everything,
         TablesWhole => TablesWhole'
  PROVE  RequestSaw(admin[r])'
<1>0. admin[r] \in RequestRow /\ DOMAIN admin = Admins /\ schema \subseteq Everything
  BY DEF DbTypeOK
<1>1. \A v : ReadVersion(v) => v = version
  BY DEF ReadVersion
<1>2. ASSUME NEW k \in 1..Top, Climb(r, k), Reached(k)' \/ (k = Top /\ TablesWhole')
      PROVE  RequestSaw(admin[r])'
  <2>1. PICK x \in RequestRow :
          /\ admin' = [admin EXCEPT ![r] = x] /\ x.op = "migrate" /\ x.rung = k
          /\ IF k = Top THEN x.step = "exec" ELSE x.step \in {"look", "alter"}
    BY <1>2, ClimbTo
  <2>2. k = Top => TablesWhole'
    <3>1. Reached(Top)' => TablesWhole'
      BY TopIsWhole, PTL
    <3> QED BY <1>2, <3>1
  <2>3. admin'[r] = x
    BY <1>0, <2>1
  <2> QED BY <1>2, <2>1, <2>2, <2>3 DEF RequestSaw
<1>3. ASSUME NEW op, NEW step, NEW k, Proceed(r, op, step, k)
      PROVE  admin'[r].op = op /\ admin'[r].step = step /\ admin'[r].rung = k
  BY <1>0, <1>3 DEF Proceed
<1>4. EndRequest(r) => RequestSaw(admin[r])'
  <2>1. EndRequest(r) => admin'[r] = AdminIdle
    BY <1>0 DEF EndRequest
  <2>2. EndRequest(r) => admin'[r].step = "idle"
    BY <2>1 DEF AdminIdle
  <2> QED BY <2>2 DEF RequestSaw
<1>5. CASE Migrate(r)
  <2>1. version # Current
    BY <1>1, <1>5 DEF Migrate
  <2>2. UNCHANGED schema
    BY <1>5 DEF Migrate
  <2>3. CASE version = Null
    <3>1. Climb(r, Top) /\ Top \in 1..Top
      BY <1>1, <1>5, <2>3, Rungs DEF Migrate
    <3>2. TablesWhole'
      BY <2>3 DEF SchemaOfVersion
    <3> QED BY <1>2, <3>1, <3>2
  <2>4. CASE version # Null
    <3>1. PICK k : k = CHOOSE i \in 1..Top :
                         /\ i = Top \/ version <= Ladder[i].last
                         /\ \A j \in 1..(i - 1) : version > Ladder[j].last
      OBVIOUS
    <3>2. k \in 1..Top /\ Reached(k)
      BY <2>1, <2>4, <3>1, FirstRung DEF DbTypeOK, SchemaOfVersion
    <3>3. Climb(r, k)
      BY <1>1, <1>5, <2>4, <3>1 DEF Migrate
    <3> QED BY <1>2, <2>2, <3>2, <3>3 DEF Reached
  <2> QED BY <2>3, <2>4
<1>6. CASE Look(r)
  <2>1. admin[r].step = "look" /\ admin[r].rung \in 1..6 /\ admin[r].rung + 1 \in 1..Top
    BY <1>0, <1>6, Rungs DEF Look, Doing, RequestRow
  <2>2. PICK k \in 1..6 : k = admin[r].rung
    BY <2>1
  <2>3. UNCHANGED schema /\ Reached(k)
    BY <1>6, <2>1, <2>2 DEF Look, RequestSaw
  <2>4. CASE Ladder[k].object \in schema
    <3>1. Climb(r, k + 1) /\ k + 1 \in 1..Top
      BY <1>6, <2>1, <2>2, <2>4 DEF Look
    <3>2. Reached(k + 1)'
      BY <2>3, <2>4 DEF Reached
    <3> QED BY <1>2, <3>1, <3>2
  <2>5. CASE Ladder[k].object \notin schema
    <3>1. Proceed(r, "migrate", "alter", k)
      BY <1>6, <2>2, <2>5 DEF Look
    <3>2. Reached(k)'
      BY <2>3 DEF Reached
    <3>3. admin'[r].step = "alter" /\ admin'[r].rung = k
      BY <1>3, <3>1
    <3> QED BY <3>2, <3>3 DEF RequestSaw
  <2> QED BY <2>4, <2>5
<1>7. CASE Alter(r)
  <2>1. admin[r].step = "alter" /\ admin[r].rung \in 1..6 /\ admin[r].rung + 1 \in 1..Top
    BY <1>0, <1>7, Rungs DEF Alter, Doing, RequestRow
  <2>2. PICK k \in 1..6 : k = admin[r].rung
    BY <2>1
  <2>3. Reached(k)
    BY <2>1, <2>2 DEF RequestSaw
  <2>4. ASSUME ~EndRequest(r) PROVE Reached(k + 1)'
    <3>1. Ladder[k].object \in schema'
      BY <1>7, <2>2, <2>4 DEF Alter
    <3> QED BY <2>3, <3>1 DEF Reached
  <2>5. \/ EndRequest(r)
        \/ ~EndRequest(r) /\ Proceed(r, "migrate", "index", k)
        \/ ~EndRequest(r) /\ Climb(r, k + 1)
    BY <1>7, <2>2 DEF Alter
  <2>6. CASE ~EndRequest(r) /\ Proceed(r, "migrate", "index", k)
    <3>1. admin'[r].step = "index" /\ admin'[r].rung = k
      BY <1>3, <2>6
    <3> QED BY <2>4, <2>6, <3>1 DEF RequestSaw
  <2>7. CASE ~EndRequest(r) /\ Climb(r, k + 1)
    <3>1. k + 1 \in 1..Top
      BY <2>1, <2>2
    <3> QED BY <1>2, <2>4, <2>7, <3>1
  <2> QED BY <1>4, <2>5, <2>6, <2>7
<1>8. CASE CreateIndex(r)
  <2>1. admin[r].step = "index" /\ admin[r].rung + 1 \in 1..Top
    BY <1>0, <1>8, Rungs DEF CreateIndex, Doing, RequestRow
  <2>2. PICK k \in 1..Top : k = admin[r].rung + 1
    BY <2>1
  <2>3. Reached(k)' /\ Climb(r, k)
    BY <1>8, <2>1, <2>2 DEF CreateIndex, RequestSaw, Reached
  <2> QED BY <1>2, <2>3
<1>9. CASE Initialize(r)
  <2>1. admin'[r].step = "exec" /\ admin'[r].op = "initialize"
    BY <1>3, <1>9 DEF Initialize
  <2> QED BY <2>1 DEF RequestSaw
<1>10. CASE Exec(r)
  <2>1. admin[r].step = "exec" /\ schema' = Executed(Possible)
    BY <1>10 DEF Exec, Doing
  <2>2. CASE Possible < Len(InitQueries)
    BY <1>4, <1>10, <2>2 DEF Exec
  <2>3. CASE ~(Possible < Len(InitQueries))
    <3>1. Possible = 6
      BY <2>3 DEF Possible, InitQueries
    <3>2. Range(InitQueries) \subseteq schema'
      BY <1>0, <2>1, <3>1, ExecutedSchema
    <3>3. Proceed(r, admin[r].op, IF admin[r].op = "migrate" THEN "save" ELSE "check", Top)
      BY <1>10, <2>3 DEF Exec
    <3>4. CASE admin[r].op = "migrate"
      <4>1. TablesWhole'
        BY <2>1, <3>4 DEF RequestSaw
      <4>2. schema' = Everything
        BY <3>2, <4>1, SchemaNames DEF TablesWhole, Everything
      <4>3. admin'[r].step = "save"
        BY <1>3, <3>3, <3>4
      <4> QED BY <4>2, <4>3 DEF RequestSaw
    <3>5. CASE admin[r].op # "migrate"
      <4>1. admin'[r].step = "check"
        BY <1>3, <3>3, <3>5
      <4> QED BY <3>2, <4>1 DEF RequestSaw
    <3> QED BY <3>4, <3>5
  <2> QED BY <2>2, <2>3
<1>11. CASE CheckVersion(r)
  <2>1. admin[r].step = "check" /\ UNCHANGED schema /\ Range(InitQueries) \subseteq schema
    BY <1>11 DEF CheckVersion, Doing, RequestSaw
  <2>2. CASE version = Null
    <3>1. schema = Everything
      BY <1>0, <2>1, <2>2, WholeIsEverything DEF SchemaOfVersion
    <3>2. admin'[r].step = "save"
      BY <1>1, <1>3, <1>11, <2>2 DEF CheckVersion
    <3> QED BY <2>1, <3>1, <3>2 DEF RequestSaw
  <2>3. CASE version # Null
    BY <1>1, <1>4, <1>11, <2>3 DEF CheckVersion
  <2> QED BY <2>2, <2>3
<1> QED
  BY <1>4, <1>5, <1>6, <1>7, <1>8, <1>9, <1>10, <1>11
     DEF DbRequest, DbStep, SaveVersion, RequestFails

LEMMA DbKeeps ==
  ASSUME DbTypeOK, DbInv, NEW r \in Admins, DbRequest(r), UNCHANGED world
  PROVE  DbTypeOK' /\ DbInv' /\ schema \subseteq schema'
<1>1. /\ \E x \in RequestRow : admin' = [admin EXCEPT ![r] = x]
      /\ schema \subseteq schema' /\ schema' \subseteq Everything
      /\ TablesWhole => TablesWhole'
      /\ version' = version \/ (version' = Current /\ SaveVersion(r))
      /\ mishaps' \in [reads : Nat, others : Nat]
      /\ mishaps.reads = 0 => mishaps'.reads = 0
  BY DbStepFacts
<1>2. DbTypeOK'
  BY <1>1 DEF DbTypeOK, Versions, Current
<1>3. ASSUME world.mishaps.reads = 0
      PROVE  mishaps'.reads = 0 /\ SchemaOfVersion' /\ \A q \in Admins : RequestSaw(admin[q])'
  <2>1. mishaps.reads = 0 /\ SchemaOfVersion /\ \A q \in Admins : RequestSaw(admin[q])
    BY <1>3 DEF DbInv
  <2>2. RequestSaw(admin[r])'
    BY <1>1, <2>1, MoverSaw
  <2>3. ASSUME NEW q \in Admins, q # r PROVE RequestSaw(admin[q])'
    <3>1. PICK x \in RequestRow : x = admin[q] /\ x = admin'[q]
      BY <1>1, <2>3 DEF DbTypeOK
    <3>0. TablesWhole => TablesWhole'
      BY <1>1
    <3>2. RequestSaw(x)
      BY <2>1, <3>1
    <3>3. RequestSaw(x)'
      BY <1>1, <3>0, <3>2 DEF RequestSaw, Reached
    <3> QED BY <3>1, <3>3
  <2>4. SchemaOfVersion'
    <3>1. CASE version' = version
      BY <1>1, <2>1, <3>1 DEF SchemaOfVersion
    <3>2. CASE version' = Current /\ SaveVersion(r)
      <4>1. admin[r].step = "save" /\ UNCHANGED schema
        BY <3>2 DEF SaveVersion, Doing
      <4>2. schema' = Everything
        BY <2>1, <4>1 DEF RequestSaw
      <4>3. Current # Null
        BY BackgroundAssumption DEF Current
      <4> QED BY <3>2, <4>2, <4>3 DEF SchemaOfVersion
    <3> QED BY <1>1, <3>1, <3>2
  <2> QED BY <1>1, <2>1, <2>2, <2>3, <2>4
<1> QED BY <1>1, <1>2, <1>3 DEF DbInv

-----------------------------------------------------------------------------
(* Mails. *)

\* Nothing of this delivery is stored yet.
Before == {"sender", "filter", "columns", "store", "rejected"}

BlockNames == {"global", "rules", "extract", "telegram", "webhook", "worker", "reply"}

Delivery ==
  [at : Before \cup BlockNames \cup {"done"}, tries : Nat, id : 0..MaxMail,
   seen : SUBSET Required, had : SUBSET Required]

Row == [mail : Mails, at : Nat, packed : BOOLEAN, meta : Mails \cup {Null},
        had : SUBSET Required, unread : {0, 1, Null}]

\* Whatever a block attempts.
Channel == UNION {Range(Entries(block)) : block \in BlockNames}

MailTypeOK ==
  /\ rawMails \in [1..MaxMail -> Row \cup {Null}]
  /\ handler \in [Mails -> Delivery]
  /\ tried \in [Mails -> SUBSET Channel] /\ missed \in [Mails -> SUBSET Channel]
  /\ links \subseteq [id : 1..MaxMail, at : Nat, mail : Mails]
  /\ second \in Nat
  /\ copies \in [Mails -> Nat] /\ crashes \in [Mails -> Nat]
  /\ hasty \subseteq Mails

\* Every entry of the block was attempted, or one before it failed.
Served(m, block) ==
  \A j \in DOMAIN Entries(block) :
    \/ Entries(block)[j] \in tried[m]
    \/ \E h \in 1..(j - 1) : Entries(block)[h] \in missed[m]

\* A delivery under way: it counts once, knows the columns it was promised, has
\* served the blocks behind it, and its id is that of its row.
DeliveryOK(m, x) ==
  /\ x.at = "sender" => x.id = 0
  /\ copies[m] <= crashes[m] + (IF x.at \in Before THEN 0 ELSE 1)
  /\ x.had \subseteq schema
  /\ x.at = "store" /\ "is_unread" \in x.had => "is_unread" \in x.seen
  /\ \A b \in 1..7 : x.at = Blocks[b] => \A k \in 1..(b - 1) : Served(m, Blocks[k])
  /\ x.at = "done" => \A k \in 1..7 : Served(m, Blocks[k])
  /\ x.at \notin {"sender", "rejected", "done"} /\ x.id # 0 /\ m \notin hasty =>
       x.id \in Stored /\ rawMails[x.id].mail = m

\* Rows are not from the future and have the read status they were promised.
RowsOK ==
  \A i \in Stored :
    /\ rawMails[i].at <= second
    /\ "is_unread" \in rawMails[i].had => rawMails[i].unread # Null

\* The row of a link is there, or its second is over and no row under the id is
\* from that second.
LinksOK ==
  \A l \in links :
    \/ l.mail \in hasty
    \/ l.id \in Stored /\ rawMails[l.id].mail = l.mail /\ rawMails[l.id].at = l.at
    \/ l.at < second /\ (l.id \in Stored => rawMails[l.id].at > l.at)

MailInv ==
  MailTypeOK /\ RowsOK /\ LinksOK /\ \A m \in Mails : DeliveryOK(m, handler[m])

LEMMA BlockFacts ==
  /\ Len(Blocks) = 7 /\ DOMAIN Blocks = 1..7
  /\ \A b \in 1..7 : Blocks[b] \in BlockNames
  /\ \A b, k \in 1..7 : Blocks[b] = Blocks[k] => b = k
  /\ Blocks[1] = "global" /\ Blocks[2] = "rules" /\ Blocks[5] = "webhook"
  /\ Range(Blocks) = {Blocks[b] : b \in 1..7}
<1>1. /\ Len(Blocks) = 7 /\ DOMAIN Blocks = 1..7
      /\ Blocks[1] = "global" /\ Blocks[2] = "rules" /\ Blocks[3] = "extract"
      /\ Blocks[4] = "telegram" /\ Blocks[5] = "webhook" /\ Blocks[6] = "worker"
      /\ Blocks[7] = "reply"
  BY DEF Blocks
<1> QED BY <1>1 DEF BlockNames, Range

LEMMA EntryFacts ==
  ASSUME NEW block \in BlockNames
  PROVE  /\ Len(Entries(block)) \in Nat /\ DOMAIN Entries(block) = 1..Len(Entries(block))
         /\ \A j \in DOMAIN Entries(block) : Entries(block)[j] \in Channel
<1>1. Len(Entries(block)) \in Nat /\ DOMAIN Entries(block) = 1..Len(Entries(block))
  <2>1. CASE block = "global"
    BY <2>1, PipelineAssumption DEF Entries
  <2>2. CASE block = "rules"
    BY <2>2, PipelineAssumption DEF Entries
  <2>3. CASE block \notin {"global", "rules"}
    <3>1. PICK x, y : Entries(block) = <<x>> \/ Entries(block) = <<x, y>>
      BY <2>3 DEF Entries, PushTargets, WebhookTargets
    <3> QED BY <3>1
  <2> QED BY <2>1, <2>2, <2>3
<1>2. \A j \in DOMAIN Entries(block) : Entries(block)[j] \in Channel
  BY DEF Channel, Range
<1> QED BY <1>1, <1>2

\* The id of a new row is not in use.
LEMMA NextIdIsFree == NextId \in Nat \ {0} /\ NextId \notin Stored
<1>1. Stored \subseteq 1..MaxMail /\ MaxMail \in Nat
  BY PipelineAssumption DEF Stored
<1>2. CASE Stored = {}
  BY <1>2 DEF NextId
<1>3. CASE Stored # {}
  <2>1. \E x \in Stored : \A y \in Stored : x >= y
    <3> DEFINE gaps == {MaxMail - i : i \in Stored}
    <3>1. gaps \in SUBSET Nat /\ gaps # {}
      <4>1. \A i \in Stored : MaxMail - i \in Nat
        BY <1>1
      <4>2. PICK i \in Stored : TRUE
        BY <1>3
      <4>3. MaxMail - i \in gaps
        OBVIOUS
      <4> QED BY <4>1, <4>3
    <3>2. PICK g \in gaps : \A h \in gaps : g <= h
      <4> HIDE DEF gaps
      <4> QED BY <3>1, LeastGap
    <3>3. PICK x \in Stored : g = MaxMail - x
      OBVIOUS
    <3>4. ASSUME NEW y \in Stored PROVE x >= y
      <4>1. MaxMail - x <= MaxMail - y
        BY <3>2, <3>3
      <4> QED BY <1>1, <4>1
    <3> QED BY <3>4
  <2> DEFINE largest == Max(Stored)
  <2>2. largest \in Stored /\ \A y \in Stored : largest >= y
    BY <2>1 DEF Max
  <2>3. NextId = largest + 1
    BY <1>3 DEF NextId
  <2> HIDE DEF largest
  <2>4. largest \in Nat \ {0}
    BY <1>1, <2>2
  <2>5. NextId \notin Stored
    <3> SUFFICES ASSUME NextId \in Stored PROVE FALSE
      OBVIOUS
    <3>1. largest >= largest + 1
      BY <2>2, <2>3
    <3> QED BY <2>4, <3>1
  <2> QED BY <2>3, <2>4, <2>5
<1> QED BY <1>2, <1>3

\* What a step of somebody else may change of a delivery.
LEMMA DeliveryStands ==
  ASSUME MailTypeOK, NEW q \in Mails, NEW z \in Delivery, DeliveryOK(q, z),
         copies'[q] = copies[q], crashes'[q] >= crashes[q], crashes'[q] \in Nat,
         schema \subseteq schema',
         tried[q] \subseteq tried'[q], missed[q] \subseteq missed'[q], hasty \subseteq hasty',
         \A i \in Stored : rawMails[i].mail = q /\ z.at \notin {"sender", "rejected", "done"} =>
           q \in hasty' \/ (i \in Stored' /\ rawMails'[i].mail = q)
  PROVE  DeliveryOK(q, z)'
<1>1. \A block : Served(q, block) => Served(q, block)'
  BY DEF Served
<1>2. copies[q] \in Nat /\ crashes[q] \in Nat
  BY DEF MailTypeOK
<1>3. copies'[q] <= crashes'[q] + (IF z.at \in Before THEN 0 ELSE 1)
  BY <1>2 DEF DeliveryOK
<1>4. z.had \subseteq schema'
  BY DEF DeliveryOK
<1>5. z.at \notin {"sender", "rejected", "done"} /\ z.id # 0 /\ q \notin hasty' =>
        z.id \in Stored' /\ rawMails'[z.id].mail = q
  BY DEF DeliveryOK
<1> QED BY <1>1, <1>3, <1>4, <1>5 DEF DeliveryOK

\* A step that leaves the rows and the links alone, and only the handler of m
\* moves on.
LEMMA HandlerMoves ==
  ASSUME MailInv, NEW m \in Mails, NEW y \in Delivery,
         handler' = [handler EXCEPT ![m] = y], DeliveryOK(m, y)',
         UNCHANGED <<rawMails, links, second, copies, tried, missed, hasty, schema>>,
         crashes' \in [Mails -> Nat], \A q \in Mails : crashes'[q] >= crashes[q]
  PROVE  MailInv'
<1>1. MailTypeOK'
  BY DEF MailInv, MailTypeOK
<1>2. RowsOK' /\ LinksOK'
  BY DEF MailInv, RowsOK, LinksOK, Stored
<1>3. \A i \in Stored : i \in Stored'
  BY DEF Stored
<1>4. ASSUME NEW q \in Mails PROVE DeliveryOK(q, handler[q])'
  <2>1. CASE q = m
    <3>1. handler'[q] = y
      BY <2>1 DEF MailInv, MailTypeOK
    <3> QED BY <2>1, <3>1
  <2>2. CASE q # m
    <3>1. PICK z \in Delivery : z = handler[q] /\ z = handler'[q]
      BY <2>2 DEF MailInv, MailTypeOK
    <3>2. DeliveryOK(q, z)
      BY <3>1 DEF MailInv
    <3>3. DeliveryOK(q, z)'
      BY <1>3, <3>2, DeliveryStands DEF MailInv
    <3> QED BY <3>1, <3>3
  <2> QED BY <2>1, <2>2
<1> QED BY <1>1, <1>2, <1>4 DEF MailInv

\* Where a handler is between its blocks.
LEMMA Places ==
  /\ Before \cap (BlockNames \cup {"done"}) = {} /\ "done" \notin BlockNames
  /\ \A b \in 1..7 : Blocks[b] \notin Before \cup {"done"}
  /\ \A y \in Delivery : y \in [at : Before \cup BlockNames \cup {"done"}, tries : Nat,
                                id : 0..MaxMail, seen : SUBSET Required, had : SUBSET Required]
<1>1. Before \cap (BlockNames \cup {"done"}) = {} /\ "done" \notin BlockNames
  BY DEF Before, BlockNames
<1> QED BY <1>1, BlockFacts DEF Delivery

LEMMA MailDelivers ==
  ASSUME MailInv, NEW m \in Mails, NEW failing, Deliver(m, failing), UNCHANGED schema
  PROVE  MailInv'
<1>1. handler[m] \in Delivery /\ DeliveryOK(m, handler[m]) /\ handler[m].at = "sender"
  BY DEF Deliver, IsAt, MailInv, MailTypeOK
<1>2. copies[m] \in Nat /\ crashes[m] \in Nat /\ MaxMail \in Nat
  BY PipelineAssumption DEF MailInv, MailTypeOK
<1>3. handler[m].id = 0 /\ copies[m] <= crashes[m]
  BY <1>1, <1>2 DEF DeliveryOK, Before
<1>4. PICK y : /\ handler' = [handler EXCEPT ![m] = y]
               /\ \/ y = [handler[m] EXCEPT !.at = "filter", !.had = schema \cap Required]
                  \/ y = [handler[m] EXCEPT !.at = "rejected"]
                  \/ y = [AtSender EXCEPT !.tries = handler[m].tries + 1]
  BY DEF Deliver, GoTo, Again, MailInv, MailTypeOK
<1>5. /\ y \in Delivery /\ y.id = 0 /\ y.at \in {"sender", "filter", "rejected"}
      /\ y.had \subseteq schema
  <2>1. CASE y = [AtSender EXCEPT !.tries = handler[m].tries + 1]
    BY <1>1, <1>2, <2>1 DEF Delivery, AtSender, Before
  <2>2. CASE y = [handler[m] EXCEPT !.at = "filter", !.had = schema \cap Required]
    <3> DEFINE x == handler[m]
    <3>1. x \in Delivery /\ x.id = 0
      BY <1>1, <1>3
    <3>2. y = [x EXCEPT !.at = "filter", !.had = schema \cap Required]
      BY <2>2
    <3> HIDE DEF x
    <3> QED BY <3>1, <3>2 DEF Delivery, Before
  <2>3. CASE y = [handler[m] EXCEPT !.at = "rejected"]
    <3> DEFINE x == handler[m]
    <3>1. x \in Delivery /\ x.id = 0 /\ x.had \subseteq schema
      BY <1>1, <1>3 DEF DeliveryOK
    <3>2. y = [x EXCEPT !.at = "rejected"]
      BY <2>3
    <3> HIDE DEF x
    <3> QED BY <3>1, <3>2 DEF Delivery, Before
  <2> QED BY <1>4, <2>1, <2>2, <2>3
<1>6. DeliveryOK(m, y)'
  <2>1. UNCHANGED <<copies, crashes, schema>>
    BY DEF Deliver
  <2>2. y.at \in Before /\ y.at # "done" /\ \A b \in 1..7 : y.at # Blocks[b]
    BY <1>5, Places DEF Before
  <2>3. (y.had \subseteq schema)' /\ (copies[m] <= crashes[m] + (IF y.at \in Before THEN 0 ELSE 1))'
    BY <1>2, <1>3, <1>5, <2>1, <2>2
  <2> QED BY <1>5, <2>2, <2>3 DEF DeliveryOK
<1>8. crashes' \in [Mails -> Nat] /\ \A q \in Mails : crashes'[q] >= crashes[q]
  BY DEF Deliver, MailInv, MailTypeOK
<1> QED
  BY <1>4, <1>5, <1>6, <1>8, HandlerMoves DEF Deliver

LEMMA MailIsFiltered ==
  ASSUME MailInv, NEW m \in Mails, Filter(m), UNCHANGED schema
  PROVE  MailInv'
<1>1. handler[m] \in Delivery /\ DeliveryOK(m, handler[m]) /\ handler[m].at = "filter"
  BY DEF Filter, IsAt, MailInv, MailTypeOK
<1>2. copies[m] \in Nat /\ crashes[m] \in Nat
  BY DEF MailInv, MailTypeOK
<1>3. PICK place \in {"columns", "rejected"} :
        handler' = [handler EXCEPT ![m] = [handler[m] EXCEPT !.at = place]]
  BY DEF Filter, GoTo, MailInv, MailTypeOK
<1> DEFINE x == handler[m]
<1>4. PICK y : y = [x EXCEPT !.at = place]
  OBVIOUS
<1>5. /\ y \in Delivery /\ y.id = x.id /\ y.at = place /\ y.had = x.had
  BY <1>1, <1>3, <1>4 DEF Delivery, Before
<1>6. DeliveryOK(m, y)'
  <2>1. UNCHANGED <<copies, crashes, schema, rawMails, hasty>>
    BY DEF Filter
  <2>2. y.at \in Before /\ y.at \notin {"done", "sender", "store"} /\ \A b \in 1..7 : y.at # Blocks[b]
    BY <1>3, <1>5, Places DEF Before
  <2>3. copies[m] <= crashes[m] /\ y.had \subseteq schema
    BY <1>1, <1>2, <1>5 DEF DeliveryOK, Before
  <2>4. y.id # 0 /\ m \notin hasty => y.id \in Stored /\ rawMails[y.id].mail = m
    BY <1>1, <1>5 DEF DeliveryOK
  <2>5. (y.id # 0 /\ m \notin hasty => y.id \in Stored /\ rawMails[y.id].mail = m)'
    BY <2>1, <2>4 DEF Stored
  <2>6. (copies[m] <= crashes[m] + (IF y.at \in Before THEN 0 ELSE 1))'
    BY <1>2, <2>1, <2>2, <2>3
  <2> QED BY <2>1, <2>2, <2>3, <2>5, <2>6 DEF DeliveryOK
<1>7. handler' = [handler EXCEPT ![m] = y]
  BY <1>3, <1>4
<1>8. crashes' \in [Mails -> Nat] /\ \A q \in Mails : crashes'[q] >= crashes[q]
  BY DEF Filter, MailInv, MailTypeOK
<1> QED
  BY <1>5, <1>6, <1>7, <1>8, HandlerMoves DEF Filter

LEMMA MailSeesColumns ==
  ASSUME MailInv, NEW m \in Mails, Columns(m), UNCHANGED schema
  PROVE  MailInv'
<1>1. handler[m] \in Delivery /\ DeliveryOK(m, handler[m]) /\ handler[m].at = "columns"
  BY DEF Columns, IsAt, MailInv, MailTypeOK
<1>2. copies[m] \in Nat /\ crashes[m] \in Nat
  BY DEF MailInv, MailTypeOK
<1> DEFINE x == handler[m]
<1> DEFINE columns == IF Required \subseteq cache THEN cache ELSE schema
<1> DEFINE stores == [x EXCEPT !.at = "store", !.seen = columns \cap Required]
<1> DEFINE skips == [x EXCEPT !.at = Blocks[1]]
<1>3. PICK y \in {stores, skips} : handler' = [handler EXCEPT ![m] = y]
  BY DEF Columns, GoTo, MailInv, MailTypeOK
<1>4. x.had \subseteq schema /\ x.had \subseteq Required /\ x.had \subseteq columns
  BY <1>1 DEF DeliveryOK, Delivery
<1>5. /\ y \in Delivery /\ y.id = x.id /\ y.had = x.had
      /\ \/ y.at = "store" /\ y.had \subseteq y.seen
         \/ y.at = "global"
  <2>1. x \in Delivery /\ Blocks[1] = "global"
    BY <1>1, BlockFacts
  <2> HIDE DEF x, columns
  <2>2. CASE y = stores
    BY <1>4, <2>1, <2>2 DEF Delivery, Before
  <2>3. CASE y = skips
    BY <2>1, <2>3 DEF Delivery, BlockNames
  <2> QED BY <1>3, <2>2, <2>3
<1>6. DeliveryOK(m, y)'
  <2>1. UNCHANGED <<copies, crashes, schema, rawMails, hasty>>
    BY DEF Columns
  <2>2. y.at \notin {"done", "sender"} /\ \A b \in 1..7 : y.at = Blocks[b] => b = 1
    BY <1>5, Places, BlockFacts DEF Before
  <2>3. copies[m] <= crashes[m] /\ y.had \subseteq schema
    BY <1>1, <1>2, <1>5 DEF DeliveryOK, Before
  <2>4. y.id # 0 /\ m \notin hasty => y.id \in Stored /\ rawMails[y.id].mail = m
    BY <1>1, <1>5 DEF DeliveryOK
  <2>5. (y.id # 0 /\ m \notin hasty => y.id \in Stored /\ rawMails[y.id].mail = m)'
    BY <2>1, <2>4 DEF Stored
  <2>6. (copies[m] <= crashes[m] + (IF y.at \in Before THEN 0 ELSE 1))'
    BY <1>2, <2>1, <2>3
  <2> QED BY <1>5, <2>1, <2>2, <2>3, <2>5, <2>6 DEF DeliveryOK
<1>8. crashes' \in [Mails -> Nat] /\ \A q \in Mails : crashes'[q] >= crashes[q]
  BY DEF Columns, MailInv, MailTypeOK
<1> QED
  BY <1>3, <1>5, <1>6, <1>8, HandlerMoves DEF Columns

LEMMA MailStops ==
  ASSUME MailInv, NEW m \in Mails, Crash(m), UNCHANGED schema
  PROVE  MailInv'
<1>1. handler[m] \in Delivery /\ DeliveryOK(m, handler[m])
  BY DEF MailInv, MailTypeOK
<1>2. copies[m] \in Nat /\ crashes[m] \in Nat /\ crashes \in [Mails -> Nat] /\ MaxMail \in Nat
  BY PipelineAssumption DEF MailInv, MailTypeOK
<1>3. PICK y : y = [AtSender EXCEPT !.tries = handler[m].tries + 1]
  OBVIOUS
<1>4. y \in Delivery /\ y.id = 0 /\ y.at = "sender" /\ y.had = {}
  BY <1>1, <1>2, <1>3 DEF Delivery, AtSender, Before
<1>5. DeliveryOK(m, y)'
  <2>1. copies'[m] = copies[m] /\ crashes'[m] = crashes[m] + 1
    BY <1>2 DEF Crash
  <2>2. y.at \in Before /\ y.at # "done" /\ \A b \in 1..7 : y.at # Blocks[b]
    BY <1>4, Places DEF Before
  <2>3. (copies[m] <= crashes[m] + (IF y.at \in Before THEN 0 ELSE 1))'
    BY <1>1, <1>2, <2>1, <2>2 DEF DeliveryOK
  <2> QED BY <1>4, <2>2, <2>3 DEF DeliveryOK
<1>6. handler' = [handler EXCEPT ![m] = y]
  BY <1>3 DEF Crash, Again
<1>7. crashes' \in [Mails -> Nat] /\ \A q \in Mails : crashes'[q] >= crashes[q]
  BY <1>2 DEF Crash
<1> QED
  BY <1>4, <1>5, <1>6, <1>7, HandlerMoves DEF Crash

LEMMA MailIsStored ==
  ASSUME MailInv, NEW m \in Mails, Store(m), UNCHANGED schema
  PROVE  MailInv'
<1>1. handler[m] \in Delivery /\ DeliveryOK(m, handler[m]) /\ handler[m].at = "store"
  BY DEF Store, IsAt, MailInv, MailTypeOK
<1>2. /\ copies[m] \in Nat /\ crashes[m] \in Nat /\ copies \in [Mails -> Nat]
      /\ second \in Nat /\ MaxMail \in Nat
  BY PipelineAssumption DEF MailInv, MailTypeOK
<1>3. copies[m] <= crashes[m] /\ handler[m].had \subseteq schema
  BY <1>1, <1>2 DEF DeliveryOK, Before
<1>4. CASE GoTo(m, Blocks[1]) /\ UNCHANGED <<rawMails, copies>>
  <2>1. PICK x \in Delivery : x = handler[m]
    BY <1>1
  <2>2. PICK y : y = [x EXCEPT !.at = "global"]
    OBVIOUS
  <2>3. y \in Delivery /\ y.id = x.id /\ y.had = x.had /\ y.at = "global"
    BY <2>2 DEF Delivery, BlockNames
  <2>4. handler' = [handler EXCEPT ![m] = y]
    BY <1>4, <2>1, <2>2, BlockFacts DEF GoTo, MailInv, MailTypeOK
  <2>5. DeliveryOK(m, y)'
    <3>1. UNCHANGED <<copies, crashes, schema, rawMails, hasty>>
      BY <1>4 DEF Store
    <3>2. y.at \notin {"done", "sender", "store"} /\ \A b \in 1..7 : y.at = Blocks[b] => b = 1
      BY <2>3, BlockFacts
    <3>3. y.id # 0 /\ m \notin hasty => y.id \in Stored /\ rawMails[y.id].mail = m
      BY <1>1, <2>1, <2>3 DEF DeliveryOK
    <3>4. (y.id # 0 /\ m \notin hasty => y.id \in Stored /\ rawMails[y.id].mail = m)'
      BY <3>1, <3>3 DEF Stored
    <3>5. (copies[m] <= crashes[m] + (IF y.at \in Before THEN 0 ELSE 1))'
      BY <1>2, <1>3, <3>1
    <3>6. (y.had \subseteq schema)'
      BY <1>3, <2>1, <2>3, <3>1
    <3> QED BY <3>2, <3>4, <3>5, <3>6 DEF DeliveryOK
  <2>6. crashes' \in [Mails -> Nat] /\ \A q \in Mails : crashes'[q] >= crashes[q]
    BY DEF Store, MailInv, MailTypeOK
  <2> QED BY <1>4, <2>3, <2>4, <2>5, <2>6, HandlerMoves DEF Store
<1>5. CASE ~(GoTo(m, Blocks[1]) /\ UNCHANGED <<rawMails, copies>>)
  <2> DEFINE new == NextId
  <2>1. /\ new \in 1..MaxMail /\ new \notin Stored /\ rawMails[new] = Null
    BY <1>2, <1>5, NextIdIsFree DEF Store, Stored
  <2>2. PICK packed \in {FALSE, "raw_blob" \in handler[m].seen} :
          rawMails' = [rawMails EXCEPT ![new] =
            [mail |-> m, at |-> second, packed |-> packed, meta |-> Null,
             had |-> handler[m].had,
             unread |-> IF "is_unread" \in handler[m].seen THEN 1 ELSE Null]]
    BY <1>5 DEF Store
  <2>3. PICK y : y = [handler[m] EXCEPT !.at = "global", !.id = new]
    OBVIOUS
  <2>4. /\ handler' = [handler EXCEPT ![m] = y]
        /\ copies' = [copies EXCEPT ![m] = @ + 1]
        /\ UNCHANGED <<cache, tried, missed, links, second, crashes, hasty>>
    BY <1>5, <2>3, BlockFacts DEF Store, MailInv, MailTypeOK
  <2> HIDE DEF new
  <2>5. PICK row \in Row :
          /\ rawMails' = [rawMails EXCEPT ![new] = row]
          /\ row.mail = m /\ row.at = second
          /\ "is_unread" \in row.had => row.unread # Null
    <3>1. PICK x \in Delivery : x = handler[m]
      BY <1>1
    <3>2. packed \in BOOLEAN
      <4>1. CASE "raw_blob" \in handler[m].seen
        <5>1. ("raw_blob" \in handler[m].seen) = TRUE
          BY <4>1
        <5> QED BY <5>1, Zenon
      <4>2. CASE "raw_blob" \notin handler[m].seen
        <5>1. ("raw_blob" \in handler[m].seen) = FALSE
          BY <4>2
        <5> QED BY <5>1, Zenon
      <4> QED BY <4>1, <4>2
    <3>3. "is_unread" \in x.had => "is_unread" \in x.seen
      BY <1>1, <3>1 DEF DeliveryOK
    <3>4. 1 # Null
      BY BackgroundAssumption
    <3> DEFINE r == [mail |-> m, at |-> second, packed |-> packed, meta |-> Null, had |-> x.had,
                     unread |-> IF "is_unread" \in x.seen THEN 1 ELSE Null]
    <3>5. r \in Row
      BY <1>2, <3>2 DEF Row, Delivery
    <3>6. "is_unread" \in r.had => r.unread # Null
      BY <3>3, <3>4
    <3>7. rawMails' = [rawMails EXCEPT ![new] = r]
      BY <2>2, <3>1
    <3> QED BY <3>5, <3>6, <3>7
  <2>6. Null \notin Row
    BY PipelineAssumption DEF Row
  <2>7. /\ Stored' = Stored \cup {new} /\ rawMails'[new] = row
        /\ \A i \in Stored : rawMails'[i] = rawMails[i]
    BY <2>1, <2>5, <2>6 DEF Stored, MailInv, MailTypeOK
  <2>8. y \in Delivery /\ y.at = "global" /\ y.id = new /\ y.had \subseteq schema
    <3>1. PICK x \in Delivery : x = handler[m]
      BY <1>1
    <3>2. new \in 0..MaxMail /\ x.had \subseteq schema
      BY <1>2, <1>3, <2>1, <3>1
    <3>3. y = [x EXCEPT !.at = "global", !.id = new]
      BY <2>3, <3>1
    <3> QED BY <3>2, <3>3 DEF Delivery, BlockNames
  <2>9. MailTypeOK'
    <3>1. rawMails' \in [1..MaxMail -> Row \cup {Null}]
      BY <2>1, <2>5 DEF MailInv, MailTypeOK
    <3>2. handler' \in [Mails -> Delivery] /\ copies' \in [Mails -> Nat]
      BY <1>2, <2>4, <2>8 DEF MailInv, MailTypeOK
    <3> QED BY <2>4, <3>1, <3>2 DEF MailInv, MailTypeOK
  <2>10. RowsOK'
    <3> SUFFICES ASSUME NEW i \in Stored'
                 PROVE  /\ rawMails'[i].at <= second
                        /\ "is_unread" \in rawMails'[i].had => rawMails'[i].unread # Null
      BY <2>4 DEF RowsOK
    <3>1. CASE i = new
      BY <1>2, <2>5, <2>7, <3>1
    <3>2. CASE i \in Stored
      BY <2>7, <3>2 DEF RowsOK, MailInv
    <3> QED BY <2>7, <3>1, <3>2
  <2>11. LinksOK'
    <3> SUFFICES ASSUME NEW l \in links
                 PROVE  \/ l.mail \in hasty
                        \/ l.id \in Stored' /\ rawMails'[l.id].mail = l.mail
                             /\ rawMails'[l.id].at = l.at
                        \/ l.at < second /\ (l.id \in Stored' => rawMails'[l.id].at > l.at)
      BY <2>4 DEF LinksOK
    <3>1. l.at \in Nat
      BY DEF MailInv, MailTypeOK
    <3> QED BY <1>2, <2>1, <2>5, <2>7, <3>1 DEF MailInv, LinksOK
  <2>12. ASSUME NEW q \in Mails PROVE DeliveryOK(q, handler[q])'
    <3>1. CASE q = m
      <4>1. handler'[q] = y /\ copies'[m] = copies[m] + 1
        BY <1>2, <2>4, <3>1 DEF MailInv, MailTypeOK
      <4>2. y.at \notin {"done", "sender", "store"} /\ \A b \in 1..7 : y.at = Blocks[b] => b = 1
        BY <2>8, BlockFacts
      <4>3. (copies[m] <= crashes[m] + (IF y.at \in Before THEN 0 ELSE 1))'
        BY <1>2, <1>3, <2>4, <2>8, <4>1 DEF Before
      <4>4. (y.id \in Stored /\ rawMails[y.id].mail = m)'
        BY <2>5, <2>7, <2>8
      <4>5. (y.had \subseteq schema)'
        BY <2>8
      <4>6. DeliveryOK(m, y)'
        BY <4>2, <4>3, <4>4, <4>5 DEF DeliveryOK
      <4> QED BY <3>1, <4>1, <4>6
    <3>2. CASE q # m
      <4>1. PICK z \in Delivery : z = handler[q] /\ z = handler'[q]
        BY <2>4, <3>2 DEF MailInv, MailTypeOK
      <4>2. DeliveryOK(q, z)
        BY <4>1 DEF MailInv
      <4>3. copies'[q] = copies[q] /\ crashes'[q] = crashes[q] /\ crashes[q] \in Nat
        BY <2>4, <3>2 DEF MailInv, MailTypeOK
      <4>4. DeliveryOK(q, z)'
        BY <2>4, <2>7, <4>2, <4>3, DeliveryStands DEF MailInv
      <4> QED BY <4>1, <4>4
    <3> QED BY <3>1, <3>2
  <2> QED BY <2>9, <2>10, <2>11, <2>12 DEF MailInv
<1> QED BY <1>4, <1>5

\* A step that moves no handler: rows may go when their mails were hasty, and
\* rows that stay keep their mail.
LEMMA HandlersStay ==
  ASSUME MailInv, MailTypeOK', UNCHANGED <<handler, copies, crashes, tried, missed>>,
         schema \subseteq schema', hasty \subseteq hasty',
         \A i \in Stored :
           \/ i \in Stored' /\ rawMails'[i].mail = rawMails[i].mail
           \/ ~Handling(rawMails[i].mail) \/ rawMails[i].mail \in hasty'
  PROVE  \A q \in Mails : DeliveryOK(q, handler[q])'
<1> SUFFICES ASSUME NEW q \in Mails PROVE DeliveryOK(q, handler[q])'
  OBVIOUS
<1>1. PICK z \in Delivery : z = handler[q] /\ z = handler'[q]
  BY DEF MailInv, MailTypeOK
<1>2. DeliveryOK(q, z) /\ crashes[q] \in Nat
  BY <1>1 DEF MailInv, MailTypeOK
<1>3. \A i \in Stored : rawMails[i].mail = q /\ z.at \notin {"sender", "rejected", "done"} =>
        q \in hasty' \/ (i \in Stored' /\ rawMails'[i].mail = q)
  BY <1>1 DEF Handling
<1>4. crashes'[q] >= crashes[q] /\ crashes'[q] \in Nat /\ copies'[q] = copies[q]
  BY <1>2
<1>5. DeliveryOK(q, z)'
  BY <1>2, <1>3, <1>4, DeliveryStands DEF MailInv
<1> QED BY <1>1, <1>5

LEMMA MailIsDeleted ==
  ASSUME MailInv, NEW i \in 1..MaxMail, DeleteMail(i), UNCHANGED schema
  PROVE  MailInv'
<1>1. /\ i \in Stored /\ rawMails' = [rawMails EXCEPT ![i] = Null]
      /\ rawMails[i].mail \in Mails
      /\ hasty \subseteq hasty' /\ hasty' \subseteq hasty \cup {rawMails[i].mail}
      /\ rawMails[i].at = second \/ Handling(rawMails[i].mail) => rawMails[i].mail \in hasty'
      /\ UNCHANGED <<handler, tried, missed, links, second, copies, crashes>>
  BY DEF DeleteMail, Stored, MailInv, MailTypeOK, Row
<1>2. Stored' = Stored \ {i} /\ \A j \in Stored \ {i} : rawMails'[j] = rawMails[j]
  BY <1>1 DEF Stored, MailInv, MailTypeOK
<1>3. MailTypeOK'
  BY <1>1 DEF MailInv, MailTypeOK
<1>4. RowsOK'
  BY <1>1, <1>2 DEF RowsOK, MailInv
<1>5. LinksOK'
  <2> SUFFICES ASSUME NEW l \in links
               PROVE  \/ l.mail \in hasty'
                      \/ l.id \in Stored' /\ rawMails'[l.id].mail = l.mail
                           /\ rawMails'[l.id].at = l.at
                      \/ l.at < second /\ (l.id \in Stored' => rawMails'[l.id].at > l.at)
    BY <1>1 DEF LinksOK
  <2>1. l.at \in Nat /\ second \in Nat
    BY DEF MailInv, MailTypeOK
  <2>2. rawMails[i].at <= second
    BY <1>1 DEF MailInv, RowsOK
  <2> QED BY <1>1, <1>2, <2>1, <2>2 DEF MailInv, LinksOK
<1>6. \A j \in Stored :
        \/ j \in Stored' /\ rawMails'[j].mail = rawMails[j].mail
        \/ ~Handling(rawMails[j].mail) \/ rawMails[j].mail \in hasty'
  BY <1>1, <1>2
<1>7. \A q \in Mails : DeliveryOK(q, handler[q])'
  BY <1>1, <1>3, <1>6, HandlersStay
<1> QED BY <1>3, <1>4, <1>5, <1>7 DEF MailInv

LEMMA MailIsRead ==
  ASSUME MailInv, NEW i \in 1..MaxMail, NEW value \in {0, 1}, MarkRead(i, value), UNCHANGED schema
  PROVE  MailInv'
<1>1. PICK row \in Row : row = rawMails[i] /\ i \in Stored
  BY DEF MarkRead, Stored, MailInv, MailTypeOK
<1>2. PICK read : read = [row EXCEPT !.unread = value]
  OBVIOUS
<1>3. /\ rawMails' = [rawMails EXCEPT ![i] = read]
      /\ UNCHANGED <<handler, tried, missed, links, second, copies, crashes, hasty>>
  BY <1>1, <1>2 DEF MarkRead
<1>4. read \in Row /\ read.mail = row.mail /\ read.at = row.at /\ read.unread # Null
  BY <1>1, <1>2, BackgroundAssumption DEF Row
<1>5. Null \notin Row
  BY PipelineAssumption DEF Row
<1>6. /\ Stored' = Stored /\ rawMails'[i] = read
      /\ \A j \in Stored \ {i} : rawMails'[j] = rawMails[j]
  BY <1>1, <1>3, <1>4, <1>5 DEF Stored, MailInv, MailTypeOK
<1>7. MailTypeOK'
  BY <1>3, <1>4 DEF MailInv, MailTypeOK
<1>8. RowsOK' /\ LinksOK'
  BY <1>1, <1>3, <1>4, <1>6 DEF MailInv, RowsOK, LinksOK
<1>9. \A q \in Mails : DeliveryOK(q, handler[q])'
  BY <1>1, <1>3, <1>4, <1>6, <1>7, HandlersStay
<1> QED BY <1>7, <1>8, <1>9 DEF MailInv

LEMMA SecondsPass ==
  ASSUME MailInv, Tick, UNCHANGED schema
  PROVE  MailInv'
<1>1. MailTypeOK' /\ Stored' = Stored /\ second \in Nat /\ second' = second + 1
  BY DEF Tick, MailInv, MailTypeOK, Stored
<1>2. RowsOK'
  <2>1. \A i \in Stored : rawMails[i].at \in Nat
    BY DEF MailInv, MailTypeOK, Stored, Row
  <2> QED BY <1>1, <2>1 DEF Tick, MailInv, RowsOK
<1>3. LinksOK'
  <2>1. \A l \in links : l.at \in Nat
    BY DEF MailInv, MailTypeOK
  <2> QED BY <1>1, <2>1 DEF Tick, MailInv, LinksOK
<1>4. \A q \in Mails : DeliveryOK(q, handler[q])'
  BY <1>1, HandlersStay DEF Tick
<1> QED BY <1>1, <1>2, <1>3, <1>4 DEF MailInv

LEMMA SchemaGrows ==
  ASSUME MailInv, UNCHANGED mailVars, schema \subseteq schema'
  PROVE  MailInv'
<1>1. MailTypeOK' /\ RowsOK' /\ LinksOK' /\ Stored' = Stored
  BY DEF mailVars, MailInv, MailTypeOK, RowsOK, LinksOK, Stored
<1>2. \A q \in Mails : DeliveryOK(q, handler[q])'
  BY <1>1, HandlersStay DEF mailVars
<1> QED BY <1>1, <1>2 DEF MailInv

\* Extraction writes the metadata of the mail's rows and nothing else.
LEMMA ExtractedRows ==
  ASSUME MailTypeOK, NEW m \in Mails
  PROVE  /\ Extracted(m) \in [1..MaxMail -> Row \cup {Null}]
         /\ \A i \in 1..MaxMail :
              /\ Extracted(m)[i] = Null <=> rawMails[i] = Null
              /\ i \in Stored => /\ Extracted(m)[i].mail = rawMails[i].mail
                                 /\ Extracted(m)[i].at = rawMails[i].at
                                 /\ Extracted(m)[i].had = rawMails[i].had
                                 /\ Extracted(m)[i].unread = rawMails[i].unread
<1>1. Null \notin Row
  BY PipelineAssumption DEF Row
<1>2. ASSUME NEW i \in 1..MaxMail
      PROVE  /\ Extracted(m)[i] \in Row \cup {Null}
             /\ Extracted(m)[i] = Null <=> rawMails[i] = Null
             /\ i \in Stored => /\ Extracted(m)[i].mail = rawMails[i].mail
                                /\ Extracted(m)[i].at = rawMails[i].at
                                /\ Extracted(m)[i].had = rawMails[i].had
                                /\ Extracted(m)[i].unread = rawMails[i].unread
  <2>1. CASE i \in Stored /\ rawMails[i].mail = m
    <3>1. PICK row \in Row : row = rawMails[i]
      BY <2>1 DEF Stored, MailTypeOK
    <3>2. PICK new : new = [row EXCEPT !.meta = m]
      OBVIOUS
    <3>3. Extracted(m)[i] = new
      BY <2>1, <3>1, <3>2 DEF Extracted
    <3>4. /\ new \in Row /\ new.mail = row.mail /\ new.at = row.at
          /\ new.had = row.had /\ new.unread = row.unread
      BY <3>2 DEF Row
    <3> QED BY <1>1, <3>1, <3>3, <3>4
  <2>2. CASE ~(i \in Stored /\ rawMails[i].mail = m)
    BY <2>2 DEF Extracted, MailTypeOK
  <2> QED BY <2>1, <2>2
<1>3. Extracted(m) = [i \in 1..MaxMail |-> Extracted(m)[i]]
  BY DEF Extracted
<1> QED BY <1>2, <1>3

\* A block leaves its mail served by it, whichever of its entries failed.
LEMMA BlockServes ==
  ASSUME MailTypeOK, NEW m \in Mails, NEW b \in 1..7, NEW n \in 0..Len(Entries(Blocks[b])),
         tried' = [tried EXCEPT ![m] = @ \cup
           {Entries(Blocks[b])[j] : j \in (1..(n + 1)) \cap DOMAIN Entries(Blocks[b])}],
         missed' = [missed EXCEPT ![m] = @ \cup
           {Entries(Blocks[b])[j] : j \in {n + 1} \cap DOMAIN Entries(Blocks[b])}]
  PROVE  /\ Served(m, Blocks[b])'
         /\ tried' \in [Mails -> SUBSET Channel] /\ missed' \in [Mails -> SUBSET Channel]
         /\ \A q \in Mails : tried[q] \subseteq tried'[q] /\ missed[q] \subseteq missed'[q]
<1>1. PICK e : e = Entries(Blocks[b])
  OBVIOUS
<1>2. /\ Len(e) \in Nat /\ DOMAIN e = 1..Len(e) /\ n \in 0..Len(e)
      /\ \A j \in DOMAIN e : e[j] \in Channel
  BY <1>1, EntryFacts, BlockFacts
<1>3. /\ tried' = [tried EXCEPT ![m] = @ \cup {e[j] : j \in (1..(n + 1)) \cap DOMAIN e}]
      /\ missed' = [missed EXCEPT ![m] = @ \cup {e[j] : j \in {n + 1} \cap DOMAIN e}]
  BY <1>1
<1> DEFINE T == {e[j] : j \in (1..(n + 1)) \cap DOMAIN e}
<1> DEFINE F == {e[j] : j \in {n + 1} \cap DOMAIN e}
<1>4. T \subseteq Channel /\ F \subseteq Channel
  BY <1>2
<1>5. tried' = [tried EXCEPT ![m] = @ \cup T] /\ missed' = [missed EXCEPT ![m] = @ \cup F]
  BY <1>3
<1>6. ASSUME NEW j \in DOMAIN e
      PROVE  e[j] \in T \/ \E h \in 1..(j - 1) : e[h] \in F
  <2>1. CASE j <= n + 1
    <3>1. j \in (1..(n + 1)) \cap DOMAIN e
      BY <1>2, <2>1
    <3> QED BY <3>1
  <2>2. CASE j > n + 1
    <3>1. n + 1 \in 1..(j - 1) /\ n + 1 \in DOMAIN e
      BY <1>2, <2>2
    <3>2. e[n + 1] \in F
      BY <3>1
    <3> HIDE DEF F
    <3> QED BY <3>1, <3>2
  <2> QED BY <1>2, <2>1, <2>2
<1> HIDE DEF T, F
<1>7. /\ tried' \in [Mails -> SUBSET Channel] /\ missed' \in [Mails -> SUBSET Channel]
      /\ \A q \in Mails : tried[q] \subseteq tried'[q] /\ missed[q] \subseteq missed'[q]
      /\ T \subseteq tried'[m] /\ F \subseteq missed'[m]
  BY <1>4, <1>5 DEF MailTypeOK
<1> QED BY <1>1, <1>6, <1>7 DEF Served

LEMMA BlockIsPerformed ==
  ASSUME MailInv, NEW m \in Mails, NEW failing, Perform(m, failing), UNCHANGED schema
  PROVE  MailInv'
<1>1. PICK b \in 1..7 : \E n \in 0..Len(Entries(Blocks[b])) :
        /\ handler[m].at = Blocks[b]
        /\ tried' = [tried EXCEPT ![m] = @ \cup
             {Entries(Blocks[b])[j] : j \in (1..(n + 1)) \cap DOMAIN Entries(Blocks[b])}]
        /\ missed' = [missed EXCEPT ![m] = @ \cup
             {Entries(Blocks[b])[j] : j \in {n + 1} \cap DOMAIN Entries(Blocks[b])}]
        /\ rawMails' = IF Blocks[b] = "extract" /\ n = 1 THEN Extracted(m) ELSE rawMails
        /\ links' = IF Blocks[b] = "webhook" /\ n > 0 THEN links \cup Linked(m) ELSE links
        /\ GoTo(m, IF b = 7 THEN "done" ELSE Blocks[b + 1])
  BY BlockFacts DEF Perform, AfterBlock, Onward, IsAt
<1>0. PICK n \in 0..Len(Entries(Blocks[b])) :
        /\ handler[m].at = Blocks[b]
        /\ tried' = [tried EXCEPT ![m] = @ \cup
             {Entries(Blocks[b])[j] : j \in (1..(n + 1)) \cap DOMAIN Entries(Blocks[b])}]
        /\ missed' = [missed EXCEPT ![m] = @ \cup
             {Entries(Blocks[b])[j] : j \in {n + 1} \cap DOMAIN Entries(Blocks[b])}]
        /\ rawMails' = IF Blocks[b] = "extract" /\ n = 1 THEN Extracted(m) ELSE rawMails
        /\ links' = IF Blocks[b] = "webhook" /\ n > 0 THEN links \cup Linked(m) ELSE links
        /\ GoTo(m, IF b = 7 THEN "done" ELSE Blocks[b + 1])
  BY <1>1
<1>2. UNCHANGED <<cache, second, copies, crashes, hasty>>
  BY DEF Perform
<1>3. /\ Served(m, Blocks[b])'
      /\ tried' \in [Mails -> SUBSET Channel] /\ missed' \in [Mails -> SUBSET Channel]
      /\ \A q \in Mails : tried[q] \subseteq tried'[q] /\ missed[q] \subseteq missed'[q]
  BY <1>0, BlockServes DEF MailInv
<1>4. /\ rawMails' \in [1..MaxMail -> Row \cup {Null}] /\ Stored' = Stored
      /\ \A i \in Stored : /\ rawMails'[i].mail = rawMails[i].mail
                           /\ rawMails'[i].at = rawMails[i].at
                           /\ rawMails'[i].had = rawMails[i].had
                           /\ rawMails'[i].unread = rawMails[i].unread
  BY <1>0, ExtractedRows DEF MailInv, MailTypeOK, Stored
<1>5. PICK x \in Delivery : x = handler[m] /\ DeliveryOK(m, x) /\ x.at = Blocks[b]
  BY <1>0 DEF MailInv, MailTypeOK
<1>6. PICK y : y = [x EXCEPT !.at = IF b = 7 THEN "done" ELSE Blocks[b + 1]]
  OBVIOUS
<1>7. handler' = [handler EXCEPT ![m] = y]
  BY <1>0, <1>5, <1>6 DEF GoTo, MailInv, MailTypeOK
<1>8. /\ y \in Delivery /\ y.id = x.id /\ y.had = x.had
      /\ y.at = IF b = 7 THEN "done" ELSE Blocks[b + 1]
      /\ b < 7 => b + 1 \in 1..7 /\ y.at \in BlockNames
  BY <1>6, BlockFacts DEF Delivery
<1>9. x.id # 0 /\ m \notin hasty => x.id \in Stored /\ rawMails[x.id].mail = m
  BY <1>5, Places DEF DeliveryOK, Before
<1>10. links' \subseteq [id : 1..MaxMail, at : Nat, mail : Mails] /\ LinksOK'
  <2>1. ASSUME NEW l \in Linked(m)
        PROVE  /\ l \in [id : 1..MaxMail, at : Nat, mail : Mails]
               /\ \/ l.mail \in hasty
                  \/ l.id \in Stored /\ rawMails[l.id].mail = l.mail /\ rawMails[l.id].at = l.at
    <3>1. /\ x.id \in Stored /\ l = [id |-> x.id, at |-> rawMails[x.id].at, mail |-> m]
      BY <1>5 DEF Linked
    <3>2. x.id \in 1..MaxMail /\ rawMails[x.id].at \in Nat
      BY <3>1 DEF Stored, MailInv, MailTypeOK, Row
    <3>3. x.id # 0
      BY <3>2, PipelineAssumption
    <3>4. l.id = x.id /\ l.at = rawMails[x.id].at /\ l.mail = m
      BY <3>1
    <3> QED BY <1>9, <3>1, <3>2, <3>3, <3>4
  <2>2. links' \subseteq links \cup Linked(m)
    BY <1>0
  <2>3. links' \subseteq [id : 1..MaxMail, at : Nat, mail : Mails]
    BY <2>1, <2>2 DEF MailInv, MailTypeOK
  <2>4. ASSUME NEW l \in links'
        PROVE  \/ l.mail \in hasty
               \/ l.id \in Stored /\ rawMails[l.id].mail = l.mail /\ rawMails[l.id].at = l.at
               \/ l.at < second /\ (l.id \in Stored => rawMails[l.id].at > l.at)
    BY <2>1, <2>2 DEF MailInv, LinksOK
  <2> QED BY <1>2, <1>4, <2>3, <2>4 DEF LinksOK
<1>11. RowsOK'
  BY <1>2, <1>4 DEF MailInv, RowsOK
<1>12. MailTypeOK'
  BY <1>2, <1>3, <1>4, <1>7, <1>8, <1>10 DEF MailInv, MailTypeOK
<1>13. ASSUME NEW q \in Mails PROVE DeliveryOK(q, handler[q])'
  <2>1. CASE q = m
    <3>1. handler'[q] = y
      BY <1>7, <2>1 DEF MailInv, MailTypeOK
    <3>2. \A k \in 1..(b - 1) : Served(m, Blocks[k])
      BY <1>5 DEF DeliveryOK
    <3>3. \A block : Served(m, block) => Served(m, block)'
      BY <1>3 DEF Served
    <3>4. \A k \in 1..b : Served(m, Blocks[k])'
      BY <1>3, <3>2, <3>3
    <3>5. y.at \notin Before
      BY <1>8, Places
    <3>6. \A k \in 1..7 : y.at = Blocks[k] => b < 7 /\ k = b + 1
      BY <1>8, Places, BlockFacts
    <3>7. y.at = "done" => b = 7
      BY <1>8, Places
    <3>8. (copies[m] <= crashes[m] + (IF y.at \in Before THEN 0 ELSE 1))'
      <4>1. x.at \notin Before
        BY <1>5, Places
      <4> QED BY <1>2, <1>5, <3>5, <4>1 DEF DeliveryOK
    <3>9. (y.id # 0 /\ m \notin hasty => y.id \in Stored /\ rawMails[y.id].mail = m)'
      BY <1>2, <1>4, <1>8, <1>9
    <3>10. (y.had \subseteq schema)'
      BY <1>5, <1>8 DEF DeliveryOK
    <3>11. y.at \notin {"sender", "store"}
      BY <3>5 DEF Before
    <3>12. (\A k \in 1..7 : y.at = Blocks[k] => \A j \in 1..(k - 1) : Served(m, Blocks[j]))'
      BY <3>4, <3>6
    <3>13. (y.at = "done" => \A k \in 1..7 : Served(m, Blocks[k]))'
      BY <3>4, <3>7
    <3>14. DeliveryOK(m, y)'
      BY <3>8, <3>9, <3>10, <3>11, <3>12, <3>13 DEF DeliveryOK
    <3> QED BY <2>1, <3>1, <3>14
  <2>2. CASE q # m
    <3>1. PICK z \in Delivery : z = handler[q] /\ z = handler'[q]
      BY <1>7, <2>2 DEF MailInv, MailTypeOK
    <3>2. DeliveryOK(q, z)
      BY <3>1 DEF MailInv
    <3>3. copies'[q] = copies[q] /\ crashes'[q] >= crashes[q] /\ crashes'[q] \in Nat
      BY <1>2 DEF MailInv, MailTypeOK
    <3>4. DeliveryOK(q, z)'
      BY <1>2, <1>3, <1>4, <3>2, <3>3, DeliveryStands DEF MailInv
    <3> QED BY <3>1, <3>4
  <2> QED BY <2>1, <2>2
<1> QED BY <1>10, <1>11, <1>12, <1>13 DEF MailInv

-----------------------------------------------------------------------------
(* The whole. *)

IInv == world \in Worlds /\ DbTypeOK /\ DbInv /\ MailInv

LEMMA DbInitHolds ==
  ASSUME NEW v \in Versions \cup {Null}, NEW limits \in [reads : Nat, others : Nat],
         DbInit(v, limits), world.mishaps = limits
  PROVE  DbTypeOK /\ DbInv
<1>1. Null \notin Versions /\ Current \in Versions /\ Versions \subseteq Nat
  BY BackgroundAssumption DEF Versions, Current
<1>2. v = Null => schema \in {{}, Everything}
  BY DEF DbInit, Found
<1>3. v # Null => AsOf(v) \subseteq Everything /\ schema = AsOf(v)
  <2> SUFFICES ASSUME v # Null PROVE AsOf(v) \subseteq Everything
    BY DEF DbInit, Found
  <2>1. \A k \in DOMAIN Ladder : Ladder[k].object \in Everything
    BY Rungs, SchemaNames
  <2>2. /\ {Ladder[k].object : k \in {j \in DOMAIN Ladder : Ladder[j].last < v}} \subseteq Everything
        /\ {"raw_mails", "address", "settings"} \subseteq Everything
        /\ (IF v > 4 THEN {"source_meta_index"} ELSE {}) \subseteq Everything
        /\ (IF v = Current THEN {"redeem_codes"} ELSE {}) \subseteq Everything
    BY <2>1, SchemaNames
  <2> QED BY <2>2 DEF AsOf
<1>4. AsOf(Current) = Everything
  <2>1. \A k \in DOMAIN Ladder : Ladder[k].last < Current
    BY Rungs DEF Current
  <2>2. Current > 4 /\ Current # Null
    BY <1>1 DEF Current
  <2>3. {j \in DOMAIN Ladder : Ladder[j].last < Current} = 1..6
    BY <2>1, Rungs
  <2>4. {"password", "metadata", "source_meta", "message_id_index", "raw_blob", "is_unread"}
          \subseteq {Ladder[k].object : k \in 1..6}
    BY Rungs
  <2>5. AsOf(Current) = {"raw_mails", "address", "settings"}
                          \cup {Ladder[k].object : k \in 1..6}
                          \cup {"source_meta_index"} \cup {"redeem_codes"}
    BY <2>2, <2>3 DEF AsOf
  <2>6. AsOf(Current) \subseteq Everything
    <3>1. \A k \in 1..6 : Ladder[k].object \in Everything
      BY Rungs, SchemaNames
    <3>2. {Ladder[k].object : k \in 1..6} \subseteq Everything
      BY <3>1
    <3> QED BY <2>5, <3>2, SchemaNames
  <2>7. Everything \subseteq AsOf(Current)
    BY <2>4, <2>5, SchemaNames
  <2> QED BY <2>6, <2>7
<1>5. AdminIdle \in RequestRow /\ AdminIdle.step = "idle"
  BY Rungs DEF AdminIdle, RequestRow
<1>6. DbTypeOK
  <2>1. schema \subseteq Everything
    BY <1>2, <1>3
  <2> QED BY <2>1, <1>5 DEF DbInit, DbTypeOK
<1>7. SchemaOfVersion
  <2>1. version = Null => TablesWhole
    BY <1>2, SchemaNames DEF DbInit, TablesWhole
  <2>2. version # Null => schema = AsOf(version)
    BY <1>3 DEF DbInit
  <2>3. Current # Null
    BY <1>1
  <2>4. version = Current => schema = Everything
    BY <2>2, <2>3, <1>4
  <2>5. version # Null => AsOf(version) \subseteq schema
    BY <2>2
  <2> QED BY <2>1, <2>4, <2>5 DEF SchemaOfVersion
<1>8. \A r \in Admins : RequestSaw(admin[r])
  BY <1>5 DEF DbInit, RequestSaw
<1> QED BY <1>6, <1>7, <1>8 DEF DbInit, DbInv

LEMMA MailInitHolds == MailInit => MailInv
<1> SUFFICES ASSUME MailInit PROVE MailInv
  OBVIOUS
<1>1. MaxMail \in Nat
  BY PipelineAssumption
<1>2. AtSender \in Delivery /\ AtSender.at = "sender" /\ AtSender.id = 0 /\ AtSender.had = {}
  BY <1>1 DEF AtSender, Delivery, Before
<1>3. Stored = {}
  BY DEF MailInit, Stored
<1>4. MailTypeOK
  BY <1>2 DEF MailInit, MailTypeOK
<1>5. ASSUME NEW m \in Mails PROVE DeliveryOK(m, AtSender)
  <2>1. "sender" \in Before /\ \A b \in 1..7 : Blocks[b] # "sender"
    BY Places DEF Before
  <2> QED BY <1>2, <2>1 DEF MailInit, DeliveryOK
<1>6. RowsOK /\ LinksOK
  BY <1>3 DEF MailInit, RowsOK, LinksOK
<1> QED BY <1>4, <1>5, <1>6 DEF MailInit, MailInv

LEMMA InitHolds == Init => IInv
<1> SUFFICES ASSUME Init PROVE IInv
  OBVIOUS
<1>1. world \in Worlds /\ MailInv
  BY MailInitHolds DEF Init
<1>2. PICK v \in world.versions : DbInit(v, world.mishaps)
  BY DEF Init
<1>3. v \in Versions \cup {Null} /\ world.mishaps \in [reads : Nat, others : Nat]
  BY <1>1, <1>2, BackgroundAssumption
<1>4. DbTypeOK /\ DbInv
  BY <1>2, <1>3, DbInitHolds
<1> QED BY <1>1, <1>4 DEF IInv

\* Nothing the database's invariant speaks of has changed.
LEMMA DbRests ==
  ASSUME DbTypeOK, DbInv, UNCHANGED <<world, dbVars>>
  PROVE  DbTypeOK' /\ DbInv'
BY DEF dbVars, DbTypeOK, DbInv, SchemaOfVersion, TablesWhole, RequestSaw, Reached

LEMMA NextHolds == IInv /\ [Next]_vars => IInv'
<1> SUFFICES ASSUME IInv, [Next]_vars PROVE IInv'
  OBVIOUS
<1>1. /\ world \in Worlds /\ DbTypeOK /\ DbInv /\ MailInv
      /\ world.mails \subseteq Mails /\ world.admins \subseteq Admins
  BY BackgroundAssumption DEF IInv
<1>2. CASE (Mailing \/ Inbox) /\ UNCHANGED <<world, dbVars>>
  <2>1. UNCHANGED schema /\ UNCHANGED <<world, dbVars>>
    BY <1>2 DEF dbVars
  <2>2. ASSUME Mailing PROVE MailInv'
    <3>1. PICK m \in Mails : MailStep(m, world.failing)
      BY <1>1, <2>2 DEF Mailing
    <3> DEFINE failing == world.failing
    <3>2. \/ Deliver(m, failing) \/ Filter(m) \/ Columns(m) \/ Store(m) \/ Perform(m, failing)
          \/ Crash(m)
      BY <3>1 DEF MailStep
    <3> HIDE DEF failing
    <3>3. CASE Deliver(m, failing)
      BY <1>1, <2>1, <3>3, MailDelivers
    <3>4. CASE Filter(m)
      BY <1>1, <2>1, <3>4, MailIsFiltered
    <3>5. CASE Columns(m)
      BY <1>1, <2>1, <3>5, MailSeesColumns
    <3>6. CASE Store(m)
      BY <1>1, <2>1, <3>6, MailIsStored
    <3>7. CASE Perform(m, failing)
      BY <1>1, <2>1, <3>7, BlockIsPerformed
    <3>8. CASE Crash(m)
      BY <1>1, <2>1, <3>8, MailStops
    <3> QED BY <3>2, <3>3, <3>4, <3>5, <3>6, <3>7, <3>8
  <2>3. ASSUME Inbox PROVE MailInv'
    <3>1. CASE \E i \in 1..MaxMail : DeleteMail(i) \/ MarkRead(i, 0) \/ MarkRead(i, 1)
      <4>1. PICK i \in 1..MaxMail : DeleteMail(i) \/ MarkRead(i, 0) \/ MarkRead(i, 1)
        BY <3>1
      <4>2. CASE DeleteMail(i)
        BY <1>1, <2>1, <4>2, MailIsDeleted
      <4>3. CASE MarkRead(i, 0)
        BY <1>1, <2>1, <4>3, MailIsRead
      <4>4. CASE MarkRead(i, 1)
        BY <1>1, <2>1, <4>4, MailIsRead
      <4> QED BY <4>1, <4>2, <4>3, <4>4
    <3>2. CASE Tick
      BY <1>1, <2>1, <3>2, SecondsPass
    <3> QED BY <2>3, <3>1, <3>2 DEF Inbox
  <2> QED BY <1>1, <1>2, <2>1, <2>2, <2>3, DbRests DEF IInv
<1>3. CASE Migrating /\ UNCHANGED <<world, mailVars>>
  <2>1. PICK r \in Admins : DbRequest(r)
    BY <1>1, <1>3 DEF Migrating
  <2>2. DbTypeOK' /\ DbInv' /\ schema \subseteq schema'
    BY <1>1, <1>3, <2>1, DbKeeps
  <2>3. MailInv'
    BY <1>1, <1>3, <2>2, SchemaGrows
  <2> QED BY <1>1, <1>3, <2>2, <2>3 DEF IInv
<1>4. CASE UNCHANGED <<world, mailVars, dbVars>>
  <2>1. MailInv'
    BY <1>1, <1>4, SchemaGrows DEF dbVars
  <2> QED BY <1>1, <1>4, <2>1, DbRests DEF IInv
<1> QED BY <1>2, <1>3, <1>4 DEF Next, vars

\* The inductive invariant: what each request and each delivery has done by now,
\* and that rows and links agree (worker/src/admin_api/db_api.ts,
\* worker/src/email/index.ts, worker/src/utils/webhook.ts).
THEOREM BackgroundIInv == Spec => []IInv
<1>1. Init => IInv
  BY InitHolds
<1>2. IInv /\ [Next]_vars => IInv'
  BY NextHolds
<1> QED BY <1>1, <1>2, PTL DEF Spec

\* No failure after the row is written makes a sender deliver again; only a
\* worker that stops does (worker/src/email/index.ts, the try blocks).
THEOREM PipelineStoredOnce == Spec => []StoredOnce
<1>1. IInv => StoredOnce
  <2> SUFFICES ASSUME IInv, NEW m \in Mails PROVE copies[m] <= 1 + crashes[m]
    BY DEF StoredOnce
  <2>1. copies[m] \in Nat /\ crashes[m] \in Nat
    BY DEF IInv, MailInv, MailTypeOK
  <2>2. DeliveryOK(m, handler[m])
    BY DEF IInv, MailInv
  <2> QED BY <2>1, <2>2 DEF DeliveryOK
<1> QED BY <1>1, BackgroundIInv, PTL

\* Whatever fails, every channel of a finished delivery was attempted, but for
\* targets behind one of their own list that failed (worker/src/email/index.ts,
\* email/forward.ts).
THEOREM PipelineChannelsIndependent == Spec => []ChannelsIndependent
<1>1. IInv => ChannelsIndependent
  <2> SUFFICES ASSUME IInv, NEW m \in Mails, IsAt(m, "done"), NEW block \in Range(Blocks)
               PROVE  Served(m, block)
    BY DEF ChannelsIndependent, Served
  <2>1. PICK k \in 1..7 : block = Blocks[k]
    BY BlockFacts
  <2>2. DeliveryOK(m, handler[m]) /\ handler[m].at = "done"
    BY DEF IInv, MailInv, IsAt
  <2> QED BY <2>1, <2>2 DEF DeliveryOK
<1> QED BY <1>1, BackgroundIInv, PTL

\* A signed link never opens another mail's attachments although ids come back
\* (worker/src/utils/webhook.ts, open_api/webhook_attachment.ts).
THEOREM PipelineLinkOpensItsMail == Spec => []LinkOpensItsMail
<1>1. IInv => LinkOpensItsMail
  <2> SUFFICES ASSUME IInv, NEW l \in links, Opens(l), l.mail \notin hasty
               PROVE  rawMails[l.id].mail = l.mail
    BY DEF LinkOpensItsMail
  <2>1. l.at \in Nat
    BY DEF IInv, MailInv, MailTypeOK
  <2> QED BY <2>1 DEF IInv, MailInv, LinksOK, Opens
<1> QED BY <1>1, BackgroundIInv, PTL

\* Every mail delivered since the migration has a read status, whichever columns
\* its isolate cached before (worker/src/email/storage.ts).
THEOREM PipelineUnreadIsStored == Spec => []UnreadIsStored
<1>1. IInv => UnreadIsStored
  BY DEF IInv, MailInv, RowsOK, UnreadIsStored
<1> QED BY <1>1, BackgroundIInv, PTL

\* A database that says it is current is, however requests overlapped and failed
\* (worker/src/admin_api/db_api.ts migrate, initialize).
THEOREM MigrateVersionIsTrue == Spec => []VersionIsTrue
<1>1. IInv => VersionIsTrue
  <2>1. Current # Null
    BY BackgroundAssumption DEF Current
  <2> QED BY DEF IInv, DbInv, SchemaOfVersion, VersionIsTrue
<1> QED BY <1>1, BackgroundIInv, PTL

-----------------------------------------------------------------------------
(* The filter of a list: what Kept computes for every list. *)

\* One step of Kept.
Longer(kept, creds, good, i) ==
  IF i = 0 THEN <<>>
  ELSE IF creds[i] \in good THEN Append(kept[i - 1], creds[i]) ELSE kept[i - 1]

KeptBy(kept, creds, good) ==
  kept = [i \in 0..Len(creds) |-> Longer(kept, creds, good, i)]

\* So many steps can be made.
Reaches(creds, good, n) == \E k : \A i \in 0..n : k[i] = Longer(k, creds, good, i)

LEMMA KeptReaches ==
  ASSUME NEW S, NEW creds \in Seq(S), NEW good
  PROVE  \A n \in Nat : Reaches(creds, good, n)
<1> DEFINE Bad == {n \in Nat : ~Reaches(creds, good, n)}
<1>1. SUFFICES ASSUME Bad # {} PROVE FALSE
  OBVIOUS
<1>2. PICK n \in Bad : \A m \in Bad : n <= m
  <2>1. Bad \in SUBSET Nat
    OBVIOUS
  <2> HIDE DEF Bad
  <2> QED BY <1>1, <2>1, LeastGap
<1>3. CASE n = 0
  <2>1. PICK k : k = [i \in 0..n |-> <<>>]
    OBVIOUS
  <2>2. \A i \in 0..n : k[i] = Longer(k, creds, good, i)
    BY <1>3, <2>1 DEF Longer
  <2> QED BY <2>2 DEF Reaches
<1>4. CASE n # 0
  <2>1. n - 1 \in Nat /\ n - 1 \notin Bad
    BY <1>2, <1>4
  <2>2. PICK k : \A i \in 0..(n - 1) : k[i] = Longer(k, creds, good, i)
    BY <2>1 DEF Reaches
  <2>3. PICK h : h = [i \in 0..n |-> Longer(k, creds, good, i)]
    OBVIOUS
  <2>4. \A i \in 0..(n - 1) : h[i] = k[i]
    BY <2>2, <2>3
  <2>5. ASSUME NEW i \in 0..n PROVE h[i] = Longer(h, creds, good, i)
    <3>1. i # 0 => h[i - 1] = k[i - 1]
      BY <2>4
    <3> QED BY <2>3, <3>1 DEF Longer
  <2> QED BY <2>5 DEF Reaches
<1> QED BY <1>3, <1>4

LEMMA KeptIs ==
  ASSUME NEW S, NEW creds \in Seq(S), NEW good
  PROVE  \E kept : KeptBy(kept, creds, good) /\ Kept(creds, good) = kept[Len(creds)]
<1>1. PICK n \in Nat : n = Len(creds)
  BY LenProperties
<1>2. PICK k : \A i \in 0..n : k[i] = Longer(k, creds, good, i)
  BY KeptReaches DEF Reaches
<1>3. PICK h : h = [i \in 0..n |-> k[i]]
  OBVIOUS
<1>4. ASSUME NEW i \in 0..n PROVE h[i] = Longer(h, creds, good, i)
  <2>1. i # 0 => h[i - 1] = k[i - 1]
    BY <1>3
  <2> QED BY <1>2, <1>3, <2>1 DEF Longer
<1>5. KeptBy(h, creds, good)
  BY <1>1, <1>3, <1>4 DEF KeptBy
<1>6. Kept(creds, good) = (CHOOSE kept : KeptBy(kept, creds, good))[Len(creds)]
  BY DEF Kept, KeptBy, Longer
<1> QED BY <1>5, <1>6

LEMMA RangeOfAppend ==
  ASSUME NEW S, NEW q \in Seq(S), NEW x \in S
  PROVE  Range(Append(q, x)) = Range(q) \cup {x}
<1>1. PICK p \in Seq(S) : p = Append(q, x) /\ Len(p) = Len(q) + 1
                          /\ (\A i \in 1..Len(q) : p[i] = q[i]) /\ p[Len(q) + 1] = x
  BY AppendProperties
<1>2. DOMAIN q = 1..Len(q) /\ DOMAIN p = 1..(Len(q) + 1) /\ Len(q) \in Nat
  BY <1>1, LenProperties
<1>3. DOMAIN p = DOMAIN q \cup {Len(q) + 1}
  BY <1>2
<1> QED BY <1>1, <1>2, <1>3 DEF Range

\* What a filter of a list is: a list, not longer than it was, of the good entries.
KeptOK(S, q, creds, good, n) ==
  /\ q \in Seq(S) /\ Len(q) <= n
  /\ Range(q) = {creds[j] : j \in 1..n} \cap good

LEMMA KeptFacts ==
  ASSUME NEW S, NEW creds \in Seq(S), NEW good
  PROVE  /\ Kept(creds, good) \in Seq(S) /\ Len(Kept(creds, good)) <= Len(creds)
         /\ Range(Kept(creds, good)) = Range(creds) \cap good
<1>1. PICK k : KeptBy(k, creds, good) /\ Kept(creds, good) = k[Len(creds)]
  BY KeptIs
<1>2. PICK length \in Nat : length = Len(creds) /\ DOMAIN creds = 1..length
  BY LenProperties
<1> DEFINE Bad == {i \in 0..length : ~KeptOK(S, k[i], creds, good, i)}
<1>3. Bad = {}
  <2>1. SUFFICES ASSUME Bad # {} PROVE FALSE
    OBVIOUS
  <2>2. PICK n \in Bad : \A m \in Bad : n <= m
    <3>1. Bad \in SUBSET Nat
      BY <1>2
    <3> HIDE DEF Bad
    <3> QED BY <2>1, <3>1, LeastGap
  <2>3. n \in 0..length /\ k[n] = Longer(k, creds, good, n)
    BY <1>1, <1>2, <2>2 DEF KeptBy
  <2>4. CASE n = 0
    <3>1. k[n] = <<>>
      BY <2>3, <2>4 DEF Longer
    <3>2. KeptOK(S, <<>>, creds, good, 0)
      BY EmptySeq DEF KeptOK, Range
    <3> QED BY <2>2, <2>4, <3>1, <3>2
  <2>5. CASE n # 0
    <3>1. n - 1 \in 0..length /\ n - 1 \notin Bad
      BY <2>2, <2>3, <2>5
    <3>2. PICK q : q = k[n - 1] /\ KeptOK(S, q, creds, good, n - 1)
      BY <3>1
    <3>3. PICK x \in S : x = creds[n]
      BY <1>2, <2>3, <2>5, ElementOfSeq
    <3>4. {creds[j] : j \in 1..n} = {creds[j] : j \in 1..(n - 1)} \cup {x}
      <4>1. n \in Nat /\ n > 0 /\ 1..n = (1..(n - 1)) \cup {n}
        BY <2>3, <2>5
      <4> QED BY <3>3, <4>1
    <3>5. CASE x \in good
      <4>1. k[n] = Append(q, x)
        BY <2>3, <2>5, <3>2, <3>3, <3>5 DEF Longer
      <4>2. Append(q, x) \in Seq(S) /\ Len(Append(q, x)) = Len(q) + 1 /\ Len(q) \in Nat
        BY <3>2, AppendProperties, LenProperties DEF KeptOK
      <4>3. Range(Append(q, x)) = Range(q) \cup {x}
        BY <3>2, RangeOfAppend DEF KeptOK
      <4>4. Len(q) + 1 <= n
        BY <2>3, <3>2, <4>2 DEF KeptOK
      <4>5. KeptOK(S, Append(q, x), creds, good, n)
        BY <3>2, <3>4, <3>5, <4>2, <4>3, <4>4 DEF KeptOK
      <4> QED BY <2>2, <4>1, <4>5
    <3>6. CASE x \notin good
      <4>1. k[n] = q
        BY <2>3, <2>5, <3>2, <3>3, <3>6 DEF Longer
      <4>2. Len(q) \in Nat /\ Len(q) <= n
        BY <2>3, <3>2, LenProperties DEF KeptOK
      <4>3. KeptOK(S, q, creds, good, n)
        BY <3>2, <3>4, <3>6, <4>2 DEF KeptOK
      <4> QED BY <2>2, <4>1, <4>3
    <3> QED BY <3>5, <3>6
  <2> QED BY <2>4, <2>5
<1>4. KeptOK(S, k[length], creds, good, length)
  BY <1>2, <1>3
<1>5. {creds[j] : j \in 1..length} = Range(creds)
  BY <1>2 DEF Range
<1> QED BY <1>1, <1>2, <1>4, <1>5 DEF KeptOK

-----------------------------------------------------------------------------
(* The requests of Telegram users. *)

TelegramPlaces == {"idle", "read", "verify", "create", "putList", "putOwner", "look",
                   "getOwner", "dropOwner", "drop", "insert"}

TelegramRow ==
  [op : Ops, pc : TelegramPlaces, user : Users \cup {Null}, name : Names \cup {Null}, id : 0..MaxId,
   copy : Seq(Credential), todo : Seq(Credential), good : SUBSET Credential,
   bad : SUBSET Credential]

TablesOK ==
  /\ lastId \in 0..MaxId
  /\ address \in [Names -> Ids \cup {Null}]
  /\ \A n \in Names : address[n] # Null => address[n] <= lastId
  /\ list \in [Users -> Seq(Credential)]
  /\ \A u \in Users : Len(list[u]) <= MaxAddress /\ \A c \in Range(list[u]) : c.id <= lastId
  /\ owner \in [Names -> Users \cup {Null}] /\ pushed \in [Names -> Users \cup {Null}]
  /\ mine \in [Users -> SUBSET Credential] /\ lost \in [Users -> SUBSET Credential]

\* What a request is at each place.  One that will append to its copy of the list
\* has found it shorter than the maximum.
Adding(x) == x.pc = "putList" /\ x.op \in {"new", "bind"}

RequestOK(x) ==
  /\ x \in TelegramRow
  /\ x.pc \notin {"idle", "look", "drop", "insert"} => x.user \in Users
  /\ x.pc # "idle" /\ x.op # "clean" => x.name \in Names
  /\ (x.pc # "idle" /\ x.op = "bind") \/ Adding(x) => x.id \in Ids /\ x.id <= lastId
  /\ x.pc = "create" => x.op = "new"
  /\ x.pc = "verify" => x.op \in {"bind", "unbind", "clean"}
  /\ x.pc = "verify" <=> x.todo # <<>>
  /\ x.good \cup x.bad # {} =>
       x.op \in {"bind", "unbind", "clean"} /\ x.pc \notin {"look", "read"}
  /\ x.pc = "putOwner" => x.op \in {"new", "bind"}
  /\ x.pc \in {"getOwner", "dropOwner"} => x.op \in {"unbind", "delete", "transfer"}
  /\ x.pc \in {"look", "drop", "insert"} => x.op \in {"delete", "transfer"}
  /\ Len(x.copy) <= MaxAddress
  /\ x.pc = "create" \/ Adding(x) => Len(x.copy) < MaxAddress
  /\ \A c \in Range(x.copy) : c.id <= lastId
  /\ x.good \cup x.bad \cup Range(x.todo) \subseteq Range(x.copy)

\* A user has a good credential of a mailbox, or had one that a cleanup dropped.
Bound(u, n) == \E c \in Range(list[u]) \cup lost[u] : c.name = n /\ Holds(c)

\* What a request that has the system to itself may rely on.
SerialOK(x) ==
  /\ x.pc \in {"verify", "create", "putList"} => x.copy = list[x.user]
  /\ (x.pc # "idle" /\ x.op = "bind") \/ Adding(x) => Valid(x.name, x.id)
  /\ \A c \in x.good : x.pc # "idle" => Holds(c)
  /\ ~world.doubts => \A c \in x.bad : x.pc # "idle" => ~Holds(c)
  /\ x.pc = "putOwner" => Bound(x.user, x.name)
  /\ x.pc = "dropOwner" => owner[x.name] = x.user
  /\ x.op \in {"delete", "transfer"} /\ x.pc \in {"read", "putList", "getOwner"} =>
       owner[x.name] = x.user
  /\ x.pc \in {"drop", "insert"} => owner[x.name] = Null

Unbinding(x, n) == x.pc \in {"getOwner", "dropOwner"} /\ x.name = n /\ x.user = owner[n]

OwnersInv ==
  \A n \in Names : owner[n] # Null =>
    Bound(owner[n], n) \/ \E s \in Slots : Unbinding(slot[s], n)

PushInv == \A n \in Names : pushed[n] # Null => owner[n] = pushed[n]

MineInv ==
  \A u \in Users : /\ mine[u] \subseteq Range(list[u]) \cup lost[u]
                   /\ world.doubts \/ lost[u] = {}

TelegramInv ==
  /\ TablesOK
  /\ slot = [s \in Slots |-> slot[s]]
  /\ \A s \in Slots : RequestOK(slot[s]) /\ (s \notin world.slots => slot[s].pc = "idle")
  /\ Serial => (\A s \in Slots : SerialOK(slot[s])) /\ OwnersInv /\ PushInv /\ MineInv

LEMMA InList ==
  ASSUME NEW l \in Seq(Credential), NEW c \in Range(l)
  PROVE  c \in Credential /\ c.name \in Names /\ c.id \in Ids
<1>1. c \in Credential
  BY LenProperties, ElementOfSeq DEF Range
<1> QED BY <1>1 DEF Credential

LEMMA RequestStays ==
  ASSUME NEW x, RequestOK(x), lastId \in Nat, lastId' \in Nat, lastId' >= lastId
  PROVE  RequestOK(x)'
<1>1. MaxId \in Nat /\ x.copy \in Seq(Credential)
  BY AddressAssumption DEF RequestOK, TelegramRow
<1>2. \A c \in Range(x.copy) : c.id \in Nat /\ c.id <= lastId
  BY <1>1, InList DEF RequestOK, Ids
<1>3. \A c \in Range(x.copy) : c.id <= lastId'
  BY <1>2
<1>4. x.id \in Ids /\ x.id <= lastId => x.id <= lastId'
  BY <1>1 DEF Ids
<1> QED BY <1>3, <1>4 DEF RequestOK

LEMMA IdleRests ==
  ASSUME NEW x, x.pc = "idle"
  PROVE  SerialOK(x)'
BY DEF SerialOK, Adding

LEMMA OthersRest ==
  ASSUME TelegramInv, Serial, NEW s \in world.slots, NEW r \in Slots \ {s}
  PROVE  slot[r].pc = "idle"
BY DEF TelegramInv, Serial

\* One request takes a step.
LEMMA StepKeeps ==
  ASSUME TelegramInv, UNCHANGED world, NEW s \in Slots, s \in world.slots, NEW x,
         slot' = [slot EXCEPT ![s] = x], TablesOK', lastId' >= lastId, RequestOK(x)',
         Serial => SerialOK(x)' /\ OwnersInv' /\ PushInv' /\ MineInv'
  PROVE  TelegramInv'
<1>1. slot' = [r \in Slots |-> slot'[r]] /\ slot'[s] = x
      /\ \A r \in Slots \ {s} : slot'[r] = slot[r]
  BY DEF TelegramInv
<1>2. lastId \in Nat /\ lastId' \in Nat
  BY AddressAssumption DEF TelegramInv, TablesOK
<1>3. ASSUME NEW r \in Slots \ {s}
      PROVE  /\ RequestOK(slot[r])' /\ (r \notin world'.slots => slot'[r].pc = "idle")
             /\ Serial => SerialOK(slot[r])'
  <2>1. PICK y : y = slot[r] /\ RequestOK(y) /\ (r \notin world.slots => y.pc = "idle")
    BY DEF TelegramInv
  <2>2. RequestOK(y)' /\ y = slot'[r]
    BY <1>1, <1>2, <2>1, RequestStays
  <2>3. Serial => SerialOK(y)'
    BY <2>1, OthersRest, IdleRests
  <2> QED BY <2>1, <2>2, <2>3
<1>4. Serial' <=> Serial
  BY DEF Serial
<1> QED BY <1>1, <1>3, <1>4 DEF TelegramInv

\* It changes nothing but what it knows itself.
LEMMA LocalKeeps ==
  ASSUME TelegramInv, UNCHANGED <<world, address, lastId, list, owner, pushed, mine, lost>>,
         NEW s \in Slots, s \in world.slots, NEW x, slot' = [slot EXCEPT ![s] = x],
         RequestOK(x), Serial => SerialOK(x),
         \A n \in Names : Unbinding(slot[s], n) => Unbinding(x, n)
  PROVE  TelegramInv'
<1>1. TablesOK' /\ lastId' >= lastId
  BY AddressAssumption DEF TelegramInv, TablesOK
<1>2. RequestOK(x)'
  BY DEF RequestOK
<1>3. Serial => SerialOK(x)'
  BY DEF SerialOK, Valid, Holds, Bound
<1>4. Serial => PushInv' /\ MineInv'
  BY DEF TelegramInv, PushInv, MineInv
<1>5. ASSUME Serial, NEW n \in Names, owner[n] # Null
      PROVE  Bound(owner[n], n)' \/ \E r \in Slots : Unbinding(slot[r], n)'
  <2>1. CASE Bound(owner[n], n)
    BY <2>1 DEF Bound, Holds, Valid
  <2>2. CASE \E r \in Slots : Unbinding(slot[r], n)
    <3>1. PICK r \in Slots : Unbinding(slot[r], n)
      BY <2>2
    <3>2. PICK y : y = slot'[r] /\ Unbinding(y, n)
      BY <3>1 DEF TelegramInv
    <3>3. Unbinding(y, n)'
      BY <3>2 DEF Unbinding
    <3> QED BY <3>2, <3>3
  <2> QED BY <1>5, <2>1, <2>2 DEF TelegramInv, OwnersInv
<1>6. Serial => OwnersInv'
  BY <1>5 DEF OwnersInv
<1> QED BY <1>1, <1>2, <1>3, <1>4, <1>6, StepKeeps

LEMMA TelegramNull == Null \notin Users /\ Null \notin Ids /\ MaxId \in Nat /\ MaxAddress \in Nat
BY TelegramAssumption, AddressAssumption

\* A request has begun.
LEMMA BeginKeeps ==
  ASSUME TelegramInv, UNCHANGED world, NEW s \in Slots, s \in world.slots,
         NEW op \in Ops, NEW label \in {"read", "look"}, NEW u \in Users \cup {Null},
         NEW n \in Names \cup {Null}, NEW i \in 0..MaxId, Begin(s, op, label, u, n, i),
         label = "read" => u \in Users /\ op \notin {"delete", "transfer"},
         label = "look" => op \in {"delete", "transfer"},
         op # "clean" => n \in Names,
         op = "bind" => i \in Ids /\ i <= lastId /\ Valid(n, i)
  PROVE  TelegramInv'
<1>1. PICK x : x = [op |-> op, pc |-> label, user |-> u, name |-> n, id |-> i,
                    copy |-> <<>>, todo |-> <<>>, good |-> {}, bad |-> {}]
  OBVIOUS
<1>2. slot' = [slot EXCEPT ![s] = x] /\ slot[s].pc = "idle"
  <2>1. PICK y : y = [Idle EXCEPT !.op = op, !.pc = label, !.user = u, !.name = n, !.id = i]
    OBVIOUS
  <2>2. y = [op |-> op, pc |-> label, user |-> u, name |-> n, id |-> i,
             copy |-> <<>>, todo |-> <<>>, good |-> {}, bad |-> {}]
    BY <2>1 DEF Idle
  <2> QED BY <1>1, <2>1, <2>2 DEF Begin, Put, At
<1>3. Range(x.copy) = {} /\ Range(x.todo) = {} /\ Len(x.copy) = 0 /\ x.copy \in Seq(Credential)
      /\ x.todo \in Seq(Credential)
  BY <1>1, EmptySeq DEF Range
<1>4. x \in TelegramRow
  BY <1>1, <1>3 DEF TelegramRow, TelegramPlaces
<1>5. RequestOK(x)
  BY <1>1, <1>3, <1>4, TelegramNull DEF RequestOK, Adding
<1>6. SerialOK(x)
  BY <1>1 DEF SerialOK, Adding
<1>7. \A m \in Names : ~Unbinding(slot[s], m)
  BY <1>2 DEF Unbinding
<1> QED BY <1>2, <1>5, <1>6, <1>7, LocalKeeps DEF Begin

LEMMA StartsKeep ==
  ASSUME TelegramInv, UNCHANGED world, NEW s \in Slots, s \in world.slots, NEW n \in Names,
         \/ \E u \in Users : \/ StartNew(s, u, n) \/ StartBind(s, u, n) \/ StartUnbind(s, u, n)
         \/ StartDelete(s, n) \/ StartTransfer(s, n)
  PROVE  TelegramInv'
<1>1. 0 \in 0..MaxId /\ Ids \subseteq 0..MaxId
  BY TelegramNull DEF Ids
<1>2. address[n] # Null => address[n] \in Ids /\ address[n] <= lastId /\ Valid(n, address[n])
  BY DEF TelegramInv, TablesOK, Valid
<1>3. PICK i : i = address[n]
  OBVIOUS
<1>4. ASSUME NEW u \in Users, StartNew(s, u, n) PROVE TelegramInv'
  BY <1>1, <1>4, BeginKeeps DEF StartNew, Ops
<1>5. ASSUME NEW u \in Users, StartBind(s, u, n) PROVE TelegramInv'
  <2>1. i \in Ids /\ i <= lastId /\ Valid(n, i) /\ Begin(s, "bind", "read", u, n, i)
    BY <1>2, <1>3, <1>5 DEF StartBind
  <2> QED BY <1>1, <2>1, BeginKeeps DEF Ops
<1>6. ASSUME NEW u \in Users, StartUnbind(s, u, n) PROVE TelegramInv'
  BY <1>1, <1>6, BeginKeeps DEF StartUnbind, Ops
<1>8. CASE StartDelete(s, n)
  <2>1. i \in 0..MaxId /\ Begin(s, "delete", "look", Null, n, i)
    BY <1>1, <1>2, <1>3, <1>8 DEF StartDelete
  <2> QED BY <2>1, BeginKeeps DEF Ops
<1>9. CASE StartTransfer(s, n)
  <2>1. i \in 0..MaxId /\ Begin(s, "transfer", "look", Null, n, i)
    BY <1>1, <1>2, <1>3, <1>9 DEF StartTransfer
  <2> QED BY <2>1, BeginKeeps DEF Ops
<1> QED BY <1>4, <1>5, <1>6, <1>8, <1>9

LEMMA CleanStarts ==
  ASSUME TelegramInv, UNCHANGED world, NEW s \in Slots, s \in world.slots, NEW u \in Users,
         StartClean(s, u)
  PROVE  TelegramInv'
BY BeginKeeps, TelegramNull DEF StartClean, Ops

LEMMA IdleRequest == Idle \in TelegramRow /\ RequestOK(Idle) /\ SerialOK(Idle) /\ Idle.pc = "idle"
<1>1. /\ Idle \in TelegramRow /\ Idle.pc = "idle" /\ Idle.good = {} /\ Idle.bad = {}
      /\ Idle.copy = <<>> /\ Idle.todo = <<>>
  BY EmptySeq, TelegramNull DEF Idle, TelegramRow, TelegramPlaces, Ops
<1>2. Range(Idle.copy) = {} /\ Range(Idle.todo) = {} /\ Len(Idle.copy) = 0
  BY <1>1, EmptySeq DEF Range
<1> QED BY <1>1, <1>2, TelegramNull DEF RequestOK, SerialOK, Adding

\* A request that ends without having done anything more.
LEMMA LeavingKeeps ==
  ASSUME TelegramInv, UNCHANGED <<world, address, lastId, list, owner, pushed, mine, lost>>,
         NEW s \in Slots, s \in world.slots, Leave(s),
         \A n \in Names : ~Unbinding(slot[s], n)
  PROVE  TelegramInv'
BY IdleRequest, LocalKeeps DEF Leave, Put

\* Stop: the request may have been at any place; but not one that has the system
\* to itself.
LEMMA StopKeeps ==
  ASSUME TelegramInv, UNCHANGED world, NEW s \in Slots, s \in world.slots, ~Serial, Stop(s)
  PROVE  TelegramInv'
<1>1. /\ slot' = [slot EXCEPT ![s] = Idle]
      /\ UNCHANGED <<address, lastId, list, owner, pushed, mine, lost>>
  BY DEF Stop, Leave, Put
<1>2. TablesOK' /\ lastId' >= lastId
  BY <1>1, AddressAssumption DEF TelegramInv, TablesOK
<1>3. RequestOK(Idle)'
  BY <1>1, IdleRequest DEF RequestOK, Idle
<1>4. PICK x : x = Idle
  OBVIOUS
<1>5. RequestOK(x)'
  BY <1>3, <1>4 DEF Idle
<1> QED BY <1>1, <1>2, <1>4, <1>5, StepKeeps

LEMMA LookUpKeeps ==
  ASSUME TelegramInv, UNCHANGED world, NEW s \in Slots, s \in world.slots, LookUp(s)
  PROVE  TelegramInv'
<1>1. PICK x \in TelegramRow : x = slot[s] /\ RequestOK(x) /\ (Serial => SerialOK(x))
  BY DEF TelegramInv, RequestOK
<1>2. x.pc = "look" /\ x.op \in {"delete", "transfer"} /\ x.name \in Names
  BY <1>1 DEF LookUp, At, RequestOK
<1>3. PICK u \in Users \cup {Null} : u = owner[x.name]
  BY <1>2 DEF TelegramInv, TablesOK
<1>4. PICK y : y = IF u = Null THEN [x EXCEPT !.pc = "drop"]
                   ELSE [x EXCEPT !.pc = "read", !.user = u]
  OBVIOUS
<1>5. /\ slot' = [slot EXCEPT ![s] = y]
      /\ UNCHANGED <<address, lastId, list, owner, pushed, mine, lost>>
  BY <1>1, <1>2, <1>3, <1>4 DEF LookUp, GoOn, Goto, Put
<1>6. /\ y \in TelegramRow /\ y.op = x.op /\ y.name = x.name /\ y.id = x.id /\ y.copy = x.copy
      /\ y.todo = x.todo /\ y.good = x.good /\ y.bad = x.bad
      /\ \/ y.pc = "drop" /\ owner[y.name] = Null
         \/ y.pc = "read" /\ y.user \in Users /\ owner[y.name] = y.user
  BY <1>1, <1>3, <1>4 DEF TelegramRow, TelegramPlaces
<1>7. RequestOK(y)
  BY <1>1, <1>2, <1>6 DEF RequestOK, Adding
<1>8. Serial => SerialOK(y)
  BY <1>1, <1>2, <1>6 DEF SerialOK, Adding
<1>9. \A n \in Names : ~Unbinding(slot[s], n)
  BY <1>1, <1>2 DEF Unbinding
<1> QED BY <1>5, <1>7, <1>8, <1>9, LocalKeeps

LEMMA GetOwnerKeeps ==
  ASSUME TelegramInv, UNCHANGED world, NEW s \in Slots, s \in world.slots, GetOwner(s)
  PROVE  TelegramInv'
<1>1. PICK x \in TelegramRow : x = slot[s] /\ RequestOK(x) /\ (Serial => SerialOK(x))
  BY DEF TelegramInv, RequestOK
<1>2. x.pc = "getOwner" /\ x.op \in {"unbind", "delete", "transfer"} /\ x.name \in Names
      /\ x.user \in Users
  BY <1>1 DEF GetOwner, At, RequestOK
<1>3. UNCHANGED <<address, lastId, list, owner, pushed, mine, lost>>
  BY DEF GetOwner
<1>4. CASE owner[x.name] = x.user
  <2>1. PICK y : y = [x EXCEPT !.pc = "dropOwner"]
    OBVIOUS
  <2>2. /\ y \in TelegramRow /\ y.op = x.op /\ y.name = x.name /\ y.id = x.id /\ y.copy = x.copy
        /\ y.todo = x.todo /\ y.good = x.good /\ y.bad = x.bad
        /\ y.user = x.user /\ y.pc = "dropOwner"
    BY <2>1 DEF TelegramRow, TelegramPlaces
  <2>3. slot' = [slot EXCEPT ![s] = y]
    BY <1>1, <1>4, <2>1 DEF GetOwner, Goto, Put
  <2>4. RequestOK(y)
    BY <1>1, <1>2, <2>2 DEF RequestOK, Adding
  <2>5. Serial => SerialOK(y)
    BY <1>1, <1>2, <1>4, <2>2 DEF SerialOK, Adding
  <2>6. \A n \in Names : Unbinding(slot[s], n) => Unbinding(y, n)
    BY <1>1, <2>2 DEF Unbinding
  <2> QED BY <1>3, <2>3, <2>4, <2>5, <2>6, LocalKeeps
<1>5. CASE owner[x.name] # x.user
  <2>1. \A n \in Names : ~Unbinding(slot[s], n)
    BY <1>1, <1>5 DEF Unbinding
  <2>2. CASE x.op = "unbind"
    BY <1>1, <1>3, <1>5, <2>1, <2>2, LeavingKeeps DEF GetOwner, GoOn
  <2>3. CASE x.op \in {"delete", "transfer"}
    <3>1. ~Serial
      BY <1>1, <1>2, <1>5, <2>3 DEF SerialOK
    <3>2. PICK y : y = [x EXCEPT !.pc = "drop"]
      OBVIOUS
    <3>3. /\ y \in TelegramRow /\ y.op = x.op /\ y.name = x.name /\ y.id = x.id /\ y.copy = x.copy
          /\ y.todo = x.todo /\ y.good = x.good /\ y.bad = x.bad
          /\ y.user = x.user /\ y.pc = "drop"
      BY <3>2 DEF TelegramRow, TelegramPlaces
    <3>4. slot' = [slot EXCEPT ![s] = y]
      BY <1>1, <1>5, <2>3, <3>2 DEF GetOwner, GoOn, Goto, Put
    <3>5. RequestOK(y)
      BY <1>1, <1>2, <2>3, <3>3 DEF RequestOK, Adding
    <3> QED BY <1>3, <2>1, <3>1, <3>4, <3>5, LocalKeeps
  <2> QED BY <1>2, <2>2, <2>3
<1> QED BY <1>4, <1>5

LEMMA TailOfList ==
  ASSUME NEW S, NEW q \in Seq(S), q # <<>>
  PROVE  Tail(q) \in Seq(S) /\ Head(q) \in S /\ Range(q) = {Head(q)} \cup Range(Tail(q))
<1>1. PICK t \in Seq(S) : t = Tail(q)
  BY HeadTailProperties
<1>2. /\ Head(q) \in S /\ Head(q) = q[1] /\ Len(q) \in Nat \ {0} /\ Len(t) = Len(q) - 1
      /\ \A i \in 1..Len(t) : t[i] = q[i + 1]
  BY <1>1, HeadTailProperties, EmptySeq, LenProperties
<1>3. DOMAIN q = 1..Len(q) /\ DOMAIN t = 1..(Len(q) - 1)
  BY <1>1, <1>2, LenProperties
<1>4. Range(t) = {q[i + 1] : i \in 1..(Len(q) - 1)}
  BY <1>2, <1>3 DEF Range
<1>5. Range(q) = {q[i] : i \in 1..Len(q)}
  BY <1>3 DEF Range
<1>6. \A i \in 2..Len(q) : q[i] \in Range(t)
  <2>1. TAKE i \in 2..Len(q)
  <2>2. PICK j : j = i - 1
    OBVIOUS
  <2>3. j \in 1..(Len(q) - 1) /\ j + 1 = i
    BY <1>2, <2>1, <2>2
  <2> QED BY <1>4, <2>3
<1>7. ASSUME NEW c \in Range(q) PROVE c \in {Head(q)} \cup Range(t)
  <2>1. PICK i \in 1..Len(q) : c = q[i]
    BY <1>5
  <2>2. i = 1 \/ i \in 2..Len(q)
    BY <1>2
  <2> QED BY <1>2, <1>6, <2>1, <2>2
<1>8. ASSUME NEW c \in {Head(q)} \cup Range(t) PROVE c \in Range(q)
  <2>1. CASE c = Head(q)
    BY <1>2, <1>5, <2>1
  <2>2. CASE c \in Range(t)
    <3>1. PICK i \in 1..(Len(q) - 1) : c = q[i + 1]
      BY <1>4, <2>2
    <3>2. i + 1 \in 1..Len(q)
      BY <1>2
    <3> QED BY <1>5, <3>1, <3>2
  <2> QED BY <2>1, <2>2
<1> QED BY <1>1, <1>2, <1>7, <1>8

\* What a request may rely on once it has verified the whole list.
Checked(x) ==
  /\ x \in TelegramRow /\ x.op \in {"bind", "unbind", "clean"} /\ x.user \in Users
  /\ x.op # "clean" => x.name \in Names
  /\ x.op = "bind" => x.id \in Ids /\ x.id <= lastId
  /\ Len(x.copy) <= MaxAddress /\ x.todo = <<>> /\ x.good \cup x.bad \subseteq Range(x.copy)
  /\ \A c \in Range(x.copy) : c.id <= lastId
  /\ Serial => /\ x.copy = list[x.user]
               /\ x.op = "bind" => Valid(x.name, x.id)
               /\ \A c \in x.good : Holds(c)
               /\ ~world.doubts => \A c \in x.bad : ~Holds(c)

\* A request that has verified its list.
LEMMA VerifiedKeeps ==
  ASSUME TelegramInv, UNCHANGED <<world, address, lastId, list, owner, pushed, mine, lost>>,
         NEW s \in Slots, s \in world.slots, NEW x, Checked(x), Put(s, Verified(x)),
         \A n \in Names : ~Unbinding(slot[s], n)
  PROVE  TelegramInv'
<1>1. CASE Verified(x) = Idle
  BY <1>1, LeavingKeeps DEF Leave
<1>2. ASSUME NEW place \in {"putList", "putOwner"}, Verified(x) = [x EXCEPT !.pc = place],
             place = "putList" => x.op = "clean" \/ (x.op = "bind" /\ Room(x)),
             place = "putOwner" => x.op = "bind" /\ Listed(x)
      PROVE  TelegramInv'
  <2>1. PICK y : y = [x EXCEPT !.pc = place]
    OBVIOUS
  <2>2. /\ y \in TelegramRow /\ y.op = x.op /\ y.name = x.name /\ y.id = x.id /\ y.copy = x.copy
        /\ y.todo = x.todo /\ y.good = x.good /\ y.bad = x.bad
        /\ y.user = x.user /\ y.pc = place
    BY <1>2, <2>1 DEF Checked, TelegramRow, TelegramPlaces
  <2>3. slot' = [slot EXCEPT ![s] = y]
    BY <1>2, <2>1 DEF Put
  <2>4. Range(y.todo) = {}
    BY <2>2, EmptySeq DEF Checked, Range
  <2>5. RequestOK(y)
    BY <1>2, <2>2, <2>4 DEF RequestOK, Adding, Checked, Room
  <2>6. Serial /\ place = "putOwner" => Bound(y.user, y.name)
    BY <1>2, <2>2 DEF Checked, Listed, Bound
  <2>7. Serial => SerialOK(y)
    BY <1>2, <2>2, <2>4, <2>6 DEF SerialOK, Adding, Checked
  <2> QED BY <2>3, <2>5, <2>7, LocalKeeps
<1>3. CASE x.op = "clean"
  BY <1>2, <1>3 DEF Verified
<1>4. CASE x.op = "unbind"
  BY <1>1, <1>4 DEF Verified
<1>5. CASE x.op = "bind"
  <2>1. CASE Listed(x)
    BY <1>2, <1>5, <2>1 DEF Verified
  <2>2. CASE ~Listed(x) /\ Room(x)
    BY <1>2, <1>5, <2>2 DEF Verified
  <2>3. CASE ~Listed(x) /\ ~Room(x)
    BY <1>1, <1>5, <2>3 DEF Verified
  <2> QED BY <2>1, <2>2, <2>3
<1> QED BY <1>3, <1>4, <1>5 DEF Checked

LEMMA ReadKeeps ==
  ASSUME TelegramInv, UNCHANGED world, NEW s \in Slots, s \in world.slots, Read(s)
  PROVE  TelegramInv'
<1>1. PICK z \in TelegramRow : z = slot[s] /\ RequestOK(z) /\ (Serial => SerialOK(z))
  BY DEF TelegramInv, RequestOK
<1>2. /\ z.pc = "read" /\ z.user \in Users /\ z.todo = <<>> /\ z.good = {} /\ z.bad = {}
      /\ z.op # "clean" => z.name \in Names
  BY <1>1 DEF Read, At, RequestOK
<1>3. UNCHANGED <<address, lastId, list, owner, pushed, mine, lost>>
  BY DEF Read
<1>4. \A n \in Names : ~Unbinding(slot[s], n)
  BY <1>1, <1>2 DEF Unbinding
<1>5. PICK l \in Seq(Credential) : /\ l = list[z.user] /\ Len(l) <= MaxAddress
                                  /\ \A c \in Range(l) : c.id <= lastId
  BY <1>2 DEF TelegramInv, TablesOK
<1>6. PICK x : x = [z EXCEPT !.copy = l]
  OBVIOUS
<1>7. /\ x \in TelegramRow /\ x.op = z.op /\ x.name = z.name /\ x.id = z.id /\ x.copy = l
      /\ x.todo = <<>> /\ x.good = {} /\ x.bad = {} /\ x.user = z.user /\ x.pc = "read"
  BY <1>2, <1>6 DEF TelegramRow
<1>8. Range(x.todo) = {}
  BY <1>7, EmptySeq DEF Range
<1>9. CASE z.op = "new"
  <2>1. CASE Room(x)
    <3>1. PICK y : y = [x EXCEPT !.pc = "create"]
      OBVIOUS
    <3>2. /\ y \in TelegramRow /\ y.op = x.op /\ y.name = x.name /\ y.id = x.id /\ y.copy = x.copy
          /\ y.todo = x.todo /\ y.good = x.good /\ y.bad = x.bad
          /\ y.user = x.user /\ y.pc = "create"
      BY <1>7, <3>1 DEF TelegramRow, TelegramPlaces
    <3>3. slot' = [slot EXCEPT ![s] = y]
      BY <1>1, <1>5, <1>6, <1>7, <1>9, <2>1, <3>1 DEF Read, Put
    <3>4. RequestOK(y)
      BY <1>1, <1>2, <1>5, <1>7, <1>8, <1>9, <2>1, <3>2 DEF RequestOK, Adding, Room
    <3>5. SerialOK(y)
      BY <1>5, <1>7, <1>9, <3>2 DEF SerialOK, Adding
    <3> QED BY <1>3, <1>4, <3>3, <3>4, <3>5, LocalKeeps
  <2>2. CASE ~Room(x)
    BY <1>1, <1>3, <1>4, <1>5, <1>6, <1>9, <2>2, LeavingKeeps DEF Read, Leave
  <2> QED BY <2>1, <2>2
<1>10. CASE z.op \in {"delete", "transfer"}
  <2>1. PICK y : y = [x EXCEPT !.pc = "putList"]
    OBVIOUS
  <2>2. /\ y \in TelegramRow /\ y.op = x.op /\ y.name = x.name /\ y.id = x.id /\ y.copy = x.copy
        /\ y.todo = x.todo /\ y.good = x.good /\ y.bad = x.bad
        /\ y.user = x.user /\ y.pc = "putList"
    BY <1>7, <2>1 DEF TelegramRow, TelegramPlaces
  <2>3. slot' = [slot EXCEPT ![s] = y]
    BY <1>1, <1>5, <1>6, <1>7, <1>10, <2>1 DEF Read, Put
  <2>4. RequestOK(y)
    BY <1>1, <1>2, <1>5, <1>7, <1>8, <1>10, <2>2 DEF RequestOK, Adding
  <2>5. Serial => SerialOK(y)
    BY <1>1, <1>2, <1>5, <1>7, <1>10, <2>2 DEF SerialOK, Adding
  <2> QED BY <1>3, <1>4, <2>3, <2>4, <2>5, LocalKeeps
<1>11. CASE z.op \in {"bind", "unbind", "clean"}
  <2>1. PICK todo : todo = IF x.op = "unbind" THEN Kept(l, Named(x.name)) ELSE l
    OBVIOUS
  <2>2. todo \in Seq(Credential) /\ Range(todo) \subseteq Range(l)
        /\ (x.op # "unbind" => todo = l)
    BY <1>5, <2>1, KeptFacts
  <2>3. Put(s, IF todo = <<>> THEN Verified(x) ELSE [x EXCEPT !.pc = "verify", !.todo = todo])
    BY <1>1, <1>5, <1>6, <1>7, <1>11, <2>1 DEF Read
  <2>4. z.op = "bind" => z.id \in Ids /\ z.id <= lastId
    BY <1>1, <1>2 DEF RequestOK
  <2>5. Serial /\ z.op = "bind" => Valid(z.name, z.id)
    BY <1>1, <1>2 DEF SerialOK
  <2>6. CASE todo = <<>>
    <3>1. Checked(x)
      BY <1>2, <1>5, <1>7, <1>11, <2>4, <2>5 DEF Checked
    <3>2. Put(s, Verified(x))
      BY <2>3, <2>6
    <3> QED BY <1>3, <1>4, <3>1, <3>2, VerifiedKeeps
  <2>7. CASE todo # <<>>
    <3>1. PICK y : y = [x EXCEPT !.pc = "verify", !.todo = todo]
      OBVIOUS
    <3>2. /\ y \in TelegramRow /\ y.op = x.op /\ y.name = x.name /\ y.id = x.id /\ y.copy = x.copy
          /\ y.todo = todo /\ y.good = x.good /\ y.bad = x.bad
          /\ y.user = x.user /\ y.pc = "verify"
      BY <1>7, <2>2, <3>1 DEF TelegramRow, TelegramPlaces
    <3>3. slot' = [slot EXCEPT ![s] = y]
      BY <2>3, <2>7, <3>1 DEF Put
    <3>4. RequestOK(y)
      BY <1>2, <1>5, <1>7, <1>11, <2>2, <2>4, <2>7, <3>2 DEF RequestOK, Adding
    <3>5. Serial => SerialOK(y)
      BY <1>5, <1>7, <1>11, <2>2, <2>5, <3>2 DEF SerialOK, Adding
    <3> QED BY <1>3, <1>4, <3>3, <3>4, <3>5, LocalKeeps
  <2> QED BY <2>6, <2>7
<1> QED BY <1>1, <1>9, <1>10, <1>11 DEF TelegramRow, Ops

LEMMA VerifyKeeps ==
  ASSUME TelegramInv, UNCHANGED world, NEW s \in Slots, s \in world.slots,
         Verify(s, world.doubts)
  PROVE  TelegramInv'
<1>1. PICK z \in TelegramRow : z = slot[s] /\ RequestOK(z) /\ (Serial => SerialOK(z))
  BY DEF TelegramInv, RequestOK
<1>2. /\ z.pc = "verify" /\ z.user \in Users /\ z.op \in {"bind", "unbind", "clean"}
      /\ z.op # "clean" => z.name \in Names
      /\ z.op = "bind" => z.id \in Ids /\ z.id <= lastId
      /\ z.todo \in Seq(Credential) /\ z.todo # <<>> /\ z.good \in SUBSET Credential
      /\ z.bad \in SUBSET Credential
  BY <1>1 DEF Verify, At, RequestOK, TelegramRow
<1>3. UNCHANGED <<address, lastId, list, owner, pushed, mine, lost>>
  BY DEF Verify
<1>4. \A n \in Names : ~Unbinding(slot[s], n)
  BY <1>1, <1>2 DEF Unbinding
<1>5. PICK c \in Credential, rest \in Seq(Credential) :
        c = Head(z.todo) /\ rest = Tail(z.todo) /\ Range(z.todo) = {c} \cup Range(rest)
  <2>1. PICK q \in Seq(Credential) : q = z.todo /\ q # <<>>
    BY <1>2
  <2>2. Tail(q) \in Seq(Credential) /\ Head(q) \in Credential
        /\ Range(q) = {Head(q)} \cup Range(Tail(q))
    BY <2>1, TailOfList
  <2> QED BY <2>1, <2>2
<1>6. PICK sound, isGood, x :
        /\ sound \in {TRUE} \cup {~world.doubts}
        /\ isGood = (sound /\ Holds(c))
        /\ x = [slot[s] EXCEPT !.todo = Tail(@), !.good = IF isGood THEN @ \cup {c} ELSE @,
                               !.bad = IF isGood THEN @ ELSE @ \cup {c}]
        /\ Put(s, IF x.op = "unbind" /\ isGood THEN [x EXCEPT !.pc = "putList", !.todo = <<>>]
                  ELSE IF x.todo = <<>> THEN Verified(x) ELSE x)
  BY <1>1, <1>5 DEF Verify
<1>7. PICK good, bad : /\ good = (IF isGood THEN z.good \cup {c} ELSE z.good)
                       /\ bad = (IF isGood THEN z.bad ELSE z.bad \cup {c})
  OBVIOUS
<1>8. /\ good \in SUBSET Credential /\ bad \in SUBSET Credential
      /\ good \cup bad \cup Range(rest) \subseteq Range(z.copy)
  BY <1>1, <1>2, <1>5, <1>7 DEF RequestOK
<1>9. /\ x.op = z.op /\ x.name = z.name /\ x.id = z.id /\ x.copy = z.copy
      /\ x.todo = rest /\ x.good = good /\ x.bad = bad /\ x.user = z.user /\ x.pc = "verify"
      /\ x \in TelegramRow
  <2>1. x = [z EXCEPT !.todo = rest, !.good = good, !.bad = bad]
    BY <1>1, <1>5, <1>6, <1>7
  <2> QED BY <1>2, <1>5, <1>8, <2>1 DEF TelegramRow
<1>10. Put(s, IF x.op = "unbind" /\ isGood THEN [x EXCEPT !.pc = "putList", !.todo = <<>>]
              ELSE IF x.todo = <<>> THEN Verified(x) ELSE x)
  BY <1>6
<1>11. Serial => /\ z.copy = list[z.user]
                 /\ z.op = "bind" => Valid(z.name, z.id)
                 /\ \A d \in good : Holds(d)
                 /\ ~world.doubts => \A d \in bad : ~Holds(d)
  BY <1>1, <1>2, <1>6, <1>7 DEF SerialOK
<1>12. CASE x.op = "unbind" /\ isGood
  <2>1. PICK y : y = [x EXCEPT !.pc = "putList", !.todo = <<>>]
    OBVIOUS
  <2>2. /\ y \in TelegramRow /\ y.op = x.op /\ y.name = x.name /\ y.id = x.id /\ y.copy = x.copy
        /\ y.todo = <<>> /\ y.good = x.good /\ y.bad = x.bad
        /\ y.user = x.user /\ y.pc = "putList"
    <3>1. <<>> \in Seq(Credential)
      BY EmptySeq
    <3> QED BY <1>9, <2>1, <3>1 DEF TelegramRow, TelegramPlaces
  <2>3. slot' = [slot EXCEPT ![s] = y]
    BY <1>10, <1>12, <2>1 DEF Put
  <2>4. Range(y.todo) = {}
    BY <2>2, EmptySeq DEF Range
  <2>5. RequestOK(y)
    BY <1>1, <1>2, <1>8, <1>9, <1>12, <2>2, <2>4 DEF RequestOK, Adding
  <2>6. Serial => SerialOK(y)
    BY <1>9, <1>11, <1>12, <2>2 DEF SerialOK, Adding
  <2> QED BY <1>3, <1>4, <2>3, <2>5, <2>6, LocalKeeps
<1>13. CASE ~(x.op = "unbind" /\ isGood) /\ x.todo = <<>>
  <2>1. Checked(x)
    BY <1>1, <1>2, <1>8, <1>9, <1>11, <1>13 DEF Checked, RequestOK
  <2>2. Put(s, Verified(x))
    BY <1>10, <1>13
  <2> QED BY <1>3, <1>4, <2>1, <2>2, VerifiedKeeps
<1>14. CASE ~(x.op = "unbind" /\ isGood) /\ x.todo # <<>>
  <2>1. slot' = [slot EXCEPT ![s] = x]
    BY <1>10, <1>14 DEF Put
  <2>2. RequestOK(x)
    BY <1>1, <1>2, <1>8, <1>9, <1>14 DEF RequestOK, Adding
  <2>3. Serial => SerialOK(x)
    BY <1>2, <1>9, <1>11 DEF SerialOK, Adding
  <2> QED BY <1>3, <1>4, <2>1, <2>2, <2>3, LocalKeeps
<1> QED BY <1>12, <1>13, <1>14

\* A new row leaves every credential as good or bad as it was.
LEMMA InsertStands ==
  ASSUME TablesOK, NEW n \in Names, address[n] = Null, InsertRow(n),
         UNCHANGED <<list, owner, pushed, mine, lost>>
  PROVE  /\ TablesOK' /\ lastId' = lastId + 1 /\ lastId' \in Ids /\ address'[n] = lastId'
         /\ \A c \in Credential : Holds(c) => Holds(c)'
         /\ \A c \in Credential : c.id <= lastId /\ Holds(c)' => Holds(c)
<1>1. /\ lastId \in 0..MaxId /\ MaxId \in Nat /\ lastId < MaxId /\ lastId' = lastId + 1
      /\ lastId' \in Ids /\ lastId' \in 0..MaxId
  BY TelegramNull DEF TablesOK, InsertRow, Ids
<1>2. /\ address' \in [Names -> Ids \cup {Null}] /\ address'[n] = lastId + 1
      /\ \A m \in Names \ {n} : address'[m] = address[m]
  BY <1>1 DEF TablesOK, InsertRow
<1>3. ASSUME NEW m \in Names, address'[m] # Null PROVE address'[m] <= lastId'
  <2>1. CASE m = n
    BY <1>1, <1>2, <2>1
  <2>2. CASE m # n
    <3>1. PICK i \in Ids : i = address[m] /\ i <= lastId
      BY <1>2, <1>3, <2>2 DEF TablesOK
    <3> QED BY <1>1, <1>2, <2>2, <3>1 DEF Ids
  <2> QED BY <2>1, <2>2
<1>4. ASSUME NEW u \in Users, NEW c \in Range(list[u]) PROVE c.id <= lastId'
  <2>1. c.id \in Ids /\ c.id <= lastId
    BY InList DEF TablesOK
  <2> QED BY <1>1, <2>1 DEF Ids
<1>5. TablesOK'
  BY <1>1, <1>2, <1>3, <1>4 DEF TablesOK
<1>6. ASSUME NEW c \in Credential, Holds(c) PROVE Holds(c)'
  <2>1. c.name \in Names /\ c.id # Null /\ address[c.name] = c.id
    BY <1>6 DEF Holds, Valid, Credential
  <2> QED BY <1>2, <2>1 DEF Holds, Valid
<1>7. ASSUME NEW c \in Credential, c.id <= lastId, Holds(c)' PROVE Holds(c)
  <2>1. c.name \in Names /\ c.id # Null /\ address'[c.name] = c.id
    BY <1>7 DEF Holds, Valid, Credential
  <2>2. c.name # n
    BY <1>1, <1>2, <1>7, <2>1
  <2> QED BY <1>2, <2>1, <2>2 DEF Holds, Valid
<1> QED BY <1>1, <1>2, <1>5, <1>6, <1>7

\* Unless the one request is unbinding it, an owner has the mailbox on his list.
LEMMA OwnersHold ==
  ASSUME TelegramInv, Serial, NEW s \in world.slots, NEW n \in Names, owner[n] # Null,
         ~Unbinding(slot[s], n)
  PROVE  Bound(owner[n], n)
<1>1. Bound(owner[n], n) \/ \E r \in Slots : Unbinding(slot[r], n)
  BY DEF TelegramInv, OwnersInv
<1>2. ASSUME NEW r \in Slots \ {s} PROVE ~Unbinding(slot[r], n)
  BY OthersRest DEF Unbinding
<1> QED BY <1>1, <1>2

\* Nor does anything but Telegram change that, if good credentials stay good.
LEMMA OwnersStand ==
  ASSUME TelegramInv, Serial, NEW s \in world.slots, UNCHANGED <<list, owner, lost>>,
         \A n \in Names : ~Unbinding(slot[s], n),
         \A c \in Credential : Holds(c) => Holds(c)'
  PROVE  OwnersInv'
<1>1. ASSUME NEW n \in Names, owner[n] # Null PROVE Bound(owner[n], n)'
  <2>1. owner[n] \in Users
    BY <1>1 DEF TelegramInv, TablesOK
  <2>2. PICK u \in Users : u = owner[n]
    BY <2>1
  <2>3. PICK c \in Range(list[u]) \cup lost[u] : c.name = n /\ Holds(c)
    BY <1>1, <2>2, OwnersHold DEF Bound
  <2>4. c \in Credential
    BY <2>3, InList DEF TelegramInv, TablesOK
  <2>5. Holds(c)'
    BY <2>3, <2>4
  <2> QED BY <2>2, <2>3, <2>5 DEF Bound
<1> QED BY <1>1 DEF OwnersInv

LEMMA CreateKeeps ==
  ASSUME TelegramInv, UNCHANGED world, NEW s \in Slots, s \in world.slots, Create(s)
  PROVE  TelegramInv'
<1>1. PICK x \in TelegramRow : x = slot[s] /\ RequestOK(x) /\ (Serial => SerialOK(x))
  BY DEF TelegramInv, RequestOK
<1>2. /\ x.pc = "create" /\ x.op = "new" /\ x.user \in Users /\ x.name \in Names
      /\ x.good = {} /\ x.bad = {} /\ x.todo = <<>>
  BY <1>1 DEF Create, At, RequestOK
<1>3. UNCHANGED <<list, owner, pushed, mine, lost>>
  BY DEF Create
<1>4. \A n \in Names : ~Unbinding(slot[s], n)
  BY <1>1, <1>2 DEF Unbinding
<1>5. CASE address[x.name] # Null
  BY <1>1, <1>3, <1>4, <1>5, LeavingKeeps DEF Create
<1>6. CASE address[x.name] = Null
  <2>1. PICK i : i = lastId + 1
    OBVIOUS
  <2>2. PICK y : y = [x EXCEPT !.pc = "putList", !.id = i]
    OBVIOUS
  <2>3. InsertRow(x.name) /\ slot' = [slot EXCEPT ![s] = y]
    BY <1>1, <1>6, <2>1, <2>2 DEF Create, Put
  <2>4. /\ TablesOK' /\ lastId' = i /\ i \in Ids /\ address'[x.name] = i
        /\ \A c \in Credential : Holds(c) => Holds(c)'
    BY <1>2, <1>3, <1>6, <2>1, <2>3, InsertStands DEF TelegramInv
  <2>5. /\ y.op = x.op /\ y.name = x.name /\ y.id = i /\ y.copy = x.copy
        /\ y.todo = x.todo /\ y.good = x.good /\ y.bad = x.bad
        /\ y.user = x.user /\ y.pc = "putList"
        /\ y \in TelegramRow
    <3>1. i \in 0..MaxId
      BY <2>4, TelegramNull DEF Ids
    <3> QED BY <2>2, <3>1 DEF TelegramRow, TelegramPlaces
  <2>6. lastId \in Nat /\ i \in Nat /\ lastId' >= lastId /\ i <= lastId'
    BY <2>1, <2>4, TelegramNull DEF TelegramInv, TablesOK
  <2>7. RequestOK(x)'
    BY <1>1, <2>4, <2>6, RequestStays
  <2>8. RequestOK(y)'
    BY <1>2, <2>4, <2>5, <2>6, <2>7 DEF RequestOK, Adding
  <2>9. ASSUME Serial PROVE SerialOK(y)' /\ OwnersInv' /\ PushInv' /\ MineInv'
    <3>1. Valid(y.name, y.id)'
      BY <2>4, <2>5, TelegramNull DEF Valid
    <3>2. SerialOK(y)'
      BY <1>1, <1>2, <1>3, <2>5, <2>9, <3>1 DEF SerialOK, Adding
    <3>3. OwnersInv'
      BY <1>3, <1>4, <2>4, <2>9, OwnersStand
    <3> QED BY <1>3, <2>9, <3>2, <3>3 DEF TelegramInv, PushInv, MineInv
  <2> QED BY <2>3, <2>4, <2>6, <2>8, <2>9, StepKeeps
<1> QED BY <1>5, <1>6

LEMMA IdleKeeps ==
  ASSUME TelegramInv, UNCHANGED world, NEW s \in Slots, s \in world.slots,
         Leave(s), TablesOK', lastId' >= lastId,
         Serial => OwnersInv' /\ PushInv' /\ MineInv'
  PROVE  TelegramInv'
<1>1. PICK x : x = Idle
  OBVIOUS
<1>2. RequestOK(x) /\ x.pc = "idle"
  BY <1>1, IdleRequest
<1>3. lastId \in Nat /\ lastId' \in Nat
  BY TelegramNull DEF TelegramInv, TablesOK
<1>4. RequestOK(x)' /\ SerialOK(x)'
  BY <1>2, <1>3, RequestStays, IdleRests
<1>5. slot' = [slot EXCEPT ![s] = x]
  BY <1>1 DEF Leave, Put
<1> QED BY <1>4, <1>5, StepKeeps

LEMMA PutOwnerKeeps ==
  ASSUME TelegramInv, UNCHANGED world, NEW s \in Slots, s \in world.slots, PutOwner(s)
  PROVE  TelegramInv'
<1>1. PICK x \in TelegramRow : x = slot[s] /\ RequestOK(x) /\ (Serial => SerialOK(x))
  BY DEF TelegramInv, RequestOK
<1>2. x.pc = "putOwner" /\ x.user \in Users /\ x.name \in Names
  BY <1>1 DEF PutOwner, At, RequestOK
<1>3. /\ owner' = [owner EXCEPT ![x.name] = x.user] /\ pushed' = [pushed EXCEPT ![x.name] = x.user]
      /\ Leave(s) /\ UNCHANGED <<address, lastId, list, mine, lost>>
  BY <1>1 DEF PutOwner
<1>4. TablesOK' /\ lastId' >= lastId
  BY <1>2, <1>3, TelegramNull DEF TelegramInv, TablesOK
<1>5. \A n \in Names : ~Unbinding(slot[s], n)
  BY <1>1, <1>2 DEF Unbinding
<1>6. /\ owner'[x.name] = x.user /\ pushed'[x.name] = x.user
      /\ \A n \in Names \ {x.name} : owner'[n] = owner[n] /\ pushed'[n] = pushed[n]
  BY <1>2, <1>3 DEF TelegramInv, TablesOK
<1>7. ASSUME Serial, NEW n \in Names, owner'[n] # Null PROVE Bound(owner[n], n)'
  <2>1. PICK u : u = owner'[n]
    OBVIOUS
  <2>2. Bound(u, n)
    <3>1. CASE n = x.name
      BY <1>1, <1>2, <1>6, <1>7, <2>1, <3>1 DEF SerialOK
    <3>2. CASE n # x.name
      BY <1>5, <1>6, <1>7, <2>1, <3>2, OwnersHold
    <3> QED BY <3>1, <3>2
  <2>3. Bound(u, n)'
    BY <1>3, <2>2 DEF Bound, Holds, Valid
  <2> QED BY <2>1, <2>3
<1>8. Serial => OwnersInv'
  BY <1>7 DEF OwnersInv
<1>9. Serial => PushInv' /\ MineInv'
  BY <1>3, <1>6 DEF TelegramInv, PushInv, MineInv
<1> QED BY <1>3, <1>4, <1>8, <1>9, IdleKeeps

LEMMA DropOwnerKeeps ==
  ASSUME TelegramInv, UNCHANGED world, NEW s \in Slots, s \in world.slots, DropOwner(s)
  PROVE  TelegramInv'
<1>1. PICK x \in TelegramRow : x = slot[s] /\ RequestOK(x) /\ (Serial => SerialOK(x))
  BY DEF TelegramInv, RequestOK
<1>2. /\ x.pc = "dropOwner" /\ x.op \in {"unbind", "delete", "transfer"} /\ x.name \in Names
      /\ x.user \in Users /\ x.todo = <<>>
  BY <1>1 DEF DropOwner, At, RequestOK
<1>3. PICK p : p = IF pushed[x.name] = x.user THEN Null ELSE pushed[x.name]
  OBVIOUS
<1>4. /\ owner' = [owner EXCEPT ![x.name] = Null] /\ pushed' = [pushed EXCEPT ![x.name] = p]
      /\ GoOn(s) /\ UNCHANGED <<address, lastId, list, mine, lost>>
  BY <1>1, <1>3 DEF DropOwner
<1>5. p \in Users \cup {Null}
  BY <1>2, <1>3 DEF TelegramInv, TablesOK
<1>6. TablesOK' /\ lastId' >= lastId
  BY <1>2, <1>4, <1>5, TelegramNull DEF TelegramInv, TablesOK
<1>7. /\ owner'[x.name] = Null /\ pushed'[x.name] = p
      /\ \A n \in Names \ {x.name} : owner'[n] = owner[n] /\ pushed'[n] = pushed[n]
  BY <1>2, <1>4 DEF TelegramInv, TablesOK
<1>8. ASSUME Serial, NEW n \in Names, owner'[n] # Null PROVE Bound(owner[n], n)'
  <2>1. PICK u : u = owner[n]
    OBVIOUS
  <2>2. n # x.name /\ u = owner'[n] /\ ~Unbinding(slot[s], n)
    BY <1>1, <1>7, <1>8, <2>1 DEF Unbinding
  <2>3. Bound(u, n)
    BY <1>7, <1>8, <2>1, <2>2, OwnersHold
  <2>4. Bound(u, n)'
    BY <1>4, <2>3 DEF Bound, Holds, Valid
  <2> QED BY <2>2, <2>4
<1>9. Serial => OwnersInv'
  BY <1>8 DEF OwnersInv
<1>10. ASSUME Serial PROVE PushInv' /\ MineInv'
  <2>1. owner[x.name] = x.user /\ PushInv /\ MineInv
    BY <1>1, <1>2, <1>10 DEF SerialOK, TelegramInv
  <2>2. p = Null
    BY <1>2, <1>3, <2>1 DEF PushInv
  <2> QED BY <1>4, <1>7, <2>1, <2>2 DEF PushInv, MineInv
<1>11. CASE x.op = "unbind"
  <2>1. Leave(s)
    BY <1>1, <1>4, <1>11 DEF GoOn
  <2> QED BY <1>6, <1>9, <1>10, <2>1, IdleKeeps
<1>12. CASE x.op \in {"delete", "transfer"}
  <2>1. PICK y : y = [x EXCEPT !.pc = "drop"]
    OBVIOUS
  <2>2. /\ y.op = x.op /\ y.name = x.name /\ y.id = x.id /\ y.copy = x.copy
        /\ y.todo = x.todo /\ y.good = x.good /\ y.bad = x.bad
        /\ y.user = x.user /\ y.pc = "drop"
        /\ y \in TelegramRow
    BY <2>1 DEF TelegramRow, TelegramPlaces
  <2>3. slot' = [slot EXCEPT ![s] = y]
    BY <1>1, <1>4, <1>12, <2>1 DEF GoOn, Goto, Put
  <2>4. RequestOK(y)'
    BY <1>1, <1>2, <1>4, <1>12, <2>2 DEF RequestOK, Adding
  <2>5. x.good = {} /\ x.bad = {}
    BY <1>1, <1>12 DEF RequestOK
  <2>6. SerialOK(y)'
    BY <1>7, <1>12, <2>2, <2>5 DEF SerialOK, Adding
  <2> QED BY <1>6, <1>9, <1>10, <2>3, <2>4, <2>6, StepKeeps
<1> QED BY <1>2, <1>11, <1>12

LEMMA DropKeeps ==
  ASSUME TelegramInv, UNCHANGED world, NEW s \in Slots, s \in world.slots, Drop(s)
  PROVE  TelegramInv'
<1>1. PICK x \in TelegramRow : x = slot[s] /\ RequestOK(x) /\ (Serial => SerialOK(x))
  BY DEF TelegramInv, RequestOK
<1>2. /\ x.pc = "drop" /\ x.op \in {"delete", "transfer"} /\ x.name \in Names
      /\ x.good = {} /\ x.bad = {} /\ x.todo = <<>>
  BY <1>1 DEF Drop, At, RequestOK
<1>3. UNCHANGED <<lastId, list, owner, pushed, mine, lost>>
  BY DEF Drop
<1>4. PICK names \in SUBSET {x.name} : DeleteRows(names)
  BY <1>1 DEF Drop
<1>5. /\ address' \in [Names -> Ids \cup {Null}]
      /\ \A n \in Names : address'[n] \in {Null, address[n]}
      /\ \A n \in Names \ {x.name} : address'[n] = address[n]
  BY <1>4 DEF DeleteRows, TelegramInv, TablesOK
<1>6. TablesOK' /\ lastId' >= lastId
  BY <1>3, <1>5, TelegramNull DEF TelegramInv, TablesOK
<1>7. ASSUME Serial, NEW n \in Names, owner'[n] # Null PROVE Bound(owner[n], n)'
  <2>1. PICK u : u = owner[n]
    OBVIOUS
  <2>2. owner[x.name] = Null
    BY <1>1, <1>2, <1>7 DEF SerialOK
  <2>3. n # x.name /\ u = owner'[n] /\ ~Unbinding(slot[s], n)
    BY <1>1, <1>2, <1>3, <1>7, <2>1, <2>2 DEF Unbinding
  <2>4. Bound(u, n)
    BY <1>3, <1>7, <2>1, <2>3, OwnersHold
  <2>5. Bound(u, n)'
    BY <1>3, <1>5, <2>3, <2>4 DEF Bound, Holds, Valid
  <2> QED BY <2>3, <2>5
<1>8. Serial => OwnersInv'
  BY <1>7 DEF OwnersInv
<1>9. Serial => PushInv' /\ MineInv'
  BY <1>3 DEF TelegramInv, PushInv, MineInv
<1>10. CASE x.op = "transfer"
  <2>1. PICK y : y = [x EXCEPT !.pc = "insert"]
    OBVIOUS
  <2>2. /\ y.op = x.op /\ y.name = x.name /\ y.id = x.id /\ y.copy = x.copy
        /\ y.todo = x.todo /\ y.good = x.good /\ y.bad = x.bad
        /\ y.user = x.user /\ y.pc = "insert"
        /\ y \in TelegramRow
    BY <2>1 DEF TelegramRow, TelegramPlaces
  <2>3. slot' = [slot EXCEPT ![s] = y]
    BY <1>1, <1>10, <2>1 DEF Drop, Goto, Put
  <2>4. RequestOK(y)'
    BY <1>1, <1>2, <1>3, <1>10, <2>2 DEF RequestOK, Adding
  <2>5. Serial => SerialOK(y)'
    BY <1>1, <1>2, <1>3, <1>10, <2>2 DEF SerialOK, Adding
  <2> QED BY <1>6, <1>8, <1>9, <2>3, <2>4, <2>5, StepKeeps
<1>11. CASE x.op # "transfer"
  <2>1. Leave(s)
    BY <1>1, <1>11 DEF Drop
  <2> QED BY <1>6, <1>8, <1>9, <2>1, IdleKeeps
<1> QED BY <1>10, <1>11

LEMMA InsertKeeps ==
  ASSUME TelegramInv, UNCHANGED world, NEW s \in Slots, s \in world.slots, Insert(s)
  PROVE  TelegramInv'
<1>1. PICK x \in TelegramRow : x = slot[s] /\ RequestOK(x)
  BY DEF TelegramInv, RequestOK
<1>2. x.pc = "insert" /\ x.op \in {"delete", "transfer"} /\ x.name \in Names
  BY <1>1 DEF Insert, At, RequestOK
<1>3. UNCHANGED <<list, owner, pushed, mine, lost>> /\ Leave(s)
  BY DEF Insert
<1>4. \A n \in Names : ~Unbinding(slot[s], n)
  BY <1>1, <1>2 DEF Unbinding
<1>5. CASE address[x.name] # Null
  BY <1>1, <1>3, <1>4, <1>5, LeavingKeeps DEF Insert
<1>6. CASE address[x.name] = Null
  <2>1. InsertRow(x.name)
    BY <1>1, <1>6 DEF Insert
  <2>2. TablesOK' /\ lastId' = lastId + 1 /\ \A c \in Credential : Holds(c) => Holds(c)'
    BY <1>2, <1>3, <1>6, <2>1, InsertStands DEF TelegramInv
  <2>3. lastId' >= lastId
    BY <2>2, TelegramNull DEF TelegramInv, TablesOK
  <2>4. Serial => OwnersInv'
    BY <1>3, <1>4, <2>2, OwnersStand
  <2>5. Serial => PushInv' /\ MineInv'
    BY <1>3 DEF TelegramInv, PushInv, MineInv
  <2> QED BY <1>3, <2>2, <2>3, <2>4, <2>5, IdleKeeps
<1> QED BY <1>5, <1>6

\* A list has been written back: the new entries are a request's own and those
\* of its copy.
LEMMA ListStands ==
  ASSUME TablesOK, NEW u \in Users, NEW l \in Seq(Credential), Len(l) <= MaxAddress,
         \A c \in Range(l) : c.id <= lastId, list' = [list EXCEPT ![u] = l],
         NEW S \in SUBSET Credential, mine' = [mine EXCEPT ![u] = S],
         NEW L \in SUBSET Credential, lost' = [lost EXCEPT ![u] = L],
         UNCHANGED <<address, lastId, owner, pushed>>
  PROVE  /\ TablesOK' /\ lastId' >= lastId /\ list'[u] = l /\ mine'[u] = S /\ lost'[u] = L
         /\ \A v \in Users \ {u} : list'[v] = list[v] /\ mine'[v] = mine[v] /\ lost'[v] = lost[v]
<1>1. /\ list' \in [Users -> Seq(Credential)] /\ mine' \in [Users -> SUBSET Credential]
      /\ lost' \in [Users -> SUBSET Credential]
      /\ list'[u] = l /\ mine'[u] = S /\ lost'[u] = L
      /\ \A v \in Users \ {u} : list'[v] = list[v] /\ mine'[v] = mine[v] /\ lost'[v] = lost[v]
  BY DEF TablesOK
<1>2. ASSUME NEW v \in Users
      PROVE  Len(list'[v]) <= MaxAddress /\ \A c \in Range(list'[v]) : c.id <= lastId
  <2>1. CASE v = u
    BY <1>1, <2>1
  <2>2. CASE v # u
    BY <1>1, <2>2 DEF TablesOK
  <2> QED BY <2>1, <2>2
<1>3. TablesOK' /\ lastId' >= lastId
  BY <1>1, <1>2, TelegramNull DEF TablesOK
<1> QED BY <1>1, <1>3

LEMMA PutListAdds ==
  ASSUME TelegramInv, UNCHANGED world, NEW s \in Slots, s \in world.slots, PutList(s),
         slot[s].op \in {"new", "bind"}
  PROVE  TelegramInv'
<1>1. PICK x \in TelegramRow : x = slot[s] /\ RequestOK(x) /\ (Serial => SerialOK(x))
  BY DEF TelegramInv, RequestOK
<1>2. /\ x.pc = "putList" /\ x.op \in {"new", "bind"} /\ x.name \in Names /\ x.user \in Users
      /\ x.id \in Ids /\ x.id <= lastId /\ Len(x.copy) < MaxAddress /\ x.todo = <<>>
      /\ x.copy \in Seq(Credential)
  BY <1>1 DEF PutList, At, RequestOK, Adding, TelegramRow
<1>3. PICK own \in Credential : own = Own(s) /\ own = [name |-> x.name, id |-> x.id]
  BY <1>1, <1>2 DEF Own, Credential
<1>4. PICK l \in Seq(Credential) : /\ l = Append(x.copy, own) /\ Len(l) = Len(x.copy) + 1
                                  /\ Range(l) = Range(x.copy) \cup {own}
  <2>1. Append(x.copy, own) \in Seq(Credential) /\ Len(Append(x.copy, own)) = Len(x.copy) + 1
    BY <1>2, AppendProperties
  <2>2. Range(Append(x.copy, own)) = Range(x.copy) \cup {own}
    BY <1>2, RangeOfAppend
  <2> QED BY <2>1, <2>2
<1>5. PICK S, L : S = mine[x.user] \cup {own} /\ L = lost[x.user] \ {own}
  OBVIOUS
<1>6. PICK y : y = [x EXCEPT !.pc = "putOwner"]
  OBVIOUS
<1>7. /\ list' = [list EXCEPT ![x.user] = l] /\ mine' = [mine EXCEPT ![x.user] = S]
      /\ lost' = [lost EXCEPT ![x.user] = L]
      /\ slot' = [slot EXCEPT ![s] = y] /\ UNCHANGED <<address, lastId, owner, pushed>>
  BY <1>1, <1>2, <1>3, <1>4, <1>5, <1>6 DEF PutList, Goto, Put
<1>8. S \in SUBSET Credential /\ L \in SUBSET Credential
  BY <1>2, <1>5 DEF TelegramInv, TablesOK
<1>9. Len(l) <= MaxAddress
  BY <1>2, <1>4, TelegramNull, LenProperties
<1>10. \A c \in Range(l) : c.id <= lastId
  BY <1>1, <1>2, <1>3, <1>4 DEF RequestOK
<1>11. /\ TablesOK' /\ lastId' >= lastId /\ list'[x.user] = l /\ mine'[x.user] = S
       /\ lost'[x.user] = L
       /\ \A v \in Users \ {x.user} : list'[v] = list[v] /\ mine'[v] = mine[v] /\ lost'[v] = lost[v]
  <2>1. TablesOK
    BY DEF TelegramInv
  <2>2. PICK u \in Users : u = x.user
    BY <1>2
  <2>3. /\ list' = [list EXCEPT ![u] = l] /\ mine' = [mine EXCEPT ![u] = S]
        /\ lost' = [lost EXCEPT ![u] = L] /\ UNCHANGED <<address, lastId, owner, pushed>>
        /\ S \in SUBSET Credential /\ L \in SUBSET Credential
    BY <1>7, <1>8, <1>9, <1>10, <2>2
  <2> HIDE DEF TelegramInv
  <2>4. /\ TablesOK' /\ lastId' >= lastId /\ list'[u] = l /\ mine'[u] = S /\ lost'[u] = L
        /\ \A v \in Users \ {u} : list'[v] = list[v] /\ mine'[v] = mine[v] /\ lost'[v] = lost[v]
    BY <1>9, <1>10, <2>1, <2>3, ListStands
  <2> QED BY <2>2, <2>4
<1>12. /\ y.op = x.op /\ y.name = x.name /\ y.id = x.id /\ y.copy = x.copy
       /\ y.todo = x.todo /\ y.good = x.good /\ y.bad = x.bad
       /\ y.user = x.user /\ y.pc = "putOwner"
       /\ y \in TelegramRow
  BY <1>6 DEF TelegramRow, TelegramPlaces
<1>13. RequestOK(y)'
  BY <1>1, <1>2, <1>7, <1>12 DEF RequestOK, Adding
<1>14. ASSUME Serial PROVE SerialOK(y)' /\ OwnersInv' /\ PushInv' /\ MineInv'
  <2>1. /\ x.copy = list[x.user] /\ Valid(x.name, x.id)
        /\ \A c \in x.good : Holds(c)
        /\ ~world.doubts => \A c \in x.bad : ~Holds(c)
    BY <1>1, <1>2, <1>14 DEF SerialOK, Adding
  <2>2. Range(list'[x.user]) = Range(list[x.user]) \cup {own}
    BY <1>4, <1>11, <2>1
  <2>3. own \in Range(list'[x.user]) /\ own.name = x.name /\ Holds(own)'
    BY <1>3, <1>7, <2>1, <2>2 DEF Holds, Valid
  <2>4. PICK u \in Users, n \in Names : u = x.user /\ n = x.name
    BY <1>2
  <2>5. Bound(u, n)'
    BY <2>3, <2>4 DEF Bound
  <2>6. Bound(y.user, y.name)'
    BY <1>12, <2>4, <2>5
  <2>7. SerialOK(y)'
    BY <1>2, <1>7, <1>12, <2>1, <2>6 DEF SerialOK, Adding, Holds, Valid
  <2>8. ASSUME NEW n1 \in Names, owner'[n1] # Null PROVE Bound(owner[n1], n1)'
    <3>1. ~Unbinding(slot[s], n1)
      BY <1>1, <1>2 DEF Unbinding
    <3>2. PICK v \in Users : v = owner[n1]
      BY <1>7, <2>8 DEF TelegramInv, TablesOK
    <3>3. Bound(v, n1)
      BY <1>7, <1>14, <2>8, <3>1, <3>2, OwnersHold
    <3>4. Range(list[v]) \cup lost[v] \subseteq Range(list'[v]) \cup lost'[v]
      BY <1>5, <1>11, <2>2
    <3>5. Bound(v, n1)'
      BY <1>7, <3>3, <3>4 DEF Bound, Holds, Valid
    <3> QED BY <1>7, <3>2, <3>5
  <2>9. OwnersInv'
    BY <2>8 DEF OwnersInv
  <2>10. ASSUME NEW v \in Users
         PROVE  mine'[v] \subseteq Range(list'[v]) \cup lost'[v] /\ (world.doubts \/ lost'[v] = {})
    <3>1. mine[v] \subseteq Range(list[v]) \cup lost[v] /\ (world.doubts \/ lost[v] = {})
      BY <1>14 DEF TelegramInv, MineInv
    <3> QED BY <1>5, <1>11, <2>2, <3>1
  <2>11. PushInv'
    BY <1>7, <1>14 DEF TelegramInv, PushInv
  <2> QED BY <2>7, <2>9, <2>10, <2>11 DEF MineInv
<1> QED BY <1>7, <1>11, <1>13, <1>14, StepKeeps

LEMMA PutListCleans ==
  ASSUME TelegramInv, UNCHANGED world, NEW s \in Slots, s \in world.slots, PutList(s),
         slot[s].op = "clean"
  PROVE  TelegramInv'
<1>1. PICK x \in TelegramRow : x = slot[s] /\ RequestOK(x) /\ (Serial => SerialOK(x))
  BY DEF TelegramInv, RequestOK
<1>2. /\ x.pc = "putList" /\ x.op = "clean" /\ x.user \in Users /\ x.copy \in Seq(Credential)
      /\ Len(x.copy) <= MaxAddress
  BY <1>1 DEF PutList, At, RequestOK, TelegramRow
<1>3. PICK l \in Seq(Credential) : /\ l = Kept(x.copy, Credential \ x.bad) /\ Len(l) <= Len(x.copy)
                                  /\ Range(l) = Range(x.copy) \cap (Credential \ x.bad)
  BY <1>2, KeptFacts
<1>4. PICK S, L : /\ S = {c \in mine[x.user] : Holds(c)}
                  /\ L = {c \in lost[x.user] \cup x.bad : Holds(c)}
  OBVIOUS
<1>5. /\ list' = [list EXCEPT ![x.user] = l] /\ mine' = [mine EXCEPT ![x.user] = S]
      /\ lost' = [lost EXCEPT ![x.user] = L]
      /\ Leave(s) /\ UNCHANGED <<address, lastId, owner, pushed>>
  BY <1>1, <1>2, <1>3, <1>4 DEF PutList
<1>6. S \in SUBSET Credential /\ L \in SUBSET Credential
  BY <1>1, <1>2, <1>4 DEF TelegramInv, TablesOK, TelegramRow
<1>7. Len(l) <= MaxAddress
  BY <1>2, <1>3, TelegramNull, LenProperties
<1>8. \A c \in Range(l) : c.id <= lastId
  BY <1>1, <1>3 DEF RequestOK
<1>9. /\ TablesOK' /\ lastId' >= lastId /\ list'[x.user] = l /\ mine'[x.user] = S
       /\ lost'[x.user] = L
      /\ \A v \in Users \ {x.user} : list'[v] = list[v] /\ mine'[v] = mine[v] /\ lost'[v] = lost[v]
  <2>1. TablesOK
    BY DEF TelegramInv
  <2>2. PICK u \in Users : u = x.user
    BY <1>2
  <2>3. /\ list' = [list EXCEPT ![u] = l] /\ mine' = [mine EXCEPT ![u] = S]
        /\ lost' = [lost EXCEPT ![u] = L] /\ UNCHANGED <<address, lastId, owner, pushed>>
        /\ S \in SUBSET Credential /\ L \in SUBSET Credential
    BY <1>5, <1>6, <2>2
  <2> QED BY <1>7, <1>8, <2>1, <2>2, <2>3, ListStands
<1>10. ASSUME Serial PROVE OwnersInv' /\ PushInv' /\ MineInv'
  <2>1. \A c \in Range(list[x.user]) \cup lost[x.user] :
          Holds(c) => c \in Range(list'[x.user]) \cup lost'[x.user]
    <3>1. x.copy = list[x.user] /\ \A c \in Range(x.copy) : c \in Credential
      BY <1>1, <1>2, <1>10, InList DEF SerialOK
    <3> QED BY <1>3, <1>4, <1>9, <3>1
  <2>2. ASSUME NEW n \in Names, owner'[n] # Null PROVE Bound(owner[n], n)'
    <3>1. ~Unbinding(slot[s], n)
      BY <1>1, <1>2 DEF Unbinding
    <3>2. PICK v \in Users : v = owner[n]
      BY <1>5, <2>2 DEF TelegramInv, TablesOK
    <3>3. PICK c \in Range(list[v]) \cup lost[v] : c.name = n /\ Holds(c)
      BY <1>5, <1>10, <2>2, <3>1, <3>2, OwnersHold DEF Bound
    <3>4. c \in Range(list'[v]) \cup lost'[v] /\ Holds(c)'
      BY <1>5, <1>9, <2>1, <3>3 DEF Holds, Valid
    <3>5. Bound(v, n)'
      BY <3>3, <3>4 DEF Bound
    <3> QED BY <1>5, <3>2, <3>5
  <2>3. ASSUME NEW v \in Users
        PROVE  mine'[v] \subseteq Range(list'[v]) \cup lost'[v] /\ (world.doubts \/ lost'[v] = {})
    <3>1. mine[v] \subseteq Range(list[v]) \cup lost[v] /\ (world.doubts \/ lost[v] = {})
      BY <1>10 DEF TelegramInv, MineInv
    <3>2. ~world.doubts => \A c \in x.bad : ~Holds(c)
      BY <1>1, <1>2, <1>10 DEF SerialOK
    <3>3. CASE v = x.user
      BY <1>4, <1>9, <2>1, <3>1, <3>2, <3>3
    <3>4. CASE v # x.user
      BY <1>9, <3>1, <3>4
    <3> QED BY <3>3, <3>4
  <2> QED BY <1>5, <1>10, <2>2, <2>3 DEF OwnersInv, TelegramInv, PushInv, MineInv
<1> QED BY <1>5, <1>9, <1>10, IdleKeeps

LEMMA PutListUnbinds ==
  ASSUME TelegramInv, UNCHANGED world, NEW s \in Slots, s \in world.slots, PutList(s),
         slot[s].op \in {"unbind", "delete", "transfer"}
  PROVE  TelegramInv'
<1>1. PICK x \in TelegramRow : x = slot[s] /\ RequestOK(x) /\ (Serial => SerialOK(x))
  BY DEF TelegramInv, RequestOK
<1>2. /\ x.pc = "putList" /\ x.op \in {"unbind", "delete", "transfer"} /\ x.name \in Names
      /\ x.user \in Users /\ x.copy \in Seq(Credential) /\ Len(x.copy) <= MaxAddress
      /\ x.todo = <<>>
  BY <1>1 DEF PutList, At, RequestOK, TelegramRow
<1>3. PICK l \in Seq(Credential) :
        /\ l = Without(x.copy, x.name) /\ Len(l) <= Len(x.copy)
        /\ Range(l) = Range(x.copy) \cap (Credential \ Named(x.name))
  BY <1>2, KeptFacts DEF Without
<1>4. PICK S, L : S = mine[x.user] \ Named(x.name) /\ L = lost[x.user] \ Named(x.name)
  OBVIOUS
<1>5. PICK y : y = [x EXCEPT !.pc = "getOwner"]
  OBVIOUS
<1>6. /\ list' = [list EXCEPT ![x.user] = l] /\ mine' = [mine EXCEPT ![x.user] = S]
      /\ lost' = [lost EXCEPT ![x.user] = L]
      /\ slot' = [slot EXCEPT ![s] = y] /\ UNCHANGED <<address, lastId, owner, pushed>>
  BY <1>1, <1>2, <1>3, <1>4, <1>5 DEF PutList, Goto, Put
<1>7. S \in SUBSET Credential /\ L \in SUBSET Credential
  BY <1>2, <1>4 DEF TelegramInv, TablesOK
<1>8. Len(l) <= MaxAddress
  BY <1>2, <1>3, TelegramNull, LenProperties
<1>9. \A c \in Range(l) : c.id <= lastId
  BY <1>1, <1>3 DEF RequestOK
<1>10. /\ TablesOK' /\ lastId' >= lastId /\ list'[x.user] = l /\ mine'[x.user] = S
       /\ lost'[x.user] = L
       /\ \A v \in Users \ {x.user} : list'[v] = list[v] /\ mine'[v] = mine[v] /\ lost'[v] = lost[v]
  <2>1. TablesOK
    BY DEF TelegramInv
  <2>2. PICK u \in Users : u = x.user
    BY <1>2
  <2>3. /\ list' = [list EXCEPT ![u] = l] /\ mine' = [mine EXCEPT ![u] = S]
        /\ lost' = [lost EXCEPT ![u] = L] /\ UNCHANGED <<address, lastId, owner, pushed>>
        /\ S \in SUBSET Credential /\ L \in SUBSET Credential
    BY <1>6, <1>7, <1>8, <1>9, <2>2
  <2> HIDE DEF TelegramInv
  <2>4. /\ TablesOK' /\ lastId' >= lastId /\ list'[u] = l /\ mine'[u] = S /\ lost'[u] = L
        /\ \A v \in Users \ {u} : list'[v] = list[v] /\ mine'[v] = mine[v] /\ lost'[v] = lost[v]
    BY <1>8, <1>9, <2>1, <2>3, ListStands
  <2> QED BY <2>2, <2>4
<1>11. /\ y.op = x.op /\ y.name = x.name /\ y.id = x.id /\ y.copy = x.copy
       /\ y.todo = x.todo /\ y.good = x.good /\ y.bad = x.bad
       /\ y.user = x.user /\ y.pc = "getOwner"
       /\ y \in TelegramRow
  BY <1>5 DEF TelegramRow, TelegramPlaces
<1>12. RequestOK(y)'
  BY <1>1, <1>2, <1>6, <1>11 DEF RequestOK, Adding
<1>13. ASSUME Serial PROVE SerialOK(y)' /\ OwnersInv' /\ PushInv' /\ MineInv'
  <2>1. /\ x.copy = list[x.user] /\ (x.op # "unbind" => owner[x.name] = x.user)
        /\ \A c \in x.good : Holds(c)
        /\ ~world.doubts => \A c \in x.bad : ~Holds(c)
    BY <1>1, <1>2, <1>13 DEF SerialOK
  <2>2. SerialOK(y)'
    <3>1. \A c : Holds(c)' <=> Holds(c)
      BY <1>6 DEF Holds, Valid
    <3>2. y.good = x.good /\ y.bad = x.bad
      BY <1>11
    <3>3. (\A c \in y.good : Holds(c)') /\ (~world.doubts => \A c \in y.bad : ~Holds(c)')
      BY <2>1, <3>1, <3>2
    <3> QED BY <1>2, <1>6, <1>11, <2>1, <3>3 DEF SerialOK, Adding
  <2>3. \A c \in Range(list[x.user]) \cup lost[x.user] :
          c.name # x.name => c \in Range(list'[x.user]) \cup lost'[x.user]
    <3>1. \A c \in Range(x.copy) : c \in Credential
      BY <1>2, InList
    <3> QED BY <1>3, <1>4, <1>10, <2>1, <3>1 DEF Named
  <2>4. ASSUME NEW n \in Names, owner'[n] # Null
        PROVE  Bound(owner[n], n)' \/ Unbinding(slot[s], n)'
    <3>1. ~Unbinding(slot[s], n)
      BY <1>1, <1>2 DEF Unbinding
    <3>2. PICK v \in Users : v = owner[n]
      BY <1>6, <2>4 DEF TelegramInv, TablesOK
    <3>3. PICK c \in Range(list[v]) \cup lost[v] : c.name = n /\ Holds(c)
      BY <1>6, <1>13, <2>4, <3>1, <3>2, OwnersHold DEF Bound
    <3>4. CASE n = x.name /\ v = x.user
      <4>1. Unbinding(y, n)'
        BY <1>6, <1>11, <3>2, <3>4 DEF Unbinding
      <4>2. slot'[s] = y
        BY <1>6 DEF TelegramInv
      <4> QED BY <4>1, <4>2 DEF Unbinding
    <3>5. CASE ~(n = x.name /\ v = x.user)
      <4>1. c \in Range(list'[v]) \cup lost'[v] /\ Holds(c)'
        BY <1>6, <1>10, <2>3, <3>3, <3>5 DEF Holds, Valid
      <4>2. Bound(v, n)'
        BY <3>3, <4>1 DEF Bound
      <4> QED BY <1>6, <3>2, <4>2
    <3> QED BY <3>4, <3>5
  <2>5. OwnersInv'
    BY <2>4 DEF OwnersInv
  <2>6. ASSUME NEW v \in Users
        PROVE  mine'[v] \subseteq Range(list'[v]) \cup lost'[v] /\ (world.doubts \/ lost'[v] = {})
    <3>1. mine[v] \subseteq Range(list[v]) \cup lost[v] /\ (world.doubts \/ lost[v] = {})
      BY <1>13 DEF TelegramInv, MineInv
    <3>2. \A c \in mine[v] : c \in Credential
      BY DEF TelegramInv, TablesOK
    <3>3. CASE v = x.user
      BY <1>4, <1>10, <2>3, <3>1, <3>2, <3>3 DEF Named
    <3>4. CASE v # x.user
      BY <1>10, <3>1, <3>4
    <3> QED BY <3>3, <3>4
  <2>7. PushInv'
    BY <1>6, <1>13 DEF TelegramInv, PushInv
  <2> QED BY <2>2, <2>5, <2>6, <2>7 DEF MineInv
<1> QED BY <1>6, <1>10, <1>12, <1>13, StepKeeps

LEMMA PutListKeeps ==
  ASSUME TelegramInv, UNCHANGED world, NEW s \in Slots, s \in world.slots, PutList(s)
  PROVE  TelegramInv'
<1>1. slot[s].op \in Ops
  BY DEF TelegramInv, RequestOK, TelegramRow
<1> QED BY <1>1, PutListAdds, PutListCleans, PutListUnbinds DEF Ops

\* Something else than a request has changed the mailboxes.
LEMMA CreateAddressKeeps ==
  ASSUME TelegramInv, UNCHANGED world, NEW n \in Names, CreateAddress(n)
  PROVE  TelegramInv'
<1>1. UNCHANGED <<list, owner, slot, pushed, mine, lost>>
  BY DEF CreateAddress
<1>2. /\ TablesOK' /\ lastId' = lastId + 1
      /\ \A c \in Credential : Holds(c) => Holds(c)'
      /\ \A c \in Credential : c.id <= lastId /\ Holds(c)' => Holds(c)
  BY InsertStands DEF CreateAddress, TelegramInv
<1>3. lastId \in Nat /\ lastId' \in Nat /\ lastId' >= lastId
  BY <1>2, TelegramNull DEF TelegramInv, TablesOK
<1>4. ASSUME NEW s \in Slots
      PROVE  RequestOK(slot[s])' /\ (s \notin world.slots => slot'[s].pc = "idle")
  <2>1. PICK y : y = slot[s] /\ RequestOK(y) /\ (s \notin world.slots => y.pc = "idle")
    BY DEF TelegramInv
  <2>2. RequestOK(y)' /\ y = slot'[s]
    BY <1>1, <1>3, <2>1, RequestStays
  <2> QED BY <2>1, <2>2
<1>5. ASSUME NEW u, NEW m, u \in Users, Bound(u, m) PROVE Bound(u, m)'
  <2>1. PICK c \in Range(list[u]) \cup lost[u] : c.name = m /\ Holds(c)
    BY <1>5 DEF Bound
  <2>2. c \in Credential
    BY <1>5, <2>1, InList DEF TelegramInv, TablesOK
  <2>3. Holds(c)'
    BY <1>2, <2>1, <2>2
  <2> QED BY <1>1, <2>1, <2>3 DEF Bound
<1>6. ASSUME Serial, NEW s \in Slots PROVE SerialOK(slot[s])'
  <2>1. PICK x \in TelegramRow : x = slot[s] /\ x = slot'[s] /\ RequestOK(x) /\ SerialOK(x)
    BY <1>1, <1>6 DEF TelegramInv, RequestOK
  <2>2. \A c \in Range(x.copy) : c \in Credential /\ c.id <= lastId
    BY <2>1, InList DEF RequestOK, TelegramRow
  <2>3. \A c \in Range(x.copy) : Holds(c)' <=> Holds(c)
    BY <1>2, <2>2
  <2>4. x.good \cup x.bad \subseteq Range(x.copy)
    BY <2>1 DEF RequestOK
  <2>5. (x.pc # "idle" /\ x.op = "bind") \/ Adding(x) => Valid(x.name, x.id)'
    <3>1. SUFFICES ASSUME (x.pc # "idle" /\ x.op = "bind") \/ Adding(x) PROVE Valid(x.name, x.id)'
      OBVIOUS
    <3>2. x.name \in Names /\ x.id \in Ids /\ Valid(x.name, x.id)
      BY <2>1, <3>1 DEF SerialOK, RequestOK, Adding
    <3>3. PICK c \in Credential : c.name = x.name /\ c.id = x.id
      <4>1. [name |-> x.name, id |-> x.id] \in Credential
        BY <3>2 DEF Credential
      <4> QED BY <4>1
    <3>4. Holds(c)
      BY <3>2, <3>3 DEF Holds
    <3>5. Holds(c)'
      BY <1>2, <3>4
    <3> QED BY <3>3, <3>5 DEF Holds
  <2>6. x.pc = "putOwner" => Bound(x.user, x.name)'
    <3>1. x.pc = "putOwner" => x.user \in Users /\ Bound(x.user, x.name)
      BY <2>1 DEF SerialOK, RequestOK
    <3>2. PICK u, m : u = x.user /\ m = x.name
      OBVIOUS
    <3>3. x.pc = "putOwner" => Bound(u, m)'
      BY <1>5, <3>1, <3>2
    <3> QED BY <3>2, <3>3
  <2>7. SerialOK(x)'
    BY <1>1, <2>1, <2>3, <2>4, <2>5, <2>6 DEF SerialOK, Adding
  <2> QED BY <2>1, <2>7
<1>7. ASSUME Serial, NEW m \in Names, owner[m] # Null
      PROVE  Bound(owner[m], m)' \/ \E s \in Slots : Unbinding(slot[s], m)'
  <2>1. PICK u \in Users : u = owner[m]
    BY <1>7 DEF TelegramInv, TablesOK
  <2>2. CASE Bound(u, m)
    <3>1. Bound(u, m)'
      BY <1>5, <2>2
    <3> QED BY <1>1, <2>1, <3>1
  <2>3. CASE \E s \in Slots : Unbinding(slot[s], m)
    BY <1>1, <2>3 DEF Unbinding
  <2> QED BY <1>7, <2>1, <2>2, <2>3 DEF TelegramInv, OwnersInv
<1>8. Serial => OwnersInv' /\ PushInv' /\ MineInv'
  BY <1>1, <1>7 DEF OwnersInv, PushInv, MineInv, TelegramInv
<1>9. (Serial' <=> Serial) /\ slot' = [s \in Slots |-> slot'[s]] /\ world' = world
  BY <1>1 DEF Serial, TelegramInv
<1> QED BY <1>2, <1>4, <1>6, <1>8, <1>9 DEF TelegramInv

LEMMA RemoveAddressKeeps ==
  ASSUME TelegramInv, UNCHANGED world, ~Serial, NEW n \in Names, RemoveAddress(n)
  PROVE  TelegramInv'
<1>1. UNCHANGED <<lastId, list, owner, slot, pushed, mine, lost>> /\ DeleteRows({n})
  BY DEF RemoveAddress
<1>2. address' \in [Names -> Ids \cup {Null}] /\ \A m \in Names : address'[m] \in {Null, address[m]}
  BY <1>1 DEF DeleteRows, TelegramInv, TablesOK
<1>3. TablesOK'
  BY <1>1, <1>2 DEF TelegramInv, TablesOK
<1>4. \A s \in Slots : RequestOK(slot[s])' /\ (s \notin world'.slots => slot'[s].pc = "idle")
  BY <1>1 DEF TelegramInv, RequestOK, Adding
<1>5. ~Serial' /\ slot' = [s \in Slots |-> slot'[s]]
  BY <1>1 DEF Serial, TelegramInv
<1> QED BY <1>3, <1>4, <1>5 DEF TelegramInv

LEMMA TelegramRests ==
  ASSUME TelegramInv, UNCHANGED <<world, telegramVars>>
  PROVE  TelegramInv'
<1>1. UNCHANGED <<world, address, lastId, list, owner, slot, pushed, mine, lost>>
  BY DEF telegramVars
<1>2. TablesOK' /\ slot' = [s \in Slots |-> slot'[s]] /\ (Serial' <=> Serial)
  BY <1>1 DEF TelegramInv, TablesOK, Serial
<1>3. ASSUME NEW s \in Slots
      PROVE  RequestOK(slot[s])' /\ (s \notin world'.slots => slot'[s].pc = "idle")
             /\ (Serial => SerialOK(slot[s])')
  <2>1. RequestOK(slot[s])'
    BY <1>1 DEF TelegramInv, RequestOK, Adding
  <2>2. Serial => SerialOK(slot[s])'
    BY <1>1 DEF TelegramInv, SerialOK, Adding, Bound, Holds, Valid
  <2> QED BY <1>1, <2>1, <2>2 DEF TelegramInv
<1>4. ASSUME Serial PROVE OwnersInv' /\ PushInv' /\ MineInv'
  <2>1. OwnersInv'
    BY <1>1, <1>4 DEF TelegramInv, OwnersInv, Unbinding, Bound, Holds, Valid
  <2> QED BY <1>1, <1>4, <2>1 DEF TelegramInv, PushInv, MineInv
<1> QED BY <1>2, <1>3, <1>4 DEF TelegramInv

LEMMA TelegramInitHolds == TelegramInit => TelegramInv
<1> SUFFICES ASSUME TelegramInit PROVE TelegramInv
  OBVIOUS
<1>1. /\ lastId = 0 /\ address = [n \in Names |-> Null] /\ list = [u \in Users |-> <<>>]
      /\ owner = [n \in Names |-> Null] /\ slot = [s \in Slots |-> Idle]
      /\ pushed = [n \in Names |-> Null] /\ mine = [u \in Users |-> {}]
      /\ lost = [u \in Users |-> {}]
  BY DEF TelegramInit, AddressInit
<1>2. <<>> \in Seq(Credential) /\ Len(<<>>) = 0 /\ Range(<<>>) = {}
  BY EmptySeq DEF Range
<1>3. TablesOK
  BY <1>1, <1>2, TelegramNull DEF TablesOK
<1>4. PICK x : x = Idle /\ RequestOK(x) /\ SerialOK(x) /\ x.pc = "idle"
  BY IdleRequest
<1>5. \A s \in Slots : slot[s] = x
  BY <1>1, <1>4
<1>6. OwnersInv /\ PushInv /\ MineInv
  BY <1>1, <1>2 DEF OwnersInv, PushInv, MineInv
<1>7. slot = [s \in Slots |-> slot[s]]
  BY <1>1
<1> QED BY <1>3, <1>4, <1>5, <1>6, <1>7 DEF TelegramInv

LEMMA RequestKeeps ==
  ASSUME TelegramInv, UNCHANGED world, NEW s \in Slots, s \in world.slots,
         world.users \subseteq Users, Request(s, world.users, world.stops, world.doubts)
  PROVE  TelegramInv'
<1>1. ASSUME NEW u \in world.users, NEW n \in Names,
             StartNew(s, u, n) \/ StartBind(s, u, n) \/ StartUnbind(s, u, n)
      PROVE  TelegramInv'
  BY <1>1, StartsKeep
<1>2. ASSUME NEW u \in world.users, StartClean(s, u) PROVE TelegramInv'
  BY <1>2, CleanStarts
<1>3. ASSUME NEW n \in Names, StartDelete(s, n) \/ StartTransfer(s, n) PROVE TelegramInv'
  BY <1>3, StartsKeep
<1>4. CASE world.stops /\ Stop(s)
  BY <1>4, StopKeeps DEF Serial
<1> QED BY <1>1, <1>2, <1>3, <1>4, ReadKeeps, VerifyKeeps, CreateKeeps, PutListKeeps,
           PutOwnerKeeps, LookUpKeeps, GetOwnerKeeps, DropOwnerKeeps, DropKeeps, InsertKeeps
        DEF Request

\* A step of the Telegram bot, or of those who make and delete mailboxes.
LEMMA TelegramKeeps ==
  ASSUME TelegramInv, UNCHANGED world, world.users \subseteq Users, world.slots \subseteq Slots,
         Telegram
  PROVE  TelegramInv'
<1>1. CASE Elsewhere(world.removals)
  <2>1. PICK n \in Names : CreateAddress(n) \/ (world.removals /\ RemoveAddress(n))
    BY <1>1 DEF Elsewhere
  <2>2. world.removals => ~Serial
    BY DEF Serial
  <2> QED BY <2>1, <2>2, CreateAddressKeeps, RemoveAddressKeeps
<1>2. ASSUME NEW s \in world.slots, Request(s, world.users, world.stops, world.doubts) PROVE TelegramInv'
  BY <1>2, RequestKeeps
<1> QED BY <1>1, <1>2 DEF Telegram

TelegramIInv == world \in Worlds /\ TelegramInv

LEMMA TelegramNextHolds == TelegramIInv /\ [Next]_vars => TelegramIInv'
<1> SUFFICES ASSUME TelegramIInv, [Next]_vars PROVE TelegramIInv'
  OBVIOUS
<1>1. world \in Worlds /\ TelegramInv /\ world.users \subseteq Users /\ world.slots \subseteq Slots
  BY BackgroundAssumption DEF TelegramIInv
<1>2. CASE Telegram /\ UNCHANGED world
  BY <1>1, <1>2, TelegramKeeps DEF TelegramIInv
<1>3. CASE UNCHANGED <<world, telegramVars>>
  BY <1>1, <1>3, TelegramRests DEF TelegramIInv
<1> QED BY <1>2, <1>3 DEF Next, vars

\* The inductive invariant of the bot: what each request knows at each of its
\* calls, and, of requests that do not overlap, that the copy it will write back
\* is still the list (worker/src/telegram_api/common.ts).
THEOREM TelegramHolds == Spec => []TelegramIInv
<1>1. Init => TelegramIInv
  BY TelegramInitHolds DEF Init, TelegramIInv
<1> QED BY <1>1, TelegramNextHolds, PTL DEF Spec

\* However many requests overlap, and wherever a worker stops, no user's list
\* grows beyond the maximum: the copy that was compared with it is the one that is
\* written (worker/src/telegram_api/common.ts tgUserNewAddress, bindTelegramAddress).
THEOREM TelegramLimitHolds == Spec => []LimitHolds
<1>1. TelegramIInv => LimitHolds
  BY DEF TelegramIInv, TelegramInv, TablesOK, LimitHolds
<1> QED BY <1>1, TelegramHolds, PTL

\* Requests one after the other keep the two entries of a binding in step: who is
\* pushed a mailbox's mails has it on his list, unless a cleanup could not check
\* his credential and dropped it, which leaves the owner
\* (worker/src/telegram_api/common.ts jwtListToAddressData, removeTelegramBinding).
THEOREM TelegramOwnerIsListed == Spec => []OwnerIsListed
<1>1. TelegramIInv => OwnerIsListed
  <2> SUFFICES ASSUME TelegramIInv, Serial, Settled, NEW n \in Names, owner[n] # Null
               PROVE  \E c \in Range(list[owner[n]]) \cup lost[owner[n]] : c.name = n
    BY DEF OwnerIsListed
  <2>1. \A s \in Slots : ~Unbinding(slot[s], n)
    BY DEF Settled, At, Unbinding
  <2> QED BY <2>1 DEF TelegramIInv, TelegramInv, OwnersInv, Bound
<1> QED BY <1>1, TelegramHolds, PTL

\* Requests one after the other: the last user who bound a mailbox is pushed its
\* mails until he unbinds it (worker/src/telegram_api/common.ts).
THEOREM TelegramPushFollowsBinding == Spec => []PushFollowsBinding
<1>1. TelegramIInv => PushFollowsBinding
  BY DEF TelegramIInv, TelegramInv, PushInv, PushFollowsBinding
<1> QED BY <1>1, TelegramHolds, PTL

\* Requests one after the other: what a user bound and did not unbind is on his
\* list, but for what /cleaninvalidaddress found gone or could not check; and
\* while no check fails it drops nothing that is good
\* (worker/src/telegram_api/common.ts, telegram.ts).
THEOREM TelegramBoundIsListed == Spec => []BoundIsListed
<1>1. TelegramIInv => BoundIsListed
  BY DEF TelegramIInv, TelegramInv, MineInv, BoundIsListed
<1> QED BY <1>1, TelegramHolds, PTL
=============================================================================
