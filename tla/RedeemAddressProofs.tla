------------------------ MODULE RedeemAddressProofs ------------------------
(***************************************************************************)
(* For every number of requests, codes, names and ids, and every world:    *)
(* requests that succeed with one code answer with one mailbox, a mailbox  *)
(* goes to one code, none stays behind or is taken back, and the handler   *)
(* implements the ledger.                                                  *)
(***************************************************************************)
EXTENDS RedeemAddress, SharedLemmas

RequestState ==
  [pc : {"start", "create", "select", "claim", "reply", "undo", "undoThrow", "reread", "replay",
         "done"},
   code : Codes \cup {Null}, value : Values \cup {Null}, seen : Mailbox \cup {Null},
   name : Names \cup {Null}, id : Ids \cup {Null}, reply : {"none", "ok", "refused", "lost"},
   given : Mailbox \cup {Null}]

Grant == [code : Codes, value : Values, to : Ids, by : Requests]

TypeOK ==
  /\ world \in Worlds
  /\ codes \in [Codes -> CodeRow(Mailbox)]
  /\ rows \in [Ids -> Names \cup {Null}]
  /\ nextId \in Nat
  /\ req \in [Requests -> RequestState]
  /\ grants \subseteq Grant
  /\ maker \in [Ids -> Requests \cup {Null}]
  /\ broken \subseteq Requests

\* Has inserted a mailbox and answers for it; knows its id.
Making == {"select", "claim", "reply", "undo", "undoThrow"}
Holding == {"claim", "reply", "undo", "undoThrow"}

Granted(c, i) == \E g \in grants : g.code = c /\ g.to = i

\* What request r has learned by now is set.
Locals(x) ==
  /\ x.pc \notin {"start", "done"} => x.code \in Codes
  /\ x.pc \in {"create", "select", "claim"} => x.value \in Values
  /\ x.pc \in Making => x.name \in Names
  /\ x.pc \in Holding => x.id \in Ids
  /\ x.reply # "none" => x.pc = "done"
  /\ x.reply = "ok" => x.given \in Mailbox

\* What it answered, or is about to answer, a code was claimed for; its own
\* claim is over once it has one.
Answers(r, x) ==
  /\ x.pc = "replay" /\ x.seen # Null => Granted(x.code, x.seen.id)
  /\ x.pc = "reply" => Granted(x.code, x.id)
  /\ x.reply = "ok" => Granted(x.code, x.given.id)
  /\ \A g \in grants :
       g.by = r => x.pc \in {"reply", "done"} \/ (x.pc = "undoThrow" /\ world.lostAcks)

\* The mailbox it made: as long as the row is there it is the one the request
\* knows, and it is claimed or the request will delete it.
OwnRow(r, x) ==
  /\ x.pc \in {"start", "create"} => \A i \in Ids : maker[i] # r
  /\ \A i \in Ids : maker[i] = r /\ rows[i] # Null =>
       /\ x.pc \in Making => rows[i] = x.name
       /\ x.pc \in Holding => i = x.id
       /\ \/ \E g \in grants : g.to = i
          \/ x.pc \in {"select", "claim", "undo", "undoThrow"}
          \/ x.reply = "lost" \/ r \in broken

\* Where nobody deletes a mailbox in the making, the request holds its own.
HoldsOwn(r, x) ==
  ~world.inFlightDeletes =>
    /\ x.pc = "select" => \E i \in Ids : maker[i] = r /\ rows[i] = x.name
    /\ x.pc \in Holding => maker[x.id] = r

RequestInv(r, x) == Locals(x) /\ Answers(r, x) /\ OwnRow(r, x) /\ HoldsOwn(r, x)

\* Ids are not used twice, names are unique.
RowsInv ==
  /\ \A i \in Ids : i >= nextId => rows[i] = Null /\ maker[i] = Null
  /\ \A i, j \in Ids : rows[i] = rows[j] /\ rows[i] # Null => i = j

\* A stored result is a mailbox the code was claimed for.
ResultsInv ==
  \A c \in Codes :
    IF codes[c].redeemed
      THEN codes[c].result \in Mailbox /\ Granted(c, codes[c].result.id)
      ELSE codes[c].result = Null

\* A request claims once, and for the mailbox it made.
GrantsInv ==
  /\ \A g, h \in grants : g.by = h.by => g = h
  /\ ~world.inFlightDeletes => \A g \in grants : maker[g.to] = g.by

\* The inductive invariant: the properties speak of grants and rows, and need
\* what every request under way knows of both.
IInv ==
  /\ TypeOK
  /\ TableShape
  /\ RowsInv
  /\ ResultsInv
  /\ GrantsInv
  /\ \A r \in Requests : RequestInv(r, req[r])

LEMMA NullIsNothing ==
  /\ Null \notin Codes /\ Null \notin Names /\ Null \notin Requests
  /\ Null \notin Nat /\ Null \notin Mailbox /\ Null \notin Ids /\ Null \notin Values
<1>1. Ids \subseteq Nat
  BY AddressAssumption DEF Ids
<1>2. Mailbox \subseteq [id : Nat, name : Names]
  BY <1>1 DEF Mailbox
<1> QED BY <1>1, <1>2, AddressAssumption, NullAssumption

LEMMA InitIInv == Init => IInv
<1> SUFFICES ASSUME Init PROVE IInv
  OBVIOUS
<1> USE DEF Init
<1>1. Idle \in RequestState
  BY DEF Idle, RequestState
<1>2. codes \in [Codes -> CodeRow(Mailbox)]
  BY DEF CodesInit, CodeRow, NoRow
<1>3. TypeOK
  BY <1>1, <1>2 DEF TypeOK
<1>4. TableShape /\ ResultsInv
  BY DEF TableShape, ResultsInv, CodesInit, NoRow
<1>5. RowsInv /\ GrantsInv
  BY DEF RowsInv, GrantsInv
<1>6. ASSUME NEW r \in Requests PROVE RequestInv(r, Idle)
  BY NullIsNothing DEF RequestInv, Locals, Answers, OwnRow, HoldsOwn, Idle, Making, Holding
<1> QED BY <1>3, <1>4, <1>5, <1>6 DEF IInv

\* What others may do to the tables and a request stays right: they take rows
\* away, not one it selects where that is excluded, and add new ones.
LEMMA OthersStand ==
  ASSUME TypeOK, NEW q \in Requests, NEW x \in RequestState, RequestInv(q, x), world' = world,
         grants \subseteq grants', \A g \in grants' : g \in grants \/ g.by # q,
         broken \subseteq broken',
         \A i \in Ids : maker'[i] = maker[i] \/ (maker[i] = Null /\ maker'[i] # q),
         \A i \in Ids : maker[i] = q => rows'[i] \in {rows[i], Null},
         ~world.inFlightDeletes /\ x.pc = "select" =>
           \A i \in Ids : maker[i] = q => rows'[i] = rows[i]
  PROVE  RequestInv(q, x)'
<1>1. \A c, i : Granted(c, i) => Granted(c, i)'
  BY DEF Granted
<1>2. Locals(x)'
  BY DEF RequestInv, Locals
<1>3. Answers(q, x)'
  BY <1>1 DEF RequestInv, Answers
<1>4. OwnRow(q, x)'
  <2>1. \A i \in Ids : maker'[i] = q => maker[i] = q
    OBVIOUS
  <2>2. \A i \in Ids : maker'[i] = q /\ rows'[i] # Null => rows'[i] = rows[i]
    BY <2>1
  <2> QED BY <2>1, <2>2 DEF RequestInv, OwnRow
<1>5. HoldsOwn(q, x)'
  BY NullIsNothing DEF RequestInv, HoldsOwn, Locals
<1> QED BY <1>2, <1>3, <1>4, <1>5 DEF RequestInv

\* A step of a request that leaves the tables alone.
LEMMA QuietMove ==
  ASSUME IInv, NEW r \in Requests, NEW x \in RequestState, req' = [req EXCEPT ![r] = x],
         UNCHANGED <<world, codes, rows, nextId, grants, maker>>,
         broken \subseteq broken', broken' \subseteq Requests,
         Locals(x), Answers(r, x), OwnRow(r, x)', HoldsOwn(r, x)
  PROVE  IInv'
<1>1. req'[r] = x /\ \A q \in Requests \ {r} : req'[q] = req[q]
  BY DEF IInv, TypeOK
<1>2. TypeOK' /\ TableShape' /\ RowsInv' /\ ResultsInv' /\ GrantsInv'
  BY DEF IInv, TypeOK, TableShape, RowsInv, ResultsInv, GrantsInv, Granted
<1>3. RequestInv(r, x)'
  BY DEF RequestInv, Locals, Answers, HoldsOwn, Granted
<1>4. ASSUME NEW q \in Requests, q # r PROVE RequestInv(q, req[q])'
  <2>1. TypeOK /\ RequestInv(q, req[q]) /\ req[q] \in RequestState
    BY DEF IInv, TypeOK
  <2>2. ASSUME NEW z \in RequestState, RequestInv(q, z) PROVE RequestInv(q, z)'
    <3>1. TypeOK /\ world' = world /\ grants' = grants /\ maker' = maker /\ rows' = rows
      BY <2>1
    <3>2. \A g \in grants' : g \in grants \/ g.by # q
      BY <3>1
    <3>3. \A i \in Ids : maker'[i] = maker[i] \/ (maker[i] = Null /\ maker'[i] # q)
      BY <3>1
    <3>4. \A i \in Ids : maker[i] = q => rows'[i] \in {rows[i], Null}
      BY <3>1
    <3>5. ~world.inFlightDeletes /\ z.pc = "select" =>
           \A i \in Ids : maker[i] = q => rows'[i] = rows[i]
      BY <3>1
    <3>6. grants \subseteq grants' /\ broken \subseteq broken'
      BY <3>1
    <3> QED BY <2>2, <3>1, <3>2, <3>3, <3>4, <3>5, <3>6, OthersStand
  <2>3. req'[q] = req[q]
    BY <1>1, <1>4
  <2> QED BY <2>1, <2>2, <2>3
<1>5. \A q \in Requests : RequestInv(q, req[q])'
  <2>2. RequestInv(r, req[r])'
    BY <1>1, <1>3
  <2> QED BY <1>4, <2>2
<1> QED BY <1>2, <1>5 DEF IInv

\* A request's new state after moving on and after its end.
LEMMA RequestFields ==
  ASSUME TypeOK, NEW r \in Requests, NEW label \in {"reply", "undo", "undoThrow", "reread"},
         NEW answer \in {"ok", "refused", "lost"}, NEW box \in Mailbox \cup {Null}
  PROVE  /\ \E x \in RequestState :
              /\ Goto(r, label) = [req EXCEPT ![r] = x] /\ x.pc = label
              /\ x.code = req[r].code /\ x.value = req[r].value /\ x.seen = req[r].seen
              /\ x.name = req[r].name /\ x.id = req[r].id /\ x.reply = req[r].reply
              /\ x.given = req[r].given
         /\ \E x \in RequestState :
              /\ Finish(r, answer, box) = [req EXCEPT ![r] = x] /\ x.pc = "done"
              /\ x.code = req[r].code /\ x.value = req[r].value
              /\ x.name = req[r].name /\ x.id = req[r].id /\ x.reply = answer /\ x.given = box
<1>0. req[r] \in RequestState
  BY DEF TypeOK
<1>1. LET x == [req[r] EXCEPT !.pc = label]
      IN  /\ x \in RequestState
          /\ Goto(r, label) = [req EXCEPT ![r] = x] /\ x.pc = label
          /\ x.code = req[r].code /\ x.value = req[r].value /\ x.seen = req[r].seen
          /\ x.name = req[r].name /\ x.id = req[r].id /\ x.reply = req[r].reply
          /\ x.given = req[r].given
  BY <1>0 DEF Goto, RequestState
<1>2. LET x == [req[r] EXCEPT !.pc = "done", !.reply = answer, !.given = box]
      IN  /\ x \in RequestState
          /\ Finish(r, answer, box) = [req EXCEPT ![r] = x] /\ x.pc = "done"
          /\ x.code = req[r].code /\ x.value = req[r].value
          /\ x.name = req[r].name /\ x.id = req[r].id /\ x.reply = answer /\ x.given = box
  BY <1>0 DEF Finish, RequestState
<1> QED BY <1>1, <1>2

\* A request ends, with the mailbox of a grant or without one; it may end at any
\* place once its row is accounted for.
LEMMA EndMove ==
  ASSUME IInv, NEW r \in Requests, NEW answer \in {"ok", "refused", "lost"},
         NEW box \in Mailbox \cup {Null}, req' = Finish(r, answer, box),
         UNCHANGED <<world, codes, rows, nextId, grants, maker, broken>>,
         answer = "ok" => box \in Mailbox /\ Granted(req[r].code, box.id),
         answer = "lost" \/ req[r].pc \in {"start", "create", "reply", "reread", "replay"}
  PROVE  IInv'
<1>1. PICK x \in RequestState :
        /\ Finish(r, answer, box) = [req EXCEPT ![r] = x] /\ x.pc = "done"
        /\ x.code = req[r].code /\ x.reply = answer /\ x.given = box
  BY RequestFields DEF IInv
<1>2. Locals(x) /\ Answers(r, x) /\ HoldsOwn(r, x)
  BY <1>1 DEF Locals, Answers, HoldsOwn, Holding, Making
<1>3. OwnRow(r, x)'
  <2>1. RequestInv(r, req[r])
    BY DEF IInv
  <2> QED BY <1>1, <2>1 DEF RequestInv, Locals, OwnRow, Holding, Making
<1> QED BY <1>1, <1>2, <1>3, QuietMove DEF IInv, TypeOK

\* Back to the code, without a mailbox or with one an error left behind.
LEMMA RereadMove ==
  ASSUME IInv, NEW r \in Requests, req' = Goto(r, "reread"),
         UNCHANGED <<world, codes, rows, nextId, grants, maker>>,
         broken \subseteq broken', broken' \subseteq Requests,
         req[r].pc \notin {"start", "done", "reply", "undo", "undoThrow"},
         (\A i \in Ids : maker[i] # r \/ rows[i] = Null) \/ r \in broken'
  PROVE  IInv'
<1>1. PICK x \in RequestState :
        /\ Goto(r, "reread") = [req EXCEPT ![r] = x] /\ x.pc = "reread"
        /\ x.code = req[r].code /\ x.reply = req[r].reply
  BY RequestFields DEF IInv
<1>2. RequestInv(r, req[r])
  BY DEF IInv
<1>3. Locals(x) /\ Answers(r, x) /\ HoldsOwn(r, x)
  BY <1>1, <1>2 DEF RequestInv, Locals, Answers, HoldsOwn, Holding, Making
<1>4. OwnRow(r, x)'
  BY <1>1, <1>2 DEF OwnRow, Holding, Making
<1> QED BY <1>1, <1>3, <1>4, QuietMove

\* The requests' queries that change no table.
LEMMA QueriesKeep ==
  ASSUME IInv, NEW r \in Requests, UNCHANGED world,
         \/ \E c \in Codes : ReadCode(r, c)
         \/ Replay(r) \/ CreateFails(r) \/ SelectId(r) \/ SelectFails(r) \/ Reply(r) \/ Reread(r)
         \/ Abandon(r)
  PROVE  IInv'
<1>0. /\ TypeOK /\ RequestInv(r, req[r]) /\ req[r] \in RequestState /\ ResultsInv
      /\ codes \in [Codes -> CodeRow(Mailbox)] /\ broken \subseteq Requests
  BY DEF IInv, TypeOK
<1>1. ASSUME NEW c \in Codes, ReadCode(r, c) PROVE IInv'
  <2>1. CASE Available(c)
    <3>1. codes[c].value \in Values /\ codes[c].result \in Mailbox \cup {Null}
      BY <1>0, <2>1 DEF IInv, TableShape, Available, CodeRow
    <3>0. LET x == [Idle EXCEPT !.code = c, !.value = codes[c].value, !.seen = codes[c].result,
                      !.pc = IF codes[c].redeemed THEN "replay" ELSE "create"]
          IN  /\ x \in RequestState /\ x.code = c /\ x.value = codes[c].value
              /\ x.seen = codes[c].result /\ x.reply = "none"
              /\ x.pc = IF codes[c].redeemed THEN "replay" ELSE "create"
              /\ req' = [req EXCEPT ![r] = x]
      BY <1>1, <2>1, <3>1 DEF ReadCode, Idle, RequestState
    <3>2. PICK x \in RequestState :
            /\ x.code = c /\ x.value = codes[c].value /\ x.seen = codes[c].result
            /\ x.reply = "none" /\ x.pc = IF codes[c].redeemed THEN "replay" ELSE "create"
            /\ req' = [req EXCEPT ![r] = x]
      BY <3>0
    <3>3. req[r].pc = "start" /\ UNCHANGED <<codes, rows, nextId, grants, maker, broken>>
      BY <1>1 DEF ReadCode
    <3>4. Locals(x) /\ HoldsOwn(r, x)
      BY <3>1, <3>2 DEF Locals, HoldsOwn, Making, Holding
    <3>5. Answers(r, x)
      BY <1>0, <3>2, <3>3 DEF RequestInv, Answers, ResultsInv
    <3>6. OwnRow(r, x)'
      BY <1>0, <3>2, <3>3 DEF RequestInv, OwnRow
    <3> QED BY <1>0, <3>2, <3>3, <3>4, <3>5, <3>6, QuietMove
  <2>2. CASE ~Available(c)
    BY <1>1, <2>2, EndMove DEF ReadCode
  <2> QED BY <2>1, <2>2
<1>2. CASE Replay(r)
  <2>1. CASE Exists(req[r].seen)
    <3>1. req[r].seen \in Mailbox /\ Granted(req[r].code, req[r].seen.id)
      BY <1>0, <1>2, <2>1 DEF Replay, Exists, RequestInv, Answers, RequestState
    <3> QED BY <1>2, <2>1, <3>1, EndMove DEF Replay
  <2>2. CASE ~Exists(req[r].seen)
    BY <1>2, <2>2, EndMove DEF Replay
  <2> QED BY <2>1, <2>2
<1>3. CASE CreateFails(r)
  <2>1. \A i \in Ids : maker[i] # r
    BY <1>0, <1>3 DEF CreateFails, RequestInv, OwnRow
  <2> QED BY <1>0, <1>3, <2>1, RereadMove DEF CreateFails
<1>4. CASE SelectId(r)
  <2>1. ASSUME NEW i \in Ids, rows[i] = req[r].name,
               req' = [req EXCEPT ![r] = [req[r] EXCEPT !.pc = "claim", !.id = i]]
        PROVE  IInv'
    <3>0. LET x == [req[r] EXCEPT !.pc = "claim", !.id = i]
          IN  /\ x \in RequestState /\ x.pc = "claim" /\ x.id = i /\ x.code = req[r].code
              /\ x.value = req[r].value /\ x.name = req[r].name /\ x.reply = req[r].reply
              /\ req' = [req EXCEPT ![r] = x]
      BY <1>0, <2>1 DEF RequestState
    <3>1. PICK x \in RequestState :
            /\ x.pc = "claim" /\ x.id = i /\ x.code = req[r].code
            /\ x.value = req[r].value /\ x.name = req[r].name /\ x.reply = req[r].reply
            /\ req' = [req EXCEPT ![r] = x]
      BY <3>0
    <3>2. req[r].pc = "select" /\ UNCHANGED <<codes, rows, nextId, grants, maker, broken>>
      BY <1>4 DEF SelectId
    <3>4. Locals(x) /\ Answers(r, x)
      BY <1>0, <3>1, <3>2 DEF RequestInv, Locals, Answers, Making, Holding
    <3>5. req[r].name # Null /\ \A j \in Ids : rows[j] = rows[i] => j = i
      BY <1>0, <2>1, <3>2, NullIsNothing DEF IInv, RowsInv, RequestInv, Locals, Making
    <3>6. OwnRow(r, x)'
      BY <1>0, <2>1, <3>1, <3>2, <3>5 DEF RequestInv, OwnRow, Making, Holding
    <3>7. HoldsOwn(r, x)
      BY <1>0, <2>1, <3>1, <3>2, <3>5 DEF RequestInv, HoldsOwn, Making, Holding
    <3> QED BY <1>0, <3>1, <3>2, <3>4, <3>6, <3>7, QuietMove
  <2>2. CASE ~Taken(req[r].name) /\ req' = Goto(r, "reread")
    <3>1. \A i \in Ids : maker[i] # r \/ rows[i] = Null
      BY <1>0, <1>4, <2>2 DEF SelectId, Taken, RequestInv, OwnRow, Making
    <3> QED BY <1>0, <1>4, <2>2, <3>1, RereadMove DEF SelectId
  <2> QED BY <1>4, <2>1, <2>2 DEF SelectId
<1>5. CASE SelectFails(r)
  BY <1>0, <1>5, RereadMove DEF SelectFails
<1>6. CASE Reply(r)
  <2> DEFINE box == [id |-> req[r].id, name |-> req[r].name]
  <2>1. box \in Mailbox /\ Granted(req[r].code, box.id)
    BY <1>0, <1>6 DEF Reply, RequestInv, Locals, Answers, Making, Holding, Mailbox
  <2> QED BY <1>6, <2>1, EndMove DEF Reply
<1>7. CASE Reread(r)
  <2>1. CASE Available(req[r].code)
    <3>1. req[r].code \in Codes /\ req[r].pc = "reread"
      BY <1>0, <1>7 DEF Reread, RequestInv, Locals
    <3>2. codes[req[r].code].result \in Mailbox \cup {Null}
      BY <1>0, <3>1 DEF CodeRow
    <3>0. LET x == [req[r] EXCEPT !.pc = "replay", !.seen = codes[req[r].code].result]
          IN  /\ x \in RequestState /\ x.pc = "replay" /\ x.seen = codes[req[r].code].result
              /\ x.code = req[r].code /\ x.reply = req[r].reply /\ req' = [req EXCEPT ![r] = x]
      BY <1>0, <1>7, <2>1, <3>2 DEF Reread, RequestState
    <3>3. PICK x \in RequestState :
            /\ x.pc = "replay" /\ x.seen = codes[req[r].code].result
            /\ x.code = req[r].code /\ x.reply = req[r].reply /\ req' = [req EXCEPT ![r] = x]
      BY <3>0
    <3>4. UNCHANGED <<codes, rows, nextId, grants, maker, broken>>
      BY <1>7 DEF Reread
    <3>5. Locals(x) /\ HoldsOwn(r, x)
      BY <1>0, <3>1, <3>3 DEF RequestInv, Locals, HoldsOwn, Making, Holding
    <3>6. Answers(r, x)
      BY <1>0, <3>1, <3>3 DEF RequestInv, Locals, Answers, ResultsInv
    <3>7. OwnRow(r, x)'
      BY <1>0, <3>1, <3>3, <3>4 DEF RequestInv, OwnRow, Making, Holding
    <3> QED BY <1>0, <3>3, <3>4, <3>5, <3>6, <3>7, QuietMove
  <2>2. CASE ~Available(req[r].code)
    BY <1>7, <2>2, EndMove DEF Reread
  <2> QED BY <2>1, <2>2
<1>8. CASE Abandon(r)
  BY <1>8, EndMove DEF Abandon
<1> QED BY <1>1, <1>2, <1>3, <1>4, <1>5, <1>6, <1>7, <1>8

\* A step of r that takes away no row of another's, but where that may happen,
\* adds rows and grants as its own, and keeps r's own part.
LEMMA MoverKeeps ==
  ASSUME IInv, NEW r \in Requests, NEW x \in RequestState, req' = [req EXCEPT ![r] = x],
         UNCHANGED <<world, broken>>,
         grants \subseteq grants', \A g \in grants' : g \in grants \/ g.by = r,
         \A i \in Ids : maker'[i] = maker[i] \/ (maker[i] = Null /\ maker'[i] = r),
         \A i \in Ids : maker[i] \notin {r, Null} => rows'[i] \in {rows[i], Null},
         ~world.inFlightDeletes =>
           \A i \in Ids : maker[i] \notin {r, Null} => rows'[i] = rows[i],
         RequestInv(r, x)'
  PROVE  \A q \in Requests : RequestInv(q, req[q])'
<1>1. req'[r] = x /\ \A q \in Requests \ {r} : req'[q] = req[q]
  BY DEF IInv, TypeOK
<1>2. ASSUME NEW q \in Requests, q # r PROVE RequestInv(q, req[q])'
  <2>1. TypeOK /\ RequestInv(q, req[q]) /\ req[q] \in RequestState
    BY DEF IInv, TypeOK
  <2>2. ASSUME NEW z \in RequestState, RequestInv(q, z) PROVE RequestInv(q, z)'
    <3>1. \A g \in grants' : g \in grants \/ g.by # q
      BY <1>2
    <3>2. \A i \in Ids : maker'[i] = maker[i] \/ (maker[i] = Null /\ maker'[i] # q)
      BY <1>2
    <3>3. \A i \in Ids : maker[i] = q => maker[i] \notin {r, Null}
      BY <1>2, NullIsNothing
    <3>4. \A i \in Ids : maker[i] = q => rows'[i] \in {rows[i], Null}
      BY <3>3
    <3>5. ~world.inFlightDeletes /\ z.pc = "select" =>
            \A i \in Ids : maker[i] = q => rows'[i] = rows[i]
      BY <3>3
    <3> QED BY <2>1, <2>2, <3>1, <3>2, <3>4, <3>5, OthersStand
  <2>3. req'[q] = req[q]
    BY <1>1, <1>2
  <2> QED BY <2>1, <2>2, <2>3
<1>3. RequestInv(r, req[r])'
  BY <1>1
<1> QED BY <1>2, <1>3

\* The row a request inserts is new and its own, and its name is free.
LEMMA InsertKeeps ==
  ASSUME IInv, NEW r \in Requests, NEW n \in Names, InsertAddress(r, n), UNCHANGED world
  PROVE  IInv'
<1>0. /\ TypeOK /\ RequestInv(r, req[r]) /\ req[r] \in RequestState
      /\ rows \in [Ids -> Names \cup {Null}] /\ maker \in [Ids -> Requests \cup {Null}]
      /\ nextId \in Nat /\ nextId \in Ids /\ req[r].pc = "create"
      /\ rows' = [rows EXCEPT ![nextId] = n] /\ maker' = [maker EXCEPT ![nextId] = r]
      /\ nextId' = nextId + 1 /\ UNCHANGED <<world, codes, grants, broken>>
  BY DEF IInv, TypeOK, InsertAddress
<1>1. LET x == [req[r] EXCEPT !.pc = "select", !.name = n]
      IN  /\ x \in RequestState /\ x.pc = "select" /\ x.name = n /\ x.code = req[r].code /\ x.value = req[r].value
          /\ x.reply = req[r].reply /\ req' = [req EXCEPT ![r] = x]
  BY <1>0 DEF RequestState, InsertAddress
<1>2. PICK x \in RequestState :
        /\ x.pc = "select" /\ x.name = n /\ x.code = req[r].code /\ x.value = req[r].value
        /\ x.reply = req[r].reply /\ req' = [req EXCEPT ![r] = x]
  BY <1>1
<1>3. rows[nextId] = Null /\ maker[nextId] = Null /\ \A i \in Ids : maker[i] # r
  BY <1>0 DEF IInv, RowsInv, RequestInv, OwnRow, Ids
<1>4. TypeOK'
  BY <1>0, <1>2 DEF IInv, TypeOK
<1>5. RowsInv'
  <2>1. \A i \in Ids : i >= nextId + 1 => i # nextId /\ i >= nextId
    BY <1>0 DEF Ids
  <2>2. \A i \in Ids : rows[i] # n
    BY DEF InsertAddress, Taken
  <2> QED BY <1>0, <2>1, <2>2 DEF IInv, RowsInv
<1>6. TableShape' /\ ResultsInv' /\ GrantsInv'
  <2>1. \A g \in grants : g.by \in Requests /\ g.to \in Ids
    BY <1>0 DEF TypeOK, Grant
  <2>2. ~world.inFlightDeletes => \A g \in grants : g.to # nextId
    BY <1>3, <2>1, NullIsNothing DEF IInv, GrantsInv
  <2> QED BY <1>0, <2>1, <2>2 DEF IInv, TableShape, ResultsInv, GrantsInv, Granted
<1>7. RequestInv(r, x)'
  <2>1. Locals(x) /\ Answers(r, x)
    BY <1>0, <1>2 DEF RequestInv, Locals, Answers, Making, Holding
  <2>2. OwnRow(r, x)'
    BY <1>0, <1>2, <1>3 DEF OwnRow, Making, Holding
  <2>3. HoldsOwn(r, x)'
    BY <1>0, <1>2 DEF HoldsOwn, Holding
  <2> QED BY <1>0, <2>1, <2>2, <2>3 DEF RequestInv, Locals, Answers, Granted
<1>8. \A i \in Ids : maker'[i] = maker[i] \/ (maker[i] = Null /\ maker'[i] = r)
  BY <1>0, <1>3
<1>9. \A i \in Ids : maker[i] \notin {r, Null} => rows'[i] = rows[i]
  BY <1>0, <1>3
<1> QED BY <1>0, <1>2, <1>4, <1>5, <1>6, <1>7, <1>8, <1>9, MoverKeeps DEF IInv

\* A claim that takes the code: the mailbox is the request's own, and this is
\* its only grant.
LEMMA TakeKeeps ==
  ASSUME IInv, NEW r \in Requests, NEW label \in {"reply", "undoThrow"},
         req[r].pc = "claim", TakeCode(r), req' = Goto(r, label),
         label = "undoThrow" => world.lostAcks, UNCHANGED <<world, rows, nextId, maker, broken>>
  PROVE  IInv'
<1>0. /\ TypeOK /\ RequestInv(r, req[r]) /\ req[r] \in RequestState
      /\ codes \in [Codes -> CodeRow(Mailbox)] /\ grants \subseteq Grant
  BY DEF IInv, TypeOK
<1>a. PICK c \in Codes, v \in Values, i \in Ids, n \in Names :
        req[r].code = c /\ req[r].value = v /\ req[r].id = i /\ req[r].name = n
  BY <1>0 DEF RequestInv, Locals, Making, Holding
<1>b. PICK box \in Mailbox : box = [id |-> i, name |-> n]
  BY DEF Mailbox
<1>c. PICK g0 \in Grant : g0 = [code |-> c, value |-> v, to |-> i, by |-> r]
  BY DEF Grant
<1>2. /\ codes[c].status = "live" /\ codes[c].value = v
      /\ codes' = [codes EXCEPT ![c] = Redeemed(c, box)] /\ grants' = grants \cup {g0}
  BY <1>a, <1>b, <1>c DEF TakeCode, Claimable, Available
<1>3. PICK x \in RequestState :
        /\ Goto(r, label) = [req EXCEPT ![r] = x] /\ x.pc = label
        /\ x.code = c /\ x.name = n /\ x.id = i
        /\ x.reply = req[r].reply
  BY <1>0, <1>a, RequestFields
<1>4. /\ codes'[c].status = "live" /\ codes'[c].value = v
      /\ codes'[c].redeemed = TRUE /\ codes'[c].result = box
      /\ codes'[c] \in CodeRow(Mailbox)
      /\ \A d \in Codes \ {c} : codes'[d] = codes[d]
  BY <1>0, <1>2 DEF CodeRow, Redeemed
<1>5. codes' \in [Codes -> CodeRow(Mailbox)]
  BY <1>0, <1>2, <1>4
<1>6. TypeOK'
  BY <1>0, <1>2, <1>3, <1>5 DEF TypeOK
<1>7. TableShape'
  BY <1>4 DEF IInv, TableShape
<1>8. ResultsInv'
  <2>1. Granted(c, box.id)'
    BY <1>2, <1>b, <1>c DEF Granted
  <2>2. \A d, j : Granted(d, j) => Granted(d, j)'
    BY <1>2 DEF Granted
  <2> QED BY <1>4, <2>1, <2>2 DEF IInv, ResultsInv
<1>9. GrantsInv'
  <2>1. \A g \in grants : g.by # r
    BY <1>0 DEF RequestInv, Answers
  <2>2. ~world.inFlightDeletes => maker[i] = r
    BY <1>0, <1>a DEF RequestInv, HoldsOwn, Holding
  <2>3. g0.by = r /\ g0.to = i
    BY <1>c
  <2> QED BY <1>2, <2>1, <2>2, <2>3 DEF IInv, GrantsInv
<1>10. RequestInv(r, x)'
  <2>1. Locals(x)'
    BY <1>0, <1>3, <1>a DEF RequestInv, Locals, Making, Holding
  <2>2. Answers(r, x)'
    <3>1. Granted(x.code, x.id)'
      BY <1>2, <1>3, <1>c DEF Granted
    <3>2. x.reply = "none"
      BY <1>0, <1>3, <1>a DEF RequestInv, Locals, RequestState
    <3> QED BY <1>3, <3>1, <3>2 DEF Answers
  <2>3. OwnRow(r, x)'
    <3>1. \E g \in grants' : g.to = i
      BY <1>2, <1>c
    <3> QED BY <1>0, <1>3, <1>a, <3>1 DEF RequestInv, OwnRow, Making, Holding
  <2>4. HoldsOwn(r, x)'
    BY <1>0, <1>3, <1>a DEF RequestInv, HoldsOwn, Holding
  <2> QED BY <2>1, <2>2, <2>3, <2>4 DEF RequestInv
<1>11. \A g \in grants' : g \in grants \/ g.by = r
  BY <1>2, <1>c
<1>12. \A q \in Requests : RequestInv(q, req[q])'
  BY <1>2, <1>3, <1>10, <1>11, MoverKeeps
<1> QED BY <1>6, <1>7, <1>8, <1>9, <1>12 DEF IInv, RowsInv

\* The claim in all its outcomes.
LEMMA ClaimKeeps ==
  ASSUME IInv, NEW r \in Requests, Claim(r) \/ ClaimThrows(r), UNCHANGED world
  PROVE  IInv'
<1>0. /\ TypeOK /\ RequestInv(r, req[r]) /\ req[r].pc = "claim"
      /\ UNCHANGED <<world, rows, nextId, maker, broken>>
  BY DEF IInv, Claim, ClaimThrows
<1>1. CASE TakeCode(r) /\ req' = Goto(r, "reply")
  BY <1>0, <1>1, TakeKeeps
<1>2. CASE TakeCode(r) /\ req' = Goto(r, "undoThrow") /\ world.lostAcks
  BY <1>0, <1>2, TakeKeeps
<1>3. ASSUME NEW label \in {"undo", "undoThrow"}, req' = Goto(r, label), UNCHANGED <<codes, grants>>
      PROVE  IInv'
  <2>1. PICK x \in RequestState :
          /\ Goto(r, label) = [req EXCEPT ![r] = x] /\ x.pc = label
          /\ x.code = req[r].code /\ x.name = req[r].name /\ x.id = req[r].id
          /\ x.reply = req[r].reply
    BY <1>0, RequestFields
  <2>2. Locals(x) /\ Answers(r, x) /\ HoldsOwn(r, x)
    BY <1>0, <2>1 DEF RequestInv, Locals, Answers, HoldsOwn, Making, Holding
  <2>3. OwnRow(r, x)'
    BY <1>0, <1>3, <2>1 DEF RequestInv, OwnRow, Making, Holding
  <2>4. broken \subseteq broken' /\ broken' \subseteq Requests
    BY <1>0 DEF TypeOK
  <2> QED BY <1>0, <1>3, <2>1, <2>2, <2>3, <2>4, QuietMove
<1> QED BY <1>1, <1>2, <1>3 DEF Claim, ClaimThrows

\* The compensation deletes the row the request knows, where it has that name:
\* its own if it is still there.
LEMMA UndoKeeps ==
  ASSUME IInv, NEW r \in Requests, Undo(r), UNCHANGED world
  PROVE  IInv'
<1>0. /\ TypeOK /\ RequestInv(r, req[r]) /\ req[r] \in RequestState /\ req[r].id \in Ids
      /\ rows \in [Ids -> Names \cup {Null}] /\ maker \in [Ids -> Requests \cup {Null}]
      /\ req[r].pc \in {"undo", "undoThrow"}
      /\ UNCHANGED <<world, codes, nextId, grants, maker, broken>>
  BY DEF IInv, TypeOK, Undo, RequestInv, Locals, Holding
<1>1. /\ rows' \in [Ids -> Names \cup {Null}]
      /\ \A i \in Ids : rows'[i] \in {rows[i], Null}
      /\ \A i \in Ids \ {req[r].id} : rows'[i] = rows[i]
      /\ rows[req[r].id] = req[r].name => rows'[req[r].id] = Null
  BY <1>0 DEF Undo
<1>2. ~world.inFlightDeletes => maker[req[r].id] = r
  BY <1>0 DEF RequestInv, HoldsOwn, Holding
<1>3. \A i \in Ids : maker[i] = r => rows'[i] = Null
  <2>1. ASSUME NEW i \in Ids, maker[i] = r, rows[i] # Null PROVE rows'[i] = Null
    BY <1>0, <1>1, <2>1 DEF RequestInv, OwnRow, Making, Holding
  <2> QED BY <1>1, <2>1
<1>4. PICK x \in RequestState :
        /\ req' = [req EXCEPT ![r] = x] /\ x.code = req[r].code /\ x.name = req[r].name
        /\ x.id = req[r].id
        /\ \/ req[r].pc = "undo" /\ x.pc = "reread" /\ x.reply = req[r].reply
           \/ req[r].pc = "undoThrow" /\ x.pc = "done" /\ x.reply = "lost"
  <2>1. CASE req[r].pc = "undo"
    <3>1. req' = Goto(r, "reread")
      BY <2>1 DEF Undo
    <3>2. PICK x \in RequestState :
            /\ Goto(r, "reread") = [req EXCEPT ![r] = x] /\ x.pc = "reread"
            /\ x.code = req[r].code /\ x.name = req[r].name /\ x.id = req[r].id
            /\ x.reply = req[r].reply
      BY <1>0, RequestFields
    <3> QED BY <2>1, <3>1, <3>2
  <2>2. CASE req[r].pc = "undoThrow"
    <3>1. req' = Finish(r, "lost", Null)
      BY <2>2 DEF Undo
    <3>2. PICK x \in RequestState :
            /\ Finish(r, "lost", Null) = [req EXCEPT ![r] = x] /\ x.pc = "done"
            /\ x.code = req[r].code /\ x.name = req[r].name /\ x.id = req[r].id
            /\ x.reply = "lost"
      BY <1>0, RequestFields
    <3> QED BY <2>2, <3>1, <3>2
  <2> QED BY <1>0, <2>1, <2>2
<1>5. TypeOK' /\ TableShape' /\ ResultsInv' /\ GrantsInv' /\ RowsInv'
  BY <1>0, <1>1, <1>4
     DEF IInv, TypeOK, TableShape, ResultsInv, GrantsInv, RowsInv, Granted
<1>6. RequestInv(r, x)'
  <2>1. Locals(x) /\ Answers(r, x) /\ HoldsOwn(r, x)
    BY <1>0, <1>4 DEF RequestInv, Locals, Answers, HoldsOwn, Making, Holding
  <2>2. OwnRow(r, x)'
    BY <1>0, <1>3, <1>4 DEF OwnRow
  <2> QED BY <1>0, <1>4, <2>1, <2>2 DEF RequestInv, Locals, Answers, HoldsOwn, Granted
<1>7. ~world.inFlightDeletes => \A i \in Ids : maker[i] \notin {r, Null} => rows'[i] = rows[i]
  BY <1>1, <1>2
<1>8. \A q \in Requests : RequestInv(q, req[q])'
  BY <1>0, <1>1, <1>4, <1>6, <1>7, MoverKeeps
<1> QED BY <1>5, <1>8 DEF IInv

\* The admin, the clock, other creations and deletions.
LEMMA EnvironmentKeeps ==
  ASSUME IInv, Environment, UNCHANGED world PROVE IInv'
<1>0. /\ TypeOK /\ rows \in [Ids -> Names \cup {Null}] /\ maker \in [Ids -> Requests \cup {Null}]
      /\ nextId \in Nat /\ codes \in [Codes -> CodeRow(Mailbox)] /\ TableShape
      /\ req \in [Requests -> RequestState] /\ grants \subseteq Grant
  BY DEF IInv, TypeOK
<1>1. ASSUME UNCHANGED <<world, req, grants, maker, broken>>,
             \A i \in Ids : maker[i] # Null => rows'[i] \in {rows[i], Null},
             ~world.inFlightDeletes =>
               \A i \in Ids : maker[i] # Null /\ req[maker[i]].pc = "select" => rows'[i] = rows[i]
      PROVE  \A q \in Requests : RequestInv(q, req[q])'
  <2>1. ASSUME NEW q \in Requests PROVE RequestInv(q, req[q])'
    <3>1. PICK z \in RequestState : z = req[q] /\ z = req'[q] /\ RequestInv(q, z)
      BY <1>0, <1>1 DEF IInv
    <3>2. \A i \in Ids : maker[i] = q => maker[i] # Null
      BY NullIsNothing
    <3>3. \A i \in Ids : maker[i] = q => rows'[i] \in {rows[i], Null}
      BY <1>1, <3>2
    <3>4. ~world.inFlightDeletes /\ z.pc = "select" =>
            \A i \in Ids : maker[i] = q => rows'[i] = rows[i]
      BY <1>1, <3>1, <3>2
    <3>5. /\ world' = world /\ grants \subseteq grants' /\ broken \subseteq broken'
          /\ \A g \in grants' : g \in grants \/ g.by # q
          /\ \A i \in Ids : maker'[i] = maker[i] \/ (maker[i] = Null /\ maker'[i] # q)
      BY <1>1
    <3>6. RequestInv(q, z)'
      BY <1>0, <3>1, <3>3, <3>4, <3>5, OthersStand
    <3> QED BY <3>1, <3>6
  <2> QED BY <2>1
<1>2. CASE TableChanges
  <2>1. TableStep /\ UNCHANGED <<world, rows, nextId, req, grants, maker, broken>>
    BY <1>2 DEF TableChanges
  <2>2. codes' \in [Codes -> CodeRow(Mailbox)]
    BY <1>0, <2>1, TableStepType
  <2>3. /\ TableShape'
        /\ \A c \in Codes : codes'[c].status = "live" =>
             codes'[c].redeemed = codes[c].redeemed /\ codes'[c].result = codes[c].result
    BY <1>0, <2>1, TableStepKeeps
  <2>4. ResultsInv'
    <3>1. ASSUME NEW c \in Codes, codes'[c].status # "live"
          PROVE  codes'[c].redeemed = FALSE /\ codes'[c].result = Null
      <4>1. codes'[c] = NoRow(codes'[c].status)
        BY <2>3, <3>1 DEF TableShape
      <4>2. \A t : NoRow(t).redeemed = FALSE /\ NoRow(t).result = Null
        BY DEF NoRow
      <4> QED BY <4>1, <4>2
    <3>2. \A d, j : Granted(d, j) => Granted(d, j)'
      BY <2>1 DEF Granted
    <3>3. ASSUME NEW c \in Codes, codes'[c].status = "live"
          PROVE  IF codes'[c].redeemed
                   THEN codes'[c].result \in Mailbox /\ Granted(c, codes'[c].result.id)
                   ELSE codes'[c].result = Null
      BY <2>3, <3>3 DEF IInv, ResultsInv
    <3> QED BY <2>1, <3>1, <3>2, <3>3 DEF ResultsInv, Granted
  <2>5. TypeOK' /\ RowsInv' /\ GrantsInv'
    BY <2>1, <2>2 DEF IInv, TypeOK, RowsInv, GrantsInv
  <2> QED BY <1>1, <2>1, <2>3, <2>4, <2>5 DEF IInv
<1>3. ASSUME NEW n \in Names, CreateOther(n) PROVE IInv'
  <2>1. /\ rows' = [rows EXCEPT ![nextId] = n] /\ nextId' = nextId + 1 /\ nextId \in Ids
        /\ \A i \in Ids : rows[i] # n
        /\ UNCHANGED <<world, codes, req, grants, maker, broken>>
    BY <1>3 DEF CreateOther, Taken
  <2>2. rows[nextId] = Null /\ maker[nextId] = Null
    BY <1>0, <2>1 DEF IInv, RowsInv
  <2>3. RowsInv'
    <3>1. \A i \in Ids : i >= nextId + 1 => i # nextId /\ i >= nextId
      BY <1>0 DEF Ids
    <3> QED BY <1>0, <2>1, <3>1 DEF IInv, RowsInv
  <2>4. TypeOK' /\ TableShape' /\ ResultsInv' /\ GrantsInv'
    BY <1>0, <2>1 DEF IInv, TypeOK, TableShape, ResultsInv, GrantsInv, Granted
  <2>5. \A i \in Ids : maker[i] # Null => rows'[i] = rows[i]
    BY <1>0, <2>1, <2>2
  <2> QED BY <1>1, <2>1, <2>3, <2>4, <2>5 DEF IInv
<1>4. ASSUME NEW i \in Ids, DeleteRow(i) PROVE IInv'
  <2>1. /\ rows' = [rows EXCEPT ![i] = Null]
        /\ BeingMade(i) => world.inFlightDeletes
        /\ UNCHANGED <<world, codes, nextId, req, grants, maker, broken>>
    BY <1>4 DEF DeleteRow
  <2>2. RowsInv'
    BY <1>0, <2>1 DEF IInv, RowsInv
  <2>3. TypeOK' /\ TableShape' /\ ResultsInv' /\ GrantsInv'
    BY <1>0, <2>1 DEF IInv, TypeOK, TableShape, ResultsInv, GrantsInv, Granted
  <2>4. \A j \in Ids : maker[j] # Null => rows'[j] \in {rows[j], Null}
    BY <1>0, <2>1
  <2>5. ~world.inFlightDeletes =>
          \A j \in Ids : maker[j] # Null /\ req[maker[j]].pc = "select" => rows'[j] = rows[j]
    BY <1>0, <2>1 DEF BeingMade
  <2> QED BY <1>1, <2>1, <2>2, <2>3, <2>4, <2>5 DEF IInv
<1> QED BY <1>2, <1>3, <1>4 DEF Environment

LEMMA NextIInv == IInv /\ [Next]_vars => IInv'
<1> SUFFICES ASSUME IInv, [Next]_vars PROVE IInv'
  OBVIOUS
<1>1. CASE Environment /\ UNCHANGED world
  BY <1>1, EnvironmentKeeps
<1>2. ASSUME NEW r \in Requests, Request(r), UNCHANGED world PROVE IInv'
  BY <1>2, QueriesKeep, InsertKeeps, ClaimKeeps, UndoKeeps DEF Request
<1>3. CASE UNCHANGED vars
  BY <1>3 DEF vars, IInv, TypeOK, TableShape, RowsInv, ResultsInv, GrantsInv, Granted, RequestInv,
              Locals, Answers, OwnRow, HoldsOwn
<1> QED BY <1>1, <1>2, <1>3 DEF Next

\* The mailbox redemption keeps its inductive invariant, and with it its type.
THEOREM AddressIInv == Spec => []IInv
BY InitIInv, NextIInv, PTL DEF Spec

\* All requests that succeed with one code answer with a mailbox the code was
\* claimed for.
THEOREM AddressRepliesConverge == Spec => []RepliesConverge
<1>1. IInv => RepliesConverge
  BY DEF IInv, RepliesConverge, RequestInv, Answers, Granted
<1> QED BY <1>1, AddressIInv, PTL

\* No mailbox goes to two codes, where none is deleted while it is made.
THEOREM AddressMailboxIsExclusive == Spec => []MailboxIsExclusive
<1>1. IInv => MailboxIsExclusive
  BY DEF IInv, MailboxIsExclusive, GrantsInv
<1> QED BY <1>1, AddressIInv, PTL

\* A mailbox no code was claimed for goes away with the request that made it,
\* unless that was cut short.
THEOREM AddressNoMailboxLeaks == Spec => []NoMailboxLeaks
<1>1. IInv => NoMailboxLeaks
  <2> SUFFICES ASSUME IInv, NEW i \in Ids, rows[i] # Null, maker[i] # Null
               PROVE  \/ \E g \in grants : g.to = i
                      \/ BeingMade(i)
                      \/ req[maker[i]].reply = "lost" \/ maker[i] \in broken
    BY DEF NoMailboxLeaks
  <2>1. PICK r \in Requests : maker[i] = r /\ RequestInv(r, req[r])
    BY DEF IInv, TypeOK
  <2> QED BY <2>1, NullIsNothing DEF RequestInv, OwnRow, BeingMade
<1> QED BY <1>1, AddressIInv, PTL

\* The compensation never takes a mailbox a request answered with, where a call
\* that throws did nothing and none is deleted while it is made.
THEOREM AddressHandedOutStays == Spec => HandedOutStays
<1> DEFINE Stays ==
      \A r, s \in Requests :
        (Undo(r) /\ req[s].reply = "ok" /\ ~world.lostAcks /\ ~world.inFlightDeletes)
          => rows'[req[s].given.id] = rows[req[s].given.id]
<1>1. ASSUME IInv, NEW r \in Requests, NEW s \in Requests, Undo(r), req[s].reply = "ok",
             ~world.lostAcks, ~world.inFlightDeletes
      PROVE  rows'[req[s].given.id] = rows[req[s].given.id]
  <2>1. RequestInv(r, req[r]) /\ RequestInv(s, req[s]) /\ GrantsInv /\ req[s] \in RequestState
    BY <1>1 DEF IInv, TypeOK
  <2>2. PICK g \in grants : g.to = req[s].given.id
    BY <1>1, <2>1 DEF RequestInv, Answers, Granted
  <2>3. req[s].given.id \in Ids
    BY <1>1, <2>1 DEF RequestInv, Locals, Mailbox
  <2>4. g.by # r
    BY <1>1, <2>1 DEF RequestInv, Answers, Undo
  <2>5. maker[g.to] = g.by /\ maker[req[r].id] = r
    BY <1>1, <2>1 DEF GrantsInv, RequestInv, HoldsOwn, Holding, Undo
  <2>6. rows \in [Ids -> Names \cup {Null}]
    BY <1>1 DEF IInv, TypeOK
  <2> QED BY <1>1, <2>2, <2>3, <2>4, <2>5, <2>6 DEF Undo
<1>2. IInv => [Stays]_vars
  BY <1>1
<1> QED BY <1>2, AddressIInv, PTL DEF HandedOutStays

-----------------------------------------------------------------------------
(* The ledger. *)

LEMMA InitInLedger == Init => Ledger!Init
BY DEF Init, CodesInit, NoRow, Ledger!Init, LedgerState, LedgerOffer, Available

\* The conditional UPDATE of the claim is the exchange of the ledger.
LEMMA TakeInLedger ==
  ASSUME IInv, NEW r \in Requests, req[r].pc = "claim", TakeCode(r)
  PROVE  Ledger!Next
<1>0. /\ RequestInv(r, req[r]) /\ codes \in [Codes -> CodeRow(Mailbox)]
  BY DEF IInv, TypeOK
<1>1. PICK c \in Codes, v \in Values, i \in Ids :
        req[r].code = c /\ req[r].value = v /\ req[r].id = i
  BY <1>0 DEF RequestInv, Locals, Making, Holding
<1>2. PICK box : box = [id |-> req[r].id, name |-> req[r].name]
  OBVIOUS
<1>3. /\ codes[c].status = "live" /\ ~codes[c].redeemed
      /\ Available(c) /\ codes[c].value = v
      /\ codes' = [codes EXCEPT ![c] = Redeemed(c, box)]
      /\ grants' = grants \cup {[code |-> c, value |-> v, to |-> i, by |-> r]}
  BY <1>1, <1>2 DEF TakeCode, Claimable, Available
<1>4. LedgerState[c] = "open" /\ LedgerOffer[c] = v /\ v # Null
  BY <1>3, NullAssumption DEF LedgerState, LedgerOffer
<1>5. /\ codes'[c].status = "live" /\ codes'[c].value = v
      /\ codes'[c].enabled = codes[c].enabled /\ codes'[c].expired = codes[c].expired
      /\ \A d \in Codes \ {c} : codes'[d] = codes[d]
  BY <1>0, <1>3 DEF CodeRow, Redeemed
<1>6. codes'[c].redeemed
  BY <1>0, <1>3 DEF CodeRow, Redeemed
<1>7. LedgerState' = [LedgerState EXCEPT ![c] = "spent"]
  BY <1>5, <1>6 DEF LedgerState
<1>8. LedgerOffer' = LedgerOffer
  <2>1. \A d \in Codes : codes'[d].value = codes[d].value
    BY <1>3, <1>5
  <2>2. \A d \in Codes : Available(d)' <=> Available(d)
    BY <1>3, <1>5, Zenon DEF Available
  <2> QED BY <2>1, <2>2 DEF LedgerOffer
<1>9. Ledger!Spend(c, i, r)
  BY <1>3, <1>4, <1>7, <1>8 DEF Ledger!Spend
<1> QED BY <1>9 DEF Ledger!Next

LEMMA NextInLedger ==
  ASSUME IInv, [Next]_vars PROVE [Ledger!Next]_(Ledger!ledgerVars)
<1>1. ASSUME NEW r \in Requests, req[r].pc = "claim", TakeCode(r) PROVE Ledger!Next
  BY <1>1, TakeInLedger
<1>2. ASSUME TableStep, UNCHANGED grants PROVE Ledger!Next
  <2>1. \/ \E S \in SUBSET Codes, o \in Values \cup {Null} : Ledger!Issue(S, o)
        \/ \E c \in Codes :
             \/ \E o \in Values \cup {Null} : Ledger!Reoffer(c, o)
             \/ Ledger!Lapse(c) \/ Ledger!Retire(c)
    BY <1>2, TableStepInLedger
       DEF IInv, TypeOK, Ledger!Issue, Ledger!Reoffer, Ledger!Lapse, Ledger!Retire
  <2> QED BY <2>1 DEF Ledger!Next
<1>3. ASSUME UNCHANGED <<codes, grants>> PROVE UNCHANGED Ledger!ledgerVars
  BY <1>3 DEF Ledger!ledgerVars, LedgerState, LedgerOffer, Available
<1>4. \/ TableStep /\ UNCHANGED grants
      \/ UNCHANGED <<codes, grants>>
      \/ \E r \in Requests : req[r].pc = "claim" /\ TakeCode(r)
  BY DEF Next, vars, Environment, TableChanges, CreateOther, DeleteRow, Request, ReadCode, Replay,
         InsertAddress, CreateFails, SelectId, SelectFails, Claim, ClaimThrows, Reply, Undo,
         Reread, Abandon
<1> QED BY <1>1, <1>2, <1>3, <1>4

\* The redemption of a mailbox implements the ledger: the step that takes the
\* code is its exchange, whatever happens to the mailbox before and after.
THEOREM AddressImplementsLedger == Spec => ImplementsLedger
<1>1. Init => Ledger!Init
  BY InitInLedger
<1>2. IInv /\ [Next]_vars => [Ledger!Next]_(Ledger!ledgerVars)
  BY NextInLedger
<1> QED BY <1>1, <1>2, AddressIInv, PTL DEF Spec, ImplementsLedger, Ledger!Spec
=============================================================================
