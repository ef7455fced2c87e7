--------------------------- MODULE ClientsProofs ---------------------------
(***************************************************************************)
(* For every number of connections, messages, requests and codes: STOREs   *)
(* lose none of each other's changes, late answers change nothing on the   *)
(* pages of redemption codes, and codes keep values of their type.         *)
(***************************************************************************)
EXTENDS Clients, TLAPS

(* The flags of the IMAP proxy. *)

\* What a connection has in memory: nothing depends on what its numbers are.
IsSession(x) ==
  x = [pc |-> x.pc, built |-> x.built, count |-> x.count, index |-> x.index,
       flags |-> x.flags, total |-> x.total, offset |-> x.offset, found |-> x.found,
       op |-> x.op, seen |-> x.seen]

\* A connection waits for one STORE exactly while it is at the lock or inside.
Waiting(x) ==
  /\ x.pc \in {"lock", "write"} => \E op \in Ledger!Operation : x.op = {op}
  /\ x.pc \notin {"lock", "write"} => x.op = {}

\* The inductive invariant: the lock is held by one connection, and what it
\* has read are the flags as they still are.
FlagsInv ==
  /\ kept \in [Uids -> SUBSET Flags]
  /\ session = [s \in Sessions |-> session[s]]
  /\ \A s \in Sessions :
       /\ IsSession(session[s]) /\ Waiting(session[s])
       /\ At(s, "write") => session[s].seen = kept
  /\ \A r, s \in Sessions : At(r, "write") /\ At(s, "write") => r = s

\* The steps of one connection that leave the flags alone: what it waits for
\* stays, comes or goes.
Quietly(s, x) ==
  /\ session' = [session EXCEPT ![s] = x] /\ UNCHANGED kept
  /\ IsSession(x) /\ Waiting(x) /\ x.pc # "write"
  /\ x.op = session[s].op \/ session[s].op = {} \/ x.op = {}

LEMMA QuietFlags ==
  ASSUME FlagsInv, NEW s \in Sessions, NEW x, Quietly(s, x)
  PROVE  FlagsInv' /\ [Ledger!Next]_<<kept, [r \in Sessions |-> session[r].op]>>
<1>1. FlagsInv'
  BY DEF FlagsInv, Quietly, At
<1>2. PICK asked : asked = [r \in Sessions |-> session[r].op]
  OBVIOUS
<1>3. PICK after : after = [r \in Sessions |-> session'[r].op]
  OBVIOUS
<1>4. session'[s] = x /\ \A r \in Sessions : r # s => session'[r] = session[r]
  BY DEF FlagsInv, Quietly
<1>5. after = [asked EXCEPT ![s] = x.op] /\ asked[s] = session[s].op
  BY <1>2, <1>3, <1>4
<1>6. CASE x.op = session[s].op
  <2>1. after = asked
    BY <1>2, <1>5, <1>6
  <2> QED BY <1>1, <1>2, <1>3, <2>1 DEF Quietly
<1>7. CASE session[s].op = {} /\ x.op # {}
  <2>1. PICK op \in Ledger!Operation : x.op = {op}
    BY <1>7 DEF Quietly, Waiting
  <2>2. Ledger!Ask(s)
    BY <1>2, <1>3, <1>5, <1>7, <2>1 DEF Ledger!Ask, Quietly
  <2> QED BY <1>1, <2>2 DEF Ledger!Next
<1>8. CASE x.op = {} /\ session[s].op # {}
  <2>1. Ledger!Refuse({s})
    BY <1>2, <1>3, <1>5, <1>8 DEF Ledger!Refuse, Quietly
  <2> QED BY <1>1, <2>1 DEF Ledger!Next
<1> QED BY <1>1, <1>6, <1>7, <1>8 DEF Quietly
LEMMA FreshIsQuiet == IsSession(Fresh) /\ Waiting(Fresh) /\ Fresh.pc = "idle" /\ Fresh.op = {}
BY DEF Fresh, IsSession, Waiting

LEMMA IndexingIsQuiet ==
  ASSUME FlagsInv, NEW s \in Sessions,
         \/ Select(s) \/ Refresh(s) \/ ReadCount(s) \/ ReadPage(s) \/ LoadFlags(s) \/ Answer(s)
         \/ StoreFails(s) \/ RequestFails(s) \/ Reconnect(s)
  PROVE  \E x : Quietly(s, x)
<1>1. PICK y : y = session[s] /\ IsSession(y) /\ Waiting(y)
  BY DEF FlagsInv
<1>2. ASSUME NEW x, Become(s, x), UNCHANGED kept, IsSession(x),
             x.pc \notin {"lock", "write"}, x.op = {}
      PROVE  Quietly(s, x)
  BY <1>2 DEF Quietly, Become, Waiting
<1>3. CASE Select(s)
  <2>1. PICK x : x = [y EXCEPT !.pc = "count"]
    OBVIOUS
  <2>2. IsSession(x) /\ x.op = y.op /\ x.pc = "count"
    BY <1>1, <2>1 DEF IsSession
  <2>3. Become(s, x) /\ UNCHANGED kept /\ y.pc = "idle"
    BY <1>1, <1>3, <2>1 DEF Select, At
  <2> QED BY <1>1, <1>2, <2>2, <2>3 DEF Waiting
<1>4. CASE Refresh(s)
  <2>1. PICK x : x = [y EXCEPT !.pc = "count", !.count = IF y.built THEN Cardinality(inbox) ELSE @]
    OBVIOUS
  <2>2. IsSession(x) /\ x.op = y.op /\ x.pc = "count"
    BY <1>1, <2>1 DEF IsSession
  <2>3. Become(s, x) /\ UNCHANGED kept /\ y.pc = "idle"
    BY <1>1, <1>4, <2>1 DEF Refresh, At
  <2> QED BY <1>1, <1>2, <2>2, <2>3 DEF Waiting
<1>5. CASE ReadCount(s)
  <2>1. PICK x : x = IF Cardinality(inbox) = 0
                       THEN [y EXCEPT !.pc = "idle", !.built = TRUE, !.count = 0,
                                      !.index = {}, !.flags = NoFlags]
                       ELSE [y EXCEPT !.pc = "page", !.count = Cardinality(inbox),
                                      !.total = Cardinality(inbox), !.offset = 0, !.found = {}]
    OBVIOUS
  <2>2. IsSession(x) /\ x.op = y.op /\ x.pc \in {"idle", "page"}
    BY <1>1, <2>1 DEF IsSession
  <2>3. Become(s, x) /\ UNCHANGED kept /\ y.pc = "count"
    BY <1>1, <1>5, <2>1 DEF ReadCount, At
  <2> QED BY <1>1, <1>2, <2>2, <2>3 DEF Waiting
<1>6. CASE ReadPage(s)
  <2>1. PICK limit, found : limit = Min({PageSize, y.total - y.offset})
                              /\ found = y.found \cup Listed(limit, y.offset)
    OBVIOUS
  <2>2. PICK x : x = IF y.offset + limit < y.total
                       THEN [y EXCEPT !.offset = @ + limit, !.found = found]
                       ELSE [y EXCEPT !.pc = "load", !.built = TRUE, !.index = found,
                                      !.total = 0, !.offset = 0, !.found = {}]
    OBVIOUS
  <2>3. IsSession(x) /\ x.op = y.op /\ x.pc \in {y.pc, "load"}
    BY <1>1, <2>2 DEF IsSession
  <2>4. Become(s, x) /\ UNCHANGED kept /\ y.pc = "page"
    BY <1>1, <1>6, <2>1, <2>2 DEF ReadPage, At
  <2> QED BY <1>1, <1>2, <2>3, <2>4 DEF Waiting
<1>7. CASE LoadFlags(s)
  <2>1. PICK x : x = [y EXCEPT !.pc = "idle", !.flags = kept]
    OBVIOUS
  <2>2. IsSession(x) /\ x.op = y.op /\ x.pc = "idle"
    BY <1>1, <2>1 DEF IsSession
  <2>3. Become(s, x) /\ UNCHANGED kept /\ y.pc = "load"
    BY <1>1, <1>7, <2>1 DEF LoadFlags, At
  <2> QED BY <1>1, <1>2, <2>2, <2>3 DEF Waiting
<1>8. CASE Answer(s)
  <2>1. PICK x : x = [y EXCEPT !.pc = "idle", !.seen = NoFlags, !.found = {},
                        !.flags = [u \in Uids |-> IF u \in y.found THEN y.seen[u] ELSE @[u]]]
    OBVIOUS
  <2>2. IsSession(x) /\ x.op = y.op /\ x.pc = "idle"
    BY <1>1, <2>1 DEF IsSession
  <2>3. Become(s, x) /\ UNCHANGED kept /\ y.pc = "answer"
    BY <1>1, <1>8, <2>1 DEF Answer, At
  <2> QED BY <1>1, <1>2, <2>2, <2>3 DEF Waiting
<1>9. CASE StoreFails(s)
  <2>1. PICK x : x = [y EXCEPT !.pc = "idle", !.op = {}, !.seen = NoFlags]
    OBVIOUS
  <2>2. IsSession(x) /\ x.op = {} /\ x.pc = "idle"
    BY <1>1, <2>1 DEF IsSession
  <2>3. Become(s, x) /\ UNCHANGED kept /\ y.pc \in {"lock", "write"}
    BY <1>1, <1>9, <2>1 DEF StoreFails, At
  <2> QED BY <1>1, <1>2, <2>2, <2>3 DEF Waiting
<1>10. CASE RequestFails(s)
  <2>1. PICK x : x = [y EXCEPT !.pc = "idle", !.total = 0, !.offset = 0, !.found = {}]
    OBVIOUS
  <2>2. IsSession(x) /\ x.op = y.op /\ x.pc = "idle"
    BY <1>1, <2>1 DEF IsSession
  <2>3. Become(s, x) /\ UNCHANGED kept /\ y.pc \in {"count", "page"}
    BY <1>1, <1>10, <2>1 DEF RequestFails, At
  <2> QED BY <1>1, <1>2, <2>2, <2>3 DEF Waiting
<1>11. CASE Reconnect(s)
  BY <1>2, <1>11, FreshIsQuiet DEF Reconnect
<1> QED BY <1>3, <1>4, <1>5, <1>6, <1>7, <1>8, <1>9, <1>10, <1>11

LEMMA StoreIsQuiet ==
  ASSUME FlagsInv, NEW s \in Sessions, NEW op \in Ledger!Operation, StoreFlags(s, op)
  PROVE  \E x : Quietly(s, x)
<1>1. PICK y : y = session[s] /\ IsSession(y) /\ Waiting(y)
  BY DEF FlagsInv
<1>2. PICK x : x = [y EXCEPT !.pc = "lock", !.op = {op}]
  OBVIOUS
<1>3. IsSession(x) /\ x.pc = "lock" /\ x.op = {op} /\ y.op = {}
  BY <1>1, <1>2 DEF StoreFlags, At, IsSession, Waiting
<1> QED BY <1>1, <1>2, <1>3 DEF StoreFlags, Quietly, Become, Waiting

\* One connection takes the lock, and reads.
LEMMA LockFlags ==
  ASSUME FlagsInv, NEW s \in Sessions, Lock(s)
  PROVE  FlagsInv' /\ UNCHANGED <<kept, [r \in Sessions |-> session[r].op]>>
<1>1. PICK y : y = session[s] /\ IsSession(y) /\ Waiting(y) /\ y.pc = "lock"
  BY DEF FlagsInv, Lock, At
<1>2. PICK x : x = [y EXCEPT !.pc = "write", !.seen = kept]
  OBVIOUS
<1>3. IsSession(x) /\ x.pc = "write" /\ x.op = y.op /\ x.seen = kept
  BY <1>1, <1>2 DEF IsSession
<1>4. session' = [session EXCEPT ![s] = x] /\ UNCHANGED kept
  BY <1>1, <1>2 DEF Lock, Become
<1>5. Waiting(x)
  BY <1>1, <1>3 DEF Waiting
<1>6. \A r \in Sessions : session[r].pc # "write"
  BY DEF Lock, At
<1>7. FlagsInv'
  BY <1>3, <1>4, <1>5, <1>6 DEF FlagsInv, At
<1>8. \A r \in Sessions : session'[r].op = session[r].op
  BY <1>1, <1>3, <1>4 DEF FlagsInv
<1> QED BY <1>4, <1>7, <1>8

LEMMA AppliedType ==
  ASSUME NEW old \in [Uids -> SUBSET Flags], NEW op \in Ledger!Operation
  PROVE  Ledger!Applied(old, op) \in [Uids -> SUBSET Flags]
<1>1. op.flags \subseteq Flags /\ op.mode \in {"add", "remove", "replace"}
  BY DEF Ledger!Operation
<1>2. CASE op.mode = "add"
  BY <1>1, <1>2 DEF Ledger!Applied
<1>3. CASE op.mode = "remove"
  BY <1>1, <1>3 DEF Ledger!Applied
<1>4. CASE op.mode = "replace"
  BY <1>1, <1>4 DEF Ledger!Applied
<1> QED BY <1>1, <1>2, <1>3, <1>4

\* What it commits is what the STORE does to the flags of that moment.
LEMMA CommitFlags ==
  ASSUME FlagsInv, NEW s \in Sessions, Commit(s)
  PROVE  FlagsInv' /\ [Ledger!Next]_<<kept, [r \in Sessions |-> session[r].op]>>
<1>1. PICK y : /\ y = session[s] /\ IsSession(y) /\ Waiting(y) /\ y.pc = "write" /\ y.seen = kept
               /\ kept \in [Uids -> SUBSET Flags]
  BY DEF FlagsInv, Commit, At
<1>2. PICK op \in Ledger!Operation : y.op = {op}
  BY <1>1 DEF Waiting
<1>3. op = CHOOSE o \in y.op : TRUE
  BY <1>2
<1>4. PICK new : new = Ledger!Applied(kept, op)
  OBVIOUS
<1>5. PICK x : x = [y EXCEPT !.pc = "answer", !.op = {}, !.seen = new, !.found = op.targets]
  OBVIOUS
<1>6. /\ kept' = [u \in Uids |-> IF u \in op.targets THEN new[u] ELSE kept[u]]
      /\ session' = [session EXCEPT ![s] = x]
  BY <1>1, <1>3, <1>4, <1>5 DEF Commit, Become
<1>7. kept' = Ledger!Applied(kept, op)
  <2>1. \A u \in Uids : u \notin op.targets => new[u] = kept[u]
    BY <1>4 DEF Ledger!Applied
  <2>2. new \in [Uids -> SUBSET Flags]
    BY <1>1, <1>4, AppliedType
  <2> QED BY <1>4, <1>6, <2>1, <2>2
<1>8. IsSession(x) /\ x.pc = "answer" /\ x.op = {} /\ Waiting(x)
  BY <1>1, <1>5 DEF IsSession, Waiting
<1>9. \A r \in Sessions : r # s => session'[r] = session[r] /\ session[r].pc # "write"
  BY <1>1, <1>6 DEF FlagsInv, At
<1>10. session'[s] = x /\ session' = [r \in Sessions |-> session'[r]]
  BY <1>6 DEF FlagsInv
<1>11. FlagsInv'
  <2>1. kept' \in [Uids -> SUBSET Flags]
    BY <1>1, <1>7, AppliedType
  <2> QED BY <2>1, <1>6, <1>8, <1>9, <1>10 DEF FlagsInv, At
<1>12. Ledger!Apply(s)
  <2>1. PICK asked : asked = [r \in Sessions |-> session[r].op]
    OBVIOUS
  <2>2. PICK after : after = [r \in Sessions |-> session'[r].op]
    OBVIOUS
  <2>3. after = [asked EXCEPT ![s] = {}] /\ asked[s] = {op}
    BY <1>1, <1>2, <1>8, <1>9, <1>10, <2>1, <2>2
  <2> QED BY <1>7, <2>1, <2>2, <2>3 DEF Ledger!Apply
<1> QED BY <1>11, <1>12 DEF Ledger!Next

\* A restart refuses whatever is waited for.
LEMMA RestartFlags ==
  ASSUME FlagsInv, Restart
  PROVE  FlagsInv' /\ [Ledger!Next]_<<kept, [r \in Sessions |-> session[r].op]>>
<1>1. FlagsInv'
  BY FreshIsQuiet DEF FlagsInv, Restart, At
<1>2. PICK asked : asked = [r \in Sessions |-> session[r].op]
  OBVIOUS
<1>3. PICK after : after = [r \in Sessions |-> session'[r].op]
  OBVIOUS
<1>4. after = [r \in Sessions |-> {}] /\ UNCHANGED kept
  BY <1>3, FreshIsQuiet DEF Restart
<1>5. CASE \E s \in Sessions : asked[s] # {}
  <2>1. Ledger!Refuse(Sessions)
    BY <1>2, <1>3, <1>4, <1>5 DEF Ledger!Refuse
  <2> QED BY <1>1, <2>1 DEF Ledger!Next
<1>6. CASE \A s \in Sessions : asked[s] = {}
  <2>1. after = asked
    BY <1>2, <1>4, <1>6
  <2> QED BY <1>1, <1>2, <1>3, <1>4, <2>1
<1> QED BY <1>5, <1>6

LEMMA ImapFlags ==
  ASSUME FlagsInv, world \in Worlds, Imap
  PROVE  FlagsInv' /\ [Ledger!Next]_<<kept, [r \in Sessions |-> session[r].op]>>
<1>1. world.sessions \subseteq Sessions /\ world.stores \subseteq Ledger!Operation
  BY ClientsAssumption
<1>2. ASSUME NEW s \in Sessions,
             \/ Select(s) \/ Refresh(s) \/ Indexing(s) \/ Answer(s)
             \/ \E op \in Ledger!Operation : StoreFlags(s, op)
             \/ Mishap(s, world.unreachable)
      PROVE  FlagsInv' /\ [Ledger!Next]_<<kept, [r \in Sessions |-> session[r].op]>>
  BY <1>2, IndexingIsQuiet, StoreIsQuiet, QuietFlags DEF Indexing, Mishap
<1>3. ASSUME NEW s \in Sessions, Command(s, world.stores)
      PROVE  FlagsInv' /\ [Ledger!Next]_<<kept, [r \in Sessions |-> session[r].op]>>
  BY <1>1, <1>2, <1>3, LockFlags, CommitFlags DEF Command, Storing
<1> QED BY <1>1, <1>2, <1>3, RestartFlags DEF Imap

LEMMA NextFlags ==
  FlagsInv /\ world \in Worlds /\ [Next]_vars =>
    FlagsInv' /\ [Ledger!Next]_<<kept, [r \in Sessions |-> session[r].op]>>
<1> SUFFICES ASSUME FlagsInv, world \in Worlds, [Next]_vars
             PROVE  FlagsInv' /\ [Ledger!Next]_<<kept, [r \in Sessions |-> session[r].op]>>
  OBVIOUS
<1>1. CASE UNCHANGED <<kept, session>>
  BY <1>1 DEF FlagsInv, At
<1>2. CASE Imap
  BY <1>2, ImapFlags
<1> QED BY <1>1, <1>2 DEF Next, Mails, MailBox, vars, imapVars

LEMMA InitFlags == Init => FlagsInv /\ Ledger!Init
BY FreshIsQuiet DEF Init, ImapInit, NoFlags, FlagsInv, At, Ledger!Init

LEMMA WorldStays == world \in Worlds /\ [Next]_vars => (world \in Worlds)'
BY DEF Next, vars

\* flag_store.py update_flags holds the write lock of SQLite from its SELECT to
\* its COMMIT: every STORE is applied whole to the flags of that moment or not
\* at all, for any number of connections, messages and flags.
THEOREM FlagsNoUpdateLost == Spec => NoUpdateLost
<1>1. Init => FlagsInv /\ world \in Worlds /\ Ledger!Init
  BY InitFlags DEF Init
<1>2. FlagsInv /\ world \in Worlds /\ [Next]_vars =>
        /\ FlagsInv' /\ (world \in Worlds)'
        /\ [Ledger!Next]_(Ledger!flagVars)
  BY NextFlags, WorldStays DEF Ledger!flagVars
<1> QED BY <1>1, <1>2, PTL DEF Spec, NoUpdateLost, Ledger!Spec

-----------------------------------------------------------------------------
(* The codes under the pages. *)

\* A code that was redeemed stays so, or is deleted.
Spent(c) ==
  codes[c].status = "deleted" \/ (codes[c].status = "live" /\ codes[c].redeemed)

CodesInv == codes \in [Codes -> CodeRow(Codes)] /\ ValuesFitTypes

CodesGo == CodesInv' /\ \A c \in Codes : Spent(c) => Spent(c)'

\* One row of the table changes.
LEMMA RowGoes ==
  ASSUME CodesInv, NEW c \in Codes, NEW r \in CodeRow(Codes), codes' = [codes EXCEPT ![c] = r],
         r.status = "live" => r.value \in ValuesOf[Kind[c]],
         Spent(c) => r.status = "deleted" \/ (r.status = "live" /\ r.redeemed)
  PROVE  CodesGo
BY DEF CodesInv, ValuesFitTypes, CodesGo, Spent

LEMMA GrantGoes ==
  ASSUME CodesInv, NEW c \in Codes, Grant(c)
  PROVE  CodesGo
<1>1. PICK y \in CodeRow(Codes) : y = codes[c] /\ y.status = "live"
  BY DEF CodesInv, Grant, Claimable, Available
<1>2. PICK r : r = [y EXCEPT !.redeemed = TRUE, !.result = c]
  OBVIOUS
<1>3. r \in CodeRow(Codes) /\ r.status = "live" /\ r.redeemed /\ r.value = y.value
  BY <1>1, <1>2 DEF CodeRow
<1>4. codes' = [codes EXCEPT ![c] = r]
  BY <1>1, <1>2 DEF Grant, Redeemed
<1> QED BY <1>1, <1>3, <1>4, RowGoes DEF CodesInv, ValuesFitTypes

LEMMA UpdateGoes ==
  ASSUME CodesInv, NEW c \in Codes, NEW v \in ValuesOf[Kind[c]], NEW on \in BOOLEAN,
         AdminUpdateCode(c, v, on)
  PROVE  CodesGo
<1>1. PICK y \in CodeRow(Codes) : y = codes[c] /\ y.status = "live" /\ ~y.redeemed
  BY DEF CodesInv, AdminUpdateCode
<1>2. PICK r : r = [y EXCEPT !.value = v, !.enabled = on, !.expired = FALSE]
  OBVIOUS
<1>3. v \in Values
  BY KindAssumption
<1>4. r \in CodeRow(Codes) /\ r.status = "live" /\ r.value = v
  BY <1>1, <1>2, <1>3 DEF CodeRow
<1>5. codes' = [codes EXCEPT ![c] = r]
  BY <1>1, <1>2 DEF AdminUpdateCode
<1> QED BY <1>1, <1>4, <1>5, RowGoes DEF Spent

LEMMA DeleteGoes ==
  ASSUME CodesInv, NEW c \in Codes, AdminDeleteCode(c)
  PROVE  CodesGo
<1>1. NoRow("deleted") \in CodeRow(Codes) /\ NoRow("deleted").status = "deleted"
  BY DEF NoRow, CodeRow
<1> QED BY <1>1, RowGoes DEF AdminDeleteCode

LEMMA ExpiryGoes ==
  ASSUME CodesInv, NEW c \in Codes, CodeExpires(c)
  PROVE  CodesGo
<1>1. PICK y \in CodeRow(Codes) : y = codes[c] /\ y.status = "live"
  BY DEF CodesInv, CodeExpires
<1>2. PICK r : r = [y EXCEPT !.expired = TRUE]
  OBVIOUS
<1>3. r \in CodeRow(Codes) /\ r.status = "live" /\ r.value = y.value /\ r.redeemed = y.redeemed
  BY <1>1, <1>2 DEF CodeRow
<1>4. codes' = [codes EXCEPT ![c] = r]
  BY <1>1, <1>2 DEF CodeExpires
<1> QED BY <1>1, <1>3, <1>4, RowGoes DEF CodesInv, ValuesFitTypes, Spent

LEMMA CreateGoes ==
  ASSUME CodesInv, NEW c \in Codes, NEW v \in ValuesOf[Kind[c]], AdminCreateCodes({c}, v, TRUE)
  PROVE  CodesGo
<1>1. v \in Values
  BY KindAssumption
<1>2. NewRow(v, TRUE) \in CodeRow(Codes) /\ NewRow(v, TRUE).value = v
  BY <1>1 DEF NewRow, CodeRow
<1>3. codes[c].status = "unissued" /\ codes' = [codes EXCEPT ![c] = NewRow(v, TRUE)]
  BY DEF AdminCreateCodes, CodesInv
<1> QED BY <1>2, <1>3, RowGoes DEF Spent

LEMMA ElsewhereGoes == CodesInv /\ Elsewhere => CodesGo
<1> SUFFICES ASSUME CodesInv, Elsewhere PROVE CodesGo
  OBVIOUS
<1>1. PICK c \in Codes : \/ Grant(c) \/ CodeExpires(c)
                         \/ \E on \in BOOLEAN : AdminUpdateCode(c, codes[c].value, on)
  BY DEF Elsewhere
<1>2. ASSUME NEW on \in BOOLEAN, AdminUpdateCode(c, codes[c].value, on)
      PROVE  CodesGo
  <2>1. PICK v \in ValuesOf[Kind[c]] : v = codes[c].value
    BY <1>2 DEF AdminUpdateCode, CodesInv, ValuesFitTypes
  <2> QED BY <1>2, <2>1, UpdateGoes
<1> QED BY <1>1, <1>2, GrantGoes, ExpiryGoes

\* A statement whose WHERE names no code changes nothing.
LEMMA NoRowGoes ==
  ASSUME CodesInv, NEW c, c \notin Codes, Grant(c) \/ AdminDeleteCode(c)
           \/ \E v : AdminUpdateCode(c, v, TRUE)
  PROVE  CodesGo
<1>1. UNCHANGED codes
  <2>1. PICK r : codes' = [codes EXCEPT ![c] = r]
    BY DEF Grant, AdminDeleteCode, AdminUpdateCode
  <2> QED BY <2>1 DEF CodesInv
<1> QED BY <1>1 DEF CodesInv, CodesGo, ValuesFitTypes, Spent

LEMMA WriteGoes ==
  ASSUME CodesInv, NEW x, Write(x)
  PROVE  CodesGo
<1>1. CASE Grant(x.code) \/ AdminDeleteCode(x.code)
  BY <1>1, GrantGoes, DeleteGoes, NoRowGoes
<1>2. CASE /\ x.value \in ValuesOf[x.kind] /\ Kind[x.code] = x.kind
           /\ AdminUpdateCode(x.code, x.value, TRUE)
  BY <1>2, UpdateGoes, NoRowGoes
<1>3. CASE /\ x.value \in ValuesOf[x.kind]
           /\ \E c \in Codes : Kind[c] = x.kind /\ AdminCreateCodes({c}, x.value, TRUE)
  BY <1>3, CreateGoes
<1> QED BY <1>1, <1>2, <1>3 DEF Write, UpdateMatches

-----------------------------------------------------------------------------
(* Answers.  The newest list is one of the type that is selected, and the  *)
(* newest query was answered no earlier than any that was shown.           *)

IsCall(x) ==
  /\ x = [pc |-> x.pc, op |-> x.op, code |-> x.code, kind |-> x.kind, value |-> x.value,
          newest |-> x.newest, answer |-> x.answer]
  /\ x.newest \in BOOLEAN
  /\ x.pc = "idle" => x.op = "none"
  /\ x.pc = "context" => x.op = "query"
  /\ x.newest => x.op \in {"query", "list"}
  /\ x.op \in {"query", "redeem", "result"} => x.code \in Codes

ListFits(x) ==
  x.op = "list" =>
    /\ x.newest => x.kind = desk.type
    /\ x.pc = "back" /\ x.answer # Null => \A row \in x.answer : Kind[row.code] = x.kind

\* The newest query was told that its code is unused, and the page is not yet.
Unused(x) ==
  /\ x.op = "query" /\ x.pc = "back" /\ x.newest
  /\ x.answer # Null /\ x.answer.status = "unused"

QueryFits(x) ==
  /\ x.op = "query" /\ x.pc = "back" /\ x.answer # Null /\ x.answer.status = "redeemed"
       => Spent(x.code)
  /\ x.op \in {"redeem", "result"} /\ x.pc = "back" /\ x.answer # Null => Spent(x.code)
  /\ Unused(x) => x.code \notin learned

Asks(x, op) == x.newest /\ x.op = op

CallsInv ==
  /\ call = [s \in Slots |-> call[s]]
  /\ \A s \in Slots : IsCall(call[s]) /\ ListFits(call[s]) /\ QueryFits(call[s])
  /\ \A s, t \in Slots : Asks(call[s], "query") /\ Asks(call[t], "query") => s = t

ShopInv ==
  /\ shop = [input |-> shop.input, info |-> shop.info, started |-> shop.started,
             done |-> shop.done]
  /\ shop.input \in Codes \cup {Null}
  /\ shop.info # Null =>
       /\ shop.input \in Codes
       /\ shop.info.status = "unused" => shop.input \notin learned
  /\ \A c \in learned : c \in Codes /\ Spent(c)

DeskInv ==
  /\ desk = [type |-> desk.type, rows |-> desk.rows, form |-> desk.form, failed |-> desk.failed]
  /\ desk.failed \in BOOLEAN
  /\ \/ \A row \in desk.rows : Kind[row.code] = desk.type
     \/ desk.failed
     \/ \E s \in Slots : Asks(call[s], "list")

PagesInv == CodesInv /\ CallsInv /\ ShopInv /\ DeskInv

\* A request that others made the newest no more, perhaps.
Fades(x, y) ==
  /\ IsCall(y) /\ y.pc = x.pc /\ y.op = x.op /\ y.code = x.code /\ y.kind = x.kind
  /\ y.answer = x.answer
  /\ y.newest => x.newest

LEMMA OutdatedFades ==
  ASSUME CallsInv, NEW op, NEW s \in Slots
  PROVE  /\ Fades(call[s], Outdated(op)[s]) /\ ~Asks(Outdated(op)[s], op)
         /\ call[s].op # op => Outdated(op)[s].newest = call[s].newest
<1>1. PICK x : x = call[s] /\ IsCall(x)
  BY DEF CallsInv
<1>2. PICK n \in BOOLEAN : n = (x.newest /\ x.op # op)
  OBVIOUS
<1>3. PICK y : y = [x EXCEPT !.newest = n]
  OBVIOUS
<1>4. /\ IsCall(y) /\ y.pc = x.pc /\ y.op = x.op /\ y.code = x.code /\ y.kind = x.kind
      /\ y.answer = x.answer /\ y.newest = n
  BY <1>1, <1>2, <1>3 DEF IsCall
<1>5. Outdated(op)[s] = y
  BY <1>1, <1>2, <1>3 DEF Outdated
<1> QED BY <1>1, <1>2, <1>4, <1>5 DEF Fades, Asks, IsCall

\* One request is another now, and the others are as new as before at most.
LEMMA CallsMove ==
  ASSUME CallsInv, NEW s \in Slots, NEW x,
         call' = [t \in Slots |-> IF t = s THEN x ELSE call'[t]],
         \A t \in Slots \ {s} : Fades(call[t], call'[t]),
         IsCall(x), ListFits(x)', QueryFits(x)',
         desk'.type = desk.type \/ \A t \in Slots \ {s} : ~Asks(call'[t], "list"),
         learned' = learned \/ \A t \in Slots \ {s} : Unused(call'[t]) => call'[t].code \notin learned',
         Asks(x, "query") => \A t \in Slots \ {s} : ~Asks(call'[t], "query"),
         \A c \in Codes : Spent(c) => Spent(c)'
  PROVE  CallsInv'
<1>1. call'[s] = x /\ call' = [t \in Slots |-> call'[t]]
  OBVIOUS
<1>2. ASSUME NEW t \in Slots \ {s}
      PROVE  IsCall(call'[t]) /\ ListFits(call[t])' /\ QueryFits(call[t])'
  <2>1. PICK y : y = call[t] /\ ListFits(y) /\ QueryFits(y) /\ IsCall(y)
    BY DEF CallsInv
  <2>2. PICK z : z = call'[t] /\ Fades(y, z) /\ IsCall(z)
    BY <2>1 DEF Fades
  <2>3. ListFits(z)'
    BY <2>1, <2>2 DEF ListFits, Fades, Asks
  <2>4. QueryFits(z)'
    BY <2>1, <2>2 DEF QueryFits, Unused, Fades, IsCall
  <2> QED BY <2>2, <2>3, <2>4
<1>3. ASSUME NEW t \in Slots, NEW u \in Slots, Asks(call'[t], "query"), Asks(call'[u], "query")
      PROVE  t = u
  BY <1>1, <1>3 DEF CallsInv, Fades, Asks
<1> QED BY <1>1, <1>2, <1>3 DEF CallsInv

\* The forms a step gives to the requests under way.
LEMMA Requested ==
  ASSUME NEW op \in {"query", "list", "redeem", "result", "create", "update", "delete"},
         NEW c, NEW k, NEW v, op \in {"query", "redeem", "result"} => c \in Codes
  PROVE  LET x == Request(op, c, k, v)
         IN /\ IsCall(x) /\ x.op = op /\ x.pc = "sent" /\ x.kind = k
            /\ (x.newest <=> op \in {"query", "list"})
<1>1. PICK n \in BOOLEAN : n = (op \in {"query", "list"})
  <2>1. CASE op \in {"query", "list"}
    <3>1. (op \in {"query", "list"}) = TRUE
      BY <2>1
    <3> QED BY <3>1
  <2>2. CASE op \notin {"query", "list"}
    <3>1. (op \in {"query", "list"}) = FALSE
      BY <2>2
    <3> QED BY <3>1
  <2> QED BY <2>1, <2>2
<1>2. PICK x : x = [pc |-> "sent", op |-> op, code |-> c, kind |-> k, value |-> v,
                    newest |-> n, answer |-> Null]
  OBVIOUS
<1>3. x = Request(op, c, k, v)
  BY <1>1, <1>2 DEF Request
<1>4. IsCall(x) /\ x.op = op /\ x.pc = "sent" /\ x.kind = k /\ x.newest = n
  BY <1>1, <1>2 DEF IsCall
<1> QED BY <1>1, <1>3, <1>4

LEMMA Idling == IsCall(Idle) /\ Idle.op = "none" /\ Idle.pc = "idle" /\ ~Idle.newest
<1>1. ("none" \in {"query", "list"}) = FALSE
  OBVIOUS
<1>2. PICK r : r = [pc |-> "sent", op |-> "none", code |-> Null, kind |-> Null,
                    value |-> Null, newest |-> FALSE, answer |-> Null]
  OBVIOUS
<1>3. r = Request("none", Null, Null, Null)
  BY <1>1, <1>2 DEF Request
<1>4. PICK x : x = [r EXCEPT !.pc = "idle"]
  OBVIOUS
<1>5. IsCall(x) /\ x.op = "none" /\ x.pc = "idle" /\ ~x.newest
  BY <1>2, <1>4 DEF IsCall
<1> QED BY <1>3, <1>4, <1>5 DEF Idle

LEMMA Replaced ==
  ASSUME CallsInv, NEW s \in Slots, NEW x, call' = [call EXCEPT ![s] = x]
  PROVE  /\ call' = [t \in Slots |-> IF t = s THEN x ELSE call'[t]]
         /\ \A t \in Slots \ {s} : call'[t] = call[t] /\ Fades(call[t], call'[t])
<1>1. \A t \in Slots : IsCall(call[t]) /\ call = [r \in Slots |-> call[r]]
  BY DEF CallsInv
<1> QED BY <1>1 DEF Fades

LEMMA SentNewest ==
  ASSUME CallsInv, NEW s \in Slots, NEW x, SendNewest(s, x)
  PROVE  /\ call' = [t \in Slots |-> IF t = s THEN x ELSE call'[t]]
         /\ \A t \in Slots \ {s} : /\ Fades(call[t], call'[t]) /\ ~Asks(call'[t], x.op)
                                   /\ call[t].op # x.op => call'[t].newest = call[t].newest
<1>1. call' = [Outdated(x.op) EXCEPT ![s] = x]
  BY DEF SendNewest
<1>2. Outdated(x.op) = [t \in Slots |-> Outdated(x.op)[t]]
  BY DEF Outdated
<1>3. \A t \in Slots \ {s} : call'[t] = Outdated(x.op)[t]
  BY <1>1, <1>2
<1>4. call' = [t \in Slots |-> IF t = s THEN x ELSE call'[t]]
  BY <1>1, <1>2
<1> QED BY <1>3, <1>4, OutdatedFades

\* All requests are as new as before at most, and nothing else they rest on moves.
LEMMA CallsFade ==
  ASSUME CallsInv, call' = [t \in Slots |-> call'[t]],
         \A t \in Slots : Fades(call[t], call'[t]),
         desk'.type = desk.type, learned' = learned,
         \A c \in Codes : Spent(c) => Spent(c)'
  PROVE  CallsInv'
<1>1. ASSUME NEW s \in Slots PROVE CallsInv'
  <2>1. PICK x : x = call[s] /\ ListFits(x) /\ QueryFits(x) /\ IsCall(x)
    BY <1>1 DEF CallsInv
  <2>2. PICK y : y = call'[s] /\ Fades(x, y) /\ IsCall(y)
    BY <1>1, <2>1 DEF Fades
  <2>3. ListFits(y)'
    BY <2>1, <2>2 DEF ListFits, Fades
  <2>4. QueryFits(y)'
    BY <2>1, <2>2 DEF QueryFits, Unused, Fades, IsCall
  <2>5. \A t \in Slots \ {s} : Asks(call'[t], "query") => Asks(call[t], "query")
    BY DEF Fades, Asks
  <2>6. Asks(y, "query") => \A t \in Slots \ {s} : ~Asks(call'[t], "query")
    BY <1>1, <2>1, <2>2, <2>5 DEF CallsInv, Fades, Asks
  <2>7. call' = [t \in Slots |-> IF t = s THEN y ELSE call'[t]]
    BY <1>1, <2>2
  <2> QED BY <1>1, <2>2, <2>3, <2>4, <2>6, <2>7, CallsMove
<1>2. CASE Slots = {}
  BY <1>2 DEF CallsInv
<1> QED BY <1>1, <1>2

LEMMA DeskStays ==
  ASSUME DeskInv, UNCHANGED desk,
         \A t \in Slots : Asks(call[t], "list") => Asks(call'[t], "list")
  PROVE  DeskInv'
BY DEF DeskInv

LEMMA ShopStays ==
  ASSUME ShopInv, UNCHANGED <<shop, learned>>, \A c \in Codes : Spent(c) => Spent(c)'
  PROVE  ShopInv'
BY DEF ShopInv

LEMMA ServingPages ==
  ASSUME PagesInv, Serving
  PROVE  PagesInv'
<1>1. PICK s \in Slots : Serve(s) /\ UNCHANGED <<shop, desk, learned>>
  BY DEF Serving
<1>2. PICK x : x = call[s] /\ IsCall(x) /\ ListFits(x) /\ QueryFits(x) /\ x.pc = "sent"
  BY <1>1 DEF PagesInv, CallsInv, Serve
<1>3. PICK a : /\ Answered(s, a) /\ (UNCHANGED codes \/ Write(x))
               /\ x.op = "query" => UNCHANGED codes /\ (a = Null \/ a = Info(x.code))
               /\ x.op = "list" => a = Null \/ a = Rows(x.kind)
               /\ x.op = "result" => UNCHANGED codes /\ (a = Null \/ a = Result(x.code))
               /\ x.op = "redeem" => \/ a = Null \/ Grant(x.code)
                                     \/ UNCHANGED codes /\ a = Result(x.code)
  <2>1. CASE x.op \in {"query", "list", "result"} /\ Answered(s, Reading(x)) /\ UNCHANGED codes
    BY <2>1 DEF Reading
  <2>2. CASE x.op = "redeem" /\ Answered(s, Result(x.code)) /\ UNCHANGED codes
    BY <2>2
  <2>3. CASE Write(x) /\ \E a : Answered(s, a)
    BY <2>3 DEF Write
  <2>4. CASE Answered(s, Null) /\ UNCHANGED codes
    BY <2>4
  <2> QED BY <1>1, <1>2, <2>1, <2>2, <2>3, <2>4 DEF Serve
<1>4. CodesGo
  BY <1>3, WriteGoes DEF PagesInv, CodesGo, CodesInv, ValuesFitTypes, Spent
<1>5. PICK y : y = [x EXCEPT !.pc = "back", !.answer = a]
  OBVIOUS
<1>6. /\ IsCall(y) /\ y.pc = "back" /\ y.answer = a /\ y.op = x.op /\ y.kind = x.kind
      /\ y.code = x.code /\ y.newest = x.newest
  BY <1>2, <1>5 DEF IsCall
<1>7. call' = [call EXCEPT ![s] = y]
  BY <1>2, <1>3, <1>5 DEF Answered
<1>8. ListFits(y)'
  <2>1. \A row \in Rows(x.kind) : Kind[row.code] = x.kind
    BY DEF Rows
  <2> QED BY <1>1, <1>2, <1>3, <1>6, <2>1 DEF ListFits
<1>9. QueryFits(y)'
  <2>1. CASE x.op = "query" /\ a # Null
    <3>1. a = Info(x.code) /\ UNCHANGED <<codes, learned>> /\ x.code \in Codes
      BY <1>1, <1>2, <1>3, <2>1 DEF IsCall
    <3>2. codes[x.code].status = "live" /\ a.status = Status(x.code)
      BY <2>1, <3>1 DEF Info
    <3>3. a.status = "redeemed" => Spent(x.code)
      BY <3>2 DEF Status, Spent
    <3>4. a.status = "unused" => ~Spent(x.code)
      BY <3>2 DEF Status, Spent
    <3>5. x.code \in learned => Spent(x.code)
      BY DEF PagesInv, ShopInv
    <3> QED BY <1>6, <2>1, <3>1, <3>3, <3>4, <3>5 DEF QueryFits, Unused, Spent
  <2>2. CASE x.op \in {"redeem", "result"} /\ a # Null
    <3>1. CASE Grant(x.code)
      <4>1. PICK r : r = codes[x.code] /\ r \in CodeRow(Codes) /\ r.status = "live"
        BY <1>2, <2>2, <3>1 DEF PagesInv, CodesInv, IsCall, Grant, Claimable, Available
      <4>2. PICK new : new = [r EXCEPT !.redeemed = TRUE, !.result = x.code]
        OBVIOUS
      <4>3. new.status = "live" /\ new.redeemed /\ codes'[x.code] = new
        BY <1>2, <2>2, <3>1, <4>1, <4>2 DEF PagesInv, CodesInv, IsCall, CodeRow, Grant, Redeemed
      <4>4. Spent(x.code)'
        BY <4>3 DEF Spent
      <4> QED BY <1>6, <2>2, <4>4 DEF QueryFits, Unused, Spent
    <3>2. CASE UNCHANGED codes /\ a = Result(x.code)
      <4>1. Spent(x.code)'
        BY <2>2, <3>2 DEF Result, Available, Spent
      <4> QED BY <1>6, <2>2, <4>1 DEF QueryFits, Unused, Spent
    <3> QED BY <1>3, <2>2, <3>1, <3>2
  <2>3. CASE x.op \notin {"query", "redeem", "result"} \/ a = Null
    BY <1>6, <2>3 DEF QueryFits, Unused
  <2> QED BY <2>1, <2>2, <2>3
<1>10. CallsInv'
  <2>1. /\ call' = [t \in Slots |-> IF t = s THEN y ELSE call'[t]]
        /\ \A t \in Slots \ {s} : call'[t] = call[t] /\ Fades(call[t], call'[t])
    BY <1>7, Replaced DEF PagesInv
  <2>2. Asks(y, "query") => \A t \in Slots \ {s} : ~Asks(call'[t], "query")
    BY <1>2, <1>6, <2>1 DEF PagesInv, CallsInv, Asks
  <2> QED BY <1>1, <1>4, <1>6, <1>8, <1>9, <2>1, <2>2, CallsMove DEF PagesInv, CodesGo
<1>11. DeskInv'
  <2>1. \A t \in Slots : Asks(call[t], "list") => Asks(call'[t], "list")
    BY <1>2, <1>6, <1>7, Replaced DEF PagesInv, Asks
  <2> QED BY <1>1, <2>1, DeskStays DEF PagesInv
<1> QED BY <1>1, <1>4, <1>10, <1>11, ShopStays DEF PagesInv, CodesGo

LEMMA ElsewherePages ==
  ASSUME PagesInv, Elsewhere
  PROVE  PagesInv'
<1>1. UNCHANGED <<call, shop, desk, learned>> /\ CodesGo
  BY ElsewhereGoes DEF Elsewhere, PagesInv
<1>2. CallsInv'
  <2>1. \A t \in Slots : Fades(call[t], call'[t])
    BY <1>1 DEF PagesInv, CallsInv, Fades
  <2>2. call' = [t \in Slots |-> call'[t]]
    BY <1>1 DEF PagesInv, CallsInv
  <2> QED BY <1>1, <2>1, <2>2, CallsFade DEF PagesInv, CodesGo
<1> QED BY <1>1, <1>2, ShopStays, DeskStays DEF PagesInv, CodesGo

-----------------------------------------------------------------------------
(* The shop. *)

\* What the shop shows afterwards is what it showed, or nothing, and a list that
\* is on its way to the desk stays.
Plainly ==
  /\ UNCHANGED <<codes, desk, learned>> /\ CallsInv'
  /\ shop' = [input |-> shop'.input, info |-> shop'.info, started |-> shop'.started,
              done |-> shop'.done]
  /\ shop'.input \in Codes \cup {Null}
  /\ shop'.info # Null => shop'.info = shop.info /\ shop'.input = shop.input
  /\ \A t \in Slots : Asks(call[t], "list") => Asks(call'[t], "list")

LEMMA PlainPages ==
  ASSUME PagesInv, Plainly
  PROVE  PagesInv'
<1>1. \A c \in Codes : Spent(c)' <=> Spent(c)
  BY DEF Plainly, Spent
<1>2. ShopInv'
  BY <1>1 DEF PagesInv, ShopInv, Plainly
<1> QED BY <1>2, DeskStays DEF PagesInv, Plainly, CodesInv, ValuesFitTypes

\* A request is sent, or comes to an end, and no other is concerned.
LEMMA CallsPlain ==
  ASSUME PagesInv, UNCHANGED <<codes, desk>>, NEW s \in Slots, NEW x,
         learned' = learned \/ \A t \in Slots \ {s} : Unused(call[t]) => call[t].code \notin learned',
         call' = [call EXCEPT ![s] = x], IsCall(x), x.pc # "back", ~x.newest,
         ~Asks(call[s], "list")
  PROVE  CallsInv' /\ \A t \in Slots : Asks(call[t], "list") => Asks(call'[t], "list")
<1>1. /\ call' = [t \in Slots |-> IF t = s THEN x ELSE call'[t]]
      /\ \A t \in Slots \ {s} : call'[t] = call[t] /\ Fades(call[t], call'[t])
  BY Replaced DEF PagesInv
<1>2. ListFits(x)' /\ QueryFits(x)' /\ ~Asks(x, "query")
  BY DEF ListFits, QueryFits, Unused, Asks
<1>3. \A c \in Codes : Spent(c)' <=> Spent(c)
  BY DEF Spent
<1>4. CallsInv'
  BY <1>1, <1>2, <1>3, CallsMove DEF PagesInv
<1> QED BY <1>1, <1>4

\* A free place has made no list, nor has a request of another kind.
LEMMA NoList ==
  ASSUME CallsInv, NEW s \in Slots, Free(s) \/ call[s].op # "list"
  PROVE  ~Asks(call[s], "list")
BY DEF CallsInv, Free, IsCall, Asks

\* The input is another, and earlier queries are out of date.
LEMMA OutdatedPages ==
  ASSUME PagesInv, UNCHANGED <<codes, desk, learned>>, call' = Outdated("query")
  PROVE  CallsInv' /\ \A t \in Slots : Asks(call[t], "list") => Asks(call'[t], "list")
<1>1. call' = [t \in Slots |-> call'[t]]
  BY DEF Outdated
<1>2. \A t \in Slots : /\ Fades(call[t], call'[t])
                       /\ call[t].op # "query" => call'[t].newest = call[t].newest
  BY OutdatedFades DEF PagesInv
<1>3. \A c \in Codes : Spent(c)' <=> Spent(c)
  BY DEF Spent
<1>4. CallsInv'
  BY <1>1, <1>2, <1>3, CallsFade DEF PagesInv
<1> QED BY <1>2, <1>4 DEF Fades, Asks

LEMMA QueryCodePages ==
  ASSUME PagesInv, NEW s \in Slots, QueryCode(s), UNCHANGED <<codes, desk, learned>>
  PROVE  CallsInv' /\ \A t \in Slots : Asks(call[t], "list") => Asks(call'[t], "list")
<1>1. shop.input \in Codes /\ SendNewest(s, Request("query", shop.input, Null, Null)) /\ Free(s)
  BY DEF QueryCode, PagesInv, ShopInv
<1>2. PICK x : /\ x = Request("query", shop.input, Null, Null)
               /\ IsCall(x) /\ x.op = "query" /\ x.pc = "sent"
  BY <1>1, Requested
<1>3. /\ call' = [t \in Slots |-> IF t = s THEN x ELSE call'[t]]
      /\ \A t \in Slots \ {s} : /\ Fades(call[t], call'[t]) /\ ~Asks(call'[t], "query")
                                /\ call[t].op # "query" => call'[t].newest = call[t].newest
  BY <1>1, <1>2, SentNewest DEF PagesInv
<1>4. ListFits(x)' /\ QueryFits(x)'
  BY <1>2 DEF ListFits, QueryFits, Unused
<1>5. \A c \in Codes : Spent(c)' <=> Spent(c)
  BY DEF Spent
<1>6. CallsInv'
  BY <1>2, <1>3, <1>4, <1>5, CallsMove DEF PagesInv
<1>7. ~Asks(call[s], "list")
  BY <1>1, NoList DEF PagesInv
<1> QED BY <1>3, <1>6, <1>7 DEF Fades, Asks

\* The newest query's answer is shown, and its request goes on.
LEMMA QueryBackPages ==
  ASSUME PagesInv, NEW s \in Slots, QueryBack(s), UNCHANGED <<codes, desk>>
  PROVE  PagesInv'
<1>1. PICK x : /\ x = call[s] /\ IsCall(x) /\ QueryFits(x) /\ x.op = "query" /\ x.pc = "back"
               /\ x.code \in Codes
  BY DEF PagesInv, CallsInv, QueryBack, Back, IsCall
<1>2. PICK a, z : /\ a = x.answer /\ z = shop
                  /\ z = [input |-> z.input, info |-> z.info, started |-> z.started, done |-> z.done]
                  /\ z.input \in Codes \cup {Null}
  BY DEF PagesInv, ShopInv
<1>3. ~Asks(call[s], "list")
  BY <1>1, NoList DEF PagesInv
<1>4. CASE ~(x.newest /\ a # Null /\ z.input = x.code)
  <2>1. /\ UNCHANGED learned /\ call' = [call EXCEPT ![s] = Idle]
        /\ shop' = z \/ shop' = [z EXCEPT !.info = Null]
    BY <1>1, <1>2, <1>4 DEF QueryBack, Newest, HangUp
  <2>2. CallsInv' /\ \A t \in Slots : Asks(call[t], "list") => Asks(call'[t], "list")
    BY <1>3, <2>1, Idling, CallsPlain
  <2>3. /\ shop' = [input |-> shop'.input, info |-> shop'.info, started |-> shop'.started,
                    done |-> shop'.done]
        /\ shop'.input = z.input /\ (shop'.info # Null => shop'.info = z.info)
    BY <1>2, <2>1
  <2> QED BY <1>2, <2>1, <2>2, <2>3, PlainPages DEF Plainly
<1>5. CASE x.newest /\ a # Null /\ z.input = x.code
  <2>1. /\ shop' = [z EXCEPT !.info = a, !.started = FALSE, !.done = Null]
        /\ learned' = IF a.status = "redeemed" THEN learned \cup {x.code} ELSE learned
        /\ call' = [call EXCEPT ![s] = [x EXCEPT !.pc = "context", !.answer = Null]]
    BY <1>1, <1>2, <1>5 DEF QueryBack, Newest, PagesInv, CallsInv
  <2>2. PICK y : y = [x EXCEPT !.pc = "context", !.answer = Null]
    OBVIOUS
  <2>3. IsCall(y) /\ y.pc = "context" /\ y.op = "query"
    BY <1>1, <2>2 DEF IsCall
  <2>4. ListFits(y)' /\ QueryFits(y)'
    BY <2>3 DEF ListFits, QueryFits, Unused
  <2>5. /\ call' = [t \in Slots |-> IF t = s THEN y ELSE call'[t]]
        /\ \A t \in Slots \ {s} : call'[t] = call[t] /\ Fades(call[t], call'[t])
    BY <2>1, <2>2, Replaced DEF PagesInv
  <2>6. \A t \in Slots \ {s} : ~Asks(call'[t], "query") /\ ~Unused(call'[t])
    BY <1>1, <1>5, <2>5 DEF PagesInv, CallsInv, Asks, Unused
  <2>7. \A c \in Codes : Spent(c)' <=> Spent(c)
    BY DEF Spent
  <2>8. CallsInv'
    BY <2>3, <2>4, <2>5, <2>6, <2>7, CallsMove DEF PagesInv
  <2>9. /\ a.status = "redeemed" => Spent(x.code)
        /\ a.status = "unused" => x.code \notin learned
    BY <1>1, <1>2, <1>5 DEF QueryFits, Unused
  <2>10. /\ shop' = [input |-> shop'.input, info |-> shop'.info, started |-> shop'.started,
                     done |-> shop'.done]
         /\ shop'.input = x.code /\ shop'.info = a
    BY <1>2, <1>5, <2>1
  <2>11. \A c \in learned' : c \in Codes /\ Spent(c)
    BY <1>1, <2>1, <2>9 DEF PagesInv, ShopInv
  <2>12. ShopInv'
    BY <1>1, <2>1, <2>7, <2>9, <2>10, <2>11 DEF ShopInv
  <2>13. DeskInv'
    BY <1>3, <2>5, DeskStays DEF PagesInv
  <2> QED BY <2>8, <2>12, <2>13 DEF PagesInv, CodesInv, ValuesFitTypes
<1> QED BY <1>4, <1>5

\* A result is shown, and its code is learned unless a query was told otherwise.
LEMMA RedeemBackPages ==
  ASSUME PagesInv, NEW s \in Slots, RedeemBack(s), UNCHANGED <<codes, desk>>
  PROVE  PagesInv'
<1>1. PICK x : /\ x = call[s] /\ IsCall(x) /\ QueryFits(x) /\ x.op \in {"redeem", "result"}
               /\ x.pc = "back" /\ x.code \in Codes
  BY DEF PagesInv, CallsInv, RedeemBack, Back, IsCall
<1>2. PICK a, z : /\ a = x.answer /\ z = shop
                  /\ z = [input |-> z.input, info |-> z.info, started |-> z.started, done |-> z.done]
                  /\ z.input \in Codes \cup {Null}
  BY DEF PagesInv, ShopInv
<1>3. ~Asks(call[s], "list") /\ call' = [call EXCEPT ![s] = Idle]
  BY <1>1, NoList DEF PagesInv, RedeemBack, HangUp
<1>4. CASE UNCHANGED <<shop, learned>>
  <2>1. CallsInv' /\ \A t \in Slots : Asks(call[t], "list") => Asks(call'[t], "list")
    BY <1>3, <1>4, Idling, CallsPlain
  <2> QED BY <1>2, <1>4, <2>1, PlainPages DEF Plainly
<1>5. CASE a # Null
  <2>1. /\ shop' = [z EXCEPT !.done = a, !.info = Null]
        /\ learned' = IF Overtaken(x.code) THEN learned ELSE learned \cup {x.code}
    BY <1>1, <1>2, <1>5 DEF RedeemBack
  <2>2. Spent(x.code)
    BY <1>1, <1>2, <1>5 DEF QueryFits
  <2>3. learned' = learned
          \/ \A t \in Slots \ {s} : Unused(call[t]) => call[t].code \notin learned'
    <3>1. CASE ~Overtaken(x.code)
      <4>1. \A t \in Slots : Unused(call[t]) => call[t].code # x.code /\ call[t].code \notin learned
        BY <3>1 DEF Overtaken, Back, Unused, PagesInv, CallsInv, QueryFits
      <4> QED BY <2>1, <3>1, <4>1
    <3> QED BY <2>1, <3>1
  <2>4. CallsInv' /\ \A t \in Slots : Asks(call[t], "list") => Asks(call'[t], "list")
    BY <1>3, <2>3, Idling, CallsPlain
  <2>5. /\ shop' = [input |-> shop'.input, info |-> shop'.info, started |-> shop'.started,
                    done |-> shop'.done]
        /\ shop'.input = z.input /\ shop'.info = Null
    BY <1>2, <2>1
  <2>6. \A c \in Codes : Spent(c)' <=> Spent(c)
    BY DEF Spent
  <2>7. \A c \in learned' : c \in Codes /\ Spent(c)
    BY <1>1, <2>1, <2>2 DEF PagesInv, ShopInv
  <2>8. ShopInv'
    BY <1>2, <2>5, <2>6, <2>7 DEF ShopInv
  <2>9. DeskInv'
    BY <2>4, DeskStays DEF PagesInv
  <2> QED BY <2>4, <2>8, <2>9 DEF PagesInv, CodesInv, ValuesFitTypes
<1> QED BY <1>1, <1>2, <1>4, <1>5 DEF RedeemBack

LEMMA ShoppingPages ==
  ASSUME PagesInv, NEW free \in SUBSET Slots, Shopping(free)
  PROVE  PagesInv'
<1>1. UNCHANGED <<codes, desk>>
  BY DEF Shopping
<1>2. PICK x : x = shop /\ x = [input |-> x.input, info |-> x.info, started |-> x.started,
                                 done |-> x.done]
                 /\ x.input \in Codes \cup {Null}
  BY DEF PagesInv, ShopInv
<1>3. CASE ((\E c \in Codes \cup {Null} : EnterCode(c)) \/ ResetRedemption) /\ UNCHANGED learned
  <2>1. /\ shop' = [input |-> shop'.input, info |-> shop'.info, started |-> shop'.started,
                    done |-> shop'.done]
        /\ shop'.input \in Codes \cup {Null} /\ shop'.info = Null
        /\ call' = Outdated("query")
    <3>1. ASSUME NEW c \in Codes \cup {Null}, EnterCode(c) PROVE <2>1
      <4>1. PICK y : y = [x EXCEPT !.input = c, !.info = Null, !.started = FALSE]
        OBVIOUS
      <4>2. /\ y = [input |-> y.input, info |-> y.info, started |-> y.started, done |-> y.done]
            /\ y.input = c /\ y.info = Null
        BY <1>2, <4>1
      <4> QED BY <1>2, <3>1, <4>1, <4>2 DEF EnterCode
    <3>2. ASSUME ResetRedemption PROVE <2>1
      BY <3>2 DEF ResetRedemption
    <3> QED BY <1>3, <3>1, <3>2
  <2>2. UNCHANGED learned
    BY <1>3
  <2>3. CallsInv' /\ \A t \in Slots : Asks(call[t], "list") => Asks(call'[t], "list")
    BY <1>1, <2>1, <2>2, OutdatedPages
  <2> QED BY <1>1, <2>1, <2>2, <2>3, PlainPages DEF Plainly
<1>4. CASE StartRedeem /\ UNCHANGED learned
  <2>1. /\ shop' = [input |-> shop'.input, info |-> shop'.info, started |-> shop'.started,
                    done |-> shop'.done]
        /\ shop'.input = shop.input /\ shop'.info = shop.info /\ UNCHANGED call
    BY <1>2, <1>4 DEF StartRedeem
  <2>2. UNCHANGED learned
    BY <1>4
  <2>3. \A t \in Slots : Fades(call[t], call'[t])
    BY <2>1 DEF PagesInv, CallsInv, Fades
  <2>4. \A c \in Codes : Spent(c)' <=> Spent(c)
    BY <1>1 DEF Spent
  <2>5. call' = [t \in Slots |-> call'[t]]
    BY <2>1 DEF PagesInv, CallsInv
  <2>6. CallsInv'
    BY <1>1, <2>2, <2>3, <2>4, <2>5, CallsFade DEF PagesInv
  <2> QED BY <1>1, <1>2, <2>1, <2>2, <2>6, PlainPages DEF Plainly
<1>5. ASSUME NEW s \in Slots, QueryCode(s), UNCHANGED learned PROVE PagesInv'
  <2>1. UNCHANGED shop
    BY <1>5 DEF QueryCode
  <2>2. UNCHANGED learned
    BY <1>5
  <2>3. CallsInv' /\ \A t \in Slots : Asks(call[t], "list") => Asks(call'[t], "list")
    BY <1>1, <1>5, <2>2, QueryCodePages
  <2> QED BY <1>1, <1>2, <2>1, <2>2, <2>3, PlainPages DEF Plainly
<1>6. ASSUME NEW s \in Slots, Redeem(s) \/ CreateAddress(s) \/ ShowResult(s),
             UNCHANGED learned
      PROVE  PagesInv'
  <2>1. UNCHANGED shop /\ Free(s)
    BY <1>6 DEF Redeem, CreateAddress, ShowResult, Send
  <2>2. UNCHANGED learned
    BY <1>6
  <2>3. PICK op, c, k : /\ op \in {"redeem", "result"} /\ c \in Codes
                            /\ call' = [call EXCEPT ![s] = Request(op, c, k, Null)]
    BY <1>6 DEF Redeem, CreateAddress, ShowResult, Send, Shown, PagesInv, ShopInv
  <2>4. PICK y : y = Request(op, c, k, Null) /\ IsCall(y) /\ y.pc = "sent" /\ ~y.newest
    BY <2>3, Requested
  <2>5. CallsInv' /\ \A t \in Slots : Asks(call[t], "list") => Asks(call'[t], "list")
    BY <1>1, <2>1, <2>2, <2>3, <2>4, NoList, CallsPlain DEF PagesInv
  <2> QED BY <1>1, <1>2, <2>1, <2>2, <2>5, PlainPages DEF Plainly
<1>7. ASSUME NEW s \in Slots, QueryBack(s) PROVE PagesInv'
  BY <1>1, <1>7, QueryBackPages
<1>8. ASSUME NEW s \in Slots, RedeemBack(s) PROVE PagesInv'
  BY <1>1, <1>8, RedeemBackPages
<1>9. ASSUME NEW s \in Slots, ContextLoaded(s), UNCHANGED learned PROVE PagesInv'
  <2>1. call' = [call EXCEPT ![s] = Idle] /\ (shop' = x \/ shop' = [x EXCEPT !.info = Null])
    BY <1>2, <1>9 DEF ContextLoaded, HangUp
  <2>2. ~Asks(call[s], "list")
    BY <1>9, NoList DEF PagesInv, CallsInv, IsCall, ContextLoaded
  <2>3. /\ shop' = [input |-> shop'.input, info |-> shop'.info, started |-> shop'.started,
                    done |-> shop'.done]
        /\ shop'.input = x.input /\ (shop'.info # Null => shop'.info = x.info)
    BY <1>2, <2>1
  <2>4. CallsInv' /\ \A t \in Slots : Asks(call[t], "list") => Asks(call'[t], "list")
    BY <1>1, <1>9, <2>1, <2>2, Idling, CallsPlain
  <2> QED BY <1>1, <1>2, <1>9, <2>3, <2>4, PlainPages DEF Plainly
<1> QED BY <1>3, <1>4, <1>5, <1>6, <1>7, <1>8, <1>9 DEF Shopping

-----------------------------------------------------------------------------
(* The desk. *)

IsDesk(x) ==
  x = [type |-> x.type, rows |-> x.rows, form |-> x.form, failed |-> x.failed]
    /\ x.failed \in BOOLEAN

\* The list is asked for: whatever the rows are, an answer is on its way.
LEMMA FetchPages ==
  ASSUME PagesInv, UNCHANGED <<codes, shop, learned>>, IsDesk(desk'),
         NEW s \in Slots, FetchData(s, desk'.type)
  PROVE  PagesInv'
<1>1. PICK k : k = desk'.type /\ SendNewest(s, Request("list", Null, k, Null))
  BY DEF FetchData
<1>2. PICK x : /\ x = Request("list", Null, k, Null)
               /\ IsCall(x) /\ x.op = "list" /\ x.pc = "sent" /\ x.kind = k /\ x.newest
  BY Requested
<1>3. /\ call' = [t \in Slots |-> IF t = s THEN x ELSE call'[t]]
      /\ \A t \in Slots \ {s} : Fades(call[t], call'[t]) /\ ~Asks(call'[t], "list")
  BY <1>1, <1>2, SentNewest DEF PagesInv
<1>4. ListFits(x)' /\ QueryFits(x)' /\ ~Asks(x, "query")
  BY <1>1, <1>2 DEF ListFits, QueryFits, Unused, Asks
<1>5. \A c \in Codes : Spent(c)' <=> Spent(c)
  BY DEF Spent
<1>6. CallsInv'
  BY <1>2, <1>3, <1>4, <1>5, CallsMove DEF PagesInv
<1>7. Asks(call'[s], "list")
  BY <1>2, <1>3 DEF Asks
<1>8. DeskInv'
  BY <1>7 DEF DeskInv, IsDesk
<1> QED BY <1>5, <1>6, <1>8, ShopStays DEF PagesInv, CodesInv, ValuesFitTypes

\* The editor is opened, filled in or closed.
LEMMA FormPages ==
  ASSUME PagesInv, UNCHANGED <<codes, call, shop, learned>>,
         NEW form, desk' = [desk EXCEPT !.form = form]
  PROVE  PagesInv'
<1>1. PICK d : d = desk /\ IsDesk(d)
  BY DEF PagesInv, DeskInv, IsDesk
<1>2. IsDesk(desk') /\ desk'.type = d.type /\ desk'.rows = d.rows /\ desk'.failed = d.failed
  BY <1>1 DEF IsDesk
<1>3. DeskInv'
  BY <1>1, <1>2 DEF PagesInv, DeskInv, IsDesk
<1>4. \A c \in Codes : Spent(c)' <=> Spent(c)
  BY DEF Spent
<1>5. call' = [t \in Slots |-> call'[t]] /\ \A t \in Slots : Fades(call[t], call'[t])
  BY DEF PagesInv, CallsInv, Fades
<1>6. CallsInv'
  BY <1>1, <1>2, <1>4, <1>5, CallsFade DEF PagesInv
<1> QED BY <1>3, <1>4, <1>6, ShopStays DEF PagesInv, CodesInv, ValuesFitTypes

\* A request of the editor is sent, or comes to nothing.
LEMMA EditPages ==
  ASSUME PagesInv, UNCHANGED <<codes, shop, desk, learned>>, NEW s \in Slots, NEW x,
         call' = [call EXCEPT ![s] = x], IsCall(x), x.pc # "back", ~x.newest,
         ~Asks(call[s], "list")
  PROVE  PagesInv'
<1>1. CallsInv' /\ \A t \in Slots : Asks(call[t], "list") => Asks(call'[t], "list")
  BY CallsPlain
<1>2. \A c \in Codes : Spent(c)' <=> Spent(c)
  BY DEF Spent
<1> QED BY <1>1, <1>2, DeskStays, ShopStays DEF PagesInv, CodesInv, ValuesFitTypes

LEMMA ListBackPages ==
  ASSUME PagesInv, NEW s \in Slots, ListBack(s), UNCHANGED <<codes, shop, learned>>
  PROVE  PagesInv'
<1>1. PICK x : x = call[s] /\ IsCall(x) /\ ListFits(x) /\ x.op = "list" /\ x.pc = "back"
  BY DEF PagesInv, CallsInv, ListBack, Back
<1>2. call' = [call EXCEPT ![s] = Idle]
  BY DEF ListBack, HangUp
<1>3. PICK a, d : a = x.answer /\ d = desk /\ IsDesk(d)
  BY DEF PagesInv, DeskInv, IsDesk
<1>4. CASE ~x.newest
  <2>1. UNCHANGED desk /\ ~Asks(call[s], "list")
    BY <1>1, <1>4 DEF ListBack, Newest, Asks
  <2> QED BY <1>2, <2>1, Idling, EditPages
<1>5. CASE x.newest
  <2>1. desk' = IF a = Null THEN [d EXCEPT !.failed = TRUE]
                ELSE [d EXCEPT !.rows = a, !.failed = FALSE]
    BY <1>1, <1>3, <1>5 DEF ListBack, Newest
  <2>2. IsDesk(desk') /\ desk'.type = d.type /\ (desk'.failed \/ (a # Null /\ desk'.rows = a))
    BY <1>3, <2>1 DEF IsDesk
  <2>3. a # Null => \A row \in a : Kind[row.code] = d.type
    BY <1>1, <1>3, <1>5 DEF ListFits
  <2>4. DeskInv'
    BY <2>2, <2>3 DEF DeskInv, IsDesk
  <2>5. ListFits(Idle)' /\ QueryFits(Idle)' /\ ~Asks(Idle, "query") /\ IsCall(Idle)
    BY Idling DEF ListFits, QueryFits, Unused, Asks
  <2>6. \A c \in Codes : Spent(c)' <=> Spent(c)
    BY DEF Spent
  <2>7. /\ call' = [t \in Slots |-> IF t = s THEN Idle ELSE call'[t]]
        /\ \A t \in Slots \ {s} : call'[t] = call[t] /\ Fades(call[t], call'[t])
    BY <1>2, Replaced DEF PagesInv
  <2>8. CallsInv'
    BY <1>3, <2>2, <2>5, <2>6, <2>7, CallsMove DEF PagesInv
  <2> QED BY <2>4, <2>6, <2>8, ShopStays DEF PagesInv, CodesInv, ValuesFitTypes
<1> QED BY <1>4, <1>5

LEMMA ListingPages ==
  ASSUME PagesInv, NEW free \in SUBSET Slots, Listing(free)
  PROVE  PagesInv'
<1>1. UNCHANGED <<codes, shop, learned>>
  BY DEF Listing
<1>2. PICK d : d = desk /\ IsDesk(d)
  BY DEF PagesInv, DeskInv, IsDesk
<1>3. ASSUME NEW s \in Slots, Search(s) PROVE PagesInv'
  <2>1. IsDesk(desk') /\ FetchData(s, desk'.type)
    BY <1>2, <1>3 DEF Search
  <2> QED BY <1>1, <2>1, FetchPages
<1>4. ASSUME NEW s \in Slots, ListBack(s) PROVE PagesInv'
  BY <1>1, <1>4, ListBackPages
<1>5. ASSUME NEW s \in Slots, NEW k \in Kinds, SelectType(s, k) PROVE PagesInv'
  <2>1. desk' = [d EXCEPT !.type = k] /\ FetchData(s, k)
    BY <1>2, <1>5 DEF SelectType
  <2>2. IsDesk(desk') /\ desk'.type = k
    BY <1>2, <2>1 DEF IsDesk
  <2> QED BY <1>1, <2>1, <2>2, FetchPages
<1> QED BY <1>3, <1>4, <1>5 DEF Listing

LEMMA EditingPages ==
  ASSUME PagesInv, NEW free \in SUBSET Slots, Editing(free)
  PROVE  PagesInv'
<1>1. UNCHANGED <<codes, shop, learned>>
  BY DEF Editing
<1>2. CASE OpenCreate \/ CloseEditor \/ (\E row \in desk.rows : OpenEdit(row))
             \/ (\E v \in Values : Fill(v))
  <2>1. PICK form : UNCHANGED call /\ desk' = [desk EXCEPT !.form = form]
    BY <1>2 DEF OpenCreate, CloseEditor, OpenEdit, Fill
  <2> QED BY <1>1, <2>1, FormPages
<1>3. ASSUME NEW s \in Slots, Save(s) \/ \E row \in desk.rows : Remove(s, row) PROVE PagesInv'
  <2>1. PICK op, c, k, v : /\ op \in {"create", "update", "delete"}
                           /\ call' = [call EXCEPT ![s] = Request(op, c, k, v)]
    BY <1>3 DEF Save, Remove, Send
  <2>2. PICK x : x = Request(op, c, k, v) /\ IsCall(x) /\ x.pc = "sent" /\ ~x.newest
    BY <2>1, Requested
  <2>3. UNCHANGED desk /\ Free(s)
    BY <1>3 DEF Save, Remove, Send
  <2> QED BY <1>1, <2>1, <2>2, <2>3, NoList, EditPages DEF PagesInv
<1>4. ASSUME NEW s \in Slots, SavedBack(s) PROVE PagesInv'
  <2>1. CASE HangUp(s) /\ UNCHANGED desk
    <3>1. call[s].op # "list" /\ call' = [call EXCEPT ![s] = Idle]
      BY <1>4, <2>1 DEF SavedBack, Back, HangUp
    <3> QED BY <1>1, <2>1, <3>1, Idling, NoList, EditPages DEF PagesInv
  <2>2. CASE /\ FetchData(s, desk.type)
             /\ desk' = desk \/ desk' = [desk EXCEPT !.form = Null]
    <3>1. PICK d : d = desk /\ IsDesk(d)
      BY DEF PagesInv, DeskInv, IsDesk
    <3>2. IsDesk(desk') /\ desk'.type = d.type
      BY <2>2, <3>1 DEF IsDesk
    <3> QED BY <1>1, <2>2, <3>1, <3>2, FetchPages
  <2> QED BY <1>4, <2>1, <2>2 DEF SavedBack
<1> QED BY <1>2, <1>3, <1>4 DEF Editing

-----------------------------------------------------------------------------

LEMMA StutterPages == PagesInv /\ UNCHANGED pageVars => PagesInv'
BY DEF pageVars, PagesInv, CodesInv, ValuesFitTypes, CallsInv, ListFits, QueryFits, Spent,
       ShopInv, DeskInv

LEMMA NextPages == PagesInv /\ world \in Worlds /\ Next => PagesInv' /\ world' \in Worlds
<1> SUFFICES ASSUME PagesInv, world \in Worlds, Next
             PROVE  PagesInv' /\ world' \in Worlds
  OBVIOUS
<1>1. world.shop \in SUBSET Slots /\ world.desk \in SUBSET Slots
  BY ClientsAssumption
<1>2. CASE UNCHANGED <<world, pageVars>>
  BY <1>2, StutterPages
<1>3. CASE Pages /\ UNCHANGED world
  BY <1>1, <1>3, ShoppingPages, ElsewherePages, ListingPages, EditingPages, ServingPages DEF Pages
<1> QED BY <1>2, <1>3 DEF Next

LEMMA InitPages == Init => PagesInv
<1> SUFFICES ASSUME world \in Worlds, PagesInit(world.issued) PROVE PagesInv
  BY DEF Init
<1>1. ASSUME NEW c \in Codes
      PROVE  codes[c] \in CodeRow(Codes)
             /\ (codes[c].status = "live" => codes[c].value \in ValuesOf[Kind[c]])
  <2>1. PICK v \in ValuesOf[Kind[c]] : v = CHOOSE u \in ValuesOf[Kind[c]] : TRUE
    BY <1>1, KindAssumption
  <2>2. v \in Values
    BY <1>1, KindAssumption
  <2>3. codes[c] = NewRow(v, TRUE) \/ codes[c] = NoRow("unissued")
    BY <1>1, <2>1 DEF PagesInit
  <2>4. /\ NewRow(v, TRUE) \in CodeRow(Codes) /\ NewRow(v, TRUE).value = v
        /\ NoRow("unissued") \in CodeRow(Codes) /\ NoRow("unissued").status = "unissued"
    BY <2>2 DEF NewRow, NoRow, CodeRow
  <2> QED BY <2>1, <2>3, <2>4
<1>2. CodesInv
  BY <1>1 DEF CodesInv, PagesInit, ValuesFitTypes
<1>3. CallsInv
  BY Idling DEF PagesInit, CallsInv, ListFits, QueryFits, Asks
<1>4. ShopInv
  BY DEF PagesInit, ShopInv
<1>5. DeskInv
  BY DEF PagesInit, DeskInv
<1> QED BY <1>2, <1>3, <1>4, <1>5 DEF PagesInv

LEMMA PagesInvariant == Spec => [](PagesInv /\ world \in Worlds)
<1>1. Init => PagesInv /\ world \in Worlds
  BY InitPages DEF Init
<1>2. PagesInv /\ world \in Worlds /\ [Next]_vars => (PagesInv /\ world \in Worlds)'
  BY NextPages, StutterPages DEF vars
<1> QED BY <1>1, <1>2, PTL DEF Spec

\* Late answers change nothing (Redeem.vue latestQueryRequest, RedeemCodes.vue
\* latestFetchRequest): an answer that is not the newest request's is dropped,
\* and the newest query was told "unused" of no code that the shop has learned
\* is redeemed.  The exception is Overtaken's: it is left out of what is learned.
THEOREM LateAnswersChangeNothing == Spec => []LateAnswersIgnored
<1>1. PagesInv => LateAnswersIgnored
  BY DEF PagesInv, DeskInv, ShopInv, LateAnswersIgnored, Asks, Shown
<1> QED BY <1>1, PagesInvariant, PTL

\* updateRedeemCode's WHERE names the type as well as the code: a form that was
\* opened under another type's filter gives no code a value of that type.
THEOREM CodesKeepTheirTypes == Spec => []ValuesFitTypes
<1>1. PagesInv => ValuesFitTypes
  BY DEF PagesInv, CodesInv
<1> QED BY <1>1, PagesInvariant, PTL
=============================================================================
