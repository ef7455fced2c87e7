---------------------------- MODULE RedeemPages ----------------------------
(***************************************************************************)
(* The two pages that show redemption codes: frontend/src/views/Redeem.vue *)
(* where a code is looked up and redeemed (the shop), and                  *)
(* views/admin/RedeemCodes.vue where an admin edits them (the desk), with  *)
(* the queries they make of the table.  Answers come back in any order or  *)
(* not at all.  `loading` is one flag for all requests and the first that  *)
(* ends clears it, so the pages can be used while others are under way.    *)
(* A list is one page of rows, and a request creates one code.             *)
(***************************************************************************)
EXTENDS RedeemCodeTable

CONSTANTS Kinds,      \* values of redeem_type
          Kind,       \* the redeem_type of each code
          ValuesOf,   \* the values parseRedeemValue accepts for each of them
          Slots       \* requests under way at a time, of both pages

ASSUME KindAssumption ==
  /\ Kind \in [Codes -> Kinds] /\ ValuesOf \in [Kinds -> (SUBSET Values) \ {{}}]
  /\ Null \notin Codes \cup Kinds

VARIABLES call,       \* the requests the pages wait for
          shop,       \* Redeem.vue
          desk,       \* RedeemCodes.vue
          learned     \* history: the codes the shop was told are redeemed

pageVars == <<codes, call, shop, desk, learned>>

Request(op, c, k, v) ==
  [pc |-> "sent", op |-> op, code |-> c, kind |-> k, value |-> v,
   newest |-> op \in {"query", "list"}, answer |-> Null]
Idle == [Request("none", Null, Null, Null) EXCEPT !.pc = "idle"]

PagesInit(issued) ==
  /\ codes = [c \in Codes |-> IF c \in issued
                 THEN NewRow(CHOOSE v \in ValuesOf[Kind[c]] : TRUE, TRUE)
                 ELSE NoRow("unissued")]
  /\ call = [s \in Slots |-> Idle]
  /\ shop = [input |-> Null, info |-> Null, started |-> FALSE, done |-> Null]
  /\ desk = [type |-> CHOOSE k \in Kinds : TRUE, rows |-> {}, form |-> Null, failed |-> FALSE]
  /\ learned = {}

\* ++latestQueryRequest, ++latestFetchRequest: no earlier request is the newest.
Outdated(op) ==
  [s \in Slots |-> [call[s] EXCEPT !.newest = @ /\ call[s].op # op]]

Free(s) == call[s].pc = "idle"
Send(s, x) == Free(s) /\ call' = [call EXCEPT ![s] = x]
SendNewest(s, x) == call' = [Outdated(x.op) EXCEPT ![s] = x]
HangUp(s) == call' = [call EXCEPT ![s] = Idle]
Back(s, ops) == call[s].pc = "back" /\ call[s].op \in ops

\* Mutant: the page takes every answer.
NewestOrNot(s) == TRUE

\* requestId === latestQueryRequest, requestId === latestFetchRequest
Newest(s) == call[s].newest

-----------------------------------------------------------------------------
(* The shop.  Its form is shown until there is a result. *)

EnterCode(c) ==
  /\ shop.done = Null /\ c # shop.input
  /\ shop' = [shop EXCEPT !.input = c, !.info = Null, !.started = FALSE]
  /\ call' = Outdated("query")

QueryCode(s) ==
  /\ Free(s) /\ shop.done = Null /\ shop.input # Null
  /\ SendNewest(s, Request("query", shop.input, Null, Null))
  /\ UNCHANGED shop

\* An answer for what is not in the input any more is dropped, an error is not.
\* The request that brought one that is shown goes on to load the page's context.
QueryBack(s) ==
  LET x == call[s].answer
      c == call[s].code
  IN /\ Back(s, {"query"})
     /\ IF Newest(s) /\ x # Null /\ shop.input = c
          THEN /\ shop' = [shop EXCEPT !.info = x, !.started = FALSE, !.done = Null]
               /\ learned' = IF x.status = "redeemed" THEN learned \cup {c} ELSE learned
               /\ call' = [call EXCEPT ![s] = [@ EXCEPT !.pc = "context", !.answer = Null]]
          ELSE /\ shop' = IF Newest(s) /\ x = Null THEN [shop EXCEPT !.info = Null] ELSE shop
               /\ HangUp(s) /\ UNCHANGED learned

\* An error of loadContext (its router.replace) is one of the query.
ContextLoaded(s) ==
  /\ call[s].pc = "context"
  /\ \/ UNCHANGED shop
     \/ Newest(s) /\ shop' = [shop EXCEPT !.info = Null]
  /\ HangUp(s)

Shown(status) ==
  shop.done = Null /\ shop.info # Null /\ shop.info.status = status

\* The address form has no button before it.
StartRedeem ==
  /\ Shown("unused") /\ ~shop.started
  /\ shop.info.kind # "address_prefix_once"
  /\ shop' = [shop EXCEPT !.started = TRUE]
  /\ UNCHANGED call

Redeem(s) ==
  /\ Shown("unused") /\ shop.started
  /\ Send(s, Request("redeem", shop.input, shop.info.kind, Null))
  /\ UNCHANGED shop

CreateAddress(s) ==
  /\ Shown("unused") /\ shop.info.kind = "address_prefix_once"
  /\ Send(s, Request("redeem", shop.input, shop.info.kind, Null))
  /\ UNCHANGED shop

ShowResult(s) ==
  /\ Shown("redeemed")
  /\ Send(s, Request("result", shop.input, Null, Null))
  /\ UNCHANGED shop

\* The answer to a query of the code, given before the code was redeemed, is
\* still on its way: the page will take it.
Overtaken(c) ==
  \E s \in Slots :
    /\ Back(s, {"query"}) /\ call[s].newest /\ call[s].code = c
    /\ call[s].answer # Null /\ call[s].answer.status = "unused"

RedeemBack(s) ==
  LET x == call[s].answer
      c == call[s].code
  IN /\ Back(s, {"redeem", "result"})
     /\ IF x = Null
          THEN UNCHANGED <<shop, learned>>
          ELSE /\ shop' = [shop EXCEPT !.done = x, !.info = Null]
               /\ learned' = IF Overtaken(c) THEN learned ELSE learned \cup {c}
     /\ HangUp(s)

ResetRedemption ==
  /\ shop.done # Null
  /\ shop' = [input |-> Null, info |-> Null, started |-> FALSE, done |-> Null]
  /\ call' = Outdated("query")

\* The requests of a page take the places in free.
Shopping(free) ==
  /\ \/ \E s \in free : QueryBack(s) \/ RedeemBack(s)
     \/ /\ \/ \E c \in Codes \cup {Null} : EnterCode(c)
           \/ StartRedeem \/ ResetRedemption
           \/ \E s \in free :
                \/ QueryCode(s) \/ ContextLoaded(s)
                \/ Redeem(s) \/ CreateAddress(s) \/ ShowResult(s)
        /\ UNCHANGED learned
  /\ UNCHANGED <<codes, desk>>

-----------------------------------------------------------------------------
(* The desk.  The rows stay while those of another type are on their way. *)

FetchData(s, k) == SendNewest(s, Request("list", Null, k, Null))

SelectType(s, k) ==
  /\ Free(s) /\ k # desk.type
  /\ desk' = [desk EXCEPT !.type = k]
  /\ FetchData(s, k)

Search(s) ==
  /\ Free(s)
  /\ FetchData(s, desk.type)
  /\ UNCHANGED desk

ListBack(s) ==
  LET x == call[s].answer
  IN /\ Back(s, {"list"})
     /\ desk' = IF ~Newest(s) THEN desk
                ELSE IF x = Null THEN [desk EXCEPT !.failed = TRUE]
                ELSE [desk EXCEPT !.rows = x, !.failed = FALSE]
     /\ HangUp(s)

\* A value that makes no sense for the type (Number of a role's name) is left
\* as no value: the endpoint refuses either.
Editable(k, v) == IF v \in ValuesOf[k] THEN v ELSE Null

\* The form takes its type from the filter, not from the row.
OpenEdit(row) ==
  /\ ~row.redeemed
  /\ desk' = [desk EXCEPT !.form = [id |-> row.code, type |-> desk.type,
                                    value |-> Editable(desk.type, row.value)]]
  /\ UNCHANGED call

OpenCreate ==
  /\ desk' = [desk EXCEPT !.form = [id |-> Null, type |-> desk.type, value |-> Null]]
  /\ UNCHANGED call

Fill(v) ==
  /\ desk.form # Null /\ v \in ValuesOf[desk.form.type]
  /\ desk' = [desk EXCEPT !.form = [@ EXCEPT !.value = v]]
  /\ UNCHANGED call

CloseEditor ==
  /\ desk.form # Null
  /\ desk' = [desk EXCEPT !.form = Null]
  /\ UNCHANGED call

Save(s) ==
  /\ desk.form # Null
  /\ LET form == desk.form
     IN Send(s, Request(IF form.id = Null THEN "create" ELSE "update",
                        form.id, form.type, form.value))
  /\ UNCHANGED desk

Remove(s, row) ==
  /\ Send(s, Request("delete", row.code, Null, Null))
  /\ UNCHANGED desk

\* Whatever the editor shows by then is closed, and the list is read again.
SavedBack(s) ==
  /\ Back(s, {"create", "update", "delete"})
  /\ IF call[s].answer = Null
       THEN HangUp(s) /\ UNCHANGED desk
       ELSE /\ FetchData(s, desk.type)
            /\ desk' = IF call[s].op = "delete" THEN desk ELSE [desk EXCEPT !.form = Null]

Listing(free) ==
  /\ \E s \in free :
       \/ Search(s) \/ ListBack(s)
       \/ \E k \in Kinds : SelectType(s, k)
  /\ UNCHANGED <<codes, shop, learned>>

Editing(free) ==
  /\ \/ OpenCreate \/ CloseEditor
     \/ \E row \in desk.rows : OpenEdit(row)
     \/ \E v \in Values : Fill(v)
     \/ \E s \in free :
          \/ Save(s) \/ SavedBack(s)
          \/ \E row \in desk.rows : Remove(s, row)
  /\ UNCHANGED <<codes, shop, learned>>

-----------------------------------------------------------------------------
(* The worker.  Each request is one step here; the redemptions' own steps  *)
(* are in RedeemRole, RedeemSendBalance and RedeemAddress.                 *)

\* queryRedeemCode
Status(c) ==
  IF codes[c].expired THEN "expired"
  ELSE IF codes[c].redeemed THEN "redeemed" ELSE "unused"

Info(c) ==
  IF codes[c].status = "live" /\ codes[c].enabled
    THEN [kind |-> Kind[c], value |-> codes[c].value, status |-> Status(c)]
    ELSE Null

\* queryRedeemResult, and redeemAddress for a code that is redeemed already.
Result(c) ==
  IF Available(c) /\ codes[c].redeemed THEN codes[c].result ELSE Null

\* listRedeemCodes
Rows(k) ==
  {[code |-> c, value |-> codes[c].value, redeemed |-> codes[c].redeemed] :
     c \in {d \in Codes : codes[d].status = "live" /\ Kind[d] = k}}

Reading(x) ==
  CASE x.op = "query"  -> Info(x.code)
    [] x.op = "list"   -> Rows(x.kind)
    [] x.op = "result" -> Result(x.code)

Grant(c) ==
  /\ Claimable(c, codes[c].value)
  /\ codes' = [codes EXCEPT ![c] = Redeemed(c, c)]

\* Mutant: WHERE id = ? AND redeemed = 0
UpdateMatchesId(c, k) == TRUE

\* WHERE ... AND redeem_type = ?
UpdateMatches(c, k) == Kind[c] = k

Write(x) ==
  \/ x.op = "redeem" /\ x.kind = Kind[x.code] /\ Grant(x.code)
  \/ x.op = "delete" /\ AdminDeleteCode(x.code)
  \/ /\ x.op \in {"update", "create"} /\ x.value \in ValuesOf[x.kind]
     /\ \/ x.op = "update" /\ UpdateMatches(x.code, x.kind)
                           /\ AdminUpdateCode(x.code, x.value, TRUE)
        \/ x.op = "create" /\ \E c \in Codes : Kind[c] = x.kind
                           /\ AdminCreateCodes({c}, x.value, TRUE)

Answered(s, x) ==
  call' = [call EXCEPT ![s] = [@ EXCEPT !.pc = "back", !.answer = x]]

\* Every answer may be an error: the request was refused, failed or got lost, or
\* its answer did.
Serve(s) ==
  LET x == call[s]
      good == IF x.op = "redeem" THEN x.code ELSE "ok"
  IN /\ x.pc = "sent"
     /\ \/ /\ x.op \in {"query", "list", "result"}
           /\ Answered(s, Reading(x)) /\ UNCHANGED codes
        \/ /\ x.op = "redeem" /\ Kind[x.code] = "address_prefix_once"
           /\ Answered(s, Result(x.code)) /\ UNCHANGED codes
        \/ Write(x) /\ (Answered(s, good) \/ Answered(s, Null))
        \/ Answered(s, Null) /\ UNCHANGED codes

Serving == (\E s \in Slots : Serve(s)) /\ UNCHANGED <<shop, desk, learned>>

\* Somebody else redeems a code; the admin turns it off or on; it expires.
Elsewhere ==
  /\ \E c \in Codes :
       \/ Grant(c) \/ CodeExpires(c)
       \/ \E on \in BOOLEAN : AdminUpdateCode(c, codes[c].value, on)
  /\ UNCHANGED <<call, shop, desk, learned>>

-----------------------------------------------------------------------------
\* Answers that come late change nothing: after the list of another type was
\* asked for, the desk ends up with codes of that type ("Admin ignores a stale
\* list response after switching redemption type", e2e redeem-code.spec.ts:266),
\* and the shop never shows a code as unused after a query, a redemption or a
\* result of it told the shop that it is redeemed.  But for the query that
\* Overtaken names: Redeem.vue:150-153 goes by the newest query alone, so one
\* answered before a redemption that ends first is shown in its result's place.
LateAnswersIgnored ==
  /\ \/ \A row \in desk.rows : Kind[row.code] = desk.type
     \/ desk.failed
     \/ \E s \in Slots : call[s].op = "list" /\ call[s].newest
  /\ Shown("unused") => shop.input \notin learned

\* Every code has a value of its type, although the desk lets a row be edited
\* under a filter it does not belong to: updateRedeemCode goes by the type too.
ValuesFitTypes ==
  \A c \in Codes : codes[c].status = "live" => codes[c].value \in ValuesOf[Kind[c]]
=============================================================================
