---------------------------- MODULE MailBoxPage ----------------------------
(***************************************************************************)
(* The list of mails in the browser, frontend/src/components/MailBox.vue:  *)
(* pages of mails, the mail that is open, deletions of one and of many,    *)
(* and the timer that goes back to the first page and reads it again.      *)
(* `page` is watched: who changes it and refreshes makes two requests.     *)
(* What is marked as read, the filter and the rendering are left out.      *)
(***************************************************************************)
EXTENDS MailList

CONSTANT Tasks        \* bound: the functions of the page that await something

VARIABLES box,        \* what the page shows
          task        \* the functions that wait

boxVars == <<box, task>>

NoMail == 0

NoTask == [pc |-> "idle"]

Waits(t, place) == task[t].pc = place

\* fetchMailData under way, and which mail of its page is opened after it.
Fetching(p, then) == [pc |-> "fetch", page |-> p, then |-> then]

\* onMounted.  A list view shows no mail until one is opened; the split view opens
\* the newest.
BoxInit(split, auto) ==
  /\ box = [page |-> 1, rows |-> {}, count |-> 0, cur |-> NoMail,
            loading |-> TRUE, auto |-> auto, split |-> split]
  /\ LET first == CHOOSE t \in Tasks : TRUE
     IN task = [t \in Tasks |-> IF t = first THEN Fetching(1, "stay") ELSE NoTask]

\* The request a function makes itself, and the one of the watcher if the page
\* is another than before.
FetchPage(p, then) ==
  /\ \E t \in Tasks :
       /\ Waits(t, "idle")
       /\ IF p = box.page
            THEN task' = [task EXCEPT ![t] = Fetching(p, then)]
            ELSE \E w \in Tasks \ {t} :
                   /\ Waits(w, "idle")
                   /\ task' = [task EXCEPT ![t] = Fetching(p, then), ![w] = Fetching(p, "stay")]
  /\ box' = [box EXCEPT !.page = p, !.loading = TRUE]

BackFirstPage == FetchPage(1, "stay")

\* setInterval, when its countdown has ended.
Tick == box.auto /\ ~box.loading /\ BackFirstPage

\* The pagination changes the page, the watcher does the rest.
TurnTo(t, p) ==
  /\ Waits(t, "idle") /\ p # box.page
  /\ p = 1 \/ (p - 1) * PageSize < box.count
  /\ task' = [task EXCEPT ![t] = Fetching(p, "stay")]
  /\ box' = [box EXCEPT !.page = p, !.loading = TRUE]

ReadMails(t) ==
  LET p == task[t].page
  IN /\ Waits(t, "fetch")
     /\ task' = [task EXCEPT ![t] =
          [pc |-> "parse", then |-> @.then, rows |-> Listed(PageSize, (p - 1) * PageSize),
           count |-> IF p = 1 THEN Cardinality(inbox) ELSE 0]]
     /\ box' = [box EXCEPT !.loading = TRUE]

\* openMail of the first or the last row, after await refresh().
Opened(x, then) ==
  IF then = "stay" \/ x.rows = {} THEN x
  ELSE [x EXCEPT !.cur = IF then = "first" THEN Max(x.rows) ELSE Min(x.rows)]

Finish(t, x) ==
  /\ task' = [task EXCEPT ![t] = NoTask]
  /\ box' = x

Shows(rows, count) ==
  [box EXCEPT !.rows = rows,
              !.count = IF count > 0 THEN count ELSE @,
              !.cur = IF box.split /\ rows # {} THEN Max(rows) ELSE NoMail]

\* Mutant: nothing is reset when the mails are there.
ParsedStillLoading(t) ==
  /\ Waits(t, "parse")
  /\ Finish(t, Opened(Shows(task[t].rows, task[t].count), task[t].then))

Parsed(t) ==
  /\ Waits(t, "parse")
  /\ Finish(t, Opened([Shows(task[t].rows, task[t].count) EXCEPT !.loading = FALSE],
                      task[t].then))

\* A failed refresh is reported, and who waits for it goes on; a failed deletion
\* ends there.
Fails(t) ==
  /\ Waits(t, "fetch") \/ Waits(t, "delete")
  /\ Finish(t, Opened([box EXCEPT !.loading = FALSE],
                      IF Waits(t, "fetch") THEN task[t].then ELSE "stay"))

-----------------------------------------------------------------------------
(* The user, whose clicks are held off while `loading` is on (App.vue).     *)

ToggleAuto == box' = [box EXCEPT !.auto = ~@] /\ UNCHANGED task

OpenMail(u) ==
  /\ u \in box.rows \ {box.cur}
  /\ box' = [box EXCEPT !.cur = u]
  /\ UNCHANGED task

CloseMail ==
  /\ ~box.split /\ box.cur # NoMail
  /\ box' = [box EXCEPT !.cur = NoMail]
  /\ UNCHANGED task

Above == {u \in box.rows : u > box.cur}
Below == {u \in box.rows : u < box.cur}

PrevMail ==
  /\ box.cur # NoMail
  /\ \/ Above # {} /\ OpenMail(Min(Above))
     \/ Above = {} /\ box.page > 1 /\ FetchPage(box.page - 1, "last")

NextMail ==
  /\ box.cur # NoMail
  /\ \/ Below # {} /\ OpenMail(Max(Below))
     \/ Below = {} /\ box.count > box.page * PageSize /\ FetchPage(box.page + 1, "first")

\* deleteMail is confirmed for the open mail, multiActionDeleteMail for what is checked.
Delete(t, mails, single) ==
  /\ Waits(t, "idle") /\ mails # {}
  /\ task' = [task EXCEPT ![t] = [pc |-> "delete", doomed |-> mails, single |-> single]]
  /\ box' = [box EXCEPT !.loading = TRUE]

DeleteNext(t) ==
  /\ Waits(t, "delete")
  /\ LET u == Max(task[t].doomed)
         rest == task[t].doomed \ {u}
     IN /\ inbox' = inbox \ {u}
        /\ task' = [task EXCEPT ![t] = IF rest = {} THEN Fetching(box.page, "stay")
                                       ELSE [@ EXCEPT !.doomed = rest]]
        /\ box' = [box EXCEPT !.loading = TRUE,
                              !.cur = IF task[t].single THEN NoMail ELSE @]

Browse ==
  /\ ~box.loading
  /\ \/ ToggleAuto \/ BackFirstPage \/ CloseMail \/ PrevMail \/ NextMail
     \/ \E u \in box.rows : OpenMail(u)
     \/ \E t \in Tasks, p \in 1..MaxUid : TurnTo(t, p)

Tidy ==
  /\ ~box.loading
  /\ \E t \in Tasks :
       \/ Delete(t, {box.cur} \ {NoMail}, TRUE)
       \/ \E mails \in SUBSET box.rows : Delete(t, mails, FALSE)

-----------------------------------------------------------------------------
\* While the timer is on the page comes back to the newest mails again and again,
\* whatever the user looks at meanwhile, answers that come late, requests that
\* fail and the number of requests each refresh makes (MailBox.vue
\* setupAutoRefresh, refresh): everything that waits leaves `loading` off, which
\* the timer waits for.
ListCatchesUp ==
  (<>[]box.auto) => []<>(box.rows = Listed(PageSize, 0))
=============================================================================
