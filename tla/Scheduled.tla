------------------------------ MODULE Scheduled ------------------------------
(***************************************************************************)
(* The cron handler: worker/src/scheduled.ts, which runs the configured    *)
(* cleanups one after the other, each a call of cleanup of                 *)
(* worker/src/common.ts, and then the admin's own DELETE statements        *)
(* (worker/src/admin_api/cleanup_api.ts).  Of each kind of row the rows    *)
(* are listed in order of created_at; what a cleanup of mailboxes does     *)
(* statement by statement is in AddressLifecycle.                          *)
(***************************************************************************)
EXTENDS Naturals, SequencesExt

CONSTANTS Rows,       \* names for rows; one may be used again for a later row
          BatchSize,  \* CLEANUP_BATCH_SIZE
          Settings,   \* values of auto_cleanup an admin saves
          Frozen      \* DISABLE_ADDRESS_UPDATED_AT

\* The cleanups in the order of the handler, then custom statements.
Kinds == <<"mails", "mails_unknow", "sendbox", "inactiveAddress", "addressCreated",
           "unboundAddress", "emptyAddress", "custom">>
Batched == {"mails", "sendbox", "inactiveAddress", "addressCreated"}

\* A cleanup is off, on with a number of days, or on without a sensible one;
\* a custom statement is on, or on and not one D1 can run.
ASSUME ScheduledAssumption ==
  /\ BatchSize \in Nat \ {0} /\ Frozen \in BOOLEAN
  /\ Settings \subseteq [Range(Kinds) -> {"off", "on", "senseless"}]

VARIABLES rows,       \* rows[k]: the rows of kind k, oldest first
          due,        \* due[k]: how many of them are older than the days set
          setting,    \* the saved auto_cleanup
          plan,       \* the settings this run has read
          turn,       \* the cleanup this run is at, 0 between runs
          edits,      \* changes of the settings still to come
          errors      \* D1 errors still to come

cronVars == <<rows, due, setting, plan, turn, edits, errors>>

CronInit(watched, s, changes, failures) ==
  /\ rows = [k \in watched |-> <<>>]
  /\ due = [k \in watched |-> 0]
  /\ setting = s /\ plan = s
  /\ turn = 0
  /\ edits = changes
  /\ errors = failures

Arrive(k, x) ==
  /\ x \notin Range(rows[k])
  /\ rows' = [rows EXCEPT ![k] = Append(@, x)]
  /\ UNCHANGED <<due, setting, plan, turn, edits, errors>>

Age(k) ==
  /\ due[k] < Len(rows[k])
  /\ due' = [due EXCEPT ![k] = @ + 1]
  /\ UNCHANGED <<rows, setting, plan, turn, edits, errors>>

\* saveCleanup looks at the statements and never at the days.
SaveCleanup(s) ==
  /\ edits > 0
  /\ setting' = s
  /\ edits' = edits - 1
  /\ UNCHANGED <<rows, due, plan, turn, errors>>

\* A cron event; getJsonSetting answers null when it fails, and nothing is done.
Trigger ==
  /\ turn = 0
  /\ \/ plan' = setting /\ turn' = 1 /\ UNCHANGED errors
     \/ errors > 0 /\ errors' = errors - 1 /\ UNCHANGED <<plan, turn>>
  /\ UNCHANGED <<rows, due, setting, edits>>

Following == IF turn < Len(Kinds) THEN turn + 1 ELSE 0

\* inactiveAddress returns before the days are looked at.
Skipped(k) == plan[k] = "off" \/ (k = "inactiveAddress" /\ Frozen)

\* Mutant: the newest of the rows that are due are deleted first.
DeletedNewest(k) ==
  LET n == IF k \in Batched /\ BatchSize < due[k] THEN BatchSize ELSE due[k]
  IN SubSeq(rows[k], 1, due[k] - n) \o SubSeq(rows[k], due[k] + 1, Len(rows[k]))

\* What a cleanup leaves: ORDER BY created_at, id LIMIT ? for most kinds.
Remaining(k) ==
  LET n == IF k \in Batched /\ BatchSize < due[k] THEN BatchSize ELSE due[k]
  IN SubSeq(rows[k], n + 1, Len(rows[k]))

Sweep(k) ==
  /\ IF k \in DOMAIN rows
       THEN /\ rows' = [rows EXCEPT ![k] = Remaining(k)]
            /\ due' = [due EXCEPT ![k] = @ - (Len(rows[k]) - Len(Remaining(k)))]
       ELSE UNCHANGED <<rows, due>>
  /\ UNCHANGED errors

\* An exception leaves the handler; one of a custom statement is an answer.
Cleanup ==
  /\ turn > 0
  /\ LET k == Kinds[turn]
     IN \/ /\ Skipped(k) /\ turn' = Following
           /\ UNCHANGED <<rows, due, errors>>
        \/ /\ ~Skipped(k) /\ plan[k] = "on"
           /\ Sweep(k) /\ turn' = Following
        \/ /\ ~Skipped(k) /\ plan[k] = "senseless"
           /\ turn' = (IF k = "custom" THEN Following ELSE 0)
           /\ UNCHANGED <<rows, due, errors>>
        \/ /\ ~Skipped(k) /\ plan[k] = "on" /\ errors > 0
           /\ errors' = errors - 1
           /\ turn' = (IF k = "custom" THEN Following ELSE 0)
           /\ UNCHANGED <<rows, due>>
  /\ UNCHANGED <<setting, plan, edits>>

\* The admin's own request for one cleanup, between and beside the runs.
CleanupNow(k) ==
  /\ due[k] > 0 /\ ~(k = "inactiveAddress" /\ Frozen)
  /\ Sweep(k)
  /\ UNCHANGED <<setting, plan, turn, edits>>

CronNext ==
  \/ \E k \in DOMAIN rows : (\E x \in Rows : Arrive(k, x)) \/ Age(k) \/ CleanupNow(k)
  \/ \E s \in Settings : SaveCleanup(s)
  \/ Trigger \/ Cleanup

-----------------------------------------------------------------------------
\* The settings have this cleanup done: it is on, and none before it throws.
Effective(k) ==
  /\ setting[k] = "on" /\ ~(k = "inactiveAddress" /\ Frozen)
  /\ \A j \in 1..(CHOOSE i \in DOMAIN Kinds : Kinds[i] = k) :
       setting[Kinds[j]] # "senseless" \/ (Kinds[j] = "inactiveAddress" /\ Frozen)

IsDue(x) == \E k \in DOMAIN rows : \E i \in 1..due[k] : rows[k][i] = x

\* Every row that is due is deleted in the end, however many rows go on
\* arriving, once the settings stay such that its cleanup is reached
\* (common.ts cleanup: oldest first; scheduled.ts: one exception ends the run).
DueIsDeleted ==
  \A x \in Rows :
    <>[](\A k \in DOMAIN rows : Effective(k)) => [](IsDue(x) => <>~IsDue(x))
=============================================================================
