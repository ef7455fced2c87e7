---------------------------- MODULE SenderTable ----------------------------
(***************************************************************************)
(* The table address_sender (db/schema.sql): the sending balance of each   *)
(* mailbox name, and everything that changes it outside a redemption and   *)
(* outside sending a mail.  The name is UNIQUE, so the table is a function *)
(* of the name; an upsert is one statement and therefore one step.         *)
(***************************************************************************)
EXTENDS Sql, Integers

CONSTANTS Addresses,       \* mailbox names
          DefaultBalance,  \* DEFAULT_SEND_BALANCE
          AdminBalances    \* the balances an admin sets; may contain Null

ASSUME SenderAssumption ==
  /\ DefaultBalance \in Nat
  /\ AdminBalances \subseteq Int \cup {Null}
  /\ Null \notin Int /\ Null \notin Addresses

VARIABLES sender,   \* address_sender, by address
          adjusted  \* history: names whose row an admin set or removed

SenderRow == [row : BOOLEAN, balance : Int \cup {Null}, enabled : BOOLEAN]

NoSender == [row |-> FALSE, balance |-> 0, enabled |-> FALSE]

SenderInit ==
  /\ sender = [a \in Addresses |-> NoSender]
  /\ adjusted = {}

\* ensureDefaultSendBalance: INSERT ... ON CONFLICT(address) DO NOTHING.
WithDefault(s) ==
  IF DefaultBalance > 0 /\ ~s.row
    THEN [row |-> TRUE, balance |-> DefaultBalance, enabled |-> TRUE]
    ELSE s

\* Mutant: the credit replaces the balance.
CreditReplaces(s, amount) ==
  IF s.row THEN [s EXCEPT !.balance = amount]
           ELSE [row |-> TRUE, balance |-> amount, enabled |-> TRUE]

\* A redeemed credit: INSERT ... ON CONFLICT(address) DO UPDATE SET
\* balance = COALESCE(address_sender.balance, 0) + excluded.balance
Credited(s, amount) ==
  IF s.row
    THEN [s EXCEPT !.balance = (IF @ = Null THEN 0 ELSE @) + amount]
    ELSE [row |-> TRUE, balance |-> amount, enabled |-> TRUE]

\* A mail sent: UPDATE address_sender SET balance = balance - 1.
Deducted(s) ==
  IF s.row
    THEN [s EXCEPT !.balance = IF @ = Null THEN Null ELSE @ - 1]
    ELSE s

\* UPDATE address_sender SET enabled = ?, balance = ? WHERE id = ?
AdminSetSender(a, b, on) ==
  /\ sender[a].row
  /\ sender' = [sender EXCEPT ![a] = [row |-> TRUE, balance |-> b, enabled |-> on]]
  /\ adjusted' = adjusted \cup {a}

\* DELETE FROM address_sender WHERE id = ?; deleting a mailbox does the same.
AdminRemoveSender(a) ==
  /\ sender[a].row
  /\ sender' = [sender EXCEPT ![a] = NoSender]
  /\ adjusted' = adjusted \cup {a}

\* requestSendMailAccess, and getSendBalanceState of a query: the default if
\* there is one, else a disabled row with no balance.
OpenSender(a) ==
  /\ ~sender[a].row
  /\ sender' = [sender EXCEPT ![a] =
                  [row |-> TRUE, balance |-> DefaultBalance,
                   enabled |-> DefaultBalance > 0]]
  /\ UNCHANGED adjusted

SenderStep ==
  \E a \in Addresses :
    \/ \E b \in AdminBalances, on \in BOOLEAN : AdminSetSender(a, b, on)
    \/ AdminRemoveSender(a)
    \/ OpenSender(a)
=============================================================================
