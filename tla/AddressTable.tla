---------------------------- MODULE AddressTable ----------------------------
(***************************************************************************)
(* Table address of db/schema.sql: one row per mailbox, with a unique name *)
(* and an AUTOINCREMENT id that is never given twice.  A credential is a   *)
(* signed pair of name and id, and is good while a row matches both        *)
(* (worker/src/address_auth.ts).                                           *)
(***************************************************************************)
EXTENDS Sql, Integers

CONSTANTS Names,   \* mailbox names
          MaxId    \* bound: rows ever inserted

Ids == 1..MaxId

ASSUME AddressAssumption == MaxId \in Nat /\ Null \notin Ids

VARIABLES address,   \* the id of each name's row, Null for none
          lastId     \* the AUTOINCREMENT counter

AddressInit ==
  /\ address = [n \in Names |-> Null]
  /\ lastId = 0

Exists(i) == \E n \in Names : address[n] = i

Valid(n, i) == i # Null /\ address[n] = i

\* INSERT INTO address(name): the caller looks at address[n] # Null, for
\* which the statement throws.
InsertRow(n) ==
  /\ lastId < MaxId
  /\ lastId' = lastId + 1
  /\ address' = [address EXCEPT ![n] = lastId + 1]

DeleteRows(names) ==
  address' = [n \in Names |-> IF n \in names THEN Null ELSE address[n]]
=============================================================================
