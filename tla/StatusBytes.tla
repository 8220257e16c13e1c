----------------------------- MODULE StatusBytes ------------------------------
(***************************************************************************)
(* What the store of status bytes of one device promises to its callers,   *)
(* whatever order it keeps them in: a byte that a poll of the bus has read  *)
(* is kept until a caller gets it, unless the store is full or the poll     *)
(* failed after it had read the byte; a caller is given a byte of the store *)
(* as long as there is one, and only otherwise one that is read for it.     *)
(* Bytes are numbered in the order of their polls.                          *)
(***************************************************************************)
EXTENDS Naturals, FiniteSets

CONSTANT Limit  \* how many bytes the store holds

VARIABLES
  read,      \* how many bytes have been read from the device
  stored, given,
  lost,      \* refused by the full store
  spoilt     \* read by polls that failed

vars == <<read, stored, given, lost, spoilt>>

Init == read = 0 /\ stored = {} /\ given = {} /\ lost = {} /\ spoilt = {}

Store ==
  /\ Cardinality(stored) < Limit
  /\ read' = read + 1
  /\ stored' = stored \union {read'}
  /\ UNCHANGED <<given, lost, spoilt>>

Lose ==
  /\ Cardinality(stored) = Limit
  /\ read' = read + 1
  /\ lost' = lost \union {read'}
  /\ UNCHANGED <<stored, given, spoilt>>

Give ==
  \E byte \in stored :
    /\ stored' = stored \ {byte}
    /\ given' = given \union {byte}
    /\ UNCHANGED <<read, lost, spoilt>>

ReadAndGive ==
  /\ stored = {}
  /\ read' = read + 1
  /\ given' = given \union {read'}
  /\ UNCHANGED <<stored, lost, spoilt>>

ReadAndFail ==
  /\ read' = read + 1
  /\ spoilt' = spoilt \union {read'}
  /\ UNCHANGED <<stored, given, lost>>

Next == Store \/ Lose \/ Give \/ ReadAndGive \/ ReadAndFail

Spec == Init /\ [][Next]_vars
=============================================================================
