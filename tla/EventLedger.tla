---------------------------- MODULE EventLedger -----------------------------
(***************************************************************************)
(* What the indexer promises about the events of the program: each one     *)
(* that is to be booked is booked once, in the order of the chain, and     *)
(* nothing else is.  An entry is known by the position of its transaction  *)
(* in the program's history and by its index in that transaction.          *)
(***************************************************************************)
EXTENDS Integers

VARIABLES due,      \* entries the chain has produced so far
          booked    \* entries in the database

ledgerVars == <<due, booked>>

Before(a, b) == a[1] < b[1] \/ (a[1] = b[1] /\ a[2] < b[2])

LedgerInit == due = {} /\ booked = {}

\* Transactions are final, and a new one comes after all there are.
Produce ==
  /\ due \subseteq due'
  /\ \A old \in due, new \in due' \ due : Before(old, new)
  /\ UNCHANGED booked

Book(entry) ==
  /\ entry \in due \ booked
  /\ \A earlier \in due : Before(earlier, entry) => earlier \in booked
  /\ booked' = booked \union {entry}
  /\ UNCHANGED due

LedgerNext == Produce \/ \E entry \in due : Book(entry)

LedgerSpec == LedgerInit /\ [][LedgerNext]_ledgerVars
=============================================================================
