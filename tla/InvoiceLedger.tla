---------------------------- MODULE InvoiceLedger ----------------------------
(***************************************************************************)
(* What the rehearsed migration promises to the two applications that keep *)
(* writing while it runs: a book of invoices, each with one amount and one *)
(* currency.  An entry changes only when a client's accepted transaction   *)
(* changes it, all the rows of a transaction at once and by exactly what   *)
(* it asked for.  No migration, backfill batch or rollback shows here.     *)
(***************************************************************************)
EXTENDS Integers

CONSTANTS Ids,       \* every invoice id
          Seed,      \* opening amounts, a function on the ids created first
          Credits,   \* what an update may do: records [ids, delta]
          Additions, \* what an insert may add: records [id, amount, currency]
          Null       \* no such invoice

VARIABLES book,         \* id |-> its entry, or Null
          acknowledged  \* id |-> what clients were told they added to it

Entry(amount, currency) == [amount |-> amount, currency |-> currency]

Init == /\ book = [i \in Ids |-> Null]
        /\ acknowledged = [i \in Ids |-> 0]

(* The first migration creates the book with its opening amounts.          *)
Open == /\ \A i \in Ids : book[i] = Null
        /\ book' = [i \in Ids |-> IF i \in DOMAIN Seed THEN Entry(Seed[i], "EUR")
                                                       ELSE Null]
        /\ UNCHANGED acknowledged

(* One client transaction raises the amount of each of its rows.           *)
Credit(c) ==
    /\ \A i \in c.ids : book[i] # Null
    /\ book' = [i \in Ids |-> IF i \in c.ids
                              THEN Entry(book[i].amount + c.delta, book[i].currency)
                              ELSE book[i]]
    /\ acknowledged' = [i \in Ids |-> IF i \in c.ids THEN acknowledged[i] + c.delta
                                                      ELSE acknowledged[i]]

(* One client transaction adds an invoice.                                 *)
Add(a) == /\ book[a.id] = Null
          /\ book' = [book EXCEPT ![a.id] = Entry(a.amount, a.currency)]
          /\ acknowledged' = [acknowledged EXCEPT ![a.id] = a.amount]

Next == \/ Open
        \/ \E c \in Credits : Credit(c)
        \/ \E a \in Additions : Add(a)

Spec == Init /\ [][Next]_<<book, acknowledged>>

(* What a reader of the book may rely on: an entry is its opening amount   *)
(* plus all that was acknowledged for it.                                  *)
Balanced == \A i \in Ids : book[i] # Null =>
               book[i].amount = (IF i \in DOMAIN Seed THEN Seed[i] ELSE 0) + acknowledged[i]
=============================================================================
