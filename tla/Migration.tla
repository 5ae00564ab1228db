------------------------------ MODULE Migration ------------------------------
(***************************************************************************)
(* The online migration of the invoices table: the migrations 0001..0005,  *)
(* the resumable backfill, the rollback to the initial phase, and the V1   *)
(* and V2 applications that write while they run                           *)
(* (src/src/migration_rehearsal/contract.py, clients.py, src/migrations).  *)
(*                                                                         *)
(* A session is one database connection running one of those functions as  *)
(* one transaction.  A step of a session is one statement that waits for a *)
(* lock or reads what another session may change; what the transaction     *)
(* wrote becomes visible in its commit step.  Rows are written under row   *)
(* locks and the catalogue under table locks, so evaluating the written    *)
(* values at commit gives what the statements wrote.  Locks are held to    *)
(* the end of a transaction, so who holds what follows from op, pc, held.  *)
(***************************************************************************)
EXTENDS Integers, FiniteSets

CONSTANTS Sessions,   \* concurrent database connections
          Seed,       \* the amount 0001 seeds for each invoice id it creates
          InsertId,   \* the id of the invoice inserted by the V2 application
          V1Targets,  \* the sets of ids one V1 update covers
          V2Targets,  \* the sets of ids one V2 update covers
          V1Delta, V2Delta, \* what an update adds to an amount
          BatchSize,  \* LIMIT of a backfill batch
          MaxAmount,  \* bound: no update starts that would pass it
          Null        \* SQL NULL, a dropped column, an absent row

SeedIds == DOMAIN Seed
Ids == SeedIds \union {InsertId}

ASSUME IdsAssumption ==
    /\ IsFiniteSet(SeedIds) /\ SeedIds \subseteq Nat \ {0}
    /\ \A i \in SeedIds : Seed[i] \in Nat
    /\ Seed = [i \in SeedIds |-> Seed[i]]
    /\ InsertId \in (Nat \ {0}) \ SeedIds
ASSUME TargetsAssumption ==
    /\ V1Targets \subseteq SUBSET SeedIds /\ V2Targets \subseteq SUBSET SeedIds
    /\ V1Delta \in Nat \ {0} /\ V2Delta \in Nat \ {0} /\ MaxAmount \in Nat
    /\ BatchSize \in Nat \ {0}

Amounts == Int \union {Null}
Currencies == {"EUR", "USD", "GBP", Null}
RowType == [cents : Amounts, minor : Amounts, cur : Currencies]
EntryType == [amount : Amounts, currency : Currencies]

ASSUME NullAssumption == /\ Null \notin Int /\ Null \notin {"EUR", "USD", "GBP"}
                         /\ Null \notin RowType /\ Null \notin EntryType

VARIABLES control,  \* the row of migration_control
          ledger,   \* schema_migrations: the versions applied
          schema,   \* columns, trigger and constraints the catalogue has
          grants,   \* applications that hold privileges on invoices
          invoices, \* id |-> its row, or Null
          acknowledged, \* history: id |-> what clients were told they added
          op,       \* session |-> the function it runs
          pc,       \* session |-> the statement it is at
          cand,     \* session |-> rows its statement has still to lock
          held      \* session |-> rows it has locked

db == <<control, ledger, schema, grants, invoices, acknowledged>>
vars == <<control, ledger, schema, grants, invoices, acknowledged, op, pc, cand, held>>

-----------------------------------------------------------------------------
(* Operations.                                                             *)

Versions == {"0001", "0002", "0003", "0004", "0005"}
Exclusive == Versions \union {"start_backfill", "enable_v2", "down"}
Clients == {"v1", "v1_backfill", "v2"}
Shared == Clients \union {"batch"}

(* What V2 inserts in contract.py: the drivers insert nothing before       *)
(* contract that the trigger does not refuse.                              *)
InsertValue == [insert_usd           |-> [minor |-> 1,    cur |-> "USD"],
                insert_null_amount   |-> [minor |-> Null, cur |-> "EUR"],
                insert_null_currency |-> [minor |-> 1,    cur |-> Null],
                insert_negative      |-> [minor |-> -1,   cur |-> "EUR"],
                insert_wrong_currency |-> [minor |-> 1,   cur |-> "GBP"]]
Inserts == DOMAIN InsertValue
Ops == Exclusive \union Shared \union Inserts

Phases == {"none", "initial", "expand", "compatibility", "backfill", "switch",
           "contract"}
ExpectedPhase == [v \in Versions \ {"0001"} |->
                    CASE v = "0002" -> "initial"
                      [] v = "0003" -> "expand"
                      [] v = "0004" -> "backfill"
                      [] v = "0005" -> "switch"]

Targets(o) == CASE o = "v2" -> V2Targets
                [] o \in {"v1", "v1_backfill"} -> V1Targets
                [] OTHER -> {{}}
Delta(o) == IF o = "v2" THEN V2Delta ELSE V1Delta

AllowedPhases(o) ==
    IF o = "v1" THEN {"initial", "expand", "compatibility", "backfill"}
                ELSE {"backfill"}

-----------------------------------------------------------------------------
(* Rows.                                                                   *)

Row(cents, minor, cur) == [cents |-> cents, minor |-> minor, cur |-> cur]
Present == {i \in Ids : invoices[i] # Null}
Nonnegative(x) == x # Null /\ x >= 0

(* A row as every reader of the current phase should see it: the legacy    *)
(* column while it exists, the target columns afterwards.                  *)
Logical(r) == IF "amount_cents" \in schema
              THEN [amount |-> r.cents, currency |-> "EUR"]
              ELSE [amount |-> r.minor, currency |-> r.cur]

(* The rows "switch requires complete backfill" counts as wrong.           *)
Backfilled(r) == r.minor # Null /\ r.cents = r.minor /\ r.cur = "EUR"
BackfillComplete == \A i \in Present : Backfilled(invoices[i])

(* The rows the rollback can drop the target columns of without loss.      *)
Representable(r) == \/ r.minor = Null /\ r.cur = Null
                    \/ Backfilled(r)

(* Mutants of the trigger: it mirrors only into an empty target side, or   *)
(* mirrors in the wrong direction when the target side changed.            *)
CompatUpdate_FillsOnce(old, new) ==
    IF old.minor = Null THEN Row(new.cents, new.cents, "EUR") ELSE new
CompatUpdate_WrongWay(old, new) == Row(new.cents, new.cents, "EUR")

(* invoices_compatibility_write(): mirror the side that changed into the   *)
(* other one; Null stands for the exception it raises.                     *)
CompatUpdate(old, new) ==
    LET legacy == new.cents # old.cents
        target == new.minor # old.minor \/ new.cur # old.cur
        out == IF legacy /\ ~target THEN Row(new.cents, new.cents, "EUR")
               ELSE IF target /\ ~legacy THEN Row(new.minor, new.minor, new.cur)
               ELSE new
    IN IF /\ Nonnegative(out.cents) /\ Nonnegative(out.minor) /\ out.cur = "EUR"
          /\ legacy /\ target => out.cents = out.minor
       THEN out ELSE Null

(* The same trigger on INSERT by V2, which names no legacy column.         *)
CompatInsert(v) == IF Nonnegative(v.minor) /\ v.cur = "EUR"
                   THEN Row(v.minor, v.minor, v.cur) ELSE Null

(* The row an INSERT by V2 leaves under the catalogue in force, or Null.   *)
InsertedRow(v) ==
    IF "compat_trigger" \in schema THEN CompatInsert(v)
    ELSE IF "final_checks" \in schema /\ Nonnegative(v.minor) /\ v.cur \in {"EUR", "USD"}
         THEN Row(Null, v.minor, v.cur)
         ELSE Null

(* MaxAmount bounds the amounts an update is about to raise.               *)
WithinBound(o, r) == \A x \in {r.cents, r.minor} \ {Null} : x + Delta(o) <= MaxAmount

(* The SET list of an UPDATE by the operation o; NULL + d is NULL.         *)
Plus(x, d) == IF x = Null THEN Null ELSE x + d
Assigned(o, r) ==
    CASE o \in {"v1", "v1_backfill"} -> Row(Plus(r.cents, V1Delta), r.minor, r.cur)
      [] o = "v2"    -> Row(r.cents, Plus(r.minor, V2Delta), "EUR")
      [] o = "batch" -> Row(r.cents, r.cents, "EUR")

(* The row an UPDATE leaves, or Null when the trigger refuses it.          *)
UpdatedRow(o, r) == IF "compat_trigger" \in schema
                    THEN CompatUpdate(r, Assigned(o, r)) ELSE Assigned(o, r)

-----------------------------------------------------------------------------
(* Locks.                                                                  *)

Others(s) == Sessions \ {s}

(* pg_advisory_xact_lock(_shared) granted to t.                            *)
HoldsAdvisory(t) == op[t] \in Exclusive \union Shared /\ pc[t] \notin {"idle", "advisory"}
HoldsExclusive(t) == op[t] \in Exclusive /\ HoldsAdvisory(t)

(* The migration_control row, selected FOR UPDATE by t.                    *)
HoldsSingleton(t) == \/ op[t] \in Exclusive \ {"0001"} /\ pc[t] \in {"ddl", "commit"}
                     \/ op[t] = "batch" /\ pc[t] \in {"select", "rows", "commit"}

(* t altered the invoices table, or has read or written its rows.          *)
HoldsTable(t) == op[t] \in Versions \union {"down"} /\ pc[t] = "commit"
TouchesTable(t) == op[t] \in Shared \union Inserts /\ pc[t] \in {"rows", "commit"}

AdvisoryFree(s) == IF op[s] \in Exclusive
                   THEN \A t \in Others(s) : ~HoldsAdvisory(t)
                   ELSE \A t \in Others(s) : ~HoldsExclusive(t)
SingletonFree(s) == \A t \in Others(s) : ~HoldsSingleton(t)
TableFree(s) == \A t \in Others(s) : ~HoldsTable(t)
TableUntouched(s) == \A t \in Others(s) : ~HoldsTable(t) /\ ~TouchesTable(t)
RowFree(s, i) == \A t \in Others(s) : i \notin held[t]

-----------------------------------------------------------------------------
(* A transaction: begin, the advisory lock, the admission checks, the      *)
(* statements, and commit or rollback.                                     *)

Init == /\ control = [phase |-> "none", last_id |-> 0, scanned |-> 0,
                      v2_enabled |-> FALSE]
        /\ ledger = {} /\ schema = {} /\ grants = {}
        /\ invoices = [i \in Ids |-> Null]
        /\ acknowledged = [i \in Ids |-> 0]
        /\ op = [s \in Sessions |-> "none"]
        /\ pc = [s \in Sessions |-> "idle"]
        /\ cand = [s \in Sessions |-> {}]
        /\ held = [s \in Sessions |-> {}]

Goto(s, label) == pc' = [pc EXCEPT ![s] = label]

(* Mutant: a row lock survives its transaction.                            *)
End_KeepsRows(s) == /\ op' = [op EXCEPT ![s] = "none"]
                    /\ pc' = [pc EXCEPT ![s] = "idle"]
                    /\ cand' = [cand EXCEPT ![s] = {}]
                    /\ UNCHANGED held

(* The end of a transaction releases every lock it holds.                  *)
End(s) == /\ op' = [op EXCEPT ![s] = "none"]
          /\ pc' = [pc EXCEPT ![s] = "idle"]
          /\ cand' = [cand EXCEPT ![s] = {}]
          /\ held' = [held EXCEPT ![s] = {}]

(* One of the functions connects; an update knows the ids it covers.       *)
Begin(s, o) ==
    /\ pc[s] = "idle"
    /\ \E ids \in Targets(o) :
          /\ \A i \in ids \intersect Present : WithinBound(o, invoices[i])
          /\ cand' = [cand EXCEPT ![s] = ids]
    /\ op' = [op EXCEPT ![s] = o]
    /\ Goto(s, IF o \in Inserts THEN "insert" ELSE "advisory")
    /\ UNCHANGED <<db, held>>

(* Mutants: a migration takes the shared lock; a client takes none.        *)
LockAdvisory_MigrationShared(s) == /\ pc[s] = "advisory"
                                   /\ \A t \in Others(s) : ~HoldsExclusive(t)
                                   /\ Goto(s, "admit")
                                   /\ UNCHANGED <<db, op, cand, held>>
LockAdvisory_ClientNone(s) == /\ pc[s] = "advisory"
                              /\ op[s] \in Clients \/ AdvisoryFree(s)
                              /\ Goto(s, "admit")
                              /\ UNCHANGED <<db, op, cand, held>>

LockAdvisory(s) == /\ pc[s] = "advisory"
                   /\ AdvisoryFree(s)
                   /\ Goto(s, "admit")
                   /\ UNCHANGED <<db, op, cand, held>>

(* What each function checks between its locks and its first write.        *)
LedgerOf(phase) ==
    CASE phase = "none"     -> {}
      [] phase = "initial"  -> {"0001"}
      [] phase = "expand"   -> {"0001", "0002"}
      [] phase \in {"compatibility", "backfill"} -> {"0001", "0002", "0003"}
      [] phase = "switch"   -> {"0001", "0002", "0003", "0004"}
      [] phase = "contract" -> Versions

(* enforce_migration_phase_transition(), for the phase backfill.           *)
MayStartBackfill == control.phase \in {"compatibility", "backfill"}

(* 0001 expects no phase: its CREATE TABLEs find the tables or do not.      *)
MayApply(v) == /\ IF v = "0001" THEN control.phase = "none"
                                ELSE control.phase = ExpectedPhase[v]
               /\ v = "0004" => control.v2_enabled /\ BackfillComplete

(* Mutant: V2 is enabled before the backfill is complete.                  *)
MayEnableV2_Early == control.phase = "backfill"

MayEnableV2 == control.phase = "backfill" /\ BackfillComplete

Reversible == {"expand", "compatibility", "backfill", "switch"}

MayDown == /\ control.phase \in Reversible
           /\ ledger = LedgerOf(control.phase)
           /\ \A i \in Present : Representable(invoices[i])

Admissible(o) == \/ o \in Versions /\ MayApply(o)
                 \/ o = "start_backfill" /\ MayStartBackfill
                 \/ o = "enable_v2" /\ MayEnableV2
                 \/ o = "down" /\ MayDown

ClientAdmissible(o) == /\ control.phase \in AllowedPhases(o)
                       /\ o = "v2" => control.v2_enabled

(* An exclusive function passes its checks, the singleton row locked.      *)
Admit(s) == /\ pc[s] = "admit" /\ op[s] \in Exclusive \ ledger
            /\ op[s] # "0001" => SingletonFree(s)
            /\ Admissible(op[s])
            /\ Goto(s, IF op[s] \in {"start_backfill", "enable_v2"} THEN "commit" ELSE "ddl")
            /\ UNCHANGED <<db, op, cand, held>>

(* The ledger has the version: nothing to do, commit.                      *)
AlreadyApplied(s) == /\ pc[s] = "admit" /\ op[s] \in Versions \intersect ledger
                     /\ End(s)
                     /\ UNCHANGED db

AdmitClient(s) == /\ pc[s] = "admit" /\ op[s] \in Clients
                  /\ ClientAdmissible(op[s])
                  /\ Goto(s, "rows")
                  /\ UNCHANGED <<db, op, cand, held>>

AdmitBatch(s) == /\ pc[s] = "admit" /\ op[s] = "batch"
                 /\ control.phase = "backfill"
                 /\ Goto(s, "singleton")
                 /\ UNCHANGED <<db, op, cand, held>>

(* The singleton row again, FOR UPDATE, and the phase checked once more.   *)
LockSingleton(s) == /\ pc[s] = "singleton"
                    /\ SingletonFree(s)
                    /\ control.phase = "backfill"
                    /\ Goto(s, "select")
                    /\ UNCHANGED <<db, op, cand, held>>

(* Any check above fails: the function raises and its transaction ends.    *)
Refused(s) ==
    \/ /\ pc[s] = "admit"
       /\ \/ op[s] \in Exclusive \ ledger /\ ~Admissible(op[s])
          \/ op[s] \in Clients /\ ~ClientAdmissible(op[s])
          \/ op[s] = "batch" /\ control.phase # "backfill"
    \/ pc[s] = "singleton" /\ SingletonFree(s) /\ control.phase # "backfill"
Reject(s) == Refused(s) /\ End(s) /\ UNCHANGED db

(* ALTER TABLE and CREATE or DROP TRIGGER wait for every reader and writer.*)
LockTable(s) == /\ pc[s] = "ddl"
                /\ TableUntouched(s)
                /\ Goto(s, "commit")
                /\ UNCHANGED <<db, op, cand, held>>

(* The snapshot of the batch's SELECT ... ORDER BY id LIMIT n FOR UPDATE.  *)
Pending == {i \in Present : i > control.last_id /\ invoices[i].minor = Null}
SelectBatch(s) == /\ pc[s] = "select"
                  /\ TableFree(s)
                  /\ cand' = [cand EXCEPT ![s] = Pending]
                  /\ Goto(s, IF Pending = {} THEN "commit" ELSE "rows")
                  /\ UNCHANGED <<db, op, held>>

(* Of the rows it locked, the batch keeps those that still match after a   *)
(* wait for a concurrent writer.                                           *)
Unfilled(ids) == {i \in ids : invoices[i].minor = Null}
Picked(s) == Unfilled(held[s])

LockRow(s, i) == /\ pc[s] = "rows" /\ i \in cand[s]
                 /\ RowFree(s, i)
                 /\ held' = [held EXCEPT ![s] = held[s] \union {i}]
                 /\ UNCHANGED <<db, op>>

LockBatchRow(s) ==
    /\ op[s] = "batch"
    /\ \E i \in cand[s] :
          /\ \A j \in cand[s] : i <= j
          /\ LockRow(s, i)
          /\ cand' = [cand EXCEPT ![s] = cand[s] \ {i}]
          /\ Goto(s, IF \/ cand[s] = {i}
                        \/ Cardinality(Unfilled(held[s] \union {i})) >= BatchSize
                     THEN "commit" ELSE "rows")

(* A client's UPDATE takes the rows of its range in the order it meets     *)
(* them, and stops at a missing privilege or at an exception of the trigger.*)
Granted(o) == (IF o = "v2" THEN "v2" ELSE "v1") \in grants
Accepted(o, i) == Granted(o) /\ i \in Present /\ UpdatedRow(o, invoices[i]) # Null

LockClientRow(s) ==
    /\ op[s] \in Clients
    /\ TableFree(s)
    /\ \E i \in cand[s] :
          /\ Accepted(op[s], i)
          /\ LockRow(s, i)
          /\ cand' = [cand EXCEPT ![s] = cand[s] \ {i}]
          /\ Goto(s, IF cand[s] = {i} THEN "commit" ELSE "rows")

(* The V2 inserts take no advisory lock and read no phase: privileges, the *)
(* trigger, the constraints and the primary key decide.                    *)
NoInserter(s) == \A t \in Others(s) : ~(op[t] \in Inserts /\ pc[t] = "commit")
InsertAccepted(o) == /\ "v2" \in grants
                     /\ invoices[InsertId] = Null
                     /\ InsertedRow(InsertValue[o]) # Null
Insert(s) == /\ pc[s] = "insert"
             /\ TableFree(s) /\ NoInserter(s)
             /\ InsertAccepted(op[s])
             /\ Goto(s, "commit")
             /\ UNCHANGED <<db, op, cand, held>>
InsertRefused(s) == /\ pc[s] = "insert"
                    /\ TableFree(s) /\ NoInserter(s)
                    /\ ~InsertAccepted(op[s])
                    /\ End(s)
                    /\ UNCHANGED db

-----------------------------------------------------------------------------
(* What a commit makes visible.                                            *)

Commit(s, o) == pc[s] = "commit" /\ op[s] = o /\ End(s)

Enter(phase) == control' = [control EXCEPT !.phase = phase]
Record(v) == ledger' = ledger \union {v}

(* 0001: the tables, the phase guard, the seed rows and V1's privileges.   *)
CommitInitial(s) ==
    /\ Commit(s, "0001")
    /\ Enter("initial") /\ Record("0001")
    /\ schema' = {"amount_cents"} /\ grants' = {"v1"}
    /\ invoices' = [i \in Ids |-> IF i \in SeedIds THEN Row(Seed[i], Null, Null) ELSE Null]
    /\ UNCHANGED acknowledged

(* 0002: nullable target columns with checks.                              *)
CommitExpand(s) ==
    /\ Commit(s, "0002")
    /\ Enter("expand") /\ Record("0002")
    /\ schema' = schema \union {"target_columns", "eur_checks"}
    /\ UNCHANGED <<grants, invoices, acknowledged>>

(* 0003: the trigger that keeps the two sides equal.                       *)
CommitCompatibility(s) ==
    /\ Commit(s, "0003")
    /\ Enter("compatibility") /\ Record("0003")
    /\ schema' = schema \union {"compat_trigger"}
    /\ UNCHANGED <<grants, invoices, acknowledged>>

CommitStartBackfill(s) ==
    /\ Commit(s, "start_backfill")
    /\ Enter("backfill")
    /\ UNCHANGED <<ledger, schema, grants, invoices, acknowledged>>

(* The batch copies its rows and moves the checkpoint to the last of them. *)
CommitBatch(s) ==
    /\ Commit(s, "batch")
    /\ \A i \in Picked(s) : UpdatedRow("batch", invoices[i]) # Null
    /\ invoices' = [i \in Ids |-> IF i \in Picked(s) THEN UpdatedRow("batch", invoices[i])
                                                     ELSE invoices[i]]
    /\ IF Picked(s) = {} THEN UNCHANGED control
       ELSE \E last \in Picked(s) :
              /\ \A i \in Picked(s) : i <= last
              /\ control' = [control EXCEPT !.last_id = last,
                                !.scanned = control.scanned + Cardinality(Picked(s))]
    /\ UNCHANGED <<ledger, schema, grants, acknowledged>>

CommitEnableV2(s) ==
    /\ Commit(s, "enable_v2")
    /\ control' = [control EXCEPT !.v2_enabled = TRUE]
    /\ grants' = grants \union {"v2"}
    /\ UNCHANGED <<ledger, schema, invoices, acknowledged>>

(* 0004: the constraints hold of every row, or the migration fails.        *)
CommitSwitch(s) ==
    /\ Commit(s, "0004")
    /\ \A i \in Present : Nonnegative(invoices[i].minor) /\ invoices[i].cur = "EUR"
    /\ Enter("switch") /\ Record("0004")
    /\ schema' = schema \union {"not_null"}
    /\ grants' = grants \ {"v1"}
    /\ UNCHANGED <<invoices, acknowledged>>

(* 0005: the legacy column goes, and with it the trigger.                  *)
CommitContract(s) ==
    /\ Commit(s, "0005")
    /\ \A i \in Present : Nonnegative(invoices[i].minor) /\ invoices[i].cur \in {"EUR", "USD"}
    /\ Enter("contract") /\ Record("0005")
    /\ schema' = (schema \ {"amount_cents", "eur_checks", "compat_trigger"})
                    \union {"final_checks"}
    /\ invoices' = [i \in Ids |-> IF i \in Present
                                  THEN Row(Null, invoices[i].minor, invoices[i].cur)
                                  ELSE Null]
    /\ UNCHANGED <<grants, acknowledged>>

(* Mutants of the rollback: the checkpoint, or the ledger, is left behind. *)
CommitDown_KeepsCheckpoint(s) ==
    /\ Commit(s, "down")
    /\ control' = [control EXCEPT !.phase = "initial", !.v2_enabled = FALSE]
    /\ ledger' = ledger \intersect {"0001"} /\ schema' = {"amount_cents"} /\ grants' = {"v1"}
    /\ invoices' = [i \in Ids |-> IF i \in Present THEN Row(invoices[i].cents, Null, Null)
                                                   ELSE Null]
    /\ UNCHANGED acknowledged
CommitDown_KeepsLedger(s) ==
    /\ Commit(s, "down")
    /\ control' = [phase |-> "initial", last_id |-> 0, scanned |-> 0, v2_enabled |-> FALSE]
    /\ schema' = {"amount_cents"} /\ grants' = {"v1"}
    /\ invoices' = [i \in Ids |-> IF i \in Present THEN Row(invoices[i].cents, Null, Null)
                                                   ELSE Null]
    /\ UNCHANGED <<ledger, acknowledged>>

(* attempt_down: back to the initial phase, the target columns dropped.    *)
CommitDown(s) ==
    /\ Commit(s, "down")
    /\ control' = [phase |-> "initial", last_id |-> 0, scanned |-> 0, v2_enabled |-> FALSE]
    /\ ledger' = ledger \intersect {"0001"}
    /\ schema' = schema \intersect {"amount_cents"}
    /\ grants' = (grants \ {"v2"}) \union {"v1"}
    /\ invoices' = [i \in Ids |-> IF i \in Present THEN Row(invoices[i].cents, Null, Null)
                                                   ELSE Null]
    /\ UNCHANGED acknowledged

(* A V1 or V2 update of the rows it holds.                                 *)
CommitClient(s) ==
    /\ \E o \in Clients : Commit(s, o)
    /\ invoices' = [i \in Ids |-> IF i \in held[s] THEN UpdatedRow(op[s], invoices[i])
                                                   ELSE invoices[i]]
    /\ acknowledged' = [i \in Ids |-> IF i \in held[s] THEN acknowledged[i] + Delta(op[s])
                                                       ELSE acknowledged[i]]
    /\ UNCHANGED <<control, ledger, schema, grants>>

CommitInsert(s) ==
    /\ \E o \in Inserts : Commit(s, o)
    /\ invoices' = [invoices EXCEPT ![InsertId] = InsertedRow(InsertValue[op[s]])]
    /\ acknowledged' = [acknowledged EXCEPT ![InsertId] = InsertValue[op[s]].minor]
    /\ UNCHANGED <<control, ledger, schema, grants>>

(* A lock or statement timeout, a deadlock victim, an injected failure or a*)
(* lost connection: the server undoes the transaction.                     *)
Rollback(s) == pc[s] # "idle" /\ End(s) /\ UNCHANGED db

Next == \E s \in Sessions :
    \/ \E o \in Ops : Begin(s, o)
    \/ LockAdvisory(s) \/ Admit(s) \/ AlreadyApplied(s) \/ AdmitClient(s)
    \/ AdmitBatch(s) \/ LockSingleton(s) \/ Reject(s) \/ LockTable(s)
    \/ SelectBatch(s) \/ LockBatchRow(s) \/ LockClientRow(s)
    \/ Insert(s) \/ InsertRefused(s)
    \/ CommitInitial(s) \/ CommitExpand(s) \/ CommitCompatibility(s)
    \/ CommitStartBackfill(s) \/ CommitBatch(s) \/ CommitEnableV2(s)
    \/ CommitSwitch(s) \/ CommitContract(s) \/ CommitDown(s)
    \/ CommitClient(s) \/ CommitInsert(s)
    \/ Rollback(s)

Spec == Init /\ [][Next]_vars

-----------------------------------------------------------------------------
(* Properties.                                                             *)

Labels == {"idle", "advisory", "admit", "singleton", "ddl", "select", "rows",
           "insert", "commit"}

(* The type invariant; an idle session is between transactions and has     *)
(* neither an operation nor a row lock left over from the last one         *)
(* (every function of contract.py ends in commit or rollback).             *)
TypeOK ==
    /\ control \in [phase : Phases, last_id : Nat, scanned : Nat, v2_enabled : BOOLEAN]
    /\ ledger \subseteq Versions
    /\ schema \subseteq {"amount_cents", "target_columns", "eur_checks", "compat_trigger",
                         "not_null", "final_checks"}
    /\ grants \subseteq {"v1", "v2"}
    /\ invoices \in [Ids -> RowType \union {Null}]
    /\ acknowledged \in [Ids -> Nat]
    /\ op \in [Sessions -> Ops \union {"none"}]
    /\ pc \in [Sessions -> Labels]
    /\ cand \in [Sessions -> SUBSET Ids]
    /\ held \in [Sessions -> SUBSET Ids]
    /\ \A s \in Sessions : pc[s] = "idle" => /\ op[s] = "none"
                                             /\ cand[s] = {} /\ held[s] = {}

SchemaOf(phase) ==
    CASE phase = "none"    -> {}
      [] phase = "initial" -> {"amount_cents"}
      [] phase = "expand"  -> {"amount_cents", "target_columns", "eur_checks"}
      [] phase \in {"compatibility", "backfill"} ->
            {"amount_cents", "target_columns", "eur_checks", "compat_trigger"}
      [] phase = "switch" ->
            {"amount_cents", "target_columns", "eur_checks", "compat_trigger", "not_null"}
      [] phase = "contract" -> {"target_columns", "not_null", "final_checks"}

GrantsOf(c) == (IF c.phase \in {"none", "switch", "contract"} THEN {} ELSE {"v1"})
                  \union (IF c.v2_enabled THEN {"v2"} ELSE {})

(* Five migrations, the backfill entry and exit and the rollback each      *)
(* change several of these; whatever mix of sessions runs them, fails or   *)
(* repeats them, the committed phase alone tells which versions the ledger *)
(* holds, what the catalogue looks like and who may write.                 *)
ShapeMatchesPhase ==
    /\ ledger = LedgerOf(control.phase)
    /\ schema = SchemaOf(control.phase)
    /\ grants = GrantsOf(control)
    /\ control.phase \in {"switch", "contract"} => control.v2_enabled
    /\ control.v2_enabled => control.phase \in {"backfill", "switch", "contract"}

(* A resumed backfill may trust its checkpoint: no row at or below         *)
(* backfill_last_id still lacks its target columns, and no row was counted *)
(* twice, across concurrent batches, writers that overtake a batch,        *)
(* rollbacks of a batch, and a rollback to initial followed by a new run.  *)
CheckpointSound ==
    /\ \A i \in Present : i <= control.last_id => invoices[i].minor # Null
    /\ control.scanned <= Cardinality({i \in Present : invoices[i].minor # Null})

(* Until the contract phase the way back stays open: attempt_down's checks *)
(* of the ledger and of the rows can refuse no state that clients, batches *)
(* and migrations reach together.                                          *)
DownStaysOpen == control.phase \in Reversible => MayDown

(* Once V2 is enabled every row has a valid target side, equal to the      *)
(* legacy side while that exists, and no later write of either application *)
(* undoes it: the switch cannot find a mismatch any more, and the contract *)
(* loses nothing by dropping amount_cents.                                 *)
TargetTrusted ==
    control.v2_enabled =>
        \A i \in Present :
            /\ Nonnegative(invoices[i].minor) /\ invoices[i].cur \in {"EUR", "USD"}
            /\ "amount_cents" \in schema => Backfilled(invoices[i])

(* A client admitted by phase is never overtaken: until its transaction    *)
(* ends the phase still admits it, its privileges stand and the trigger    *)
(* takes each row it is about to write.                                    *)
AdmittedWritesSucceed ==
    \A s \in Sessions : op[s] \in Clients /\ pc[s] \in {"rows", "commit"} =>
        /\ ClientAdmissible(op[s])
        /\ \A i \in cand[s] \union held[s] : Accepted(op[s], i)

ForwardEdges == {<<"none", "initial">>, <<"initial", "expand">>,
                 <<"expand", "compatibility">>, <<"compatibility", "backfill">>,
                 <<"backfill", "switch">>, <<"switch", "contract">>}

(* The phase moves one edge forward or back to initial, never out of       *)
(* contract, and only when no other guarded transaction is in flight: the  *)
(* one advisory lock held at that moment is the mover's, released with it. *)
PhaseStep ==
    control'.phase # control.phase =>
        /\ \/ <<control.phase, control'.phase>> \in ForwardEdges
           \/ control.phase \in Reversible /\ control'.phase = "initial"
        /\ \A t \in Sessions : HoldsAdvisory(t) => pc'[t] = "idle"
PhaseMovesAlone == [][PhaseStep]_vars

(* Every behaviour is one of the book of invoices: migrations, batches and *)
(* rollbacks change no logical amount, and no committed client update is   *)
(* lost, applied twice or applied to half of its rows.                     *)
Book == INSTANCE InvoiceLedger WITH
    Credits <- {[ids |-> t, delta |-> V1Delta] : t \in V1Targets}
                  \union {[ids |-> t, delta |-> V2Delta] : t \in V2Targets},
    Additions <- {[id |-> InsertId, amount |-> InsertValue[o].minor,
                   currency |-> InsertValue[o].cur] : o \in Inserts},
    book <- [i \in Ids |-> IF invoices[i] = Null THEN Null ELSE Logical(invoices[i])]
ImplementsInvoiceLedger == Book!Spec
=============================================================================
