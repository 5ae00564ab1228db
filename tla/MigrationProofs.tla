--------------------------- MODULE MigrationProofs ---------------------------
(***************************************************************************)
(* Proofs about Migration for any number of sessions and invoices, any     *)
(* seed amounts, update sets and batch size: its inductive invariant, its  *)
(* safety properties, and that it implements InvoiceLedger.                *)
(***************************************************************************)
EXTENDS Migration, FiniteSetTheorems, TLAPS

-----------------------------------------------------------------------------
(* The inductive invariant.                                                *)

(* Which statement a session can be at, by what it runs.                   *)
PlaceInv ==
    \A s \in Sessions :
        /\ pc[s] # "idle" => op[s] \in Ops
        /\ pc[s] \in {"advisory", "admit"} => op[s] \in Exclusive \union Shared
        /\ pc[s] = "ddl" => op[s] \in Versions \union {"down"}
        /\ pc[s] \in {"singleton", "select"} => op[s] = "batch"
        /\ pc[s] = "rows" => op[s] \in Shared
        /\ pc[s] = "insert" => op[s] \in Inserts
        /\ held[s] # {} => op[s] \in Shared /\ pc[s] \in {"rows", "commit"}
        /\ op[s] \in Clients => cand[s] \union held[s] \subseteq SeedIds

(* Mutual exclusion on each kind of lock.                                  *)
LockInv ==
    \A s, t \in Sessions : s # t =>
        /\ HoldsExclusive(s) => ~HoldsAdvisory(t)
        /\ HoldsSingleton(s) => ~HoldsSingleton(t)
        /\ HoldsTable(s) => ~TouchesTable(t)
        /\ held[s] \intersect held[t] = {}
        /\ ~(op[s] \in Inserts /\ pc[s] = "commit" /\ op[t] \in Inserts /\ pc[t] = "commit")

(* What a session checked still holds when it commits.                     *)
Checked(s) ==
    /\ op[s] \in Exclusive /\ pc[s] \in {"ddl", "commit"} =>
          op[s] \notin ledger /\ Admissible(op[s])
    /\ op[s] \in Clients /\ pc[s] \in {"rows", "commit"} => ClientAdmissible(op[s])
    /\ op[s] = "batch" /\ pc[s] \in {"singleton", "select", "rows", "commit"} =>
          control.phase = "backfill"
    /\ op[s] \in Inserts /\ pc[s] = "commit" => InsertAccepted(op[s])
CheckedInv == \A s \in Sessions : Checked(s)

(* A batch in flight covers every pending row up to the last it holds.     *)
Covers(s) ==
    op[s] = "batch" /\ pc[s] \in {"rows", "commit"} =>
        /\ cand[s] \union held[s] \subseteq Present
        /\ Pending \subseteq cand[s] \union held[s]
        /\ \A i \in held[s], j \in cand[s] : i < j
BatchInv == \A s \in Sessions : Covers(s)

(* The rows, by phase.                                                     *)
Filled == {i \in Present : invoices[i].minor # Null}
RowsInv ==
    /\ control.phase = "none" => Present = {} /\ \A i \in Ids : acknowledged[i] = 0
    /\ control.phase # "none" => SeedIds \subseteq Present
    /\ \A i \in Present :
          /\ "amount_cents" \in schema => /\ invoices[i].cents \in Nat
                                          /\ Representable(invoices[i])
          /\ control.phase \in {"none", "initial", "expand"} => invoices[i].minor = Null
          /\ control.phase = "contract" => /\ invoices[i].cents = Null
                                           /\ invoices[i].minor \in Nat
                                           /\ invoices[i].cur \in {"EUR", "USD"}
          /\ control.v2_enabled => invoices[i].minor # Null
          /\ i <= control.last_id => invoices[i].minor # Null
    /\ control.scanned <= Cardinality(Filled)
    /\ control.phase \in {"none", "initial", "expand", "compatibility"} => control.last_id = 0

IInv == /\ TypeOK /\ ShapeMatchesPhase /\ PlaceInv /\ LockInv /\ CheckedInv
        /\ BatchInv /\ RowsInv

-----------------------------------------------------------------------------
(* What the row operators return.                                          *)

LEMMA RowFields ==
    ASSUME NEW c \in Amounts, NEW m \in Amounts, NEW u \in Currencies
    PROVE  /\ Row(c, m, u) \in RowType
           /\ Row(c, m, u).cents = c /\ Row(c, m, u).minor = m /\ Row(c, m, u).cur = u
BY DEF Row, RowType

(* An UPDATE leaves a typed row or is refused.                             *)
LEMMA UpdatedRowType ==
    ASSUME NEW o \in Clients \union {"batch"}, NEW r \in RowType
    PROVE  UpdatedRow(o, r) \in RowType \union {Null}
<1>1. Assigned(o, r) \in RowType
  BY TargetsAssumption, NullAssumption
     DEF Assigned, Plus, Row, RowType, Amounts, Currencies, Clients
<1>2. CompatUpdate(r, Assigned(o, r)) \in RowType \union {Null}
  BY <1>1 DEF CompatUpdate, Row, RowType, Currencies
<1> QED
  BY <1>1, <1>2 DEF UpdatedRow

(* A batch's row comes out backfilled, its amount unchanged.               *)
LEMMA BatchRow ==
    ASSUME NEW r \in RowType, r.cents \in Nat, r.minor = Null, Representable(r),
           "compat_trigger" \in schema
    PROVE  UpdatedRow("batch", r) = Row(r.cents, r.cents, "EUR")
BY NullAssumption DEF UpdatedRow, Assigned, CompatUpdate, Row, RowType, Nonnegative,
                      Representable, Backfilled

(* An admitted client's row is accepted, raised by the client's delta in   *)
(* the legacy column, and still representable; under the trigger both      *)
(* sides agree afterwards.                                                 *)
LEMMA ClientRow ==
    ASSUME NEW o \in Clients, NEW r \in RowType, r.cents \in Nat, Representable(r),
           o = "v2" => "compat_trigger" \in schema /\ r.minor # Null,
           "compat_trigger" \notin schema => r.minor = Null
    PROVE  LET q == UpdatedRow(o, r)
           IN /\ q \in RowType
              /\ q.cents = r.cents + Delta(o) /\ q.cents \in Nat
              /\ Representable(q)
              /\ "compat_trigger" \in schema => Backfilled(q)
              /\ "compat_trigger" \notin schema => q.minor = r.minor
              /\ r.minor # Null => q.minor # Null
<1>1. CASE o = "v2"
  <2>1. Assigned(o, r) = Row(r.cents, r.cents + V2Delta, "EUR")
    BY <1>1, NullAssumption DEF Assigned, Plus, Representable, Backfilled
  <2>2. UpdatedRow(o, r) = Row(r.cents + V2Delta, r.cents + V2Delta, "EUR")
    BY <1>1, <2>1, NullAssumption, TargetsAssumption
       DEF UpdatedRow, CompatUpdate, Row, RowType, Representable, Backfilled, Nonnegative
  <2> QED
    BY <1>1, <2>2, NullAssumption, TargetsAssumption
       DEF Row, RowType, Delta, Representable, Backfilled, Amounts, Currencies
<1>2. CASE o # "v2"
  <2>1. Assigned(o, r) = Row(r.cents + V1Delta, r.minor, r.cur)
    BY <1>2, NullAssumption DEF Assigned, Plus, Clients
  <2>2. CASE "compat_trigger" \in schema
    <3>1. UpdatedRow(o, r) = Row(r.cents + V1Delta, r.cents + V1Delta, "EUR")
      BY <2>1, <2>2, NullAssumption, TargetsAssumption
         DEF UpdatedRow, CompatUpdate, Row, RowType, Nonnegative
    <3> QED
      BY <1>2, <2>2, <3>1, NullAssumption, TargetsAssumption
         DEF Row, RowType, Delta, Representable, Backfilled, Amounts, Currencies
  <2>3. CASE "compat_trigger" \notin schema
    BY <1>2, <2>1, <2>3, NullAssumption, TargetsAssumption
       DEF UpdatedRow, Row, RowType, Delta, Representable, Backfilled, Amounts, Currencies
  <2> QED BY <2>2, <2>3
<1> QED BY <1>1, <1>2

(* An accepted insert adds a row every later phase can live with.          *)
LEMMA InsertRow ==
    ASSUME NEW o \in Inserts, InsertAccepted(o)
    PROVE  LET v == InsertValue[o]
               q == InsertedRow(v)
           IN /\ v.minor \in Nat /\ v.cur \in {"EUR", "USD"}
              /\ q.minor = v.minor /\ q.cur = v.cur
              /\ q \in RowType
              /\ "compat_trigger" \in schema => q.cents = v.minor /\ Backfilled(q)
              /\ "compat_trigger" \notin schema => "final_checks" \in schema /\ q.cents = Null
<1> DEFINE v == InsertValue[o]
<1>1. InsertedRow(v) # Null
  BY DEF InsertAccepted
<1>2. /\ v = [minor |-> v.minor, cur |-> v.cur]
      /\ v.minor \in Int \union {Null} /\ v.cur \in Currencies
  BY DEF InsertValue, Inserts, Currencies
<1>3. v.minor \in Nat /\ v.cur \in {"EUR", "USD"}
  BY <1>1, <1>2 DEF InsertedRow, CompatInsert, Nonnegative
<1>4. CASE "compat_trigger" \in schema
  <2>1. InsertedRow(v) = Row(v.minor, v.minor, v.cur) /\ v.cur = "EUR"
    BY <1>1, <1>4 DEF InsertedRow, CompatInsert
  <2> QED
    BY <1>3, <1>4, <2>1, NullAssumption DEF Row, RowType, Amounts, Currencies, Backfilled
<1>5. CASE "compat_trigger" \notin schema
  <2>1. InsertedRow(v) = Row(Null, v.minor, v.cur) /\ "final_checks" \in schema
    BY <1>1, <1>5 DEF InsertedRow
  <2> QED
    BY <1>3, <1>5, <2>1, NullAssumption DEF Row, RowType, Amounts, Currencies
<1> QED
  BY <1>4, <1>5

-----------------------------------------------------------------------------
(* Sessions and locks.                                                     *)

SessionType == /\ op \in [Sessions -> Ops \union {"none"}]
               /\ pc \in [Sessions -> Labels]
               /\ cand \in [Sessions -> SUBSET Ids]
               /\ held \in [Sessions -> SUBSET Ids]
               /\ \A s \in Sessions : pc[s] = "idle" => /\ op[s] = "none"
                                                        /\ cand[s] = {} /\ held[s] = {}
SessionInv == SessionType /\ PlaceInv /\ LockInv

LEMMA InsertNames ==
    Inserts = {"insert_usd", "insert_null_amount", "insert_null_currency",
               "insert_negative", "insert_wrong_currency"}
BY DEF Inserts, InsertValue

(* An operation is of one kind, and takes no other locks than its own.     *)
LEMMA OpKinds ==
    /\ Inserts \intersect (Exclusive \union Shared) = {}
    /\ Exclusive \intersect Shared = {}
    /\ Clients \subseteq Shared /\ "batch" \in Shared \ Clients
    /\ Versions \union {"down"} \subseteq Exclusive
    /\ "none" \notin Ops
BY InsertNames DEF Exclusive, Shared, Clients, Versions, Ops

(* Ending a transaction keeps every session where it may be.               *)
LEMMA EndKeepsSessions ==
    ASSUME SessionInv, NEW s \in Sessions, End(s)
    PROVE  SessionInv'
<1>1. \A t \in Sessions : t # s => /\ op'[t] = op[t] /\ pc'[t] = pc[t]
                                  /\ cand'[t] = cand[t] /\ held'[t] = held[t]
  BY DEF SessionInv, SessionType, End
<1>2. op'[s] = "none" /\ pc'[s] = "idle" /\ cand'[s] = {} /\ held'[s] = {}
  BY DEF SessionInv, SessionType, End
<1>3. SessionType'
  BY <1>1, <1>2 DEF SessionInv, SessionType, End, Labels
<1>4. PlaceInv'
  BY <1>1, <1>2 DEF SessionInv, PlaceInv, Clients
<1>5. LockInv'
  BY <1>1, <1>2 DEF SessionInv, LockInv, HoldsExclusive, HoldsAdvisory, HoldsSingleton,
                    HoldsTable, TouchesTable, Inserts, InsertValue
<1> QED
  BY <1>3, <1>4, <1>5 DEF SessionInv

(* A step of one session that keeps its operation and its rows and moves   *)
(* it to a statement where it holds what others do not.                    *)
LEMMA GotoKeepsSessions ==
    ASSUME SessionInv, NEW s \in Sessions, NEW label \in Labels \ {"idle"},
           Goto(s, label), UNCHANGED <<op, cand, held>>, pc[s] # "idle",
           label \in {"advisory", "admit"} => op[s] \in Exclusive \union Shared,
           label = "ddl" => op[s] \in Versions \union {"down"},
           label \in {"singleton", "select"} => op[s] = "batch",
           label = "rows" => op[s] \in Shared,
           label = "insert" => op[s] \in Inserts,
           pc[s] \notin {"rows", "commit"},
           pc[s] = "advisory" => AdvisoryFree(s),
           pc[s] = "insert" => label = "commit" /\ NoInserter(s) /\ TableFree(s),
           label \in {"ddl", "commit", "select"} /\ op[s] \in (Exclusive \ {"0001"}) \union {"batch"}
              => SingletonFree(s) \/ HoldsSingleton(s),
           label = "commit" /\ op[s] \in Versions \union {"down"} => TableUntouched(s),
           label \in {"rows", "commit"} /\ op[s] \in Shared => TableFree(s) \/ HoldsAdvisory(s),
           label \in {"rows", "commit"} /\ op[s] = "batch" => HoldsSingleton(s)
    PROVE  SessionInv'
<1>1. /\ op' = op /\ cand' = cand /\ held' = held
      /\ \A t \in Sessions : t # s => pc'[t] = pc[t]
      /\ pc'[s] = label
  BY DEF SessionInv, SessionType, Goto
<1>2. SessionType'
  BY <1>1 DEF SessionInv, SessionType, Goto
<1>3. PlaceInv'
  <2>1. held[s] = {}
    BY DEF SessionInv, PlaceInv
  <2> QED
    BY <1>1, <2>1 DEF SessionInv, PlaceInv
<1>4. LockInv'
  <2> SUFFICES ASSUME NEW a \in Sessions, NEW b \in Sessions, a # b
               PROVE  /\ (HoldsExclusive(a) => ~HoldsAdvisory(b))'
                      /\ (HoldsSingleton(a) => ~HoldsSingleton(b))'
                      /\ (HoldsTable(a) => ~TouchesTable(b))'
                      /\ (held[a] \intersect held[b] = {})'
                      /\ (~(op[a] \in Inserts /\ pc[a] = "commit" /\ op[b] \in Inserts /\ pc[b] = "commit"))'
    BY DEF LockInv
  <2>0. op[s] \in Inserts => pc[s] = "insert"
    BY OpKinds DEF SessionInv, SessionType, PlaceInv, Labels
  <2>1. (HoldsExclusive(a) => ~HoldsAdvisory(b))'
    BY <1>1 DEF SessionInv, LockInv, PlaceInv, HoldsExclusive, HoldsAdvisory, AdvisoryFree,
                Others, Labels, Inserts, InsertValue, Exclusive, Shared, Clients, Versions
  <2>2. (HoldsSingleton(a) => ~HoldsSingleton(b))'
    BY <1>1 DEF SessionInv, LockInv, PlaceInv, HoldsSingleton, SingletonFree, Others, Exclusive,
                Labels
  <2>3. (HoldsTable(a) => ~TouchesTable(b))'
    <3>1. HoldsTable(a) => HoldsExclusive(a)
      BY OpKinds DEF HoldsTable, HoldsExclusive, HoldsAdvisory
    <3>2. CASE s # a /\ s # b
      BY <1>1, <3>2 DEF SessionInv, LockInv, HoldsTable, TouchesTable
    <3>3. CASE s = a
      BY <1>1, <3>3 DEF HoldsTable, TouchesTable, TableUntouched, Others
    <3>4. CASE s = b
      <4>1. CASE op[s] \in Inserts
        BY <1>1, <2>0, <3>4, <4>1, OpKinds DEF HoldsTable, TouchesTable, TableFree, Others
      <4>2. CASE op[s] \in Shared
        BY <1>1, <3>1, <3>4, <4>2 DEF SessionInv, LockInv, HoldsTable, TouchesTable, TableFree,
                                     Others
      <4> QED
        BY <1>1, <3>4, <4>1, <4>2 DEF TouchesTable
    <3> QED BY <3>2, <3>3, <3>4
  <2>4. (held[a] \intersect held[b] = {})'
    BY <1>1 DEF SessionInv, LockInv
  <2>5. (~(op[a] \in Inserts /\ pc[a] = "commit" /\ op[b] \in Inserts /\ pc[b] = "commit"))'
    BY <1>1, <2>0 DEF SessionInv, LockInv, NoInserter, Others
  <2> QED BY <2>1, <2>2, <2>3, <2>4, <2>5
<1> QED
  BY <1>2, <1>3, <1>4 DEF SessionInv

LEMMA BeginKeepsSessions ==
    ASSUME SessionInv, NEW s \in Sessions, NEW o \in Ops, Begin(s, o)
    PROVE  SessionInv'
<1>1. PICK ids \in Targets(o) : cand' = [cand EXCEPT ![s] = ids]
  BY DEF Begin
<1>2. ids \subseteq Ids /\ (o \in Clients => ids \subseteq SeedIds)
  BY <1>1, TargetsAssumption DEF Targets, Ids, Clients
<1>3. /\ \A t \in Sessions : t # s => op'[t] = op[t] /\ pc'[t] = pc[t] /\ cand'[t] = cand[t]
      /\ op'[s] = o /\ cand'[s] = ids /\ held' = held /\ held[s] = {}
      /\ pc'[s] = IF o \in Inserts THEN "insert" ELSE "advisory"
  BY <1>1 DEF SessionInv, SessionType, Begin, Goto
<1>4. SessionType'
  BY <1>1, <1>2, <1>3, OpKinds DEF SessionInv, SessionType, Begin, Goto, Labels
<1>5. PlaceInv'
  <2> SUFFICES ASSUME NEW t \in Sessions
               PROVE  /\ pc'[t] # "idle" => op'[t] \in Ops
                      /\ pc'[t] \in {"advisory", "admit"} => op'[t] \in Exclusive \union Shared
                      /\ pc'[t] = "ddl" => op'[t] \in Versions \union {"down"}
                      /\ pc'[t] \in {"singleton", "select"} => op'[t] = "batch"
                      /\ pc'[t] = "rows" => op'[t] \in Shared
                      /\ pc'[t] = "insert" => op'[t] \in Inserts
                      /\ held'[t] # {} => op'[t] \in Shared /\ pc'[t] \in {"rows", "commit"}
                      /\ op'[t] \in Clients => cand'[t] \union held'[t] \subseteq SeedIds
    BY DEF PlaceInv
  <2>1. CASE t = s
    BY <1>2, <1>3, <2>1 DEF Ops
  <2>2. CASE t # s
    BY <1>3, <2>2 DEF SessionInv, PlaceInv
  <2> QED BY <2>1, <2>2
<1>6. LockInv'
  <2>1. /\ ~HoldsAdvisory(s)' /\ ~HoldsExclusive(s)' /\ ~HoldsSingleton(s)' /\ ~HoldsTable(s)'
        /\ ~TouchesTable(s)'
    BY <1>3, OpKinds DEF HoldsAdvisory, HoldsExclusive, HoldsSingleton, HoldsTable,
                         TouchesTable, Ops
  <2>2. \A t \in Sessions : t # s => /\ HoldsAdvisory(t)' = HoldsAdvisory(t)
                                    /\ HoldsExclusive(t)' = HoldsExclusive(t)
                                    /\ HoldsSingleton(t)' = HoldsSingleton(t)
                                    /\ HoldsTable(t)' = HoldsTable(t)
                                    /\ TouchesTable(t)' = TouchesTable(t)
    BY <1>3 DEF HoldsAdvisory, HoldsExclusive, HoldsSingleton, HoldsTable, TouchesTable
  <2>3. pc'[s] # "commit" /\ held'[s] = {}
    BY <1>3
  <2> QED
    BY <1>3, <2>1, <2>2, <2>3 DEF SessionInv, LockInv
<1> QED
  BY <1>4, <1>5, <1>6 DEF SessionInv

LEMMA SelectKeepsSessions ==
    ASSUME SessionInv, NEW s \in Sessions, SelectBatch(s)
    PROVE  SessionInv'
<1>1. /\ \A t \in Sessions : t # s => pc'[t] = pc[t] /\ cand'[t] = cand[t]
      /\ op' = op /\ held' = held /\ held[s] = {} /\ op[s] = "batch" /\ pc[s] = "select"
      /\ cand'[s] = Pending /\ pc'[s] \in {"rows", "commit"}
  BY DEF SessionInv, SessionType, PlaceInv, SelectBatch, Goto
<1>2. SessionType'
  BY <1>1 DEF SessionInv, SessionType, SelectBatch, Goto, Labels, Pending, Present
<1>3. PlaceInv'
  BY <1>1, OpKinds DEF SessionInv, PlaceInv
<1>4. LockInv'
  <2>1. HoldsAdvisory(s) /\ HoldsSingleton(s)
    BY <1>1, OpKinds DEF HoldsAdvisory, HoldsSingleton
  <2>2. \A t \in Sessions : /\ HoldsAdvisory(t)' = HoldsAdvisory(t)
                            /\ HoldsExclusive(t)' = HoldsExclusive(t)
                            /\ HoldsSingleton(t)' = HoldsSingleton(t)
                            /\ HoldsTable(t)' = HoldsTable(t)
                            /\ t # s => TouchesTable(t)' = TouchesTable(t)
    BY <1>1, OpKinds DEF HoldsAdvisory, HoldsExclusive, HoldsSingleton, HoldsTable, TouchesTable
  <2>3. \A t \in Sessions : t # s => ~HoldsTable(t)
    BY DEF SelectBatch, TableFree, Others
  <2>4. ~HoldsTable(s)
    BY <1>1, OpKinds DEF HoldsTable
  <2>5. op[s] \notin Inserts
    BY <1>1, OpKinds
  <2> QED
    BY <1>1, <2>2, <2>3, <2>4, <2>5 DEF SessionInv, LockInv
<1> QED
  BY <1>2, <1>3, <1>4 DEF SessionInv

(* Locking one more row, by a batch or by a client.                        *)
LEMMA RowKeepsSessions ==
    ASSUME SessionInv, NEW s \in Sessions, NEW i, LockRow(s, i), op[s] \in Shared,
           cand' = [cand EXCEPT ![s] = cand[s] \ {i}],
           NEW label \in {"rows", "commit"}, Goto(s, label)
    PROVE  SessionInv'
<1>1. /\ \A t \in Sessions : t # s => pc'[t] = pc[t] /\ cand'[t] = cand[t] /\ held'[t] = held[t]
      /\ op' = op /\ pc[s] = "rows" /\ pc'[s] \in {"rows", "commit"} /\ i \in cand[s]
      /\ held'[s] = held[s] \union {i} /\ cand'[s] = cand[s] \ {i}
  BY DEF SessionInv, SessionType, LockRow, Goto
<1>2. SessionType'
  BY <1>1 DEF SessionInv, SessionType, LockRow, Goto, Labels
<1>3. PlaceInv'
  BY <1>1, OpKinds DEF SessionInv, PlaceInv
<1>4. LockInv'
  <2>1. \A t \in Sessions : /\ HoldsAdvisory(t)' = HoldsAdvisory(t)
                            /\ HoldsExclusive(t)' = HoldsExclusive(t)
                            /\ HoldsSingleton(t)' = HoldsSingleton(t)
                            /\ HoldsTable(t)' = HoldsTable(t)
                            /\ TouchesTable(t)' = TouchesTable(t)
    BY <1>1, OpKinds DEF HoldsAdvisory, HoldsExclusive, HoldsSingleton, HoldsTable, TouchesTable
  <2>2. \A t \in Sessions : t # s => i \notin held[t]
    BY DEF LockRow, RowFree, Others
  <2>3. op[s] \notin Inserts
    BY OpKinds
  <2> QED
    BY <1>1, <2>1, <2>2, <2>3 DEF SessionInv, LockInv
<1> QED
  BY <1>2, <1>3, <1>4 DEF SessionInv

(* The steps that leave the database alone, and those that commit.         *)
Internal(s) == \/ \E o \in Ops : Begin(s, o)
               \/ LockAdvisory(s) \/ Admit(s) \/ AlreadyApplied(s) \/ AdmitClient(s)
               \/ AdmitBatch(s) \/ LockSingleton(s) \/ Reject(s) \/ LockTable(s)
               \/ SelectBatch(s) \/ LockBatchRow(s) \/ LockClientRow(s)
               \/ Insert(s) \/ InsertRefused(s) \/ Rollback(s)
Committing(s) == \/ CommitInitial(s) \/ CommitExpand(s) \/ CommitCompatibility(s)
                 \/ CommitStartBackfill(s) \/ CommitBatch(s) \/ CommitEnableV2(s)
                 \/ CommitSwitch(s) \/ CommitContract(s) \/ CommitDown(s)
                 \/ CommitClient(s) \/ CommitInsert(s)

LEMMA NextSplits == Next => \E s \in Sessions : Internal(s) \/ Committing(s)
BY DEF Next, Internal, Committing

LEMMA InternalKeepsDb == ASSUME NEW s \in Sessions, Internal(s) PROVE UNCHANGED db
BY DEF Internal, Begin, LockAdvisory, Admit, AlreadyApplied, AdmitClient, AdmitBatch,
       LockSingleton, Reject, LockTable, SelectBatch, LockBatchRow, LockClientRow, LockRow,
       Insert, InsertRefused, Rollback

LEMMA CommittingEnds ==
    ASSUME NEW s \in Sessions, Committing(s) PROVE End(s) /\ pc[s] = "commit"
BY DEF Committing, Commit, CommitInitial, CommitExpand, CommitCompatibility,
       CommitStartBackfill, CommitBatch, CommitEnableV2, CommitSwitch, CommitContract,
       CommitDown, CommitClient, CommitInsert

LEMMA SessionStep ==
    ASSUME SessionInv, NEW s \in Sessions, Internal(s) \/ Committing(s)
    PROVE  SessionInv'
<1>1. CASE \E o \in Ops : Begin(s, o)
  BY <1>1, BeginKeepsSessions
<1>2. CASE LockAdvisory(s)
  <2>1. op[s] \in Exclusive \union Shared
    BY <1>2 DEF SessionInv, PlaceInv, LockAdvisory
  <2> QED
    BY <1>2, <2>1, GotoKeepsSessions DEF LockAdvisory, Labels
<1>3. CASE Admit(s)
  <2>1. /\ op[s] \in Exclusive /\ op[s] \notin Shared \union Inserts
        /\ pc[s] = "admit" /\ UNCHANGED <<op, cand, held>>
        /\ op[s] # "0001" => SingletonFree(s)
    BY <1>3, OpKinds DEF Admit
  <2>2. CASE op[s] \in {"start_backfill", "enable_v2"}
    BY <1>3, <2>1, <2>2, GotoKeepsSessions, OpKinds DEF Admit, Labels, Versions
  <2>3. CASE op[s] \notin {"start_backfill", "enable_v2"}
    BY <1>3, <2>1, <2>3, GotoKeepsSessions, OpKinds DEF Admit, Labels, Exclusive
  <2> QED BY <2>2, <2>3
<1>4. CASE AdmitClient(s)
  <2>1. op[s] \in Shared /\ op[s] # "batch" /\ HoldsAdvisory(s)
    BY <1>4, OpKinds DEF AdmitClient, HoldsAdvisory
  <2> QED
    BY <1>4, <2>1, GotoKeepsSessions DEF AdmitClient, Labels
<1>5. CASE AdmitBatch(s)
  BY <1>5, GotoKeepsSessions DEF AdmitBatch, Labels
<1>6. CASE LockSingleton(s)
  <2>1. op[s] = "batch"
    BY <1>6 DEF SessionInv, PlaceInv, LockSingleton
  <2> QED
    BY <1>6, <2>1, GotoKeepsSessions DEF LockSingleton, Labels
<1>7. CASE LockTable(s)
  <2>1. op[s] \in Versions \union {"down"}
    BY <1>7 DEF SessionInv, PlaceInv, LockTable
  <2>2. op[s] \notin Shared /\ (op[s] # "0001" => HoldsSingleton(s))
    BY <1>7, <2>1, OpKinds DEF LockTable, HoldsSingleton
  <2> QED
    BY <1>7, <2>1, <2>2, GotoKeepsSessions, OpKinds DEF LockTable, Labels
<1>8. CASE SelectBatch(s)
  BY <1>8, SelectKeepsSessions
<1>9. CASE LockBatchRow(s)
  BY <1>9, RowKeepsSessions, OpKinds DEF LockBatchRow
<1>10. CASE LockClientRow(s)
  BY <1>10, RowKeepsSessions, OpKinds DEF LockClientRow
<1>11. CASE Insert(s)
  <2>1. op[s] \in Inserts
    BY <1>11 DEF SessionInv, PlaceInv, Insert
  <2> QED
    BY <1>11, <2>1, GotoKeepsSessions, OpKinds DEF Insert, Labels
<1>12. CASE AlreadyApplied(s) \/ Reject(s) \/ InsertRefused(s) \/ Rollback(s) \/ Committing(s)
  BY <1>12, EndKeepsSessions, CommittingEnds DEF AlreadyApplied, Reject, InsertRefused, Rollback
<1> QED
  BY <1>1, <1>2, <1>3, <1>4, <1>5, <1>6, <1>7, <1>8, <1>9, <1>10, <1>11, <1>12 DEF Internal

-----------------------------------------------------------------------------
(* Steps that leave the database alone.                                    *)

(* A step of a session is no step of another one.                          *)
LEMMA StepIsLocal ==
    ASSUME SessionInv, NEW s \in Sessions, Internal(s) \/ Committing(s),
           NEW t \in Sessions \ {s}
    PROVE  op'[t] = op[t] /\ pc'[t] = pc[t] /\ cand'[t] = cand[t] /\ held'[t] = held[t]
<1>1. CASE Internal(s)
  BY <1>1 DEF SessionInv, SessionType, Internal, Goto, End, Begin, LockAdvisory, Admit,
              AlreadyApplied, AdmitClient, AdmitBatch, LockSingleton, Reject, LockTable,
              SelectBatch, LockBatchRow, LockClientRow, LockRow, Insert, InsertRefused, Rollback
<1>2. CASE Committing(s)
  BY <1>2, CommittingEnds DEF SessionInv, SessionType, End
<1> QED BY <1>1, <1>2

(* What is read of the database is what it was.                            *)
LEMMA DbReadsKept ==
    ASSUME UNCHANGED db
    PROVE  /\ Present' = Present /\ Pending' = Pending /\ Filled' = Filled
           /\ \A o : Admissible(o)' = Admissible(o)
           /\ \A o : ClientAdmissible(o)' = ClientAdmissible(o)
           /\ \A o : InsertAccepted(o)' = InsertAccepted(o)
<1>1. Present' = Present /\ Pending' = Pending /\ Filled' = Filled
  BY DEF db, Present, Pending, Filled
<1>2. \A v : MayApply(v)' = MayApply(v)
  BY <1>1 DEF db, MayApply, BackfillComplete, Backfilled
<1>3. MayStartBackfill' = MayStartBackfill /\ MayEnableV2' = MayEnableV2
  BY <1>1 DEF db, MayStartBackfill, MayEnableV2, BackfillComplete, Backfilled
<1>4. MayDown' = MayDown
  BY <1>1 DEF db, MayDown, LedgerOf, Representable, Backfilled
<1>5. \A o : Admissible(o)' = Admissible(o)
  BY <1>2, <1>3, <1>4 DEF Admissible
<1>6. \A o : ClientAdmissible(o)' = ClientAdmissible(o)
  BY DEF db, ClientAdmissible
<1>7. \A v : InsertedRow(v)' = InsertedRow(v)
  BY DEF db, InsertedRow
<1>8. \A o : InsertAccepted(o)' = InsertAccepted(o)
  BY <1>7 DEF db, InsertAccepted
<1> QED
  BY <1>1, <1>5, <1>6, <1>8

LEMMA InternalKeepsRest ==
    ASSUME UNCHANGED db, ShapeMatchesPhase, RowsInv
    PROVE  ShapeMatchesPhase' /\ RowsInv'
<1>1. ShapeMatchesPhase'
  BY DEF db, ShapeMatchesPhase, LedgerOf, SchemaOf, GrantsOf
<1>2. RowsInv'
  BY DbReadsKept DEF db, RowsInv, Representable, Backfilled
<1> QED BY <1>1, <1>2

(* A session is past its checks only by having made them.                  *)
LEMMA InternalKeepsChecked ==
    ASSUME SessionInv, CheckedInv, NEW s \in Sessions, Internal(s)
    PROVE  CheckedInv'
<1>1. UNCHANGED db
  BY InternalKeepsDb
<1>2. ASSUME NEW t \in Sessions \ {s} PROVE Checked(t)'
  BY <1>1, <1>2, StepIsLocal, DbReadsKept DEF CheckedInv, Checked, db
<1>3. Checked(s)'
  <2>0. /\ Checked(s) /\ control' = control /\ ledger' = ledger
        /\ op'[s] = op[s] => /\ Admissible(op[s])' = Admissible(op[s])
                            /\ ClientAdmissible(op[s])' = ClientAdmissible(op[s])
                            /\ InsertAccepted(op[s])' = InsertAccepted(op[s])
    BY <1>1, DbReadsKept DEF CheckedInv, db
  <2>1. CASE End(s)
    BY <2>1, OpKinds DEF SessionInv, SessionType, End, Checked, Ops, Clients
  <2>2. CASE \E o \in Ops : Begin(s, o)
    <3>1. pc'[s] \in {"insert", "advisory"}
      BY <2>2 DEF SessionInv, SessionType, Begin, Goto
    <3> QED BY <3>1 DEF Checked
  <2>3. CASE LockAdvisory(s) \/ AdmitBatch(s) \/ LockSingleton(s)
    BY <2>0, <2>3, OpKinds DEF SessionInv, SessionType, PlaceInv, LockAdvisory, AdmitBatch,
       LockSingleton, Goto, Checked
  <2>4. CASE Admit(s) \/ AdmitClient(s)
    BY <2>0, <2>4, OpKinds DEF SessionInv, SessionType, PlaceInv, Admit, AdmitClient, Goto,
       Checked
  <2>6. CASE LockTable(s)
    <3>1. /\ op' = op /\ pc[s] = "ddl" /\ pc'[s] = "commit"
          /\ op[s] \in Exclusive /\ op[s] \notin Shared \union Inserts
      BY <2>6, OpKinds DEF SessionInv, SessionType, PlaceInv, LockTable, Goto
    <3> QED
      BY <2>0, <3>1, OpKinds DEF Checked
  <2>7. CASE SelectBatch(s) \/ LockBatchRow(s)
    <3>1. /\ op'[s] = op[s] /\ op[s] = "batch" /\ pc[s] \in {"select", "rows"}
          /\ op[s] \notin Exclusive \union Clients \union Inserts
      BY <2>7, OpKinds DEF SessionInv, PlaceInv, SelectBatch, LockBatchRow, LockRow
    <3> QED
      BY <2>0, <3>1 DEF Checked
  <2>8. CASE LockClientRow(s)
    BY <2>0, <2>8, OpKinds DEF SessionInv, SessionType, PlaceInv, LockClientRow, LockRow, Goto,
       Checked
  <2>5. CASE Insert(s)
    BY <2>0, <2>5, OpKinds DEF SessionInv, SessionType, PlaceInv, Insert, Goto, Checked
  <2> QED
    BY <2>1, <2>2, <2>3, <2>4, <2>5, <2>6, <2>7, <2>8
       DEF Internal, AlreadyApplied, Reject, InsertRefused, Rollback
<1> QED
  BY <1>2, <1>3 DEF CheckedInv

(* A batch's SELECT covers every pending row, and its locks are taken in   *)
(* the order of the ids.                                                   *)
LEMMA InternalKeepsBatch ==
    ASSUME SessionInv, BatchInv, NEW s \in Sessions, Internal(s)
    PROVE  BatchInv'
<1>1. UNCHANGED db
  BY InternalKeepsDb
<1>2. ASSUME NEW t \in Sessions \ {s} PROVE Covers(t)'
  BY <1>1, <1>2, StepIsLocal, DbReadsKept DEF BatchInv, Covers
<1>3. Covers(s)'
  <2>0. Covers(s) /\ Present' = Present /\ Pending' = Pending
    BY <1>1, DbReadsKept DEF BatchInv
  <2>1. CASE SelectBatch(s)
    <3>1. held'[s] = {} /\ cand'[s] = Pending
      BY <2>1 DEF SessionInv, SessionType, PlaceInv, SelectBatch
    <3> QED
      BY <2>0, <3>1 DEF Covers, Pending
  <2>2. CASE LockBatchRow(s)
    <3>1. PICK i \in cand[s] : /\ \A j \in cand[s] : i <= j
                              /\ held'[s] = held[s] \union {i} /\ cand'[s] = cand[s] \ {i}
      BY <2>2 DEF SessionInv, SessionType, LockBatchRow, LockRow
    <3>2. op[s] = "batch" /\ pc[s] = "rows"
      BY <2>2 DEF LockBatchRow, LockRow
    <3>3. cand[s] \subseteq Int
      BY IdsAssumption DEF SessionInv, SessionType, Ids
    <3>4. \A k \in held'[s], j \in cand'[s] : k < j
      BY <2>0, <3>1, <3>2, <3>3 DEF Covers
    <3>5. cand'[s] \union held'[s] = cand[s] \union held[s]
      BY <3>1
    <3> QED
      BY <2>0, <3>2, <3>4, <3>5 DEF Covers
  <2>3. CASE ~SelectBatch(s) /\ ~LockBatchRow(s)
    <3>1. ~(op'[s] = "batch" /\ pc'[s] \in {"rows", "commit"})
      <4>1. CASE End(s)
        BY <4>1 DEF SessionInv, SessionType, End
      <4>2. CASE \E o \in Ops : Begin(s, o)
        BY <4>2 DEF SessionInv, SessionType, Begin, Goto
      <4>3. CASE LockAdvisory(s) \/ Admit(s) \/ AdmitClient(s) \/ AdmitBatch(s)
                 \/ LockSingleton(s) \/ LockTable(s) \/ LockClientRow(s) \/ Insert(s)
        BY <4>3, OpKinds DEF SessionInv, SessionType, PlaceInv, LockAdvisory, Admit, AdmitClient,
           AdmitBatch, LockSingleton, LockTable, LockClientRow, LockRow, Insert, Goto
      <4> QED
        BY <2>3, <4>1, <4>2, <4>3
           DEF Internal, AlreadyApplied, Reject, InsertRefused, Rollback
    <3> QED
      BY <3>1 DEF Covers
  <2> QED BY <2>1, <2>2, <2>3
<1> QED
  BY <1>2, <1>3 DEF BatchInv

-----------------------------------------------------------------------------
(* Steps that commit.                                                      *)

DbType ==
    /\ control \in [phase : Phases, last_id : Nat, scanned : Nat, v2_enabled : BOOLEAN]
    /\ ledger \subseteq Versions
    /\ schema \subseteq {"amount_cents", "target_columns", "eur_checks", "compat_trigger",
                         "not_null", "final_checks"}
    /\ grants \subseteq {"v1", "v2"}
    /\ invoices \in [Ids -> RowType \union {Null}]
    /\ acknowledged \in [Ids -> Nat]
DbInv == DbType /\ ShapeMatchesPhase /\ RowsInv

LEMMA TypeSplits == TypeOK <=> DbType /\ SessionType
BY DEF TypeOK, DbType, SessionType

(* What the committing session found when it was admitted.                 *)
LEMMA CommitterAdmitted ==
    ASSUME SessionInv, CheckedInv, NEW s \in Sessions
    PROVE  /\ CommitInitial(s) => control.phase = "none"
           /\ CommitExpand(s) => control.phase = "initial"
           /\ CommitCompatibility(s) => control.phase = "expand"
           /\ CommitStartBackfill(s) => control.phase \in {"compatibility", "backfill"}
           /\ CommitEnableV2(s) => control.phase = "backfill" /\ BackfillComplete
           /\ CommitSwitch(s) => control.phase = "backfill" /\ control.v2_enabled
           /\ CommitContract(s) => control.phase = "switch"
           /\ CommitDown(s) => MayDown
           /\ CommitBatch(s) => control.phase = "backfill"
           /\ CommitClient(s) => op[s] \in Clients /\ ClientAdmissible(op[s])
           /\ CommitInsert(s) => op[s] \in Inserts /\ InsertAccepted(op[s])
<1>1. Checked(s)
  BY DEF CheckedInv
<1>2. pc[s] = "commit" /\ op[s] \in Exclusive => Admissible(op[s])
  BY <1>1 DEF Checked
<1>3. CommitInitial(s) => control.phase = "none"
  BY <1>2 DEF CommitInitial, Commit, Exclusive, Versions, Admissible, MayApply
<1>4. CommitExpand(s) => control.phase = "initial"
  BY <1>2 DEF CommitExpand, Commit, Exclusive, Versions, Admissible, MayApply, ExpectedPhase
<1>5. CommitCompatibility(s) => control.phase = "expand"
  BY <1>2 DEF CommitCompatibility, Commit, Exclusive, Versions, Admissible, MayApply,
              ExpectedPhase
<1>6. CommitStartBackfill(s) => control.phase \in {"compatibility", "backfill"}
  BY <1>2 DEF CommitStartBackfill, Commit, Exclusive, Versions, Admissible, MayStartBackfill
<1>7. CommitEnableV2(s) => control.phase = "backfill" /\ BackfillComplete
  BY <1>2 DEF CommitEnableV2, Commit, Exclusive, Versions, Admissible, MayEnableV2
<1>8. CommitSwitch(s) => control.phase = "backfill" /\ control.v2_enabled
  BY <1>2 DEF CommitSwitch, Commit, Exclusive, Versions, Admissible, MayApply, ExpectedPhase
<1>9. CommitContract(s) => control.phase = "switch"
  BY <1>2 DEF CommitContract, Commit, Exclusive, Versions, Admissible, MayApply, ExpectedPhase
<1>10. CommitDown(s) => MayDown
  BY <1>2 DEF CommitDown, Commit, Exclusive, Versions, Admissible
<1>11. CommitBatch(s) => control.phase = "backfill"
  BY <1>1 DEF CommitBatch, Commit, Checked
<1>12. CommitClient(s) => op[s] \in Clients /\ ClientAdmissible(op[s])
  BY <1>1 DEF CommitClient, Commit, Checked
<1>13. CommitInsert(s) => op[s] \in Inserts /\ InsertAccepted(op[s])
  BY <1>1 DEF CommitInsert, Commit, Checked
<1> QED
  BY <1>3, <1>4, <1>5, <1>6, <1>7, <1>8, <1>9, <1>10, <1>11, <1>12, <1>13

(* Nobody else is past an admission check when an exclusive one commits.   *)
LEMMA ExclusiveAlone ==
    ASSUME SessionInv, NEW s \in Sessions, pc[s] = "commit", op[s] \in Exclusive,
           NEW t \in Sessions \ {s}
    PROVE  /\ pc[t] \in {"idle", "advisory"} \/ op[t] \in Inserts
           /\ op[s] \in Versions \union {"down"} => ~(op[t] \in Inserts /\ pc[t] = "commit")
<1>1. ~HoldsAdvisory(t)
  BY DEF SessionInv, LockInv, HoldsExclusive, HoldsAdvisory
<1>2. op[s] \in Versions \union {"down"} => ~TouchesTable(t)
  BY DEF SessionInv, LockInv, HoldsTable
<1> QED
  BY <1>1, <1>2 DEF SessionInv, SessionType, PlaceInv, HoldsAdvisory, TouchesTable, Ops

LEMMA ExclusiveKeepsChecked ==
    ASSUME SessionInv, CheckedInv, NEW s \in Sessions, Committing(s), op[s] \in Exclusive
    PROVE  CheckedInv' /\ BatchInv'
<1>0. pc[s] = "commit" /\ End(s)
  BY CommittingEnds
<1>1. Checked(s)' /\ Covers(s)'
  BY <1>0, OpKinds DEF SessionInv, SessionType, End, Checked, Covers, Ops, Clients
<1>2. ASSUME NEW t \in Sessions \ {s} PROVE Checked(t)' /\ Covers(t)'
  <2>1. op'[t] = op[t] /\ pc'[t] = pc[t]
    BY StepIsLocal
  <2>2. CASE op[t] \notin Inserts
    BY <1>0, <2>1, <2>2, ExclusiveAlone DEF Checked, Covers
  <2>3. CASE op[t] \in Inserts /\ op[s] \in Versions \union {"down"}
    BY <1>0, <2>1, <2>3, ExclusiveAlone, OpKinds DEF Checked, Covers
  <2>4. CASE op[t] \in Inserts /\ op[s] \in {"start_backfill", "enable_v2"}
    <3>1. UNCHANGED <<schema, invoices>> /\ grants \subseteq grants'
      BY <2>4 DEF Committing, CommitInitial, CommitExpand, CommitCompatibility,
         CommitStartBackfill, CommitBatch, CommitEnableV2, CommitSwitch, CommitContract,
         CommitDown, CommitClient, CommitInsert, Commit, Inserts, InsertValue, Clients
    <3>2. \A v : InsertedRow(v)' = InsertedRow(v)
      BY <3>1 DEF InsertedRow
    <3>3. \A o : InsertAccepted(o) => InsertAccepted(o)'
      BY <3>1, <3>2 DEF InsertAccepted
    <3>4. Checked(t)
      BY DEF CheckedInv
    <3> QED
      BY <2>1, <2>4, <3>3, <3>4, OpKinds DEF Checked, Covers
  <2> QED
    BY <2>2, <2>3, <2>4 DEF Exclusive
<1> QED
  BY <1>1, <1>2 DEF CheckedInv, BatchInv

(* A row that an admitted client may cover is as ClientRow expects it.     *)
LEMMA CoveredRow ==
    ASSUME DbInv, NEW o \in Clients, ClientAdmissible(o), NEW i \in SeedIds
    PROVE  /\ i \in Present /\ i \in Ids
           /\ invoices[i] \in RowType /\ invoices[i].cents \in Nat
           /\ Representable(invoices[i])
           /\ o = "v2" => "compat_trigger" \in schema /\ invoices[i].minor # Null
           /\ "compat_trigger" \notin schema => invoices[i].minor = Null
           /\ control.phase \in {"initial", "expand", "compatibility", "backfill"}
           /\ "amount_cents" \in schema
           /\ "compat_trigger" \in schema <=> control.phase \in {"compatibility", "backfill"}
<1>1. control.phase \in {"initial", "expand", "compatibility", "backfill"}
  BY DEF ClientAdmissible, AllowedPhases
<1>2. i \in Present /\ i \in Ids
  BY <1>1 DEF DbInv, RowsInv, Ids
<1>3. "amount_cents" \in schema
  BY <1>1 DEF DbInv, ShapeMatchesPhase, SchemaOf
<1>4. "compat_trigger" \in schema <=> control.phase \in {"compatibility", "backfill"}
  BY <1>1 DEF DbInv, ShapeMatchesPhase, SchemaOf
<1>5. invoices[i] \in RowType
  BY <1>2 DEF DbInv, DbType, Present
<1>6. /\ invoices[i].cents \in Nat /\ Representable(invoices[i])
      /\ control.v2_enabled => invoices[i].minor # Null
      /\ control.phase \in {"initial", "expand"} => invoices[i].minor = Null
  BY <1>2, <1>3 DEF DbInv, RowsInv
<1>7. o = "v2" => control.v2_enabled /\ control.phase = "backfill"
  BY DEF ClientAdmissible, AllowedPhases
<1> QED
  BY <1>1, <1>2, <1>3, <1>4, <1>5, <1>6, <1>7

(* What a client's commit leaves.                                          *)
LEMMA ClientCommit ==
    ASSUME SessionInv, DbInv, CheckedInv, NEW s \in Sessions, CommitClient(s)
    PROVE  /\ Present' = Present /\ invoices'[InsertId] = invoices[InsertId]
           /\ \A i \in Ids \ held[s] : invoices'[i] = invoices[i]
           /\ \A i \in held[s] :
                 LET q == invoices'[i]
                 IN /\ i \in Present /\ q \in RowType
                    /\ q.cents = invoices[i].cents + Delta(op[s]) /\ q.cents \in Nat
                    /\ Representable(q)
                    /\ "compat_trigger" \in schema => Backfilled(q)
                    /\ "compat_trigger" \notin schema => q.minor = invoices[i].minor
                    /\ invoices[i].minor # Null => q.minor # Null
<1>1. op[s] \in Clients /\ ClientAdmissible(op[s])
  BY CommitterAdmitted
<1>2. held[s] \subseteq SeedIds
  BY <1>1 DEF SessionInv, PlaceInv
<1>3. \A i \in Ids : invoices'[i] = IF i \in held[s] THEN UpdatedRow(op[s], invoices[i])
                                                    ELSE invoices[i]
  BY DEF CommitClient
<1>4. ASSUME NEW i \in held[s]
      PROVE  LET q == invoices'[i]
             IN /\ i \in Present /\ i \in Ids /\ q \in RowType
                /\ q.cents = invoices[i].cents + Delta(op[s]) /\ q.cents \in Nat
                /\ Representable(q)
                /\ "compat_trigger" \in schema => Backfilled(q)
                /\ "compat_trigger" \notin schema => q.minor = invoices[i].minor
                /\ invoices[i].minor # Null => q.minor # Null
  <2>1. i \in SeedIds
    BY <1>2
  <2>2. /\ i \in Present /\ i \in Ids /\ invoices[i] \in RowType /\ invoices[i].cents \in Nat
        /\ Representable(invoices[i])
        /\ op[s] = "v2" => "compat_trigger" \in schema /\ invoices[i].minor # Null
        /\ "compat_trigger" \notin schema => invoices[i].minor = Null
    BY <1>1, <2>1, CoveredRow
  <2>3. invoices'[i] = UpdatedRow(op[s], invoices[i])
    BY <1>3, <2>2
  <2> QED
    BY <1>1, <2>2, <2>3, ClientRow
<1>5. Present' = Present
  BY <1>3, <1>4, NullAssumption DEF Present
<1>6. invoices'[InsertId] = invoices[InsertId]
  BY <1>2, <1>3, IdsAssumption DEF Ids
<1> QED
  BY <1>3, <1>4, <1>5, <1>6

(* What a batch's commit leaves.                                           *)
LEMMA BatchCommit ==
    ASSUME SessionInv, DbInv, CheckedInv, BatchInv, NEW s \in Sessions, CommitBatch(s)
    PROVE  /\ Present' = Present /\ Picked(s) \subseteq Present
           /\ "compat_trigger" \in schema /\ "amount_cents" \in schema
           /\ \A i \in Ids \ Picked(s) : invoices'[i] = invoices[i]
           /\ \A i \in Picked(s) :
                 /\ i \in Ids /\ invoices[i].minor = Null /\ invoices[i].cents \in Nat
                 /\ invoices'[i] = Row(invoices[i].cents, invoices[i].cents, "EUR")
                 /\ invoices'[i] \in RowType
<1>1. control.phase = "backfill" /\ op[s] = "batch" /\ pc[s] = "commit"
  BY CommitterAdmitted DEF CommitBatch, Commit
<1>2. "compat_trigger" \in schema /\ "amount_cents" \in schema
  BY <1>1 DEF DbInv, ShapeMatchesPhase, SchemaOf
<1>3. Picked(s) \subseteq Present /\ Present \subseteq Ids
  BY <1>1 DEF BatchInv, Covers, Picked, Unfilled, Present
<1>4. \A i \in Ids : invoices'[i] = IF i \in Picked(s) THEN UpdatedRow("batch", invoices[i])
                                                      ELSE invoices[i]
  BY DEF CommitBatch
<1>5. ASSUME NEW i \in Picked(s)
      PROVE  /\ i \in Ids /\ invoices[i].minor = Null /\ invoices[i].cents \in Nat
             /\ invoices'[i] = Row(invoices[i].cents, invoices[i].cents, "EUR")
             /\ invoices'[i] \in RowType
  <2>1. i \in Ids /\ invoices[i].minor = Null
    BY <1>3 DEF Picked, Unfilled
  <2>2. invoices[i] \in RowType /\ invoices[i].cents \in Nat /\ Representable(invoices[i])
    BY <1>2, <1>3 DEF DbInv, DbType, RowsInv, Present
  <2>3. UpdatedRow("batch", invoices[i]) = Row(invoices[i].cents, invoices[i].cents, "EUR")
    BY <1>2, <2>1, <2>2, BatchRow
  <2> QED
    BY <1>4, <2>1, <2>2, <2>3 DEF Row, RowType, Amounts, Currencies
<1>6. Present' = Present
  BY <1>3, <1>4, <1>5, NullAssumption DEF Present
<1> QED
  BY <1>2, <1>3, <1>4, <1>5, <1>6

(* What an insert's commit leaves: a row that the phase can live with.     *)
LEMMA InsertCommit ==
    ASSUME SessionInv, DbInv, CheckedInv, NEW s \in Sessions, CommitInsert(s)
    PROVE  LET q == invoices'[InsertId]
           IN /\ invoices[InsertId] = Null /\ Present' = Present \union {InsertId}
              /\ \A i \in Ids \ {InsertId} : invoices'[i] = invoices[i]
              /\ q \in RowType /\ q.minor \in Nat /\ q.cur \in {"EUR", "USD"}
              /\ q.minor = InsertValue[op[s]].minor /\ q.cur = InsertValue[op[s]].cur
              /\ \/ control.phase = "contract" /\ q.cents = Null
                 \/ control.phase \in {"backfill", "switch"} /\ Backfilled(q)
<1> DEFINE v == InsertValue[op[s]]
<1>1. op[s] \in Inserts /\ InsertAccepted(op[s])
  BY CommitterAdmitted
<1>2. invoices' = [invoices EXCEPT ![InsertId] = InsertedRow(v)]
  BY DEF CommitInsert
<1>3. invoices'[InsertId] = InsertedRow(v) /\ \A i \in Ids \ {InsertId} : invoices'[i] = invoices[i]
  BY <1>2 DEF DbInv, DbType, Ids
<1>4. invoices[InsertId] = Null /\ "v2" \in grants
  BY <1>1 DEF InsertAccepted
<1>5. control.phase \in {"backfill", "switch", "contract"}
  BY <1>4 DEF DbInv, ShapeMatchesPhase, GrantsOf
<1>6. /\ "compat_trigger" \in schema <=> control.phase \in {"backfill", "switch"}
      /\ "final_checks" \in schema <=> control.phase = "contract"
  BY <1>5 DEF DbInv, ShapeMatchesPhase, SchemaOf
<1>7. /\ v.minor \in Nat /\ v.cur \in {"EUR", "USD"}
      /\ InsertedRow(v).minor = v.minor /\ InsertedRow(v).cur = v.cur
      /\ InsertedRow(v) \in RowType
      /\ "compat_trigger" \in schema => Backfilled(InsertedRow(v))
      /\ "compat_trigger" \notin schema => InsertedRow(v).cents = Null
  BY <1>1, InsertRow
<1>8. Present' = Present \union {InsertId}
  BY <1>3, <1>7, NullAssumption DEF Present, Ids
<1> QED
  BY <1>3, <1>4, <1>5, <1>6, <1>7, <1>8

(* Clients, batches and inserts leave the checks of the others standing.   *)
LEMMA SharedKeepsChecked ==
    ASSUME SessionInv, DbInv, CheckedInv, BatchInv, NEW s \in Sessions,
           CommitBatch(s) \/ CommitClient(s) \/ CommitInsert(s)
    PROVE  CheckedInv'
<1>0. pc[s] = "commit" /\ End(s) /\ Committing(s)
  BY CommittingEnds DEF Committing
<1>1. Checked(s)'
  BY <1>0, OpKinds DEF SessionInv, SessionType, End, Checked, Ops, Clients
<1>2. ASSUME NEW t \in Sessions \ {s} PROVE Checked(t)'
  <2>1. op'[t] = op[t] /\ pc'[t] = pc[t] /\ Checked(t)
    BY <1>0, StepIsLocal DEF CheckedInv
  <2>2. UNCHANGED <<ledger, schema, grants, control.phase, control.v2_enabled>>
    <3>1. CASE CommitBatch(s)
      BY <3>1 DEF CommitBatch, DbInv, DbType
    <3>2. CASE CommitClient(s) \/ CommitInsert(s)
      BY <3>2 DEF CommitClient, CommitInsert
    <3> QED BY <3>1, <3>2
  <2>3. CASE op[t] \in Clients
    BY <2>1, <2>2, <2>3, OpKinds DEF Checked, ClientAdmissible
  <2>4. CASE op[t] = "batch"
    BY <2>1, <2>2, <2>4, OpKinds DEF Checked
  <2>5. CASE op[t] \in Inserts
    <3>1. SUFFICES ASSUME pc[t] = "commit" PROVE InsertAccepted(op[t])'
      BY <2>1, <2>5, OpKinds DEF Checked
    <3>2. InsertAccepted(op[t])
      BY <2>1, <2>5, <3>1 DEF Checked
    <3>3. invoices'[InsertId] = invoices[InsertId]
      <4>1. CASE CommitBatch(s)
        BY <3>2, <4>1, BatchCommit DEF InsertAccepted, Present, Ids
      <4>2. CASE CommitClient(s)
        BY <4>2, ClientCommit
      <4>3. CASE CommitInsert(s)
        BY <1>0, <2>5, <3>1, <4>3, CommitterAdmitted DEF SessionInv, LockInv
      <4> QED BY <4>1, <4>2, <4>3
    <3> QED
      BY <2>1, <2>2, <3>2, <3>3 DEF InsertAccepted, InsertedRow
  <2>6. CASE op[t] \in Exclusive
    <3>1. SUFFICES ASSUME pc[t] \in {"ddl", "commit"}
                   PROVE  op[t] \notin ledger' /\ Admissible(op[t])'
      BY <2>1, <2>6, OpKinds DEF Checked
    <3>2. op[t] \notin ledger /\ Admissible(op[t]) /\ HoldsExclusive(t)
      BY <2>1, <2>6, <3>1 DEF Checked, HoldsExclusive, HoldsAdvisory
    <3>3. CommitInsert(s)
      <4>1. ~HoldsAdvisory(s)
        BY <3>2 DEF SessionInv, LockInv
      <4>2. CommitBatch(s) \/ CommitClient(s) => HoldsAdvisory(s)
        BY <1>0, OpKinds, CommitterAdmitted DEF HoldsAdvisory, CommitBatch, Commit
      <4> QED BY <4>1, <4>2
    <3>4. /\ Present' = Present \union {InsertId} /\ InsertId \in Ids
          /\ \A i \in Present : invoices'[i] = invoices[i]
          /\ control.phase = "contract" \/ Backfilled(invoices'[InsertId])
      BY <3>3, InsertCommit DEF Present, Ids
    <3>5. control.phase # "contract" /\ BackfillComplete => BackfillComplete'
      BY <3>4 DEF BackfillComplete, Backfilled
    <3>6. MayDown => MayDown'
      BY <2>2, <3>4 DEF MayDown, Reversible, LedgerOf, Representable, Backfilled
    <3>7. ASSUME NEW v \in Versions, MayApply(v) PROVE MayApply(v)'
      BY <2>2, <3>5, <3>7 DEF MayApply, ExpectedPhase
    <3>8. MayStartBackfill => MayStartBackfill'
      BY <2>2 DEF MayStartBackfill
    <3>9. MayEnableV2 => MayEnableV2'
      BY <2>2, <3>5 DEF MayEnableV2
    <3> QED
      BY <2>1, <2>2, <3>2, <3>6, <3>7, <3>8, <3>9 DEF Admissible
  <2> QED
    BY <2>1, <2>3, <2>4, <2>5, <2>6 DEF Checked, Shared
<1> QED
  BY <1>1, <1>2 DEF CheckedInv

(* Nor do they add a pending row to the batch in flight.                   *)
LEMMA SharedKeepsBatch ==
    ASSUME SessionInv, DbInv, CheckedInv, BatchInv, NEW s \in Sessions,
           CommitBatch(s) \/ CommitClient(s) \/ CommitInsert(s)
    PROVE  BatchInv'
<1>0. pc[s] = "commit" /\ End(s) /\ Committing(s)
  BY CommittingEnds DEF Committing
<1>1. Covers(s)'
  BY <1>0 DEF SessionInv, SessionType, End, Covers
<1>2. ASSUME NEW t \in Sessions \ {s} PROVE Covers(t)'
  <2>1. op'[t] = op[t] /\ pc'[t] = pc[t] /\ cand'[t] = cand[t] /\ held'[t] = held[t] /\ Covers(t)
    BY <1>0, StepIsLocal DEF BatchInv
  <2>2. SUFFICES ASSUME op[t] = "batch", pc[t] \in {"rows", "commit"}
                 PROVE  Present \subseteq Present' /\ Pending' \subseteq Pending
    BY <2>1 DEF Covers
  <2>3. CASE CommitBatch(s)
    BY <1>0, <2>2, <2>3 DEF SessionInv, LockInv, HoldsSingleton, CommitBatch, Commit
  <2>4. CASE CommitClient(s)
    <3>1. Present' = Present /\ control' = control
      BY <2>4, ClientCommit DEF CommitClient
    <3>2. \A i \in Present : invoices'[i].minor = Null => invoices[i].minor = Null
      BY <2>4, ClientCommit DEF Present
    <3> QED
      BY <3>1, <3>2 DEF Pending
  <2>5. CASE CommitInsert(s)
    <3>1. Present' = Present \union {InsertId} /\ control' = control
      BY <2>5, InsertCommit DEF CommitInsert
    <3>2. /\ \A i \in Ids \ {InsertId} : invoices'[i] = invoices[i]
          /\ invoices'[InsertId].minor # Null
      BY <2>5, InsertCommit, NullAssumption
    <3> QED
      BY <3>1, <3>2 DEF Pending, Present
  <2> QED BY <2>3, <2>4, <2>5
<1> QED
  BY <1>1, <1>2 DEF BatchInv

-----------------------------------------------------------------------------
(* Every commit leaves a database whose phase tells its shape and whose    *)
(* rows fit the phase.                                                     *)

LEMMA FiniteIds == IsFiniteSet(Ids)
BY IdsAssumption, FS_Singleton, FS_Union DEF Ids

LEMMA FilledFinite == /\ IsFiniteSet(Filled) /\ Cardinality(Filled) \in Nat
                      /\ IsFiniteSet(Filled') /\ Cardinality(Filled') \in Nat
<1>1. Filled \subseteq Ids /\ Filled' \subseteq Ids
  BY DEF Filled, Present
<1> QED
  BY <1>1, FiniteIds, FS_Subset, FS_CardinalityType

(* Rows that stay filled stay counted.                                     *)
LEMMA FilledGrows ==
    ASSUME DbInv, Filled \subseteq Filled', control'.scanned = control.scanned
    PROVE  control'.scanned <= Cardinality(Filled')
<1>1. Cardinality(Filled) <= Cardinality(Filled')
  BY FilledFinite, FS_Subset
<1> QED
  BY <1>1, FilledFinite DEF DbInv, RowsInv, DbType

LEMMA InitialKeepsDb ==
    ASSUME SessionInv, DbInv, CheckedInv, NEW s \in Sessions, CommitInitial(s)
    PROVE  DbInv'
<1>1. control.phase = "none"
  BY CommitterAdmitted
<1>2. /\ control' = [control EXCEPT !.phase = "initial"] /\ ledger' = ledger \union {"0001"}
      /\ schema' = {"amount_cents"} /\ grants' = {"v1"} /\ acknowledged' = acknowledged
      /\ invoices' = [i \in Ids |-> IF i \in SeedIds THEN Row(Seed[i], Null, Null) ELSE Null]
  BY DEF CommitInitial, Enter, Record
<1>3. /\ ledger = {} /\ control.v2_enabled = FALSE /\ control.last_id = 0 /\ Present = {}
      /\ \A i \in Ids : acknowledged[i] = 0
  BY <1>1 DEF DbInv, ShapeMatchesPhase, LedgerOf, RowsInv, DbType
<1>4. \A i \in SeedIds : i \in Ids /\ invoices'[i] = Row(Seed[i], Null, Null)
                                  /\ invoices'[i] \in RowType
  BY <1>2, IdsAssumption DEF Ids, Row, RowType, Amounts, Currencies
<1>5. Present' = SeedIds
  BY <1>2, <1>4, NullAssumption DEF Present
<1>6. DbType'
  BY <1>2, <1>4 DEF DbInv, DbType, Versions, Phases
<1>7. /\ control'.phase = "initial" /\ control'.v2_enabled = FALSE /\ control'.last_id = 0
      /\ control'.scanned = control.scanned
  BY <1>2, <1>3 DEF DbInv, DbType
<1>8. ShapeMatchesPhase'
  BY <1>2, <1>3, <1>7 DEF ShapeMatchesPhase, LedgerOf, SchemaOf, GrantsOf
<1>9. Filled \subseteq Filled'
  BY <1>3 DEF Filled
<1>10. ASSUME NEW i \in Present'
       PROVE  invoices'[i].cents \in Nat /\ invoices'[i].minor = Null /\ invoices'[i].cur = Null
  <2>1. i \in SeedIds /\ Seed[i] \in Nat
    BY <1>5, IdsAssumption
  <2>2. Seed[i] \in Amounts /\ Null \in Amounts /\ Null \in Currencies
    BY <2>1 DEF Amounts, Currencies
  <2> QED
    BY <1>4, <2>1, <2>2, RowFields
<1>11. \A i \in Present' : ~(i <= control'.last_id)
  BY <1>5, <1>7, IdsAssumption
<1>12. control'.scanned <= Cardinality(Filled')
  BY <1>7, <1>9, FilledGrows
<1> QED
  BY <1>5, <1>6, <1>7, <1>8, <1>10, <1>11, <1>12 DEF DbInv, RowsInv, Representable

(* 0002, 0003 and the entry to the backfill touch no row.                  *)
LEMMA PreparationKeepsDb ==
    ASSUME SessionInv, DbInv, CheckedInv, NEW s \in Sessions,
           CommitExpand(s) \/ CommitCompatibility(s) \/ CommitStartBackfill(s)
    PROVE  DbInv'
<1>1. /\ invoices' = invoices /\ acknowledged' = acknowledged /\ grants' = grants
      /\ control'.last_id = control.last_id /\ control'.scanned = control.scanned
      /\ control'.v2_enabled = control.v2_enabled
      /\ control' = [control EXCEPT !.phase = control'.phase]
      /\ Present' = Present /\ Filled' = Filled
  BY DEF CommitExpand, CommitCompatibility, CommitStartBackfill, Enter, DbInv, DbType, Present,
         Filled
<1>2. \/ control.phase = "initial" /\ control'.phase = "expand"
         /\ ledger' = ledger \union {"0002"}
         /\ schema' = schema \union {"target_columns", "eur_checks"}
      \/ control.phase = "expand" /\ control'.phase = "compatibility"
         /\ ledger' = ledger \union {"0003"} /\ schema' = schema \union {"compat_trigger"}
      \/ control.phase \in {"compatibility", "backfill"} /\ control'.phase = "backfill"
         /\ ledger' = ledger /\ schema' = schema
  BY CommitterAdmitted DEF CommitExpand, CommitCompatibility, CommitStartBackfill, Enter, Record,
                           DbInv, DbType
<1>3. DbType'
  BY <1>1, <1>2 DEF DbInv, DbType, Versions, Phases
<1>4. ShapeMatchesPhase'
  BY <1>1, <1>2 DEF DbInv, ShapeMatchesPhase, LedgerOf, SchemaOf, GrantsOf
<1>5. "amount_cents" \in schema
  BY <1>2 DEF DbInv, ShapeMatchesPhase, SchemaOf
<1>6. RowsInv'
  BY <1>1, <1>2, <1>5, FilledGrows DEF DbInv, RowsInv, Representable, Backfilled
<1> QED
  BY <1>3, <1>4, <1>6 DEF DbInv

LEMMA EnableV2KeepsDb ==
    ASSUME SessionInv, DbInv, CheckedInv, NEW s \in Sessions, CommitEnableV2(s)
    PROVE  DbInv'
<1>1. control.phase = "backfill" /\ BackfillComplete
  BY CommitterAdmitted
<1>2. /\ UNCHANGED <<ledger, schema, invoices, acknowledged>>
      /\ grants' = grants \union {"v2"} /\ control' = [control EXCEPT !.v2_enabled = TRUE]
      /\ control'.phase = control.phase /\ control'.last_id = control.last_id
      /\ control'.scanned = control.scanned /\ control'.v2_enabled = TRUE
      /\ Present' = Present /\ Filled' = Filled
  BY DEF CommitEnableV2, DbInv, DbType, Present, Filled
<1>3. DbType'
  BY <1>2 DEF DbInv, DbType
<1>4. ShapeMatchesPhase'
  BY <1>1, <1>2 DEF DbInv, ShapeMatchesPhase, LedgerOf, SchemaOf, GrantsOf
<1>5. RowsInv'
  BY <1>1, <1>2, FilledGrows DEF DbInv, RowsInv, Representable, Backfilled, BackfillComplete
<1> QED
  BY <1>3, <1>4, <1>5 DEF DbInv

LEMMA SwitchKeepsDb ==
    ASSUME SessionInv, DbInv, CheckedInv, NEW s \in Sessions, CommitSwitch(s)
    PROVE  DbInv'
<1>1. control.phase = "backfill" /\ control.v2_enabled
  BY CommitterAdmitted
<1>2. /\ UNCHANGED <<invoices, acknowledged>> /\ ledger' = ledger \union {"0004"}
      /\ schema' = schema \union {"not_null"} /\ grants' = grants \ {"v1"}
      /\ control' = [control EXCEPT !.phase = "switch"]
      /\ control'.phase = "switch" /\ control'.last_id = control.last_id
      /\ control'.scanned = control.scanned /\ control'.v2_enabled = control.v2_enabled
      /\ Present' = Present /\ Filled' = Filled
  BY DEF CommitSwitch, Enter, Record, DbInv, DbType, Present, Filled
<1>3. DbType'
  BY <1>2 DEF DbInv, DbType, Versions, Phases
<1>4. ShapeMatchesPhase'
  BY <1>1, <1>2 DEF DbInv, ShapeMatchesPhase, LedgerOf, SchemaOf, GrantsOf
<1>5. "amount_cents" \in schema
  BY <1>1 DEF DbInv, ShapeMatchesPhase, SchemaOf
<1>6. RowsInv'
  BY <1>1, <1>2, <1>5, FilledGrows DEF DbInv, RowsInv, Representable, Backfilled
<1> QED
  BY <1>3, <1>4, <1>6 DEF DbInv

LEMMA ContractKeepsDb ==
    ASSUME SessionInv, DbInv, CheckedInv, NEW s \in Sessions, CommitContract(s)
    PROVE  DbInv'
<1>1. control.phase = "switch"
  BY CommitterAdmitted
<1>2. /\ UNCHANGED <<grants, acknowledged>> /\ ledger' = ledger \union {"0005"}
      /\ schema' = (schema \ {"amount_cents", "eur_checks", "compat_trigger"})
                     \union {"final_checks"}
      /\ control' = [control EXCEPT !.phase = "contract"]
      /\ control'.phase = "contract" /\ control'.last_id = control.last_id
      /\ control'.scanned = control.scanned /\ control'.v2_enabled = control.v2_enabled
  BY DEF CommitContract, Enter, Record, DbInv, DbType
<1>3. \A i \in Ids : invoices'[i] = IF i \in Present
                                   THEN Row(Null, invoices[i].minor, invoices[i].cur) ELSE Null
  BY DEF CommitContract
<1>4. ASSUME NEW i \in Present
      PROVE  /\ i \in Ids /\ invoices'[i] \in RowType /\ invoices'[i].cents = Null
             /\ invoices'[i].minor \in Nat /\ invoices'[i].cur \in {"EUR", "USD"}
  <2>1. i \in Ids /\ invoices[i] \in RowType
    BY DEF DbInv, DbType, Present
  <2>2. Nonnegative(invoices[i].minor) /\ invoices[i].cur \in {"EUR", "USD"}
    BY DEF CommitContract
  <2>3. invoices[i].minor \in Nat
    BY <2>1, <2>2 DEF Nonnegative, RowType, Amounts
  <2>4. invoices[i].minor \in Amounts /\ Null \in Amounts /\ invoices[i].cur \in Currencies
    BY <2>2, <2>3 DEF Amounts, Currencies
  <2> QED
    BY <1>3, <2>1, <2>2, <2>3, <2>4, RowFields
<1>5. Present' = Present
  BY <1>3, <1>4, NullAssumption DEF Present
<1>6. Filled \subseteq Filled'
  BY <1>4, <1>5, NullAssumption DEF Filled
<1>7. DbType'
  <2>1. invoices' \in [Ids -> RowType \union {Null}]
    BY <1>3, <1>4 DEF CommitContract
  <2> QED
    BY <1>2, <2>1 DEF DbInv, DbType, Versions, Phases
<1>8. ShapeMatchesPhase'
  BY <1>1, <1>2 DEF DbInv, ShapeMatchesPhase, LedgerOf, SchemaOf, GrantsOf, Versions
<1>9. "amount_cents" \notin schema'
  BY <1>2
<1>10. SeedIds \subseteq Present'
  BY <1>1, <1>5 DEF DbInv, RowsInv
<1>11. control'.scanned <= Cardinality(Filled')
  BY <1>2, <1>6, FilledGrows
<1> QED
  BY <1>2, <1>4, <1>5, <1>7, <1>8, <1>9, <1>10, <1>11, NullAssumption DEF DbInv, RowsInv

LEMMA DownKeepsDb ==
    ASSUME SessionInv, DbInv, CheckedInv, NEW s \in Sessions, CommitDown(s)
    PROVE  DbInv'
<1>1. control.phase \in Reversible
  BY CommitterAdmitted DEF MayDown
<1>2. /\ acknowledged' = acknowledged /\ ledger' = ledger \intersect {"0001"}
      /\ schema' = schema \intersect {"amount_cents"} /\ grants' = (grants \ {"v2"}) \union {"v1"}
      /\ control' = [phase |-> "initial", last_id |-> 0, scanned |-> 0, v2_enabled |-> FALSE]
      /\ \A i \in Ids : invoices'[i] = IF i \in Present
                                       THEN Row(invoices[i].cents, Null, Null) ELSE Null
  BY DEF CommitDown
<1>3. "amount_cents" \in schema /\ "0001" \in ledger
  BY <1>1 DEF DbInv, ShapeMatchesPhase, SchemaOf, LedgerOf, Reversible
<1>4. ASSUME NEW i \in Present
      PROVE  /\ i \in Ids /\ invoices'[i] \in RowType /\ invoices'[i].cents \in Nat
             /\ invoices'[i].minor = Null /\ invoices'[i].cur = Null
  <2>1. i \in Ids /\ invoices[i].cents \in Nat
    BY <1>3 DEF DbInv, RowsInv, Present
  <2>2. invoices[i].cents \in Amounts /\ Null \in Amounts /\ Null \in Currencies
    BY <2>1 DEF Amounts, Currencies
  <2> QED
    BY <1>2, <2>1, <2>2, RowFields
<1>5. Present' = Present
  BY <1>2, <1>4, NullAssumption DEF Present
<1>6. DbType'
  <2>1. invoices' \in [Ids -> RowType \union {Null}]
    BY <1>2, <1>4 DEF CommitDown
  <2> QED
    BY <1>2, <2>1 DEF DbInv, DbType, Versions, Phases
<1>7. ShapeMatchesPhase'
  <2>1. grants \subseteq {"v1", "v2"}
    BY DEF DbInv, DbType
  <2> QED
    BY <1>2, <1>3, <2>1 DEF ShapeMatchesPhase, LedgerOf, SchemaOf, GrantsOf
<1>8. SeedIds \subseteq Present'
  BY <1>1, <1>5 DEF DbInv, RowsInv, Reversible
<1>9. \A i \in Present' : ~(i <= control'.last_id)
  BY <1>2, <1>5, IdsAssumption DEF Present, Ids
<1>10. control'.scanned <= Cardinality(Filled')
  BY <1>2, FilledFinite
<1> QED
  BY <1>2, <1>4, <1>5, <1>6, <1>7, <1>8, <1>9, <1>10 DEF DbInv, RowsInv, Representable

(* The batch's rows were not filled before, so each is counted once, and   *)
(* no pending row is left at or below the last of them.                    *)
LEMMA BatchKeepsDb ==
    ASSUME SessionInv, DbInv, CheckedInv, BatchInv, NEW s \in Sessions, CommitBatch(s)
    PROVE  DbInv'
<1> DEFINE P == Picked(s)
<1>1. /\ control.phase = "backfill" /\ op[s] = "batch" /\ pc[s] = "commit"
      /\ UNCHANGED <<ledger, schema, grants, acknowledged>>
  BY CommitterAdmitted DEF CommitBatch, Commit
<1>2. /\ Present' = Present /\ P \subseteq Present /\ Present \subseteq Ids
      /\ "compat_trigger" \in schema /\ "amount_cents" \in schema
      /\ \A i \in Ids \ P : invoices'[i] = invoices[i]
      /\ \A i \in P : /\ i \in Ids /\ invoices[i].minor = Null /\ invoices[i].cents \in Nat
                      /\ invoices'[i] = Row(invoices[i].cents, invoices[i].cents, "EUR")
                      /\ invoices'[i] \in RowType
  BY BatchCommit DEF Present
<1>3. ASSUME NEW i \in P
      PROVE  /\ invoices'[i].cents = invoices[i].cents /\ invoices'[i].cents \in Nat
             /\ invoices'[i].minor \in Nat /\ Backfilled(invoices'[i])
  <2>1. invoices[i].cents \in Nat /\ invoices[i].cents \in Amounts /\ "EUR" \in Currencies
    BY <1>2 DEF Amounts, Currencies
  <2> QED
    BY <1>2, <2>1, RowFields, NullAssumption DEF Backfilled
<1>4. invoices' \in [Ids -> RowType \union {Null}]
  <2>1. \A i \in Ids : invoices'[i] \in RowType \union {Null}
    BY <1>2 DEF DbInv, DbType
  <2> QED
    BY <2>1 DEF CommitBatch
<1>5. /\ control'.phase = "backfill" /\ control'.v2_enabled = control.v2_enabled
      /\ control' \in [phase : Phases, last_id : Nat, scanned : Nat, v2_enabled : BOOLEAN]
      /\ P = {} => control' = control
      /\ control'.scanned = control.scanned + Cardinality(P)
      /\ \A i \in Present : i <= control'.last_id => i <= control.last_id \/ (P # {} /\
            control'.last_id \in P)
  <2>1. IsFiniteSet(P) /\ Cardinality(P) \in Nat
    BY <1>2, FiniteIds, FS_Subset, FS_CardinalityType
  <2>2. CASE P = {}
    <3>1. control' = control /\ Cardinality(P) = 0
      BY <2>2, FS_EmptySet DEF CommitBatch
    <3> QED
      BY <1>1, <2>2, <3>1 DEF DbInv, DbType
  <2>3. CASE P # {}
    <3>1. PICK last \in P : control' = [control EXCEPT !.last_id = last,
                                          !.scanned = control.scanned + Cardinality(P)]
      BY <2>3 DEF CommitBatch
    <3>2. last \in Nat
      BY <1>2, IdsAssumption DEF Ids
    <3>3. control \in [phase : Phases, last_id : Nat, scanned : Nat, v2_enabled : BOOLEAN]
      BY DEF DbInv, DbType
    <3>4. control.scanned + Cardinality(P) \in Nat
      BY <2>1, <3>3
    <3>5. /\ control'.phase = control.phase /\ control'.v2_enabled = control.v2_enabled
          /\ control'.last_id = last /\ control'.scanned = control.scanned + Cardinality(P)
          /\ control' \in [phase : Phases, last_id : Nat, scanned : Nat, v2_enabled : BOOLEAN]
      BY <3>1, <3>2, <3>3, <3>4
    <3> QED
      BY <1>1, <2>3, <3>5
  <2> QED BY <2>2, <2>3
<1>6. DbType'
  BY <1>1, <1>4, <1>5 DEF DbInv, DbType
<1>7. ShapeMatchesPhase'
  BY <1>1, <1>5 DEF DbInv, ShapeMatchesPhase, LedgerOf, SchemaOf, GrantsOf
<1>8. ASSUME NEW i \in Present', i <= control'.last_id PROVE invoices'[i].minor # Null
  <2>1. CASE i \in P
    BY <1>3, <2>1, NullAssumption
  <2>2. CASE i \notin P /\ i <= control.last_id
    BY <1>2, <2>2 DEF DbInv, RowsInv
  <2>3. CASE i \notin P /\ ~(i <= control.last_id)
    <3>1. control'.last_id \in P
      BY <1>2, <1>5, <1>8, <2>3
    <3>2. /\ P \subseteq held[s] /\ Pending \subseteq cand[s] \union held[s]
          /\ \A k \in held[s], j \in cand[s] : k < j
      BY <1>1 DEF BatchInv, Covers, Picked, Unfilled
    <3>3. i \in Ids /\ i \in Nat /\ control'.last_id \in Nat /\ control.last_id \in Nat
      BY <1>2, <1>5, IdsAssumption DEF Ids, DbInv, DbType
    <3>4. SUFFICES ASSUME invoices[i].minor = Null PROVE FALSE
      BY <1>2, <2>3, <3>3
    <3>5. i \in cand[s] \union held[s]
      BY <1>2, <2>3, <3>2, <3>3, <3>4 DEF Pending
    <3>6. i \notin held[s]
      BY <2>3, <3>4 DEF Picked, Unfilled
    <3>7. control'.last_id < i
      BY <3>1, <3>2, <3>5, <3>6
    <3> QED
      BY <1>8, <3>3, <3>7
  <2> QED BY <2>1, <2>2, <2>3
<1>9. control'.scanned <= Cardinality(Filled')
  <2>1. Filled' = Filled \union P /\ Filled \intersect P = {}
    BY <1>2, <1>3, NullAssumption DEF Filled
  <2>2. IsFiniteSet(P)
    BY <1>2, FiniteIds, FS_Subset
  <2>3. Cardinality(Filled') = Cardinality(Filled) + Cardinality(P) - Cardinality({})
    BY <2>1, <2>2, FilledFinite, FS_Union
  <2>4. Cardinality({}) = 0 /\ Cardinality(P) \in Nat /\ control.scanned <= Cardinality(Filled)
    BY <2>2, FS_EmptySet, FS_CardinalityType DEF DbInv, RowsInv
  <2> QED
    BY <1>5, <2>3, <2>4, FilledFinite DEF DbInv, DbType
<1>10. \A i \in Present' : /\ invoices'[i].cents \in Nat /\ Representable(invoices'[i])
                           /\ control'.v2_enabled => invoices'[i].minor # Null
  BY <1>2, <1>3, <1>5, NullAssumption DEF DbInv, RowsInv, Representable, Backfilled
<1>11. SeedIds \subseteq Present'
  BY <1>1, <1>2 DEF DbInv, RowsInv
<1> QED
  BY <1>5, <1>6, <1>7, <1>8, <1>9, <1>10, <1>11 DEF DbInv, RowsInv, Representable

LEMMA ClientKeepsDb ==
    ASSUME SessionInv, DbInv, CheckedInv, NEW s \in Sessions, CommitClient(s)
    PROVE  DbInv'
<1>1. op[s] \in Clients /\ ClientAdmissible(op[s]) /\ UNCHANGED <<control, ledger, schema, grants>>
  BY CommitterAdmitted DEF CommitClient
<1>2. /\ Present' = Present /\ \A i \in Ids \ held[s] : invoices'[i] = invoices[i]
      /\ \A i \in held[s] :
            LET q == invoices'[i]
            IN /\ i \in Present /\ q \in RowType /\ q.cents \in Nat /\ Representable(q)
               /\ "compat_trigger" \in schema => Backfilled(q)
               /\ "compat_trigger" \notin schema => q.minor = invoices[i].minor
               /\ invoices[i].minor # Null => q.minor # Null
  BY ClientCommit
<1>3. /\ control.phase \in {"initial", "expand", "compatibility", "backfill"}
      /\ "amount_cents" \in schema
      /\ "compat_trigger" \in schema <=> control.phase \in {"compatibility", "backfill"}
  <2>1. control.phase \in {"initial", "expand", "compatibility", "backfill"}
    BY <1>1 DEF ClientAdmissible, AllowedPhases
  <2> QED
    BY <2>1 DEF DbInv, ShapeMatchesPhase, SchemaOf
<1>4. DbType'
  <2>1. \A i \in Ids : invoices'[i] \in RowType \union {Null}
    BY <1>2 DEF DbInv, DbType
  <2>2. Delta(op[s]) \in Nat
    BY TargetsAssumption DEF Delta
  <2>3. \A i \in Ids : acknowledged'[i] \in Nat
    BY <2>2 DEF CommitClient, DbInv, DbType
  <2> QED
    BY <1>1, <2>1, <2>3 DEF CommitClient, DbInv, DbType
<1>5. ShapeMatchesPhase'
  BY <1>1 DEF DbInv, ShapeMatchesPhase, LedgerOf, SchemaOf, GrantsOf
<1>6. Filled \subseteq Filled'
  BY <1>2 DEF Filled, Present
<1>7. control'.scanned <= Cardinality(Filled')
  BY <1>1, <1>6, FilledGrows
<1>8. ASSUME NEW i \in Present'
      PROVE  /\ invoices'[i].cents \in Nat /\ Representable(invoices'[i])
             /\ control.phase \in {"initial", "expand"} => invoices'[i].minor = Null
             /\ invoices[i].minor # Null => invoices'[i].minor # Null
  BY <1>2, <1>3 DEF DbInv, RowsInv, Present
<1>9. RowsInv'
  BY <1>1, <1>2, <1>3, <1>7, <1>8 DEF DbInv, RowsInv, Representable
<1> QED
  BY <1>4, <1>5, <1>9 DEF DbInv

LEMMA InsertKeepsDb ==
    ASSUME SessionInv, DbInv, CheckedInv, NEW s \in Sessions, CommitInsert(s)
    PROVE  DbInv'
<1> DEFINE q == invoices'[InsertId]
<1>1. UNCHANGED <<control, ledger, schema, grants>>
  BY DEF CommitInsert
<1>2. /\ invoices[InsertId] = Null /\ Present' = Present \union {InsertId}
      /\ \A i \in Ids \ {InsertId} : invoices'[i] = invoices[i]
      /\ q \in RowType /\ q.minor \in Nat /\ q.cur \in {"EUR", "USD"}
      /\ q.minor = InsertValue[op[s]].minor
      /\ \/ control.phase = "contract" /\ q.cents = Null
         \/ control.phase \in {"backfill", "switch"} /\ Backfilled(q)
  BY InsertCommit
<1>3. control.phase # "contract" => "amount_cents" \in schema /\ q.cents \in Nat
  BY <1>2 DEF DbInv, ShapeMatchesPhase, SchemaOf, Backfilled
<1>4. control.phase = "contract" => "amount_cents" \notin schema
  BY DEF DbInv, ShapeMatchesPhase, SchemaOf
<1>5. DbType'
  <2>1. \A i \in Ids : invoices'[i] \in RowType \union {Null}
    BY <1>2 DEF DbInv, DbType
  <2>2. \A i \in Ids : acknowledged'[i] \in Nat
    BY <1>2 DEF CommitInsert, DbInv, DbType
  <2> QED
    BY <1>1, <2>1, <2>2 DEF CommitInsert, DbInv, DbType
<1>6. ShapeMatchesPhase'
  BY <1>1 DEF DbInv, ShapeMatchesPhase, LedgerOf, SchemaOf, GrantsOf
<1>7. Filled \subseteq Filled'
  BY <1>2 DEF Filled, Present
<1>8. control'.scanned <= Cardinality(Filled')
  BY <1>1, <1>7, FilledGrows
<1>9. q.minor # Null
  BY <1>2, NullAssumption
<1>10. SeedIds \subseteq Present'
  BY <1>2 DEF DbInv, RowsInv
<1>11. \A i \in Present : i \in Ids \ {InsertId} /\ invoices'[i] = invoices[i]
  BY <1>2 DEF Present
<1>12. ASSUME NEW i \in Present'
       PROVE  /\ "amount_cents" \in schema =>
                     invoices'[i].cents \in Nat /\ Representable(invoices'[i])
              /\ control.phase \notin {"none", "initial", "expand"}
              /\ control.phase = "contract" => /\ invoices'[i].cents = Null
                                               /\ invoices'[i].minor \in Nat
                                               /\ invoices'[i].cur \in {"EUR", "USD"}
              /\ control.v2_enabled => invoices'[i].minor # Null
              /\ i <= control.last_id => invoices'[i].minor # Null
  <2>1. CASE i = InsertId
    BY <1>2, <1>3, <1>4, <1>9, <2>1 DEF Representable
  <2>2. CASE i # InsertId
    <3>1. i \in Present
      BY <1>2, <2>2
    <3> QED
      BY <1>2, <1>11, <3>1 DEF DbInv, RowsInv
  <2> QED BY <2>1, <2>2
<1> QED
  BY <1>1, <1>2, <1>5, <1>6, <1>8, <1>10, <1>12 DEF DbInv, RowsInv, Representable

-----------------------------------------------------------------------------
(* The theorems.                                                           *)

LEMMA InvSplits == IInv <=> DbInv /\ SessionInv /\ CheckedInv /\ BatchInv
BY TypeSplits DEF IInv, DbInv, SessionInv

LEMMA InitInv == Init => IInv
<1> SUFFICES ASSUME Init PROVE IInv
  OBVIOUS
<1>1. Present = {} /\ Filled = {}
  BY DEF Init, Present, Filled
<1>2. DbType
  BY DEF Init, DbType, Phases
<1>3. ShapeMatchesPhase
  BY DEF Init, ShapeMatchesPhase, LedgerOf, SchemaOf, GrantsOf
<1>4. RowsInv
  BY <1>1, FS_EmptySet DEF Init, RowsInv
<1>5. SessionInv
  <2>1. SessionType
    BY DEF Init, SessionType, Labels
  <2>2. PlaceInv
    BY DEF Init, PlaceInv, Clients
  <2>3. LockInv
    BY OpKinds DEF Init, LockInv, HoldsExclusive, HoldsAdvisory, HoldsSingleton, HoldsTable,
                   TouchesTable
  <2> QED BY <2>1, <2>2, <2>3 DEF SessionInv
<1>6. CheckedInv /\ BatchInv
  BY DEF Init, CheckedInv, Checked, BatchInv, Covers
<1> QED
  BY <1>2, <1>3, <1>4, <1>5, <1>6, InvSplits DEF DbInv

LEMMA CommitKeepsDb ==
    ASSUME SessionInv, DbInv, CheckedInv, BatchInv, NEW s \in Sessions, Committing(s)
    PROVE  DbInv'
BY InitialKeepsDb, PreparationKeepsDb, BatchKeepsDb, EnableV2KeepsDb, SwitchKeepsDb,
   ContractKeepsDb, DownKeepsDb, ClientKeepsDb, InsertKeepsDb DEF Committing

LEMMA CommitKeepsChecked ==
    ASSUME SessionInv, DbInv, CheckedInv, BatchInv, NEW s \in Sessions, Committing(s)
    PROVE  CheckedInv' /\ BatchInv'
<1>1. CASE op[s] \in Exclusive
  BY <1>1, ExclusiveKeepsChecked
<1>2. CASE op[s] \notin Exclusive
  <2>1. CommitBatch(s) \/ CommitClient(s) \/ CommitInsert(s)
    BY <1>2 DEF Committing, Commit, CommitInitial, CommitExpand, CommitCompatibility,
       CommitStartBackfill, CommitEnableV2, CommitSwitch, CommitContract, CommitDown,
       Exclusive, Versions
  <2> QED
    BY <2>1, SharedKeepsChecked, SharedKeepsBatch
<1> QED BY <1>1, <1>2

LEMMA StepInv == IInv /\ [Next]_vars => IInv'
<1> SUFFICES ASSUME IInv, [Next]_vars PROVE IInv'
  OBVIOUS
<1>0. DbInv /\ SessionInv /\ CheckedInv /\ BatchInv
  BY InvSplits
<1>1. CASE Next
  <2>1. PICK s \in Sessions : Internal(s) \/ Committing(s)
    BY <1>1, NextSplits
  <2>2. SessionInv'
    BY <1>0, <2>1, SessionStep
  <2>3. CASE Internal(s)
    <3>1. UNCHANGED db
      BY <2>3, InternalKeepsDb
    <3>2. DbType'
      BY <1>0, <3>1 DEF db, DbInv, DbType
    <3>3. ShapeMatchesPhase' /\ RowsInv'
      BY <1>0, <3>1, InternalKeepsRest DEF DbInv
    <3>4. CheckedInv' /\ BatchInv'
      BY <1>0, <2>3, InternalKeepsChecked, InternalKeepsBatch
    <3> QED
      BY <2>2, <3>2, <3>3, <3>4, TypeSplits DEF IInv, SessionInv, DbType, SessionType, TypeOK
  <2>4. CASE Committing(s)
    <3>1. DbInv' /\ CheckedInv' /\ BatchInv'
      BY <1>0, <2>4, CommitKeepsDb, CommitKeepsChecked
    <3> QED
      BY <2>2, <3>1 DEF IInv, DbInv, SessionInv, DbType, SessionType, TypeOK
  <2> QED BY <2>1, <2>3, <2>4
<1>2. CASE UNCHANGED vars
  <2>1. UNCHANGED db /\ UNCHANGED <<op, pc, cand, held>>
    BY <1>2 DEF vars, db
  <2>2. DbType' /\ SessionType' /\ PlaceInv'
    BY <1>0, <2>1 DEF db, DbInv, DbType, SessionInv, SessionType, PlaceInv
  <2>3. LockInv'
    BY <1>0, <2>1 DEF SessionInv, LockInv, HoldsExclusive, HoldsAdvisory, HoldsSingleton,
                      HoldsTable, TouchesTable
  <2>4. ShapeMatchesPhase' /\ RowsInv'
    BY <1>0, <2>1, InternalKeepsRest DEF DbInv
  <2>5. CheckedInv'
    BY <1>0, <2>1, DbReadsKept DEF CheckedInv, Checked, db
  <2>6. BatchInv'
    BY <1>0, <2>1, DbReadsKept DEF BatchInv, Covers
  <2> QED
    BY <2>2, <2>3, <2>4, <2>5, <2>6 DEF IInv, DbType, SessionType, TypeOK
<1> QED
  BY <1>1, <1>2

THEOREM Invariance == Spec => []IInv
BY InitInv, StepInv, PTL DEF Spec

(* Every variable keeps its type, and a session between two transactions   *)
(* has neither an operation nor a row lock left (contract.py: every        *)
(* function commits or rolls back).                                        *)
THEOREM TypeCorrect == Spec => []TypeOK
<1>1. IInv => TypeOK
  BY DEF IInv
<1> QED
  BY <1>1, Invariance, PTL

(* Whatever sessions run the five migrations, the backfill's entry and     *)
(* exit and the rollback, the committed phase tells the ledger, the        *)
(* catalogue and the privileges.                                           *)
THEOREM PhaseTellsShape == Spec => []ShapeMatchesPhase
<1>1. IInv => ShapeMatchesPhase
  BY DEF IInv
<1> QED
  BY <1>1, Invariance, PTL

(* The checkpoint backfill_last_id and the counter backfill_scanned_count  *)
(* can be trusted by the next batch, whoever ran the last ones.            *)
THEOREM CheckpointCorrect == Spec => []CheckpointSound
<1>1. IInv => CheckpointSound
  BY DEF IInv, RowsInv, CheckpointSound, Filled
<1> QED
  BY <1>1, Invariance, PTL

(* attempt_down never refuses in a phase it may run in.                    *)
THEOREM WayBackStaysOpen == Spec => []DownStaysOpen
<1>1. IInv => DownStaysOpen
  <2> SUFFICES ASSUME IInv, control.phase \in Reversible PROVE MayDown
    BY DEF DownStaysOpen
  <2>1. ledger = LedgerOf(control.phase) /\ "amount_cents" \in schema
    BY DEF IInv, ShapeMatchesPhase, SchemaOf, Reversible
  <2> QED
    BY <2>1 DEF IInv, RowsInv, MayDown
<1> QED
  BY <1>1, Invariance, PTL

(* Once V2 is enabled no interleaving of writers leaves a row whose target *)
(* side is missing, invalid or different from the legacy side.             *)
THEOREM TargetStaysTrusted == Spec => []TargetTrusted
<1>1. IInv => TargetTrusted
  <2> SUFFICES ASSUME IInv, control.v2_enabled, NEW i \in Present
               PROVE  /\ Nonnegative(invoices[i].minor) /\ invoices[i].cur \in {"EUR", "USD"}
                      /\ "amount_cents" \in schema => Backfilled(invoices[i])
    BY DEF TargetTrusted
  <2>1. invoices[i].minor # Null
    BY DEF IInv, RowsInv
  <2>2. CASE "amount_cents" \in schema
    <3>1. invoices[i].cents \in Nat /\ Representable(invoices[i])
      BY <2>2 DEF IInv, RowsInv
    <3>2. Backfilled(invoices[i])
      BY <2>1, <3>1 DEF Representable
    <3> QED
      BY <3>1, <3>2, NullAssumption DEF Backfilled, Nonnegative
  <2>3. CASE "amount_cents" \notin schema
    <3>1. control.phase = "contract"
      BY <2>3 DEF IInv, ShapeMatchesPhase, SchemaOf
    <3>2. invoices[i].minor \in Nat /\ invoices[i].cur \in {"EUR", "USD"}
      BY <3>1 DEF IInv, RowsInv
    <3> QED
      BY <2>1, <2>3, <3>2 DEF Nonnegative
  <2> QED BY <2>2, <2>3
<1> QED
  BY <1>1, Invariance, PTL

(* A client that observe_advisory_phase_gate or                            *)
(* write_v2_compatibility_batch let in is not overtaken before it commits. *)
THEOREM AdmissionHolds == Spec => []AdmittedWritesSucceed
<1>1. IInv => AdmittedWritesSucceed
  <2> SUFFICES ASSUME IInv, NEW s \in Sessions, op[s] \in Clients, pc[s] \in {"rows", "commit"}
               PROVE  /\ ClientAdmissible(op[s])
                      /\ \A i \in cand[s] \union held[s] : Accepted(op[s], i)
    BY DEF AdmittedWritesSucceed
  <2>1. ClientAdmissible(op[s]) /\ DbInv
    BY InvSplits DEF CheckedInv, Checked
  <2>2. ASSUME NEW i \in cand[s] \union held[s] PROVE Accepted(op[s], i)
    <3>1. i \in SeedIds
      BY DEF IInv, PlaceInv
    <3>2. /\ i \in Present /\ invoices[i] \in RowType /\ invoices[i].cents \in Nat
          /\ Representable(invoices[i])
          /\ op[s] = "v2" => "compat_trigger" \in schema /\ invoices[i].minor # Null
          /\ "compat_trigger" \notin schema => invoices[i].minor = Null
          /\ control.phase \in {"initial", "expand", "compatibility", "backfill"}
      BY <2>1, <3>1, CoveredRow
    <3>3. UpdatedRow(op[s], invoices[i]) \in RowType
      BY <3>2, ClientRow
    <3>4. Granted(op[s])
      BY <2>1, <3>2 DEF Granted, DbInv, ShapeMatchesPhase, GrantsOf, ClientAdmissible
    <3> QED
      BY <3>2, <3>3, <3>4, NullAssumption DEF Accepted
  <2> QED BY <2>1, <2>2
<1> QED
  BY <1>1, Invariance, PTL

(* The phase only moves along the edges of the procedure, and only when no *)
(* other transaction is past its advisory lock.                            *)
THEOREM PhaseMoves == Spec => PhaseMovesAlone
<1>1. IInv /\ [Next]_vars => [PhaseStep]_vars
  <2> SUFFICES ASSUME IInv, Next PROVE PhaseStep
    OBVIOUS
  <2>0. DbInv /\ SessionInv /\ CheckedInv /\ BatchInv
    BY InvSplits
  <2>1. PICK s \in Sessions : Internal(s) \/ Committing(s)
    BY NextSplits
  <2>2. SUFFICES ASSUME control'.phase # control.phase
                 PROVE  /\ \/ <<control.phase, control'.phase>> \in ForwardEdges
                           \/ control.phase \in Reversible /\ control'.phase = "initial"
                        /\ \A t \in Sessions : HoldsAdvisory(t) => pc'[t] = "idle"
    BY DEF PhaseStep
  <2>3. Committing(s)
    BY <2>1, <2>2, InternalKeepsDb DEF db
  <2>4. CASE CommitInitial(s) \/ CommitExpand(s) \/ CommitCompatibility(s)
             \/ CommitStartBackfill(s) \/ CommitSwitch(s) \/ CommitContract(s)
    <3>1. <<control.phase, control'.phase>> \in ForwardEdges
      BY <2>0, <2>2, <2>4, CommitterAdmitted
         DEF CommitInitial, CommitExpand, CommitCompatibility, CommitStartBackfill, CommitSwitch,
             CommitContract, Enter, DbInv, DbType, ForwardEdges
    <3>2. op[s] \in Exclusive
      BY <2>4 DEF CommitInitial, CommitExpand, CommitCompatibility, CommitStartBackfill,
                  CommitSwitch, CommitContract, Commit, Exclusive, Versions
    <3> QED
      BY <2>0, <2>3, <3>1, <3>2, CommittingEnds
         DEF SessionInv, SessionType, LockInv, HoldsExclusive, HoldsAdvisory, End
  <2>5. CASE CommitDown(s)
    <3>1. control.phase \in Reversible /\ control'.phase = "initial"
      BY <2>0, <2>5, CommitterAdmitted DEF CommitDown, MayDown
    <3>2. op[s] \in Exclusive
      BY <2>5 DEF CommitDown, Commit, Exclusive
    <3> QED
      BY <2>0, <2>3, <3>1, <3>2, CommittingEnds
         DEF SessionInv, SessionType, LockInv, HoldsExclusive, HoldsAdvisory, End
  <2>6. CASE CommitBatch(s) \/ CommitEnableV2(s) \/ CommitClient(s) \/ CommitInsert(s)
    BY <2>0, <2>2, <2>6 DEF CommitBatch, CommitEnableV2, CommitClient, CommitInsert, DbInv, DbType
  <2> QED
    BY <2>3, <2>4, <2>5, <2>6 DEF Committing
<1> QED
  BY <1>1, Invariance, PTL DEF Spec, PhaseMovesAlone

-----------------------------------------------------------------------------
(* The migration keeps the book of invoices: every step of Migration is an *)
(* entry of InvoiceLedger made by a client, or changes nothing there.      *)

(* A client's transaction covers the rows of one of its updates, and is    *)
(* complete when it commits.                                               *)
WholeUpdate(s) == op[s] \in Clients => /\ cand[s] \union held[s] \in Targets(op[s])
                                       /\ pc[s] = "commit" => cand[s] = {}
WholeInv == \A s \in Sessions : WholeUpdate(s)

LEMMA WholeStep ==
    ASSUME SessionInv, WholeInv, NEW s \in Sessions, Internal(s) \/ Committing(s)
    PROVE  WholeInv'
<1>1. ASSUME NEW t \in Sessions \ {s} PROVE WholeUpdate(t)'
  BY <1>1, StepIsLocal DEF WholeInv, WholeUpdate, Targets
<1>2. WholeUpdate(s)'
  <2>0. WholeUpdate(s)
    BY DEF WholeInv
  <2>1. CASE End(s)
    BY <2>1 DEF SessionInv, SessionType, End, WholeUpdate, Clients
  <2>2. CASE \E o \in Ops : Begin(s, o)
    <3>1. PICK o \in Ops : Begin(s, o)
      BY <2>2
    <3>2. op'[s] = o /\ cand'[s] \in Targets(o) /\ held'[s] = {} /\ pc'[s] # "commit"
      BY <3>1 DEF SessionInv, SessionType, Begin, Goto
    <3> QED
      BY <3>2 DEF WholeUpdate, Targets
  <2>3. CASE LockAdvisory(s) \/ AdmitClient(s) \/ AdmitBatch(s) \/ LockSingleton(s)
    BY <2>0, <2>3 DEF SessionInv, SessionType, LockAdvisory, AdmitClient, AdmitBatch,
       LockSingleton, Goto, WholeUpdate, Targets
  <2>4. CASE Admit(s) \/ LockTable(s) \/ SelectBatch(s) \/ LockBatchRow(s) \/ Insert(s)
    <3>1. op'[s] = op[s] /\ op[s] \in Exclusive \union {"batch"} \union Inserts
      BY <2>4, OpKinds DEF SessionInv, PlaceInv, Admit, LockTable, SelectBatch, LockBatchRow,
                           LockRow, Insert
    <3> QED
      BY <3>1, OpKinds DEF WholeUpdate
  <2>5. CASE LockClientRow(s)
    <3>1. PICK i \in cand[s] : /\ held' = [held EXCEPT ![s] = held[s] \union {i}]
                              /\ cand' = [cand EXCEPT ![s] = cand[s] \ {i}]
                              /\ Goto(s, IF cand[s] = {i} THEN "commit" ELSE "rows")
                              /\ op' = op
      BY <2>5 DEF LockClientRow, LockRow
    <3>2. cand'[s] = cand[s] \ {i} /\ held'[s] = held[s] \union {i}
      BY <3>1 DEF SessionInv, SessionType
    <3>3. cand'[s] \union held'[s] = cand[s] \union held[s]
      BY <3>2
    <3>4. pc'[s] = IF cand[s] = {i} THEN "commit" ELSE "rows"
      BY <3>1 DEF SessionInv, SessionType, Goto
    <3>5. pc'[s] = "commit" => cand'[s] = {}
      BY <3>2, <3>4
    <3>6. Targets(op[s])' = Targets(op[s])
      BY <3>1 DEF Targets
    <3> QED
      BY <2>0, <3>1, <3>3, <3>5, <3>6 DEF WholeUpdate
  <2> QED
    BY <2>1, <2>2, <2>3, <2>4, <2>5, CommittingEnds
       DEF Internal, AlreadyApplied, Reject, InsertRefused, Rollback
<1> QED
  BY <1>1, <1>2 DEF WholeInv

LEMMA WholeInvariance == Spec => [](IInv /\ WholeInv)
<1>1. Init => WholeInv
  BY DEF Init, WholeInv, WholeUpdate, Clients
<1>2. IInv /\ WholeInv /\ [Next]_vars => WholeInv'
  <2> SUFFICES ASSUME IInv, WholeInv, [Next]_vars PROVE WholeInv'
    OBVIOUS
  <2>1. CASE Next
    BY <2>1, InvSplits, NextSplits, WholeStep
  <2>2. CASE UNCHANGED vars
    BY <2>2 DEF vars, WholeInv, WholeUpdate, Targets
  <2> QED BY <2>1, <2>2
<1> QED
  BY <1>1, <1>2, Invariance, PTL DEF Spec

-----------------------------------------------------------------------------
(* The book as the rows show it.                                           *)

Shown == [i \in Ids |-> IF invoices[i] = Null THEN Null ELSE Logical(invoices[i])]

(* A row has a logical value that is an entry.                             *)
LEMMA ShownTypes ==
    ASSUME DbInv, NEW i \in Present
    PROVE  /\ i \in Ids /\ Logical(invoices[i]) \in EntryType
           /\ Logical(invoices[i]).amount \in Nat
           /\ Shown[i] = Logical(invoices[i]) /\ Shown[i] # Null
<1>1. i \in Ids /\ invoices[i] # Null /\ Shown[i] = Logical(invoices[i])
  BY DEF Present, Shown
<1>2. CASE "amount_cents" \in schema
  <2>1. invoices[i].cents \in Nat
    BY <1>2 DEF DbInv, RowsInv
  <2>2. Logical(invoices[i]) = [amount |-> invoices[i].cents, currency |-> "EUR"]
    BY <1>2 DEF Logical
  <2> QED
    BY <1>1, <2>1, <2>2, NullAssumption DEF EntryType, Amounts, Currencies
<1>3. CASE "amount_cents" \notin schema
  <2>1. control.phase = "contract" \/ control.phase = "none"
    BY <1>3 DEF DbInv, DbType, ShapeMatchesPhase, SchemaOf, Phases
  <2>2. invoices[i].minor \in Nat /\ invoices[i].cur \in {"EUR", "USD"}
    BY <2>1 DEF DbInv, RowsInv
  <2>3. Logical(invoices[i]) = [amount |-> invoices[i].minor, currency |-> invoices[i].cur]
    BY <1>3 DEF Logical
  <2> QED
    BY <1>1, <2>2, <2>3, NullAssumption DEF EntryType, Amounts, Currencies
<1> QED BY <1>2, <1>3

(* Migrations, batches and rollbacks change no entry.                      *)
LEMMA MigrationsKeepBook ==
    ASSUME IInv, NEW s \in Sessions,
           CommitExpand(s) \/ CommitCompatibility(s) \/ CommitStartBackfill(s) \/ CommitBatch(s)
           \/ CommitEnableV2(s) \/ CommitSwitch(s) \/ CommitContract(s) \/ CommitDown(s)
    PROVE  Shown' = Shown /\ acknowledged' = acknowledged
<1>0. DbInv /\ SessionInv /\ CheckedInv /\ BatchInv
  BY InvSplits
<1>1. CASE CommitExpand(s) \/ CommitCompatibility(s) \/ CommitStartBackfill(s)
           \/ CommitEnableV2(s) \/ CommitSwitch(s)
  <2>1. /\ invoices' = invoices /\ acknowledged' = acknowledged
        /\ "amount_cents" \in schema <=> "amount_cents" \in schema'
    BY <1>1 DEF CommitExpand, CommitCompatibility, CommitStartBackfill, CommitEnableV2,
                CommitSwitch
  <2> QED
    BY <2>1 DEF Shown, Logical
<1>2. CASE CommitBatch(s)
  <2>1. /\ "amount_cents" \in schema /\ "amount_cents" \in schema'
        /\ acknowledged' = acknowledged /\ Present' = Present
    BY <1>0, <1>2, BatchCommit DEF CommitBatch
  <2>2. ASSUME NEW i \in Present PROVE invoices'[i].cents = invoices[i].cents
    <3>1. CASE i \in Picked(s)
      <4>1. /\ invoices[i].cents \in Amounts /\ "EUR" \in Currencies
            /\ invoices'[i] = Row(invoices[i].cents, invoices[i].cents, "EUR")
        BY <1>0, <1>2, <3>1, BatchCommit DEF Amounts, Currencies
      <4> QED
        BY <4>1, RowFields
    <3>2. CASE i \notin Picked(s)
      BY <1>0, <1>2, <3>2, BatchCommit DEF Present
    <3> QED BY <3>1, <3>2
  <2> QED
    BY <2>1, <2>2 DEF Shown, Logical, Present
<1>3. CASE CommitContract(s)
  <2>1. control.phase = "switch"
    BY <1>0, <1>3, CommitterAdmitted
  <2>2. /\ "amount_cents" \in schema /\ "amount_cents" \notin schema' /\ control.v2_enabled
        /\ acknowledged' = acknowledged
    BY <1>0, <1>3, <2>1 DEF DbInv, ShapeMatchesPhase, SchemaOf, CommitContract
  <2>3. ASSUME NEW i \in Present
        PROVE  /\ invoices'[i] # Null /\ invoices'[i].minor = invoices[i].cents
               /\ invoices'[i].cur = "EUR"
    <3>1. Backfilled(invoices[i]) /\ invoices[i].cents \in Nat
      BY <1>0, <2>2 DEF DbInv, RowsInv, Representable
    <3>2. i \in Ids /\ invoices'[i] = Row(Null, invoices[i].minor, invoices[i].cur)
      BY <1>3 DEF CommitContract, Present
    <3>3. Null \in Amounts /\ invoices[i].minor \in Amounts /\ invoices[i].cur \in Currencies
      BY <3>1 DEF Amounts, Currencies, Backfilled
    <3> QED
      BY <3>1, <3>2, <3>3, RowFields, NullAssumption DEF Backfilled
  <2>4. \A i \in Ids : invoices[i] = Null => invoices'[i] = Null
    BY <1>3 DEF CommitContract, Present
  <2> QED
    BY <2>2, <2>3, <2>4 DEF Shown, Logical, Present
<1>4. CASE CommitDown(s)
  <2>1. /\ "amount_cents" \in schema /\ "amount_cents" \in schema'
        /\ acknowledged' = acknowledged
    <3>1. control.phase \in Reversible
      BY <1>0, <1>4, CommitterAdmitted DEF MayDown
    <3> QED
      BY <1>0, <1>4, <3>1 DEF DbInv, ShapeMatchesPhase, SchemaOf, Reversible, CommitDown
  <2>2. ASSUME NEW i \in Present
        PROVE  invoices'[i] # Null /\ invoices'[i].cents = invoices[i].cents
    <3>1. invoices[i].cents \in Nat /\ i \in Ids
      BY <1>0, <2>1 DEF DbInv, RowsInv, Present
    <3>2. invoices'[i] = Row(invoices[i].cents, Null, Null)
      BY <1>4, <3>1 DEF CommitDown
    <3>3. Null \in Amounts /\ invoices[i].cents \in Amounts /\ Null \in Currencies
      BY <3>1 DEF Amounts, Currencies
    <3> QED
      BY <3>2, <3>3, RowFields, NullAssumption
  <2>3. \A i \in Ids : invoices[i] = Null => invoices'[i] = Null
    BY <1>4 DEF CommitDown, Present
  <2> QED
    BY <2>1, <2>2, <2>3 DEF Shown, Logical, Present
<1> QED BY <1>1, <1>2, <1>3, <1>4

(* 0001 opens the book with the seeded amounts.                            *)
LEMMA InitialOpens ==
    ASSUME IInv, NEW s \in Sessions, CommitInitial(s)
    PROVE  Book!Open
<1>1. control.phase = "none" /\ Present = {} /\ "amount_cents" \in schema'
  <2>1. control.phase = "none"
    BY InvSplits, CommitterAdmitted
  <2> QED
    BY <2>1 DEF IInv, RowsInv, CommitInitial
<1>2. \A i \in Ids : Shown[i] = Null
  BY <1>1 DEF Shown, Present
<1>3. ASSUME NEW i \in Ids
      PROVE  Shown'[i] = IF i \in DOMAIN Seed THEN Book!Entry(Seed[i], "EUR") ELSE Null
  <2>1. CASE i \in SeedIds
    <3>1. invoices'[i] = Row(Seed[i], Null, Null)
      BY <2>1 DEF CommitInitial
    <3>2. Seed[i] \in Amounts /\ Null \in Amounts /\ Null \in Currencies
      BY <2>1, IdsAssumption DEF Amounts, Currencies
    <3>3. invoices'[i] # Null /\ invoices'[i].cents = Seed[i]
      BY <3>1, <3>2, RowFields, NullAssumption
    <3> QED
      BY <1>1, <2>1, <3>3 DEF Shown, Logical, Book!Entry, SeedIds
  <2>2. CASE i \notin SeedIds
    BY <2>2 DEF Shown, CommitInitial, SeedIds
  <2> QED BY <2>1, <2>2
<1>4. Shown' = [i \in Ids |-> IF i \in DOMAIN Seed THEN Book!Entry(Seed[i], "EUR") ELSE Null]
  BY <1>3 DEF Shown
<1>5. acknowledged' = acknowledged
  BY DEF CommitInitial
<1> QED
  BY <1>2, <1>4, <1>5 DEF Book!Open, Shown

(* A client's commit credits all the rows of its update by its delta.      *)
LEMMA ClientCredits ==
    ASSUME IInv, WholeInv, NEW s \in Sessions, CommitClient(s)
    PROVE  \E o \in Clients : \E t \in Targets(o) :
              Book!Credit([ids |-> t, delta |-> Delta(o)])
<1>0. DbInv /\ SessionInv /\ CheckedInv
  BY InvSplits
<1>1. op[s] \in Clients /\ ClientAdmissible(op[s]) /\ schema' = schema /\ pc[s] = "commit"
  BY <1>0, CommitterAdmitted DEF CommitClient, Commit
<1>2. held[s] \in Targets(op[s])
  <2>1. cand[s] = {} /\ cand[s] \union held[s] \in Targets(op[s])
    BY <1>1 DEF WholeInv, WholeUpdate
  <2>2. cand[s] \union held[s] = held[s]
    BY <2>1
  <2> QED BY <2>1, <2>2
<1>o. PICK o \in Clients : o = op[s]
  BY <1>1
<1>t. PICK t \in Targets(o) : t = held[s]
  BY <1>2, <1>o
<1> DEFINE c == [ids |-> t, delta |-> Delta(o)]
<1>3. /\ Present' = Present /\ \A i \in Ids \ held[s] : invoices'[i] = invoices[i]
      /\ \A i \in held[s] : i \in Present /\ invoices'[i].cents = invoices[i].cents + Delta(op[s])
  BY <1>0, ClientCommit
<1>4. "amount_cents" \in schema
  BY <1>0, <1>1 DEF DbInv, ShapeMatchesPhase, SchemaOf, ClientAdmissible, AllowedPhases
<1>5. \A i \in c.ids : Shown[i] # Null
  BY <1>0, <1>3, <1>t, ShownTypes
<1>6. ASSUME NEW i \in Ids
      PROVE  Shown'[i] = IF i \in c.ids THEN Book!Entry(Shown[i].amount + c.delta, Shown[i].currency)
                                        ELSE Shown[i]
  BY <1>1, <1>3, <1>4, <1>o, <1>t DEF Shown, Logical, Present, Book!Entry
<1>7. Shown' = [i \in Ids |-> IF i \in c.ids
                              THEN Book!Entry(Shown[i].amount + c.delta, Shown[i].currency)
                              ELSE Shown[i]]
  BY <1>6 DEF Shown
<1>8. acknowledged' = [i \in Ids |-> IF i \in c.ids THEN acknowledged[i] + c.delta
                                                    ELSE acknowledged[i]]
  BY <1>o, <1>t DEF CommitClient
<1>9. Book!Credit(c)
  BY <1>5, <1>7, <1>8 DEF Book!Credit, Shown
<1> QED
  BY <1>9

(* V2's insert adds one entry.                                             *)
LEMMA InsertAdds ==
    ASSUME IInv, NEW s \in Sessions, CommitInsert(s)
    PROVE  \E o \in Inserts :
              Book!Add([id |-> InsertId, amount |-> InsertValue[o].minor,
                        currency |-> InsertValue[o].cur])
<1>0. DbInv /\ SessionInv /\ CheckedInv
  BY InvSplits
<1>1. op[s] \in Inserts /\ schema' = schema
  BY <1>0, CommitterAdmitted DEF CommitInsert
<1>o. PICK o \in Inserts : o = op[s]
  BY <1>1
<1> DEFINE v == InsertValue[o]
           a == [id |-> InsertId, amount |-> v.minor, currency |-> v.cur]
           q == invoices'[InsertId]
<1>2. /\ invoices[InsertId] = Null
      /\ \A i \in Ids \ {InsertId} : invoices'[i] = invoices[i]
      /\ q \in RowType /\ q.minor \in Nat /\ q.minor = v.minor /\ q.cur = v.cur
      /\ \/ control.phase = "contract" /\ q.cents = Null
         \/ control.phase \in {"backfill", "switch"} /\ Backfilled(q)
  BY <1>0, <1>o, InsertCommit
<1>3. InsertId \in Ids /\ q # Null
  BY <1>2, NullAssumption DEF Ids
<1>4. "amount_cents" \in schema <=> control.phase # "contract"
  BY <1>0, <1>2 DEF DbInv, ShapeMatchesPhase, SchemaOf
<1>5. Shown[InsertId] = Null
  BY <1>2, <1>3 DEF Shown
<1>6. Shown'[InsertId] = Book!Entry(a.amount, a.currency)
  BY <1>1, <1>2, <1>3, <1>4 DEF Shown, Logical, Backfilled, Book!Entry
<1>7. \A i \in Ids \ {InsertId} : Shown'[i] = Shown[i]
  BY <1>1, <1>2 DEF Shown, Logical
<1>8. Shown' = [Shown EXCEPT ![InsertId] = Book!Entry(a.amount, a.currency)]
  BY <1>3, <1>6, <1>7 DEF Shown
<1>9. acknowledged' = [acknowledged EXCEPT ![InsertId] = v.minor]
  BY <1>o DEF CommitInsert
<1>10. Book!Add(a)
  BY <1>5, <1>8, <1>9 DEF Book!Add, Shown
<1> QED
  BY <1>10

-----------------------------------------------------------------------------
(* The theorems.                                                           *)

LEMMA StepRefines ==
    IInv /\ WholeInv /\ [Next]_vars => Book!Next \/ UNCHANGED <<Shown, acknowledged>>
<1> SUFFICES ASSUME IInv, WholeInv, [Next]_vars
             PROVE  Book!Next \/ UNCHANGED <<Shown, acknowledged>>
  OBVIOUS
<1>1. CASE UNCHANGED vars \/ \E s \in Sessions : Internal(s)
  <2>1. UNCHANGED db
    BY <1>1, InternalKeepsDb DEF vars, db
  <2> QED
    BY <2>1 DEF db, Shown, Logical
<1>2. ASSUME NEW s \in Sessions, Committing(s)
      PROVE  Book!Next \/ UNCHANGED <<Shown, acknowledged>>
  <2>1. CASE CommitInitial(s)
    BY <2>1, InitialOpens DEF Book!Next
  <2>2. CASE CommitClient(s)
    <3>1. PICK o \in Clients : \E t \in Targets(o) :
                Book!Credit([ids |-> t, delta |-> Delta(o)])
      BY <2>2, ClientCredits
    <3>t. PICK t \in Targets(o) : Book!Credit([ids |-> t, delta |-> Delta(o)])
      BY <3>1
    <3>2. \/ o = "v2" /\ t \in V2Targets /\ Delta(o) = V2Delta
          \/ o # "v2" /\ t \in V1Targets /\ Delta(o) = V1Delta
      BY DEF Targets, Delta, Clients
    <3> QED
      BY <3>t, <3>2 DEF Book!Next
  <2>3. CASE CommitInsert(s)
    BY <2>3, InsertAdds DEF Book!Next
  <2>4. CASE ~CommitInitial(s) /\ ~CommitClient(s) /\ ~CommitInsert(s)
    BY <1>2, <2>4, MigrationsKeepBook DEF Committing
  <2> QED BY <2>1, <2>2, <2>3, <2>4
<1> QED
  BY <1>1, <1>2, NextSplits

(* The migration implements the book of invoices: what the two             *)
(* applications see of the invoices (contract.py, 0001 to 0005) changes by *)
(* their own committed transactions only, each as a whole and once.        *)
THEOREM Refinement == Spec => ImplementsInvoiceLedger
<1>1. Init => Book!Init
  BY DEF Init, Book!Init
<1>2. IInv /\ WholeInv /\ [Next]_vars => [Book!Next]_<<Shown, acknowledged>>
  BY StepRefines
<1> QED
  BY <1>1, <1>2, WholeInvariance, PTL DEF Spec, ImplementsInvoiceLedger, Book!Spec, Shown

(* An entry of the book and what was acknowledged for it agree.            *)
Sums == \A i \in Ids :
           /\ Shown[i] # Null => Shown[i].amount =
                 (IF i \in DOMAIN Seed THEN Seed[i] ELSE 0) + acknowledged[i]
           /\ Shown[i] = Null => acknowledged[i] = 0

(* Every committed invoice shows its seeded amount plus all that clients   *)
(* were told they added, in every phase, before and after rollbacks.       *)
THEOREM BooksBalance == Spec => []Book!Balanced
<1>1. Init => Sums
  BY DEF Init, Sums, Shown
<1>2. IInv /\ IInv' /\ WholeInv /\ Sums /\ [Next]_vars => Sums'
  <2> SUFFICES ASSUME IInv, IInv', WholeInv, Sums, [Next]_vars PROVE Sums'
    OBVIOUS
  <2>1. \A i \in Ids : acknowledged[i] \in Nat /\ acknowledged'[i] \in Nat
    BY InvSplits DEF IInv, TypeOK
  <2>2. CASE UNCHANGED <<Shown, acknowledged>>
    BY <2>2 DEF Sums
  <2>3. CASE Book!Open
    <3>1. /\ \A i \in Ids : Shown[i] = Null
          /\ \A i \in Ids : Shown'[i] = IF i \in DOMAIN Seed THEN Book!Entry(Seed[i], "EUR")
                                                            ELSE Null
          /\ acknowledged' = acknowledged
      BY <2>3 DEF Book!Open, Shown
    <3>2. \A i \in Ids : acknowledged'[i] = 0
      BY <3>1 DEF Sums
    <3>3. ASSUME NEW i \in Ids, i \in DOMAIN Seed
          PROVE  Shown'[i].amount = Seed[i] + 0
      <4>1. Seed[i] \in Nat
        BY <3>3, IdsAssumption DEF SeedIds
      <4>2. Shown'[i] = Book!Entry(Seed[i], "EUR")
        BY <3>1, <3>3
      <4>3. Book!Entry(Seed[i], "EUR").amount = Seed[i]
        BY DEF Book!Entry
      <4>4. Shown'[i].amount = Seed[i]
        BY <4>2, <4>3
      <4> QED
        BY <4>1, <4>4
    <3> QED
      BY <3>1, <3>2, <3>3 DEF Sums
  <2>4. ASSUME NEW t \in V1Targets \union V2Targets, NEW d \in {V1Delta, V2Delta},
               Book!Credit([ids |-> t, delta |-> d])
        PROVE  Sums'
    <3>1. /\ \A i \in t : Shown[i] # Null
          /\ \A i \in Ids : Shown'[i] = IF i \in t
                THEN Book!Entry(Shown[i].amount + d, Shown[i].currency) ELSE Shown[i]
          /\ acknowledged' = [i \in Ids |-> IF i \in t THEN acknowledged[i] + d
                                                        ELSE acknowledged[i]]
      BY <2>4 DEF Book!Credit, Shown
    <3>2. d \in Nat /\ \A i \in SeedIds : Seed[i] \in Nat
      BY TargetsAssumption, IdsAssumption
    <3>3. ASSUME NEW i \in t \intersect Ids
          PROVE  /\ Shown'[i].amount = Shown[i].amount + d /\ acknowledged'[i] = acknowledged[i] + d
                 /\ Shown[i] # Null /\ Shown'[i] # Null
      <4>1. i \in Present
        BY <3>1 DEF Present, Shown
      <4>2. Shown[i].amount \in Nat /\ Shown[i].currency \in Currencies
        BY <4>1, InvSplits, ShownTypes DEF EntryType
      <4>3. Book!Entry(Shown[i].amount + d, Shown[i].currency) \in EntryType
        BY <3>2, <4>2 DEF Book!Entry, EntryType, Amounts
      <4> QED
        BY <3>1, <4>3, NullAssumption DEF Book!Entry
    <3>4. ASSUME NEW i \in Ids \ t
          PROVE  Shown'[i] = Shown[i] /\ acknowledged'[i] = acknowledged[i]
      BY <3>1
    <3>5. ASSUME NEW i \in Ids \intersect t
          PROVE  Shown'[i].amount = (IF i \in DOMAIN Seed THEN Seed[i] ELSE 0) + acknowledged'[i]
      <4> DEFINE opening == IF i \in DOMAIN Seed THEN Seed[i] ELSE 0
      <4>1. opening \in Nat
        BY <3>2 DEF SeedIds
      <4>2. Shown[i].amount = opening + acknowledged[i]
        BY <3>3 DEF Sums
      <4>3. acknowledged[i] \in Nat
        BY <2>1
      <4> HIDE DEF opening
      <4>4. Shown'[i].amount = opening + acknowledged'[i]
        BY <3>2, <3>3, <4>1, <4>2, <4>3
      <4> QED
        BY <4>4 DEF opening
    <3> QED
      BY <3>3, <3>4, <3>5 DEF Sums
  <2>5. ASSUME NEW o \in Inserts,
               Book!Add([id |-> InsertId, amount |-> InsertValue[o].minor,
                         currency |-> InsertValue[o].cur])
        PROVE  Sums'
    <3>1. /\ Shown[InsertId] = Null
          /\ Shown'[InsertId] = Book!Entry(InsertValue[o].minor, InsertValue[o].cur)
          /\ \A i \in Ids \ {InsertId} : Shown'[i] = Shown[i]
      BY <2>5 DEF Book!Add, Shown, Ids
    <3>2. acknowledged' = [acknowledged EXCEPT ![InsertId] = InsertValue[o].minor]
      BY <2>5 DEF Book!Add
    <3>3. /\ acknowledged'[InsertId] = InsertValue[o].minor
          /\ \A i \in Ids \ {InsertId} : acknowledged'[i] = acknowledged[i]
      BY <3>2 DEF IInv, TypeOK, Ids
    <3>4. InsertId \in Ids /\ InsertId \notin DOMAIN Seed
      BY IdsAssumption DEF Ids, SeedIds
    <3>5. Shown'[InsertId] # Null
      <4>1. InsertValue[o].minor \in Amounts /\ InsertValue[o].cur \in Currencies
        BY InsertNames DEF InsertValue, Amounts, Currencies
      <4> QED
        BY <3>1, <4>1, NullAssumption DEF Book!Entry, EntryType
    <3>6. Shown'[InsertId].amount = 0 + acknowledged'[InsertId]
      BY <2>1, <3>1, <3>3, <3>4 DEF Book!Entry
    <3> QED
      BY <3>1, <3>3, <3>4, <3>5, <3>6 DEF Sums
  <2>6. Book!Next => Sums'
    BY <2>3, <2>4, <2>5 DEF Book!Next
  <2> QED
    BY <2>2, <2>6, StepRefines
<1>3. Sums => Book!Balanced
  BY DEF Sums, Book!Balanced, Shown
<1> QED
  BY <1>1, <1>2, <1>3, WholeInvariance, PTL DEF Spec
=============================================================================
