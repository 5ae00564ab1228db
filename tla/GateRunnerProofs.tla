--------------------------- MODULE GateRunnerProofs ---------------------------
(***************************************************************************)
(* Proofs about GateRunner: its inductive invariant, its safety            *)
(* properties, and the rank that every step lowers.                        *)
(***************************************************************************)
EXTENDS GateRunner, TLAPS

-----------------------------------------------------------------------------
(* The inductive invariant.                                                *)

Status(i) == gates[GATE_ORDER[i]]
PipAudit == {"write", "mkdir", "audit", "unlink", "rmdir"}

(* Where in the loop each label is.                                        *)
PlaceInv ==
    /\ at \in PipAudit => gate = "pip_audit" /\ ~failed
    /\ at \in {"scan", "redigest"} => gate \in Trivy /\ ~failed
    /\ at = "inspect" => gate = "image_identity" /\ ~failed
    /\ at \in {"gate", "scan", "redigest", "inspect"} => ~raised /\ turn < Last
    /\ at \in {"finally", "done"} /\ ~raised => turn = Last
    /\ raised /\ at \notin {"unlink", "rmdir", "done"} => at = "finally"

(* The gates before this turn are recorded, the others are not.            *)
LoopInv == /\ \A i \in 1..(turn - 1) : Status(i) \in {"PASS", "FAIL", "NOT_RUN"}
           /\ \A i \in turn..(Last - 1) : Status(i) = ""

(* Up to the first failure all passed, after it nothing was run.           *)
FirstFailure(f) == /\ Status(f) = "FAIL"
                   /\ \A i \in 1..(f - 1) : Status(i) = "PASS"
                   /\ \A i \in (f + 1)..(turn - 1) : Status(i) = "NOT_RUN"
FailureInv == /\ ~failed => \A i \in 1..(turn - 1) : Status(i) = "PASS"
              /\ failed => \E f \in 1..(turn - 1) : FirstFailure(f)

(* A gate that passed has what the report says about it.                   *)
EvidenceInv == /\ \A s \in Scanners : gates[s] = "PASS" => found[s] = "clean"
               /\ gates["pytest_coverage"] = "PASS" => covered

(* Clean-up is due exactly when the services may be up.                    *)
DueInv == /\ ~raised => (attempted <=> gates["compose_start"] \in Ran)
          /\ project # "none" => attempted \/ at = "done"

(* The temporaries, as long as a report may be made of it.                 *)
TempInv == ~raised => /\ at = "write" => temps = {}
                      /\ at = "mkdir" => "cache" \notin temps
                      /\ at = "rmdir" /\ "requirements" \in temps => ~result.zero
                      /\ at \notin PipAudit /\ temps # {} => gates["pip_audit"] = "FAIL"

(* What the scans read.                                                    *)
ScanInv == /\ at = "redigest" => attested /\ scanned[gate] # ""
           /\ \A g \in Trivy : scanned[g] = "changed" => database = "changed"

(* The container behind the tests.                                         *)
ImageInv == gate = "pytest_coverage" /\ ~failed /\ at # "done" /\ ~raised => project = "frozen"

(* What the report says of the end.                                        *)
EndInv == /\ at = "done" <=> verdict # ""
          /\ at # "done" => gates["compose_cleanup"] = ""
          /\ at = "done" =>
                verdict = IF raised THEN "no report"
                          ELSE IF failed \/ gates["compose_cleanup"] # "PASS"
                               THEN "HONEST_NEGATIVE" ELSE "PASSED"
          /\ verdict \in {"PASSED", "HONEST_NEGATIVE"} =>
                /\ gates["compose_cleanup"] \in
                      IF attempted THEN {"PASS", "FAIL"} ELSE {"NOT_NEEDED"}
                /\ project # "none" => gates["compose_cleanup"] = "FAIL"

IInv == /\ TypeOK /\ PlaceInv /\ LoopInv /\ FailureInv /\ EvidenceInv
        /\ DueInv /\ TempInv /\ ScanInv /\ ImageInv /\ EndInv
        /\ ScansFrozen

-----------------------------------------------------------------------------
(* The order of the gates.                                                 *)

LEMMA Order ==
    /\ Last = 12
    /\ \A i \in 1..Last : GATE_ORDER[i] \in Gates
    /\ \A i, j \in 1..Last : GATE_ORDER[i] = GATE_ORDER[j] => i = j
    /\ \A g \in Gates : \E i \in 1..Last : g = GATE_ORDER[i]
<1>1. \A i \in 1..12 : \/ i = 1 \/ i = 2 \/ i = 3 \/ i = 4 \/ i = 5 \/ i = 6
                         \/ i = 7 \/ i = 8 \/ i = 9 \/ i = 10 \/ i = 11 \/ i = 12
  OBVIOUS
<1>2. \A i, j \in 1..12 : GATE_ORDER[i] = GATE_ORDER[j] => i = j
  BY <1>1 DEF GATE_ORDER
<1> QED
  BY <1>2 DEF Last, Gates

LEMMA Names ==
    /\ GATE_ORDER[5] = "gitleaks" /\ GATE_ORDER[6] = "pip_audit"
    /\ GATE_ORDER[7] = "trivy_fs" /\ GATE_ORDER[8] = "trivy_image"
    /\ GATE_ORDER[9] = "compose_start" /\ GATE_ORDER[10] = "image_identity"
    /\ GATE_ORDER[11] = "pytest_coverage" /\ GATE_ORDER[12] = "compose_cleanup"
BY DEF GATE_ORDER

(* What a recorded result does to the records.                             *)
LEMMA RecordKeeps ==
    ASSUME TypeOK, LoopInv, FailureInv, EvidenceInv, turn < Last, ~failed,
           NEW r \in Results, Record(r)
    PROVE  /\ turn' = turn + 1 /\ at' = IF turn' = Last THEN "finally" ELSE "gate"
           /\ gates' \in [Gates -> {"", "PASS", "FAIL", "NOT_RUN", "NOT_NEEDED"}]
           /\ found' \in [Scanners -> {"clean", "findings", "invalid"}]
           /\ covered' \in BOOLEAN /\ failed' \in BOOLEAN
           /\ gates'[gate] = IF Judged(r) THEN "PASS" ELSE "FAIL"
           /\ failed' <=> ~Judged(r)
           /\ \A g \in Gates \ {gate} : gates'[g] = gates[g]
           /\ LoopInv' /\ FailureInv' /\ EvidenceInv'
<1> USE Order
<1>1. /\ turn' = turn + 1 /\ at' = IF turn' = Last THEN "finally" ELSE "gate"
      /\ gate \in Gates
      BY DEF Record, NextTurn, Go, gate, TypeOK
<1>2. /\ gates' \in [Gates -> {"", "PASS", "FAIL", "NOT_RUN", "NOT_NEEDED"}]
      /\ gates'[gate] = IF Judged(r) THEN "PASS" ELSE "FAIL"
      /\ gates'[gate] \in {"PASS", "FAIL"}
      /\ \A g \in Gates \ {gate} : gates'[g] = gates[g]
  <2>1. gates \in [Gates -> {"", "PASS", "FAIL", "NOT_RUN", "NOT_NEEDED"}]
        BY DEF TypeOK
  <2>2. gates' = [gates EXCEPT ![gate] = IF Judged(r) THEN "PASS" ELSE "FAIL"]
        BY DEF Record
  <2> QED BY <1>1, <2>1, <2>2
<1>3. /\ covered' \in BOOLEAN /\ failed' \in BOOLEAN /\ (failed' <=> ~Judged(r))
      /\ covered' <=> covered \/ (gate = "pytest_coverage" /\ Judged(r))
      BY DEF Record, TypeOK
<1>4. /\ found' \in [Scanners -> {"clean", "findings", "invalid"}]
      /\ \A s \in Scanners : found'[s] = IF s = gate THEN r.prints ELSE found[s]
  <2>1. /\ found \in [Scanners -> {"clean", "findings", "invalid"}]
        /\ r.prints \in {"clean", "findings", "invalid"}
        BY DEF TypeOK, Results
  <2>2. found' = IF gate \in Scanners THEN [found EXCEPT ![gate] = r.prints] ELSE found
        BY DEF Record
  <2>3. CASE gate \in Scanners BY <2>1, <2>2, <2>3
  <2>4. CASE gate \notin Scanners BY <2>1, <2>2, <2>4
  <2> QED BY <2>3, <2>4
<1>5. /\ turn \in 1..Last
      /\ \A i \in 1..Last : Status(i)' = IF i = turn THEN gates'[gate] ELSE Status(i)
  <2>1. turn \in 1..Last BY DEF TypeOK
  <2>2. ASSUME NEW i \in 1..Last, i # turn PROVE gates'[GATE_ORDER[i]] = gates[GATE_ORDER[i]]
        BY <2>1, <2>2, <1>2 DEF gate
  <2> QED BY <2>1, <2>2 DEF Status, gate
<1>6. LoopInv'
  <2>1. ASSUME NEW i \in 1..turn PROVE Status(i)' \in {"PASS", "FAIL", "NOT_RUN"}
    <3>1. i \in 1..Last BY <1>5
    <3>2. CASE i = turn BY <3>1, <3>2, <1>2, <1>5
    <3>3. CASE i # turn
      <4>1. i \in 1..(turn - 1) BY <1>5, <3>3
      <4>2. Status(i) \in {"PASS", "FAIL", "NOT_RUN"} BY <4>1 DEF LoopInv
      <4> QED BY <4>2, <3>1, <3>3, <1>5
    <3> QED BY <3>2, <3>3
  <2>2. ASSUME NEW i \in (turn + 1)..(Last - 1) PROVE Status(i)' = ""
    <3>1. i \in turn..(Last - 1) /\ i \in 1..Last /\ i # turn BY <1>5
    <3>2. Status(i) = "" BY <3>1 DEF LoopInv
    <3> QED BY <3>1, <3>2, <1>5
  <2>3. turn' - 1 = turn BY <1>1, <1>5
  <2> QED BY <2>1, <2>2, <2>3, <1>1 DEF LoopInv
<1>7. FailureInv'
  <2>0. PICK t \in 1..Last : t = turn BY <1>5
  <2>1. /\ t' = t /\ turn' = t + 1 /\ \A i \in 1..(t - 1) : Status(i)' = "PASS"
        BY <1>1, <1>5, <2>0 DEF FailureInv
  <2>2. CASE Judged(r)
    <3>1. Status(t)' = "PASS" BY <2>2, <1>2, <1>5, <2>0
    <3> QED BY <2>1, <2>2, <3>1, <1>3 DEF FailureInv
  <2>3. CASE ~Judged(r)
    <3>1. Status(t)' = "FAIL" BY <2>3, <1>2, <1>5, <2>0
    <3>2. FirstFailure(t)' /\ t \in 1..(turn' - 1)
          BY <2>1, <3>1 DEF FirstFailure
    <3> QED BY <3>2, <2>3, <1>3 DEF FailureInv
  <2> QED BY <2>2, <2>3
<1>8. EvidenceInv'
  <2>1. ASSUME NEW s \in Scanners, gates'[s] = "PASS" PROVE found'[s] = "clean"
    <3>1. s \in Gates BY Names, Order DEF Scanners
    <3>2. CASE s = gate BY <2>1, <3>2, <1>2, <1>4 DEF Judged, CleanSurface
    <3>3. CASE s # gate BY <2>1, <3>1, <3>3, <1>2, <1>4 DEF EvidenceInv
    <3> QED BY <3>2, <3>3
  <2>2. ASSUME gates'["pytest_coverage"] = "PASS" PROVE covered'
    <3>1. "pytest_coverage" \in Gates BY Names, Order
    <3>2. CASE gate = "pytest_coverage" BY <2>2, <3>2, <1>2, <1>3
    <3>3. CASE gate # "pytest_coverage"
          BY <2>2, <3>1, <3>3, <1>2, <1>3 DEF EvidenceInv
    <3> QED BY <3>2, <3>3
  <2> QED BY <2>1, <2>2 DEF EvidenceInv
<1> QED BY <1>1, <1>2, <1>3, <1>4, <1>6, <1>7, <1>8

(* A step that records nothing.                                            *)
LEMMA RecordsKept ==
    ASSUME LoopInv, FailureInv, EvidenceInv, UNCHANGED records
    PROVE  LoopInv' /\ FailureInv' /\ EvidenceInv'
BY DEF records, LoopInv, FailureInv, EvidenceInv, FirstFailure, Status

LEMMA Places ==
    ASSUME TypeOK
    PROVE  /\ gate \in Gates /\ Scanners \subseteq Gates /\ Trivy \subseteq Gates
           /\ {"pip_audit", "compose_start", "compose_cleanup"} \subseteq Gates
           /\ gate = "compose_cleanup" <=> turn = Last
           /\ turn < Last <=> gate # "compose_cleanup"
<1>1. turn \in 1..12 BY Order DEF TypeOK
<1>2. Scanners \subseteq Gates /\ Trivy \subseteq Gates
      BY Order, Names DEF Scanners, Trivy
<1> QED BY <1>1, <1>2, Order, Names DEF gate

(* A gate is not recorded before its turn.                                 *)
LEMMA Unrecorded ==
    ASSUME TypeOK, LoopInv, turn < Last
    PROVE  gates[gate] = ""
<1>1. turn \in 1..12 BY DEF TypeOK, Last
<1>2. turn \in turn..(Last - 1) BY <1>1 DEF Last
<1> QED BY <1>2 DEF LoopInv, Status, gate

LEMMA TurnStep ==
    ASSUME turn \in 1..Last, turn < Last, turn' = turn + 1
    PROVE  turn' \in 1..Last /\ (turn' # Last => turn' < Last)
BY DEF Last

(* The gate after image_identity is the one that runs the tests.           *)
LEMMA NextGate ==
    ASSUME TypeOK, turn < Last, turn' = turn + 1, gate' = "pytest_coverage"
    PROVE  gate = "image_identity"
<1>1. turn \in 1..12 BY DEF TypeOK, Last
<1>2. turn' \in 1..12 BY <1>1 DEF Last
<1>3. turn' = 11 BY <1>2, Order, Names DEF gate
<1>4. turn = 10 BY <1>1, <1>3
<1> QED BY <1>4, Names DEF gate

-----------------------------------------------------------------------------
(* One lemma for each action.                                              *)

LEMMA FailingResult ==
    ASSUME NEW r \in Results
    PROVE  Failing(r) \in Results /\ ~Failing(r).zero
BY DEF Results, Failing

LEMMA NothingResult == Nothing \in Results
BY DEF Nothing, Results

(* A result is recorded, at the end of a gate that was run.  What else the *)
(* step does is in the assumptions.                                        *)
LEMMA Recorded ==
    ASSUME IInv, at \in {"gate", "inspect", "scan", "redigest", "rmdir"}, ~failed, ~raised,
           NEW r \in Results, Record(r), result' \in Results,
           UNCHANGED <<raised, verdict, attested, database>>,
           attempted' \in BOOLEAN, attempted' <=> attempted \/ gate = "compose_start",
           project' \in Ups \union {"none"}, project' # "none" => attempted',
           gate = "image_identity" /\ Judged(r) => project' = "frozen",
           gate = "pip_audit" => at = "rmdir" /\ (temps' # {} => ~Judged(r)),
           temps' \subseteq {"requirements", "cache"}, gate # "pip_audit" => temps' = temps,
           scanned' \in [Trivy -> {"", "frozen", "changed"}],
           \A g \in Trivy : scanned'[g] = "changed" => database = "changed",
           \A g \in Trivy : g # gate => scanned'[g] = scanned[g],
           gate \in Trivy /\ attested /\ Judged(r) => scanned'[gate] = "frozen"
    PROVE  IInv'
<1> USE DEF IInv
<1>0. turn < Last /\ turn \in 1..Last /\ at # "done" /\ gate # "compose_cleanup"
  <2>1. turn \in 1..Last BY DEF TypeOK
  <2>2. CASE at = "gate" BY <2>1, <2>2, Places DEF PlaceInv
  <2>3. CASE at # "gate"
    <3>1. gate # "compose_cleanup" BY <2>3 DEF PlaceInv, PipAudit, Trivy
    <3> QED BY <2>1, <2>3, <3>1, Places
  <2> QED BY <2>1, <2>2, <2>3
<1>1. /\ turn' = turn + 1 /\ at' = IF turn' = Last THEN "finally" ELSE "gate"
      /\ gates' \in [Gates -> {"", "PASS", "FAIL", "NOT_RUN", "NOT_NEEDED"}]
      /\ found' \in [Scanners -> {"clean", "findings", "invalid"}]
      /\ covered' \in BOOLEAN /\ failed' \in BOOLEAN
      /\ gates'[gate] = IF Judged(r) THEN "PASS" ELSE "FAIL"
      /\ failed' <=> ~Judged(r)
      /\ \A g \in Gates \ {gate} : gates'[g] = gates[g]
      /\ LoopInv' /\ FailureInv' /\ EvidenceInv'
      BY <1>0, RecordKeeps
<1>2. TypeOK'
  <2>1. at' \in Labels BY <1>1 DEF Labels
  <2>2. turn' \in 1..Last BY <1>0, <1>1, TurnStep
  <2> QED BY <2>1, <2>2, <1>1 DEF TypeOK
<1>3. PlaceInv'
  <2>1. CASE turn' = Last BY <2>1, <1>0, <1>1 DEF PlaceInv, PipAudit
  <2>2. CASE turn' # Last
    <3>1. at' = "gate" /\ ~raised' /\ turn' < Last BY <2>2, <1>0, <1>1, TurnStep
    <3> QED BY <3>1 DEF PlaceInv, PipAudit
  <2> QED BY <2>1, <2>2
<1>4. DueInv'
      BY <1>0, <1>1, Places DEF DueInv, Ran
<1>5. TempInv'
      BY <1>0, <1>1, Places DEF TempInv, PlaceInv
<1>6. ScanInv'
      BY <1>0, <1>1 DEF ScanInv
<1>7. ImageInv'
  <2>1. gate' = "pytest_coverage" => gate = "image_identity" BY <1>0, <1>1, NextGate
  <2> QED BY <2>1, <1>1 DEF ImageInv
<1>8. EndInv'
  <2>1. at # "done" /\ at' # "done" BY <1>0, <1>1
  <2>2. verdict = "" /\ gates["compose_cleanup"] = "" BY <2>1 DEF EndInv
  <2> QED BY <2>1, <2>2, <1>0, <1>1, Places DEF EndInv
<1>9. ScansFrozen'
      BY <1>0, <1>1, Places DEF ScansFrozen, TypeOK
<1> QED BY <1>1, <1>2, <1>3, <1>4, <1>5, <1>6, <1>7, <1>8, <1>9

LEMMA UpdateStep ==
    ASSUME IInv, Update
    PROVE  IInv'
<1> USE DEF IInv
<1>1. LoopInv' /\ FailureInv' /\ EvidenceInv'
      BY RecordsKept DEF Update
<1>2. TypeOK'
  <2>1. at' \in Labels
        BY DEF Update, TypeOK
  <2>2. result' \in Results
        BY FailingResult DEF Update, TypeOK
  <2>3. temps' \subseteq {"requirements", "cache"}
        BY DEF Update, TypeOK
  <2>4. /\ raised' \in BOOLEAN /\ verdict' \in {"", "PASSED", "HONEST_NEGATIVE", "no report"}
        /\ attempted' \in BOOLEAN /\ database' \in {"frozen", "changed"}
        /\ project' \in Ups \union {"none"}
        BY DEF Update, TypeOK, flags
  <2> QED BY <2>1, <2>2, <2>3, <2>4 DEF Update, TypeOK, records, flags
<1>3. PlaceInv'
      BY Places DEF Update, gate, records, flags, PlaceInv
<1>4. DueInv'
      BY Places DEF Update, records, flags, DueInv
<1>5. TempInv'
      BY Places DEF Update, records, flags, TempInv
<1>6. ScanInv'
      BY Places DEF Update, gate, records, flags, ScanInv
<1>7. ImageInv'
      BY Places DEF Update, gate, records, flags, ImageInv
<1>8. EndInv'
      BY Places DEF Update, records, flags, EndInv
<1>9. ScansFrozen'
      BY Places DEF Update, records, flags, ScansFrozen
<1> QED BY <1>1, <1>2, <1>3, <1>4, <1>5, <1>6, <1>7, <1>8, <1>9

LEMMA ExportStep ==
    ASSUME IInv, Export
    PROVE  IInv'
<1> USE DEF IInv
<1>1. LoopInv' /\ FailureInv' /\ EvidenceInv'
      BY RecordsKept DEF Export
<1>2. TypeOK'
  <2>1. at' \in Labels
        BY DEF Export, Go, Labels
  <2>2. result' \in Results
        BY FailingResult DEF Export, TypeOK
  <2>3. temps' \subseteq {"requirements", "cache"}
        BY DEF Export, TypeOK
  <2>4. /\ raised' \in BOOLEAN /\ verdict' \in {"", "PASSED", "HONEST_NEGATIVE", "no report"}
        /\ attempted' \in BOOLEAN /\ database' \in {"frozen", "changed"}
        /\ project' \in Ups \union {"none"}
        BY DEF Export, TypeOK, flags
  <2> QED BY <2>1, <2>2, <2>3, <2>4 DEF Export, Running, Go, TypeOK, records, flags
<1>3. PlaceInv'
      BY Places DEF Export, Running, Go, gate, records, flags, PlaceInv
<1>4. DueInv'
      BY Places DEF Export, Running, records, flags, DueInv
<1>5. TempInv'
      BY Places, Unrecorded DEF Export, Running, flags, TempInv, PipAudit
<1>6. ScanInv'
      BY Places DEF Export, Go, ScanInv
<1>7. ImageInv'
      BY Places DEF Export, gate, records, ImageInv
<1>8. EndInv'
      BY Places DEF Export, Running, Go, records, flags, EndInv
<1>9. ScansFrozen'
      BY Places DEF Export, records, flags, ScansFrozen
<1> QED BY <1>1, <1>2, <1>3, <1>4, <1>5, <1>6, <1>7, <1>8, <1>9

LEMMA WriteStep ==
    ASSUME IInv, WriteRequirements
    PROVE  IInv'
<1> USE DEF IInv
<1>1. LoopInv' /\ FailureInv' /\ EvidenceInv'
      BY RecordsKept DEF WriteRequirements, Make
<1>2. TypeOK'
  <2>1. at' \in Labels
        BY DEF WriteRequirements, Make, Go, Labels
  <2>2. result' \in Results
        BY FailingResult DEF WriteRequirements, Make, TypeOK
  <2>3. temps' \subseteq {"requirements", "cache"}
        BY DEF WriteRequirements, Make, TypeOK
  <2>4. /\ raised' \in BOOLEAN /\ verdict' \in {"", "PASSED", "HONEST_NEGATIVE", "no report"}
        /\ attempted' \in BOOLEAN /\ database' \in {"frozen", "changed"}
        /\ project' \in Ups \union {"none"}
        BY DEF WriteRequirements, Make, TypeOK, flags
  <2> QED
      BY <2>1, <2>2, <2>3, <2>4
         DEF WriteRequirements, Make, Go, TypeOK, records, flags
<1>3. PlaceInv'
      BY Places
         DEF WriteRequirements, Make, Go, gate, records, flags, PlaceInv, PipAudit
<1>4. DueInv'
      BY Places DEF WriteRequirements, Make, records, flags, DueInv
<1>5. TempInv'
      BY Places DEF WriteRequirements, Make, Go, flags, TempInv, PipAudit
<1>6. ScanInv'
      BY Places DEF WriteRequirements, Make, Go, ScanInv
<1>7. ImageInv'
      BY Places DEF WriteRequirements, Make, gate, records, flags, ImageInv
<1>8. EndInv'
      BY Places DEF WriteRequirements, Make, Go, records, flags, EndInv
<1>9. ScansFrozen'
      BY Places DEF WriteRequirements, Make, records, flags, ScansFrozen
<1> QED BY <1>1, <1>2, <1>3, <1>4, <1>5, <1>6, <1>7, <1>8, <1>9

LEMMA MkdirStep ==
    ASSUME IInv, CreateCache
    PROVE  IInv'
<1> USE DEF IInv
<1>1. LoopInv' /\ FailureInv' /\ EvidenceInv'
      BY RecordsKept DEF CreateCache, Make
<1>2. TypeOK'
  <2>1. at' \in Labels
        BY DEF CreateCache, Make, Go, Labels
  <2>2. result' \in Results
        BY FailingResult DEF CreateCache, Make, TypeOK
  <2>3. temps' \subseteq {"requirements", "cache"}
        BY DEF CreateCache, Make, TypeOK
  <2>4. /\ raised' \in BOOLEAN /\ verdict' \in {"", "PASSED", "HONEST_NEGATIVE", "no report"}
        /\ attempted' \in BOOLEAN /\ database' \in {"frozen", "changed"}
        /\ project' \in Ups \union {"none"}
        BY DEF CreateCache, Make, TypeOK, flags
  <2> QED
      BY <2>1, <2>2, <2>3, <2>4 DEF CreateCache, Make, Go, TypeOK, records, flags
<1>3. PlaceInv'
      BY Places DEF CreateCache, Make, Go, gate, records, flags, PlaceInv, PipAudit
<1>4. DueInv'
      BY Places DEF CreateCache, Make, records, flags, DueInv
<1>5. TempInv'
      BY Places DEF CreateCache, Make, Go, TempInv, PipAudit
<1>6. ScanInv'
      BY Places DEF CreateCache, Make, Go, ScanInv
<1>7. ImageInv'
      BY Places DEF CreateCache, Make, gate, records, flags, ImageInv
<1>8. EndInv'
      BY Places DEF CreateCache, Make, Go, records, flags, EndInv
<1>9. ScansFrozen'
      BY Places DEF CreateCache, Make, records, flags, ScansFrozen
<1> QED BY <1>1, <1>2, <1>3, <1>4, <1>5, <1>6, <1>7, <1>8, <1>9

LEMMA AuditStep ==
    ASSUME IInv, Audit
    PROVE  IInv'
<1> USE DEF IInv
<1>1. LoopInv' /\ FailureInv' /\ EvidenceInv'
      BY RecordsKept DEF Audit, Go
<1>2. TypeOK'
  <2>1. at' \in Labels
        BY DEF Audit, Go, Labels
  <2>2. result' \in Results
        BY FailingResult DEF Audit
  <2>3. temps' \subseteq {"requirements", "cache"}
        BY DEF Audit, TypeOK
  <2>4. /\ raised' \in BOOLEAN /\ verdict' \in {"", "PASSED", "HONEST_NEGATIVE", "no report"}
        /\ attempted' \in BOOLEAN /\ database' \in {"frozen", "changed"}
        /\ project' \in Ups \union {"none"}
        BY DEF Audit, TypeOK, flags
  <2> QED BY <2>1, <2>2, <2>3, <2>4 DEF Audit, Go, TypeOK, records, flags
<1>3. PlaceInv'
      BY Places DEF Audit, Go, gate, records, PlaceInv, PipAudit
<1>4. DueInv'
      BY Places DEF Audit, records, flags, DueInv
<1>5. TempInv'
      BY Places DEF Audit, Go, TempInv, PipAudit
<1>6. ScanInv'
      BY Places DEF Audit, Go, ScanInv
<1>7. ImageInv'
      BY Places DEF Audit, gate, records, flags, ImageInv
<1>8. EndInv'
      BY Places DEF Audit, Go, records, flags, EndInv
<1>9. ScansFrozen'
      BY Places DEF Audit, records, flags, ScansFrozen
<1> QED BY <1>1, <1>2, <1>3, <1>4, <1>5, <1>6, <1>7, <1>8, <1>9

LEMMA UnlinkStep ==
    ASSUME IInv, Unlink
    PROVE  IInv'
<1> USE DEF IInv
<1>1. LoopInv' /\ FailureInv' /\ EvidenceInv'
      BY RecordsKept DEF Unlink
<1>2. TypeOK'
  <2>1. at' \in Labels
        BY DEF Unlink, Go, Labels
  <2>2. result' \in Results
        BY FailingResult DEF Unlink
  <2>3. temps' \subseteq {"requirements", "cache"}
        BY DEF Unlink, Remove, TypeOK
  <2>4. /\ raised' \in BOOLEAN /\ verdict' \in {"", "PASSED", "HONEST_NEGATIVE", "no report"}
        /\ attempted' \in BOOLEAN /\ database' \in {"frozen", "changed"}
        /\ project' \in Ups \union {"none"}
        BY DEF Unlink, TypeOK, flags
  <2> QED BY <2>1, <2>2, <2>3, <2>4 DEF Unlink, Remove, Go, TypeOK, records, flags
<1>3. PlaceInv'
      BY Places DEF Unlink, Go, gate, records, PlaceInv, PipAudit
<1>4. DueInv'
      BY Places DEF Unlink, records, flags, DueInv
<1>5. TempInv'
      BY Places, FailingResult DEF Unlink, Remove, Go, TypeOK, TempInv, PipAudit
<1>6. ScanInv'
      BY Places DEF Unlink, Go, ScanInv
<1>7. ImageInv'
      BY Places DEF Unlink, gate, records, flags, ImageInv
<1>8. EndInv'
      BY Places DEF Unlink, Go, records, flags, EndInv
<1>9. ScansFrozen'
      BY Places DEF Unlink, records, flags, ScansFrozen
<1> QED BY <1>1, <1>2, <1>3, <1>4, <1>5, <1>6, <1>7, <1>8, <1>9

LEMMA InterruptStep ==
    ASSUME IInv, Interrupt
    PROVE  IInv'
<1> USE DEF IInv
<1>1. LoopInv' /\ FailureInv' /\ EvidenceInv'
      BY RecordsKept DEF Interrupt
<1>2. TypeOK'
  <2>1. at' \in Labels
        BY DEF Interrupt, Labels
  <2>2. result' \in Results
        BY FailingResult DEF Interrupt, TypeOK
  <2>3. temps' \subseteq {"requirements", "cache"}
        BY DEF Interrupt, Touched, TypeOK
  <2>4. /\ raised' \in BOOLEAN /\ verdict' \in {"", "PASSED", "HONEST_NEGATIVE", "no report"}
        /\ attempted' \in BOOLEAN /\ database' \in {"frozen", "changed"}
        /\ project' \in Ups \union {"none"}
        BY DEF Interrupt, ComposeUp, TypeOK
  <2> QED
      BY <2>1, <2>2, <2>3, <2>4
         DEF Interrupt, Running, ComposeUp, Touched, TypeOK, records, flags
<1>3. PlaceInv'
      BY Places DEF Interrupt, Running, gate, records, PlaceInv, PipAudit
<1>4. DueInv'
      BY Places DEF Interrupt, DueInv
<1>5. TempInv'
      BY Places DEF Interrupt, TempInv
<1>6. ScanInv'
      BY Places DEF Interrupt, ScanInv
<1>7. ImageInv'
      BY Places DEF Interrupt, ImageInv
<1>8. EndInv'
      BY Places DEF Interrupt, Running, records, EndInv
<1>9. ScansFrozen'
      BY Places DEF Interrupt, records, ScansFrozen
<1> QED BY <1>1, <1>2, <1>3, <1>4, <1>5, <1>6, <1>7, <1>8, <1>9

LEMMA RunStep ==
    ASSUME IInv, Run
    PROVE  IInv'
<1> USE DEF IInv
<1>1. PICK r \in Results : Record(r) BY DEF Run
<1>2. gate \notin Trivy \union {"pip_audit", "compose_start", "image_identity"}
      BY DEF Run, Plain
<1>3. at = "gate" /\ ~failed /\ ~raised BY DEF Run, Running, PlaceInv
<1>4. /\ result' \in Results /\ attempted' \in BOOLEAN /\ attempted' = attempted
      /\ UNCHANGED <<raised, verdict, attested, database, scanned, temps, project>>
      BY DEF Run, flags, TypeOK
<1> QED BY <1>1, <1>2, <1>3, <1>4, Recorded DEF TypeOK, DueInv, ScanInv

LEMMA ComposeStartStep ==
    ASSUME IInv, ComposeStart
    PROVE  IInv'
<1> USE DEF IInv
<1>1. PICK r \in Results : Record(r) /\ ComposeUp(r.zero) BY DEF ComposeStart
<1>2. at = "gate" /\ ~failed /\ ~raised /\ gate = "compose_start"
      BY DEF ComposeStart, Running, PlaceInv
<1>3. /\ result' \in Results /\ attempted'
      /\ UNCHANGED <<raised, verdict, attested, database, scanned, temps>>
      BY DEF ComposeStart, TypeOK
<1>4. attempted' \in BOOLEAN /\ project' \in Ups \union {"none"}
      BY <1>1 DEF ComposeStart, ComposeUp
<1> QED BY <1>1, <1>2, <1>3, <1>4, Recorded DEF TypeOK, ScanInv, Trivy

LEMMA PsStep ==
    ASSUME IInv, Ps
    PROVE  IInv'
<1> USE DEF IInv
<1>1. CASE Go("inspect") /\ UNCHANGED records
  <2>1. LoopInv' /\ FailureInv' /\ EvidenceInv'
        BY <1>1, RecordsKept
  <2>2. TypeOK'
        BY <1>1, Places DEF Ps, Go, records, flags, TypeOK, Labels
  <2>3. PlaceInv'
        BY <1>1, Places
           DEF Ps, Running, Go, gate, records, flags, PlaceInv, PipAudit
  <2>4. DueInv'
        BY <1>1, Places DEF Ps, Running, records, flags, DueInv
  <2>5. TempInv'
        BY <1>1, Places DEF Ps, Running, Go, records, flags, TempInv, PipAudit
  <2>6. ScanInv'
        BY <1>1, Places DEF Ps, Go, ScanInv
  <2>7. ImageInv'
        BY <1>1, Places DEF Ps, gate, records, ImageInv
  <2>8. EndInv'
        BY <1>1, Places DEF Ps, Running, Go, records, flags, EndInv
  <2>9. ScansFrozen'
        BY <1>1, Places DEF Ps, records, flags, ScansFrozen
  <2> QED BY <2>1, <2>2, <2>3, <2>4, <2>5, <2>6, <2>7, <2>8, <2>9
<1>2. CASE Record(Nothing)
  <2>1. at = "gate" /\ ~failed /\ ~raised /\ gate = "image_identity"
        BY DEF Ps, Running, PlaceInv
  <2>2. /\ result' \in Results /\ attempted' \in BOOLEAN /\ attempted' = attempted
        /\ UNCHANGED <<raised, verdict, attested, database, scanned, temps, project>>
        BY DEF Ps, flags, TypeOK
  <2>3. ~Judged(Nothing) BY DEF Judged, Nothing
  <2> QED
      BY <1>2, <2>1, <2>2, <2>3, NothingResult, Recorded
         DEF TypeOK, DueInv, ScanInv, Trivy
<1> QED BY <1>1, <1>2 DEF Ps

LEMMA InspectStep ==
    ASSUME IInv, Inspect
    PROVE  IInv'
<1> USE DEF IInv
<1>1. PICK r \in Results : Record(IF project = "frozen" THEN r ELSE Failing(r))
      BY DEF Inspect
<1>2. PICK q \in Results : q = IF project = "frozen" THEN r ELSE Failing(r)
      BY FailingResult
<1>3. Judged(q) => project = "frozen"
      BY <1>2, FailingResult DEF Judged
<1>4. at = "inspect" /\ ~failed /\ ~raised /\ gate = "image_identity"
      BY DEF Inspect, PlaceInv
<1>5. /\ result' \in Results /\ attempted' \in BOOLEAN /\ attempted' = attempted
      /\ UNCHANGED <<raised, verdict, attested, database, scanned, temps, project>>
      BY DEF Inspect, flags, TypeOK
<1>6. Record(q) BY <1>1, <1>2
<1> QED BY <1>3, <1>4, <1>5, <1>6, Recorded DEF TypeOK, DueInv, ScanInv, Trivy

LEMMA RemoveCacheStep ==
    ASSUME IInv, RemoveCache
    PROVE  IInv'
<1> USE DEF IInv
<1>1. PICK r \in Results : /\ Remove("cache", r)
                           /\ IF raised THEN Go("finally") /\ UNCHANGED records ELSE Record(r)
      BY DEF RemoveCache
<1>2. /\ at = "rmdir" /\ ~failed /\ gate = "pip_audit"
      /\ temps' \subseteq temps
      BY <1>1 DEF RemoveCache, PlaceInv, PipAudit, Remove
<1>3. CASE raised
  <2>1. LoopInv' /\ FailureInv' /\ EvidenceInv'
        BY <1>1, <1>2, <1>3, RecordsKept
  <2>2. TypeOK'
        BY <1>1, <1>2, <1>3, Places
           DEF RemoveCache, Go, records, flags, TypeOK, Labels
  <2>3. PlaceInv'
        BY <1>1, <1>2, <1>3, Places
           DEF RemoveCache, Go, gate, records, flags, PlaceInv
  <2>4. DueInv'
        BY <1>1, <1>2, <1>3, Places DEF RemoveCache, flags, DueInv
  <2>5. TempInv'
        BY <1>1, <1>2, <1>3, Places DEF RemoveCache, flags, TempInv
  <2>6. ScanInv'
        BY <1>1, <1>2, <1>3, Places DEF RemoveCache, Go, ScanInv
  <2>7. ImageInv'
        BY <1>1, <1>2, <1>3, Places DEF gate, records, ImageInv
  <2>8. EndInv'
        BY <1>1, <1>2, <1>3, Places DEF RemoveCache, Go, records, flags, EndInv
  <2>9. ScansFrozen'
        BY <1>1, <1>2, <1>3, Places DEF RemoveCache, records, flags, ScansFrozen
  <2> QED BY <2>1, <2>2, <2>3, <2>4, <2>5, <2>6, <2>7, <2>8, <2>9
<1>4. CASE ~raised
  <2>1. /\ result' \in Results /\ attempted' \in BOOLEAN /\ attempted' = attempted
        /\ UNCHANGED <<raised, verdict, attested, database, scanned, project>>
        BY DEF RemoveCache, flags, TypeOK
  <2>2. temps' # {} => ~r.zero
        BY <1>1, <1>2, <1>4, FailingResult DEF Remove, TempInv, TypeOK
  <2>3. temps' # {} => ~Judged(r)
        BY <2>2 DEF Judged
  <2> QED
      BY <1>1, <1>2, <1>4, <2>1, <2>3, Recorded DEF TypeOK, DueInv, ScanInv, Trivy
<1> QED BY <1>3, <1>4

LEMMA DigestStep ==
    ASSUME IInv, Digest
    PROVE  IInv'
<1> USE DEF IInv
<1>1. CASE Go("scan") /\ UNCHANGED records
  <2>1. LoopInv' /\ FailureInv' /\ EvidenceInv'
        BY <1>1, RecordsKept
  <2>2. TypeOK'
        BY <1>1, Places DEF Digest, Go, records, flags, TypeOK, Labels
  <2>3. PlaceInv'
        BY <1>1, Places
           DEF Digest, Running, Go, gate, records, flags, PlaceInv, PipAudit
  <2>4. DueInv'
        BY <1>1, Places DEF Digest, Running, records, flags, DueInv
  <2>5. TempInv'
        BY <1>1, Places DEF Digest, Running, Go, records, flags, TempInv, PipAudit
  <2>6. ScanInv'
        BY <1>1, Places DEF Digest, Go, ScanInv
  <2>7. ImageInv'
        BY <1>1, Places DEF Digest, Running, gate, records, flags, ImageInv
  <2>8. EndInv'
        BY <1>1, Places DEF Digest, Running, Go, records, flags, EndInv
  <2>9. ScansFrozen'
        BY <1>1, Places DEF Digest, records, flags, ScansFrozen
  <2> QED BY <2>1, <2>2, <2>3, <2>4, <2>5, <2>6, <2>7, <2>8, <2>9
<1>2. CASE Record(Nothing)
  <2>1. at = "gate" /\ ~failed /\ ~raised /\ gate \in Trivy
        BY DEF Digest, Running, PlaceInv
  <2>2. /\ result' \in Results /\ attempted' \in BOOLEAN /\ attempted' = attempted
        /\ UNCHANGED <<raised, verdict, attested, database, scanned, temps, project>>
        BY DEF Digest, flags, TypeOK
  <2>3. ~Judged(Nothing) BY DEF Judged, Nothing
  <2> QED
      BY <1>2, <2>1, <2>2, <2>3, NothingResult, Recorded
         DEF TypeOK, DueInv, ScanInv, Trivy
<1> QED BY <1>1, <1>2 DEF Digest

LEMMA ScanStep ==
    ASSUME IInv, Scan
    PROVE  IInv'
<1> USE DEF IInv
<1>1. PICK r \in Results : IF attested THEN result' = r /\ Go("redigest") /\ UNCHANGED records
                                       ELSE Record(r) /\ UNCHANGED result
      BY DEF Scan
<1>2. /\ at = "scan" /\ ~failed /\ ~raised /\ gate \in Trivy
      /\ scanned' \in [Trivy -> {"", "frozen", "changed"}] /\ scanned'[gate] = database
      /\ \A g \in Trivy : g # gate => scanned'[g] = scanned[g]
      BY DEF Scan, PlaceInv, TypeOK
<1>3. \A g \in Trivy : scanned'[g] = "changed" => database = "changed"
      BY <1>2 DEF ScanInv
<1>4. CASE attested
  <2>1. LoopInv' /\ FailureInv' /\ EvidenceInv'
        BY <1>1, <1>2, <1>3, <1>4, RecordsKept
  <2>2. TypeOK'
        BY <1>1, <1>2, <1>3, <1>4, Places
           DEF Scan, Go, records, flags, TypeOK, Labels
  <2>3. PlaceInv'
        BY <1>1, <1>2, <1>3, <1>4, Places
           DEF Scan, Go, gate, records, flags, PlaceInv, PipAudit
  <2>4. DueInv'
        BY <1>1, <1>2, <1>3, <1>4, Places DEF Scan, records, flags, DueInv
  <2>5. TempInv'
        BY <1>1, <1>2, <1>3, <1>4, Places DEF Scan, Go, records, TempInv, PipAudit
  <2>6. ScanInv'
        BY <1>1, <1>2, <1>3, <1>4, Places
           DEF Scan, gate, records, flags, TypeOK, ScanInv
  <2>7. ImageInv'
        BY <1>1, <1>2, <1>3, <1>4, Places DEF Scan, gate, records, ImageInv
  <2>8. EndInv'
        BY <1>1, <1>2, <1>3, <1>4, Places DEF Scan, Go, records, flags, EndInv
  <2>9. ScansFrozen'
        BY <1>1, <1>2, <1>3, <1>4, Places, Unrecorded
           DEF records, ScansFrozen, Trivy
  <2> QED BY <2>1, <2>2, <2>3, <2>4, <2>5, <2>6, <2>7, <2>8, <2>9
<1>5. CASE ~attested
  <2>1. /\ result' \in Results /\ attempted' \in BOOLEAN /\ attempted' = attempted
        /\ UNCHANGED <<raised, verdict, attested, database, temps, project>>
        BY <1>1, <1>5 DEF Scan, flags, TypeOK
  <2> QED BY <1>1, <1>2, <1>3, <1>5, <2>1, Recorded DEF TypeOK, DueInv, Trivy
<1> QED BY <1>4, <1>5

LEMMA RedigestStep ==
    ASSUME IInv, Redigest
    PROVE  IInv'
<1> USE DEF IInv
<1>1. PICK r \in Results : Record(r) /\ (r.zero => database = "frozen")
      BY FailingResult DEF Redigest, TypeOK
<1>2. /\ at = "redigest" /\ ~failed /\ ~raised /\ gate \in Trivy /\ scanned[gate] # ""
      BY DEF Redigest, PlaceInv, ScanInv
<1>3. /\ result' \in Results /\ attempted' \in BOOLEAN /\ attempted' = attempted
      /\ UNCHANGED <<raised, verdict, attested, database, scanned, temps, project>>
      BY DEF Redigest, flags, TypeOK
<1>4. Judged(r) => scanned[gate] = "frozen"
      BY <1>1, <1>2 DEF Judged, ScanInv, TypeOK
<1> QED BY <1>1, <1>2, <1>3, <1>4, Recorded DEF TypeOK, DueInv, ScanInv, Trivy

(* What a gate that is not run leaves.                                     *)
LEMMA SkipStep ==
    ASSUME IInv, Skip
    PROVE  IInv'
<1> USE DEF IInv
<1>1. /\ at = "gate" /\ failed /\ ~raised /\ turn < Last /\ turn \in 1..Last
      /\ gate \in Gates /\ gate # "compose_cleanup"
      BY Places DEF Skip, PlaceInv, TypeOK
<1>2. /\ turn' = turn + 1 /\ at' = IF turn' = Last THEN "finally" ELSE "gate"
      /\ gates' = [gates EXCEPT ![gate] = "NOT_RUN"]
      /\ UNCHANGED <<result, found, covered, failed, flags, database, scanned, temps, project>>
      BY DEF Skip, NextTurn, Go
<1>3. /\ gates' \in [Gates -> {"", "PASS", "FAIL", "NOT_RUN", "NOT_NEEDED"}]
      /\ gates'[gate] = "NOT_RUN" /\ \A g \in Gates \ {gate} : gates'[g] = gates[g]
      BY <1>1, <1>2 DEF TypeOK
<1>4. \A i \in 1..Last : Status(i)' = IF i = turn THEN "NOT_RUN" ELSE Status(i)
  <2>1. ASSUME NEW i \in 1..Last, i # turn PROVE gates'[GATE_ORDER[i]] = gates[GATE_ORDER[i]]
    <3>1. GATE_ORDER[i] \in Gates /\ GATE_ORDER[i] # gate
          BY <2>1, <1>1, Order DEF gate
    <3> QED BY <3>1, <1>3
  <2> QED BY <2>1, <1>3 DEF Status, gate
<1>5. turn' \in 1..Last /\ (turn' # Last => turn' < Last) BY <1>1, <1>2, TurnStep
<1>6. PICK t \in 1..11 : t = turn BY <1>1, Order
<1>7. t' = t /\ turn' = t + 1 BY <1>2, <1>6
<1>8. LoopInv'
  <2>1. ASSUME NEW i \in 1..t PROVE Status(i)' \in {"PASS", "FAIL", "NOT_RUN"}
    <3>1. i \in 1..Last BY Order
    <3>2. CASE i = t BY <3>1, <3>2, <1>4, <1>6
    <3>3. CASE i # t
      <4>1. i \in 1..(turn - 1) BY <1>6, <3>3
      <4>2. Status(i) \in {"PASS", "FAIL", "NOT_RUN"} BY <4>1 DEF LoopInv
      <4> QED BY <4>2, <3>1, <3>3, <1>4, <1>6
    <3> QED BY <3>2, <3>3
  <2>2. ASSUME NEW i \in (t + 1)..(Last - 1) PROVE Status(i)' = ""
    <3>1. i \in turn..(Last - 1) /\ i \in 1..Last /\ i # turn BY <1>6, Order
    <3>2. Status(i) = "" BY <3>1 DEF LoopInv
    <3> QED BY <3>1, <3>2, <1>4
  <2>3. turn' - 1 = t /\ turn' = t + 1 BY <1>7
  <2> QED BY <2>1, <2>2, <2>3 DEF LoopInv
<1>9. FailureInv'
  <2>1. PICK f \in 1..(t - 1) : FirstFailure(f) BY <1>1, <1>6 DEF FailureInv
  <2>2. /\ Status(f)' = "FAIL" /\ \A i \in 1..(f - 1) : Status(i)' = "PASS"
        BY <2>1, <1>4, <1>6, Order DEF FirstFailure
  <2>3. ASSUME NEW i \in (f + 1)..t PROVE Status(i)' = "NOT_RUN"
    <3>1. i \in 1..Last BY Order
    <3>2. CASE i = t BY <3>1, <3>2, <1>4, <1>6
    <3>3. CASE i # t BY <3>1, <3>3, <2>1, <1>4, <1>6 DEF FirstFailure
    <3> QED BY <3>2, <3>3
  <2>4. FirstFailure(f)' /\ f \in 1..(turn' - 1)
        BY <2>2, <2>3, <1>7 DEF FirstFailure
  <2> QED BY <2>4, <1>1, <1>2 DEF FailureInv
<1>10. EvidenceInv'
  <2>1. ASSUME NEW s \in Gates, gates'[s] = "PASS" PROVE gates[s] = "PASS"
        BY <2>1, <1>3
  <2> QED BY <2>1, <1>2, Places, Names, Order DEF EvidenceInv
<1>11. TypeOK'
  <2>1. at' \in Labels BY <1>2 DEF Labels
  <2> QED BY <2>1, <1>2, <1>3, <1>5 DEF TypeOK, flags
<1>12. PlaceInv'
  <2>1. CASE turn' = Last BY <2>1, <1>1, <1>2 DEF PlaceInv, PipAudit
  <2>2. CASE turn' # Last
    <3>1. at' = "gate" /\ ~raised' /\ turn' < Last
          BY <2>2, <1>1, <1>2, <1>5 DEF flags
    <3> QED BY <3>1 DEF PlaceInv, PipAudit
  <2> QED BY <2>1, <2>2
<1>13. DueInv'
      BY <1>1, <1>2, <1>3, Places, Unrecorded DEF DueInv, Ran, flags
<1>14. TempInv'
      BY <1>1, <1>2, <1>3, Places, Unrecorded DEF TempInv, PipAudit
<1>15. ScanInv'
      BY <1>1, <1>2 DEF ScanInv
<1>16. ImageInv'
      BY <1>1, <1>2 DEF ImageInv
<1>17. EndInv'
      BY <1>1, <1>2, <1>3, Places DEF EndInv, flags
<1>18. ScansFrozen'
      BY <1>1, <1>2, <1>3, Places DEF ScansFrozen, flags
<1> QED BY <1>8, <1>9, <1>10, <1>11, <1>12, <1>13, <1>14, <1>15, <1>16, <1>17, <1>18

LEMMA LoopKept ==
    ASSUME turn \in 1..Last, UNCHANGED <<turn, failed>>, LoopInv, FailureInv,
           \A i \in 1..(Last - 1) : Status(i)' = Status(i)
    PROVE  LoopInv' /\ FailureInv'
<1>1. LoopInv'
  <2>1. ASSUME NEW i \in 1..(turn - 1) PROVE Status(i)' \in {"PASS", "FAIL", "NOT_RUN"}
    <3>1. i \in 1..(Last - 1) BY Order
    <3>2. Status(i) \in {"PASS", "FAIL", "NOT_RUN"} BY DEF LoopInv
    <3> QED BY <3>1, <3>2
  <2>2. ASSUME NEW i \in turn..(Last - 1) PROVE Status(i)' = ""
    <3>1. i \in 1..(Last - 1) BY Order
    <3>2. Status(i) = "" BY DEF LoopInv
    <3> QED BY <3>1, <3>2
  <2> QED BY <2>1, <2>2 DEF LoopInv
<1>2. FailureInv'
  <2>1. ASSUME NEW i \in 1..(turn - 1) PROVE Status(i)' = Status(i)
        BY Order
  <2>2. CASE ~failed BY <2>1, <2>2 DEF FailureInv
  <2>3. CASE failed
    <3>1. PICK f \in 1..(turn - 1) : FirstFailure(f) BY <2>3 DEF FailureInv
    <3>2. FirstFailure(f)' BY <3>1, <2>1 DEF FirstFailure
    <3> QED BY <3>1, <3>2, <2>3 DEF FailureInv
  <2> QED BY <2>2, <2>3
<1> QED BY <1>1, <1>2

(* The end of the run.                                                     *)
LEMMA FinishStep ==
    ASSUME IInv, at = "finally", NEW c \in {"PASS", "FAIL", "NOT_NEEDED"}, Finish(c),
           c = "NOT_NEEDED" <=> ~attempted,
           project' \in Ups \union {"none"}, project' # "none" => c = "FAIL"
    PROVE  IInv'
<1> USE DEF IInv
<1>1. /\ at' = "done" /\ verdict' # ""
      /\ verdict' = IF raised THEN "no report"
                    ELSE IF failed \/ c # "PASS" THEN "HONEST_NEGATIVE" ELSE "PASSED"
      /\ UNCHANGED <<turn, result, found, covered, failed, attempted, raised, attested,
                     database, scanned, temps>>
      BY DEF Finish, Go
<1>2. /\ gates' \in [Gates -> {"", "PASS", "FAIL", "NOT_RUN", "NOT_NEEDED"}]
      /\ gates'["compose_cleanup"] = c
      /\ \A g \in Gates \ {"compose_cleanup"} : gates'[g] = gates[g]
      BY Places DEF Finish, TypeOK
<1>3. \A i \in 1..(Last - 1) : Status(i)' = Status(i)
  <2>1. \A i \in 1..(Last - 1) : GATE_ORDER[i] \in Gates \ {"compose_cleanup"}
        BY Order, Names
  <2> QED BY <2>1, <1>2 DEF Status
<1>4. turn \in 1..Last BY DEF TypeOK
<1>5. LoopInv' /\ FailureInv'
      BY <1>1, <1>3, <1>4, LoopKept
<1>6. \A s \in Scanners \union {"pytest_coverage"} : s \in Gates \ {"compose_cleanup"}
      BY Places, Names, Order DEF Scanners
<1>7. EvidenceInv'
      BY <1>1, <1>2, <1>6 DEF EvidenceInv
<1>8. TypeOK'
  <2>1. at' \in Labels BY <1>1 DEF Labels
  <2> QED BY <2>1, <1>1, <1>2 DEF TypeOK
<1>9. PlaceInv'
      BY <1>1 DEF PlaceInv, PipAudit
<1>10. DueInv'
      BY <1>1, <1>2, Places DEF DueInv
<1>11. TempInv'
      BY <1>1, <1>2, Places DEF TempInv, PipAudit
<1>12. ScanInv'
      BY <1>1 DEF ScanInv
<1>13. ImageInv'
      BY <1>1 DEF ImageInv
<1>14. EndInv'
      BY <1>1, <1>2 DEF EndInv
<1>15. ScansFrozen'
      BY <1>1, <1>2, Places DEF ScansFrozen, Trivy
<1> QED BY <1>5, <1>7, <1>8, <1>9, <1>10, <1>11, <1>12, <1>13, <1>14, <1>15

LEMMA EndStep ==
    ASSUME IInv, Down \/ NothingUp
    PROVE  IInv'
<1>1. CASE Down
      BY <1>1, FinishStep DEF IInv, Down, TypeOK
<1>2. CASE NothingUp
      BY <1>2, FinishStep DEF IInv, NothingUp, DueInv
<1> QED BY <1>1, <1>2

-----------------------------------------------------------------------------
(* The theorems.                                                           *)

LEMMA InitIInv == Init => IInv
<1> SUFFICES ASSUME Init PROVE IInv OBVIOUS
<1>0. turn = 1 /\ ~failed /\ ~raised /\ at = "gate" BY DEF Init
<1>1. TypeOK
  <2>1. turn \in 1..Last BY <1>0 DEF Last
  <2>2. at \in Labels /\ result \in Results BY NothingResult DEF Init, Labels
  <2> QED BY <2>1, <2>2 DEF Init, TypeOK
<1>2. \A i \in 1..Last : Status(i) = "" BY Order DEF Init, Status
<1>3. LoopInv
  <2>1. \A i \in turn..(Last - 1) : Status(i) = ""
    <3>1. ASSUME NEW i \in turn..(Last - 1) PROVE i \in 1..Last BY <1>0 DEF Last
    <3> QED BY <3>1, <1>2
  <2>2. 1..(turn - 1) = {} BY <1>0
  <2> QED BY <2>1, <2>2 DEF LoopInv
<1>4. FailureInv
  <2>1. 1..(turn - 1) = {} BY <1>0
  <2> QED BY <1>0, <2>1 DEF FailureInv
<1>5. PlaceInv
  <2>1. turn < Last BY <1>0 DEF Last
  <2> QED BY <1>0, <2>1 DEF PlaceInv, PipAudit
<1>6. \A g \in Gates : gates[g] = "" BY DEF Init
<1>7. "pytest_coverage" \in Gates BY Names, Order
<1>8. EvidenceInv BY <1>1, <1>6, <1>7, Places DEF EvidenceInv
<1>9. DueInv /\ TempInv /\ ScanInv /\ ScansFrozen
      BY <1>1, <1>6, Places DEF Init, DueInv, TempInv, ScanInv, ScansFrozen, Ran
<1>10. ImageInv /\ EndInv
  <2>1. gate = "ci_static" BY DEF Init, gate, GATE_ORDER
  <2> QED BY <1>1, <1>6, <2>1, Places DEF Init, ImageInv, EndInv
<1> QED BY <1>1, <1>3, <1>4, <1>5, <1>8, <1>9, <1>10 DEF IInv

LEMMA StepIInv == IInv /\ [Next]_vars => IInv'
<1> SUFFICES ASSUME IInv, [Next]_vars PROVE IInv' OBVIOUS
<1>1. CASE Step
      BY <1>1, SkipStep, RunStep, ComposeStartStep, PsStep, InspectStep, ExportStep,
         WriteStep,
         MkdirStep, AuditStep, UnlinkStep, RemoveCacheStep, DigestStep, ScanStep, RedigestStep,
         EndStep DEF Step
<1>2. CASE Interrupt BY <1>2, InterruptStep
<1>3. CASE Update BY <1>3, UpdateStep
<1>4. CASE UNCHANGED vars
  <2>1. LoopInv' /\ FailureInv' /\ EvidenceInv' BY <1>4, RecordsKept DEF IInv, vars
  <2>2. TypeOK' BY <1>4 DEF vars, records, flags, IInv, TypeOK
  <2>3. PlaceInv' BY <1>4 DEF vars, records, flags, IInv, PlaceInv, gate
  <2>4. DueInv' /\ TempInv' BY <1>4 DEF vars, records, flags, IInv, DueInv, TempInv
  <2>5. ScanInv' /\ ImageInv'
        BY <1>4 DEF vars, records, flags, IInv, ScanInv, ImageInv, gate
  <2>6. EndInv' /\ ScansFrozen'
        BY <1>4 DEF vars, records, flags, IInv, EndInv, ScansFrozen
  <2> QED BY <2>1, <2>2, <2>3, <2>4, <2>5, <2>6 DEF IInv
<1> QED BY <1>1, <1>2, <1>3, <1>4 DEF Next, Done

(* The strengthened invariant holds in every reachable state of a run.     *)
THEOREM Invariance == Spec => []IInv
BY InitIInv, StepIInv, PTL DEF Spec

(* Types, for run_gates (final_runner.py).                                 *)
THEOREM TypeCorrect == Spec => []TypeOK
BY Invariance, PTL DEF IInv

LEMMA MinOfFailures ==
    ASSUME NEW f \in Failures, \A i \in Failures : f <= i
    PROVE  Min(Failures) = f
<1>1. Failures \subseteq Int BY Order DEF Failures
<1>2. \E x \in Failures : \A y \in Failures : x <= y OBVIOUS
<1>3. Min(Failures) \in Failures /\ \A y \in Failures : Min(Failures) <= y
      BY <1>2 DEF Min
<1>4. Min(Failures) <= f /\ f <= Min(Failures) /\ Min(Failures) \in Int /\ f \in Int
      BY <1>1, <1>3
<1> QED BY <1>4

(* What the report of a finished run looks like.                           *)
LEMMA ReportIsValid ==
    ASSUME IInv, verdict \in {"PASSED", "HONEST_NEGATIVE"}
    PROVE  ValidReport
<1> USE DEF IInv
<1>1. /\ at = "done" /\ ~raised /\ turn = 12
      /\ verdict = IF failed \/ gates["compose_cleanup"] # "PASS"
                   THEN "HONEST_NEGATIVE" ELSE "PASSED"
      /\ gates["compose_cleanup"] \in IF attempted THEN {"PASS", "FAIL"} ELSE {"NOT_NEEDED"}
      /\ attempted <=> Status(9) \in {"PASS", "FAIL"}
      BY Names, Order DEF EndInv, PlaceInv, DueInv, Status, Ran
<1>2. /\ gates["compose_cleanup"] = Status(12)
      /\ \A g \in Gates : \E i \in 1..12 : gates[g] = Status(i)
      /\ Failures = {i \in 1..12 : Status(i) = "FAIL"}
      BY Names, Order DEF Status, Failures
<1>3. \A i \in 1..11 : Status(i) \in {"PASS", "FAIL", "NOT_RUN"}
  <2>1. 1..11 = 1..(turn - 1) BY <1>1
  <2> QED BY <2>1 DEF LoopInv
<1>4. \A g \in Gates : gates[g] \in Ran \union {"NOT_RUN", "NOT_NEEDED"}
  <2>1. ASSUME NEW i \in 1..12 PROVE Status(i) \in {"PASS", "FAIL", "NOT_RUN", "NOT_NEEDED"}
        BY <1>1, <1>2, <1>3
  <2> QED BY <2>1, <1>2 DEF Ran
<1>5. CASE ~failed
  <2>1. \A i \in 1..11 : Status(i) = "PASS" BY <1>1, <1>5 DEF FailureInv
  <2>2. attempted /\ Status(12) \in {"PASS", "FAIL"} BY <1>1, <1>2, <2>1
  <2>3. ASSUME verdict = "PASSED"
        PROVE  /\ \A g \in Gates : gates[g] = "PASS"
               /\ covered /\ \A s \in Scanners : found[s] = "clean"
    <3>1. \A i \in 1..12 : Status(i) = "PASS" BY <1>1, <1>2, <2>1, <2>3
    <3>2. \A g \in Gates : gates[g] = "PASS" BY <3>1, <1>2
    <3> QED BY <3>2, Places, Names, Order DEF EvidenceInv
  <2>4. verdict = "HONEST_NEGATIVE" => 12 \in Failures
        BY <1>1, <1>2, <1>5, <2>2
  <2>5. ASSUME Failures # {}
        PROVE  Min(Failures) = 12 /\ gates["compose_cleanup"] \in Ran
    <3>1. \A i \in Failures : i = 12 BY <2>1, <1>2
    <3>2. 12 \in Failures BY <3>1, <2>5
    <3> QED BY <3>1, <3>2, <1>2, <2>2, MinOfFailures DEF Ran
  <2>6. ASSUME Failures # {}
        PROVE  /\ \A i \in 1..(Min(Failures) - 1) : gates[GATE_ORDER[i]] = "PASS"
               /\ \A i \in (Min(Failures) + 1)..(Last - 1) : gates[GATE_ORDER[i]] = "NOT_RUN"
               /\ ~(Min(Failures) < 9)
    <3>1. 1..(12 - 1) = 1..11 /\ (12 + 1)..(Last - 1) = {} BY DEF Last
    <3> QED BY <3>1, <2>1, <2>5, <2>6 DEF Status
  <2>7. verdict = "HONEST_NEGATIVE" => Failures # {} BY <2>4
  <2> QED BY <1>4, <2>3, <2>5, <2>6, <2>7 DEF ValidReport
<1>6. CASE failed
  <2>1. PICK f \in 1..11 : FirstFailure(f) BY <1>1, <1>6 DEF FailureInv
  <2>2. /\ Status(f) = "FAIL" /\ \A i \in 1..(f - 1) : Status(i) = "PASS"
        /\ \A i \in (f + 1)..11 : Status(i) = "NOT_RUN"
        BY <2>1, <1>1 DEF FirstFailure
  <2>3. f \in Failures /\ \A i \in Failures : f <= i
    <3>1. ASSUME NEW i \in Failures, i < f PROVE FALSE
      <4>1. i \in 1..(f - 1) BY <3>1, <1>2
      <4> QED BY <4>1, <2>2, <1>2
    <3> QED BY <3>1, <2>2, <1>2
  <2>4. Min(Failures) = f BY <2>3, MinOfFailures
  <2>5. CASE f < 9
    <3>1. 9 \in (f + 1)..11 BY <2>5
    <3>2. Status(9) = "NOT_RUN" BY <3>1, <2>2
    <3>3. gates["compose_cleanup"] = "NOT_NEEDED" BY <3>2, <1>1
    <3> QED
        BY <3>3, <1>1, <1>4, <1>6, <2>2, <2>3, <2>4, <2>5
           DEF ValidReport, Status, Last
  <2>6. CASE ~(f < 9)
    <3>1. 9 = f \/ 9 \in 1..(f - 1) BY <2>6
    <3>2. Status(9) \in {"PASS", "FAIL"} BY <3>1, <2>2
    <3>3. gates["compose_cleanup"] \in Ran BY <3>2, <1>1 DEF Ran
    <3> QED
        BY <3>3, <1>1, <1>4, <1>6, <2>2, <2>3, <2>4, <2>6
           DEF ValidReport, Status, Last
  <2> QED BY <2>5, <2>6
<1> QED BY <1>5, <1>6

(* Whatever the commands exit with and print, whoever is interrupted where *)
(* and whether the scanner database is replaced: a report of run_gates     *)
(* (final_runner.py) passes _valid_report (final_once.py).                 *)
THEOREM ReportsAreAccepted == Spec => []ReportAccepted
<1>1. IInv => ReportAccepted BY ReportIsValid DEF ReportAccepted
<1> QED BY <1>1, Invariance, PTL

(* Containers or temporaries left by the `finally` blocks of run_gates are *)
(* told as the failure of their gate.                                      *)
THEOREM LeftoversAreTold == Spec => []LeftoverTold
<1>1. IInv => LeftoverTold
      BY DEF IInv, LeftoverTold, EndInv, TempInv, PipAudit
<1> QED BY <1>1, Invariance, PTL

(* With a digest to compare, a trivy gate passes only with a scan of the   *)
(* frozen database.                                                        *)
THEOREM ScansAreOfTheFrozen == Spec => []ScansFrozen
BY Invariance, PTL DEF IInv

(* The tests are run against a container of the frozen image only.         *)
THEOREM TestsAreOfTheFrozen == Spec => []TestsFrozen
<1>1. IInv => TestsFrozen
      BY DEF IInv, TestsFrozen, ImageInv, PlaceInv
<1> QED BY <1>1, Invariance, PTL

-----------------------------------------------------------------------------
(* The end of a run is certain: no step goes back.                         *)

(* The steps of a gate that are still to come.                             *)
Left == [gate |-> 9, write |-> 8, mkdir |-> 7, audit |-> 6, scan |-> 8, redigest |-> 7,
         inspect |-> 8, unlink |-> 4, rmdir |-> 3, finally |-> 2, done |-> 0]
(* With the gates to come, and the one update of the scanner database.     *)
Rank == Left[at] + (IF raised THEN 0 ELSE 10 * (Last + 1 - turn))
                 + (IF database = "frozen" THEN 1 ELSE 0)
RankFalls == Rank' < Rank

LEMMA LeftIs ==
    /\ Left["gate"] = 9 /\ Left["write"] = 8 /\ Left["mkdir"] = 7 /\ Left["audit"] = 6
    /\ Left["scan"] = 8 /\ Left["redigest"] = 7 /\ Left["inspect"] = 8 /\ Left["unlink"] = 4
    /\ Left["rmdir"] = 3 /\ Left["finally"] = 2 /\ Left["done"] = 0
BY DEF Left

LEMMA LeftRange ==
    ASSUME NEW l \in Labels
    PROVE  Left[l] \in 0..9 /\ (l # "done" => Left[l] >= 2)
BY LeftIs DEF Labels

LEMMA RankIsNatural == TypeOK => Rank \in 0..130
<1> SUFFICES ASSUME TypeOK PROVE Rank \in 0..130 OBVIOUS
<1>1. Left[at] \in 0..9 BY LeftRange DEF TypeOK
<1>2. turn \in 1..12 /\ Last = 12 BY DEF TypeOK, Last
<1>3. (IF raised THEN 0 ELSE 10 * (Last + 1 - turn)) \in 0..120 BY <1>2
<1>4. (IF database = "frozen" THEN 1 ELSE 0) \in 0..1 OBVIOUS
<1> QED BY <1>1, <1>3, <1>4 DEF Rank

(* The next gate is worth less than what is left of this one.              *)
LEMMA TurnLowers ==
    ASSUME TypeOK, TypeOK', turn' = turn + 1, at # "done", ~raised, UNCHANGED <<raised, database>>
    PROVE  RankFalls
<1>1. Left[at] \in 0..9 /\ Left[at'] \in 0..9 BY LeftRange DEF TypeOK
<1>2. Left[at] >= 2 BY LeftRange DEF TypeOK
<1>3. turn \in 1..12 /\ Last = 12 BY DEF TypeOK, Last
<1>4. 10 * (Last + 1 - turn') = 10 * (Last + 1 - turn) - 10 BY <1>3
<1>5. Left[at'] - 10 < Left[at] BY <1>1, <1>2
<1> QED BY <1>1, <1>3, <1>4, <1>5 DEF RankFalls, Rank

LEMMA Sums ==
    ASSUME NEW x \in 0..9, NEW y \in 0..9, y < x, NEW t \in 0..120, NEW d \in 0..1
    PROVE  y + 0 + d < x + t + d /\ y + t + d < x + t + d
OBVIOUS

(* So does a step within a gate, with or without an interrupt.             *)
LEMMA MoveLowers ==
    ASSUME TypeOK, TypeOK', Left[at'] < Left[at], raised => raised',
           raised' \/ turn' = turn, database' = database
    PROVE  RankFalls
<1>1. Left[at] \in 0..9 /\ Left[at'] \in 0..9 BY LeftRange DEF TypeOK
<1>2. turn \in 1..12 /\ Last = 12 BY DEF TypeOK, Last
<1>3. 10 * (Last + 1 - turn) \in 0..120 BY <1>2
<1>4. PICK t \in 0..120, d \in 0..1 : /\ t = IF raised THEN 0 ELSE 10 * (Last + 1 - turn)
                                     /\ d = IF database = "frozen" THEN 1 ELSE 0
      BY <1>3
<1>5. Rank = Left[at] + t + d BY <1>4 DEF Rank
<1>6. CASE raised'
  <2>1. Rank' = Left[at'] + 0 + d BY <1>4, <1>6 DEF Rank
  <2> QED BY <2>1, <1>1, <1>5, Sums DEF RankFalls
<1>7. CASE ~raised'
  <2>0. ~raised /\ turn' = turn BY <1>7
  <2>1. t = 10 * (Last + 1 - turn) BY <2>0, <1>4
  <2>2. Rank' = Left[at'] + t + d BY <2>0, <2>1, <1>4, <1>7 DEF Rank
  <2> QED BY <2>2, <1>1, <1>5, Sums DEF RankFalls
<1> QED BY <1>6, <1>7

(* Every step of the run records a result and goes on to the next gate, or *)
(* is followed by fewer steps of this one.                                 *)
LEMMA StepLowers ==
    ASSUME IInv, TypeOK', Step
    PROVE  RankFalls
<1> USE DEF IInv, Go
<1>1. CASE Skip
      BY <1>1, TurnLowers DEF Skip, NextTurn, flags, PlaceInv
<1>2. CASE Run
      BY <1>2, TurnLowers DEF Run, Running, Record, NextTurn, flags, PlaceInv
<1>3. CASE ComposeStart
      BY <1>3, TurnLowers DEF ComposeStart, Running, Record, NextTurn, PlaceInv
<1>4. CASE Ps
  <2>1. CASE Record(Nothing)
        BY <1>4, <2>1, TurnLowers DEF Ps, Running, Record, NextTurn, flags, PlaceInv
  <2>2. CASE at' = "inspect" /\ UNCHANGED records
        BY <1>4, <2>2, MoveLowers, LeftIs DEF Ps, Running, records, flags
  <2> QED BY <1>4, <2>1, <2>2 DEF Ps
<1>5. CASE Inspect
      BY <1>5, TurnLowers DEF Inspect, Record, NextTurn, flags, PlaceInv
<1>6. CASE Export
      BY <1>6, MoveLowers, LeftIs DEF Export, Running, records, flags
<1>7. CASE WriteRequirements
      BY <1>7, MoveLowers, LeftIs DEF WriteRequirements, Make, records, flags
<1>8. CASE CreateCache
      BY <1>8, MoveLowers, LeftIs DEF CreateCache, Make, records, flags
<1>9. CASE Audit
      BY <1>9, MoveLowers, LeftIs DEF Audit, records, flags
<1>10. CASE Unlink
      BY <1>10, MoveLowers, LeftIs DEF Unlink, records, flags
<1>11. CASE RemoveCache
  <2>1. CASE raised
        BY <1>11, <2>1, MoveLowers, LeftIs DEF RemoveCache, flags
  <2>2. CASE ~raised
        BY <1>11, <2>2, TurnLowers DEF RemoveCache, Record, NextTurn, flags
  <2> QED BY <2>1, <2>2
<1>12. CASE Digest
  <2>1. CASE Record(Nothing)
        BY <1>12, <2>1, TurnLowers
           DEF Digest, Running, Record, NextTurn, flags, PlaceInv
  <2>2. CASE at' = "scan" /\ UNCHANGED records
        BY <1>12, <2>2, MoveLowers, LeftIs DEF Digest, Running, records, flags
  <2> QED BY <1>12, <2>1, <2>2 DEF Digest
<1>13. CASE Scan
  <2>1. CASE attested
        BY <1>13, <2>1, MoveLowers, LeftIs DEF Scan, records, flags
  <2>2. CASE ~attested
        BY <1>13, <2>2, TurnLowers DEF Scan, Record, NextTurn, flags, PlaceInv
  <2> QED BY <2>1, <2>2
<1>14. CASE Redigest
      BY <1>14, TurnLowers DEF Redigest, Record, NextTurn, flags, PlaceInv
<1>15. CASE Down \/ NothingUp
  <2>1. at = "finally" /\ at' = "done" /\ UNCHANGED <<turn, raised, database>>
        BY <1>15 DEF Down, NothingUp, Finish
  <2> QED BY <2>1, MoveLowers, LeftIs
<1> QED
    BY <1>1, <1>2, <1>3, <1>4, <1>5, <1>6, <1>7, <1>8, <1>9, <1>10, <1>11, <1>12,
           <1>13, <1>14, <1>15 DEF Step

LEMMA InterruptLowers ==
    ASSUME IInv, TypeOK', Interrupt
    PROVE  RankFalls
<1> USE DEF IInv
<1>0. at # "done" /\ raised' /\ database' = database /\ at \in Labels
      BY DEF Interrupt, TypeOK
<1>1. /\ at \in {"write", "mkdir", "audit"} \/ (Running /\ gate = "pip_audit") => at' = "unlink"
      /\ ~(at \in {"write", "mkdir", "audit"} \/ (Running /\ gate = "pip_audit")) =>
            at' = IF at = "finally" THEN "done" ELSE "finally"
      BY DEF Interrupt, Running
<1>2. Left[at'] < Left[at]
  <2>1. CASE at \in {"write", "mkdir", "audit"} \/ (Running /\ gate = "pip_audit")
        BY <1>1, <2>1, LeftIs DEF Running
  <2>2. CASE ~(at \in {"write", "mkdir", "audit"} \/ (Running /\ gate = "pip_audit"))
        BY <1>0, <1>1, <2>2, LeftIs DEF Labels
  <2> QED BY <2>1, <2>2
<1> QED BY <1>0, <1>2, MoveLowers

LEMMA UpdateLowers ==
    ASSUME TypeOK, Update
    PROVE  RankFalls
<1>1. UNCHANGED <<at, raised, turn>> /\ database = "frozen" /\ database' = "changed"
      BY DEF Update, records, flags
<1>2. Left[at] \in 0..9 /\ turn \in 1..12 /\ Last = 12 BY LeftRange DEF TypeOK, Last
<1>3. (IF raised THEN 0 ELSE 10 * (Last + 1 - turn)) \in Int BY <1>2
<1> QED BY <1>1, <1>2, <1>3 DEF RankFalls, Rank

(* No step of run_gates, no interrupt and no update of the database leads  *)
(* back to where the run has been, and it takes at most 130 of them: with  *)
(* commands that end, which their timeouts see to, the run ends.           *)
THEOREM RunIsBounded == Spec => [](Rank \in 0..130) /\ [][RankFalls]_vars
<1>1. IInv => Rank \in 0..130 BY RankIsNatural DEF IInv
<1>2. IInv /\ IInv' /\ [Next]_vars => [RankFalls]_vars
      BY StepLowers, InterruptLowers, UpdateLowers DEF IInv, Next, Done
<1> QED BY <1>1, <1>2, Invariance, PTL DEF Spec

=============================================================================
