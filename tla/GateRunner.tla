------------------------------ MODULE GateRunner ------------------------------
(***************************************************************************)
(* One run of the frozen gates (run_gates in                               *)
(* src/src/migration_rehearsal/final_runner.py) and the check of           *)
(* final_once.py that its report has to pass.  A step is one command, one  *)
(* file operation or one digest of the scanner database.  A command may    *)
(* exit with anything, print anything, or raise; the run may also be       *)
(* interrupted (KeyboardInterrupt, SystemExit) in any of them.             *)
(***************************************************************************)
EXTENDS Naturals, FiniteSetsExt

GATE_ORDER ==
    << "ci_static", "ruff_format", "ruff_lint", "mypy", "gitleaks", "pip_audit", "trivy_fs",
       "trivy_image", "compose_start", "image_identity", "pytest_coverage", "compose_cleanup" >>
Last == 12
Gates == {GATE_ORDER[i] : i \in 1..Last}
Scanners == {"gitleaks", "pip_audit", "trivy_fs", "trivy_image"}
Trivy == {"trivy_fs", "trivy_image"}

VARIABLES turn,      \* index of the gate the loop is at
          at,        \* what is to be done for it
          result,    \* the CommandResult in hand
          gates,     \* gate |-> the status recorded for it, "" before
          found,     \* scanner |-> its summary
          covered,   \* whether the coverage summary is filled in
          failed, attempted, \* the flags `failed` and `compose_attempted`
          raised,    \* an interrupt is on its way out
          verdict,   \* "" while running; the report's status; "no report"
          attested,  \* whether the caller gave a digest of the scanner database
          database,  \* that database: "frozen", or "changed" by somebody
          scanned,   \* observed: trivy gate |-> the database it read
          temps,     \* temporaries on disk
          project    \* the compose project: "none", or the image its postgres runs

records == <<turn, gates, found, covered, failed>>
flags == <<attempted, raised, verdict, attested>>
vars == <<at, result, records, flags, database, scanned, temps, project>>

(* The exit code and what a scanner's or the coverage gate's standard      *)
(* output amounts to.                                                      *)
Results == [zero : BOOLEAN, prints : {"clean", "findings", "invalid"}]
Failing(r) == [r EXCEPT !.zero = FALSE]
Nothing == [zero |-> FALSE, prints |-> "invalid"]

gate == GATE_ORDER[turn]
Running == at = "gate" /\ ~failed
Go(label) == at' = label

Init == /\ turn = 1 /\ at = "gate" /\ result = Nothing
        /\ gates = [g \in Gates |-> ""]
        /\ found = [s \in Scanners |-> IF s = "gitleaks" THEN "clean" ELSE "invalid"]
        /\ covered = FALSE /\ failed = FALSE /\ attempted = FALSE /\ raised = FALSE
        /\ verdict = ""
        /\ attested \in BOOLEAN /\ database = "frozen" /\ scanned = [g \in Trivy |-> ""]
        /\ temps = {} /\ project = "none"

(* Somebody updates the scanner database (and nobody puts it back).        *)
Update == /\ database = "frozen" /\ verdict = "" /\ database' = "changed"
          /\ UNCHANGED <<at, result, records, flags, scanned, temps, project>>

-----------------------------------------------------------------------------
(* The end of a gate.                                                      *)

(* Mutant: the loop also takes the last entry of the order.                *)
NextTurn_ToTheEnd ==
    turn' = turn + 1 /\ Go(IF turn = Last THEN "finally" ELSE "gate")
NextTurn == turn' = turn + 1 /\ Go(IF turn + 1 = Last THEN "finally" ELSE "gate")

(* A scanner's output is a surface it should have, without findings; the   *)
(* coverage gate's a summary that adds up and meets the threshold.         *)
CleanSurface(r) == r.prints = "clean"
ValidCoverage(r) == r.prints = "clean"

(* A gate passes by its exit code and what it printed.                     *)
Judged(r) == /\ r.zero
             /\ gate \in Scanners => CleanSurface(r)
             /\ gate = "pytest_coverage" => ValidCoverage(r)

Record(r) ==
    /\ gates' = [gates EXCEPT ![gate] = IF Judged(r) THEN "PASS" ELSE "FAIL"]
    /\ failed' = (failed \/ ~Judged(r))
    /\ found' = IF gate \in Scanners THEN [found EXCEPT ![gate] = r.prints] ELSE found
    /\ covered' = (covered \/ (gate = "pytest_coverage" /\ Judged(r)))
    /\ NextTurn

(* After a failure the remaining gates are marked and not run.             *)
Skip == /\ at = "gate" /\ failed
        /\ gates' = [gates EXCEPT ![gate] = "NOT_RUN"] /\ NextTurn
        /\ UNCHANGED <<result, found, covered, failed, flags, database, scanned, temps, project>>

-----------------------------------------------------------------------------
(* Gates of one command.                                                   *)

Plain == Gates \ (Trivy \union {"pip_audit", "compose_start", "image_identity",
                                "compose_cleanup"})
Run == /\ Running /\ gate \in Plain
       /\ \E r \in Results : Record(r)
       /\ UNCHANGED <<result, flags, database, scanned, temps, project>>

(* What `compose up --wait` leaves; when it fails, any part of it.         *)
Ups == {"frozen", "other"}
ComposeUp(zero) == project' \in IF zero THEN Ups ELSE Ups \union {"none"}

(* Mutant: clean-up is due only once the services are up.                  *)
ComposeStart_DueWhenUp ==
    /\ Running /\ gate = "compose_start"
    /\ \E r \in Results : Record(r) /\ ComposeUp(r.zero) /\ attempted' = r.zero
    /\ UNCHANGED <<result, raised, verdict, attested, database, scanned, temps>>
ComposeStart ==
    /\ Running /\ gate = "compose_start"
    /\ attempted' = TRUE
    /\ \E r \in Results : Record(r) /\ ComposeUp(r.zero)
    /\ UNCHANGED <<result, raised, verdict, attested, database, scanned, temps>>

(* image_identity: `ps` must name one container, ...                       *)
Ps == /\ Running /\ gate = "image_identity"
      /\ \/ Go("inspect") /\ UNCHANGED records
         \/ Record(Nothing)
      /\ UNCHANGED <<result, flags, database, scanned, temps, project>>

(* Mutant: any image will do.                                              *)
Inspect_AnyImage ==
    /\ at = "inspect"
    /\ \E r \in Results : Record(r)
    /\ UNCHANGED <<result, flags, database, scanned, temps, project>>
(* ... and `inspect` must show the frozen image.                           *)
Inspect ==
    /\ at = "inspect"
    /\ \E r \in Results : Record(IF project = "frozen" THEN r ELSE Failing(r))
    /\ UNCHANGED <<result, flags, database, scanned, temps, project>>

-----------------------------------------------------------------------------
(* pip_audit: export, two temporaries, audit, and the inner `finally`.     *)

Export == /\ Running /\ gate = "pip_audit"
          /\ \/ Go("write") /\ UNCHANGED result
             \/ \E r \in Results : result' = Failing(r) /\ Go("unlink")
          /\ UNCHANGED <<records, flags, database, scanned, temps, project>>

(* The file or directory is made, or an OSError stops on the way there.    *)
Make(name, here, next) ==
    /\ at = here
    /\ \/ temps' = temps \union {name} /\ Go(next) /\ UNCHANGED result
       \/ /\ temps' \in {temps, temps \union {name}}
          /\ \E r \in Results : result' = Failing(r)
          /\ Go("unlink")
    /\ UNCHANGED <<records, flags, database, scanned, project>>
WriteRequirements == Make("requirements", "write", "mkdir")
CreateCache == Make("cache", "mkdir", "audit")

(* Mutant: an audit that fails is made again.                              *)
Audit_Retry == /\ at = "audit"
               /\ result' \in Results /\ Go(IF result'.zero THEN "unlink" ELSE "mkdir")
               /\ UNCHANGED <<records, flags, database, scanned, temps, project>>
Audit == /\ at = "audit"
         /\ result' \in Results /\ Go("unlink")
         /\ UNCHANGED <<records, flags, database, scanned, temps, project>>

(* Mutant: an error of the clean-up leaves the audit's result alone.       *)
Remove_ErrorIgnored(name, r) ==
    temps' \in {temps, temps \ {name}} /\ r = result
(* A temporary is removed, or an OSError makes a failure of the result.    *)
Remove(name, r) ==
    \/ temps' = temps \ {name} /\ r = result
    \/ temps' \in {temps, temps \ {name}} /\ r = Failing(result)

Unlink == /\ at = "unlink"
          /\ \E r \in Results : Remove("requirements", r) /\ result' = r
          /\ Go("rmdir")
          /\ UNCHANGED <<records, flags, database, scanned, project>>
RemoveCache ==
    /\ at = "rmdir"
    /\ \E r \in Results : /\ Remove("cache", r)
                          /\ IF raised THEN Go("finally") /\ UNCHANGED records
                                       ELSE Record(r)
    /\ UNCHANGED <<result, flags, database, scanned, project>>

-----------------------------------------------------------------------------
(* trivy: the database is digested before and after the scan.              *)

Digest == /\ Running /\ gate \in Trivy
          /\ \/ (attested => database = "frozen") /\ Go("scan") /\ UNCHANGED records
             \/ attested /\ Record(Nothing)     \* changed, or the digest raised
          /\ UNCHANGED <<result, flags, database, scanned, temps, project>>

Scan == /\ at = "scan"
        /\ scanned' = [scanned EXCEPT ![gate] = database]
        /\ \E r \in Results :
              IF attested THEN result' = r /\ Go("redigest") /\ UNCHANGED records
                          ELSE Record(r) /\ UNCHANGED result
        /\ UNCHANGED <<flags, database, temps, project>>

(* Mutant: the second digest is not compared.                              *)
Redigest_NotCompared ==
    /\ at = "redigest" /\ Record(result)
    /\ UNCHANGED <<result, flags, database, scanned, temps, project>>
Redigest == /\ at = "redigest"
            /\ \/ database = "frozen" /\ Record(result)
               \/ Record(Failing(result))
            /\ UNCHANGED <<result, flags, database, scanned, temps, project>>

-----------------------------------------------------------------------------
(* The outer `finally`, and interrupts.                                    *)

Finish(cleanup) ==
    /\ gates' = [gates EXCEPT !["compose_cleanup"] = cleanup]
    /\ verdict' = CASE raised                          -> "no report"
                    [] ~raised /\ (failed \/ cleanup # "PASS") -> "HONEST_NEGATIVE"
                    [] OTHER                           -> "PASSED"
    /\ Go("done")
    /\ UNCHANGED <<turn, result, found, covered, failed, attempted, raised, attested,
                   database, scanned, temps>>

Down == /\ at = "finally" /\ attempted
        /\ \/ project' = "none" /\ Finish("PASS")
           \/ project' \in {project, "none"} /\ Finish("FAIL")
NothingUp == at = "finally" /\ ~attempted /\ Finish("NOT_NEEDED") /\ UNCHANGED project

(* The temporary a step works on.                                          *)
Touched == CASE at \in {"write", "unlink"} -> {"requirements"}
             [] at \in {"mkdir", "rmdir"}  -> {"cache"}
             [] OTHER                      -> {}

(* An exception that is no Exception.  What the interrupted step made may  *)
(* or may not be there.                                                    *)
Interrupt ==
    /\ at # "done" /\ raised' = TRUE
    /\ at' = CASE at \in {"write", "mkdir", "audit"} \/ (Running /\ gate = "pip_audit") -> "unlink"
               [] at = "finally" -> "done"
               [] OTHER          -> "finally"
    /\ verdict' = (IF at = "finally" THEN "no report" ELSE "")
    /\ temps' \in {temps, temps \union Touched, temps \ Touched}
    /\ attempted' = (attempted \/ (Running /\ gate = "compose_start"))
    /\ IF Running /\ gate = "compose_start" THEN ComposeUp(FALSE) ELSE UNCHANGED project
    /\ UNCHANGED <<result, records, attested, database, scanned>>

Done == at = "done" /\ UNCHANGED vars

Step == \/ Skip \/ Run \/ ComposeStart \/ Ps \/ Inspect
        \/ Export \/ WriteRequirements \/ CreateCache \/ Audit \/ Unlink \/ RemoveCache
        \/ Digest \/ Scan \/ Redigest \/ Down \/ NothingUp
Next == Step \/ Interrupt \/ Update \/ Done

Spec == Init /\ [][Next]_vars /\ WF_vars(Step)

-----------------------------------------------------------------------------
(* What final_once.py accepts as a report.                                 *)

Failures == {i \in 1..Last : gates[GATE_ORDER[i]] = "FAIL"}
Ran == {"PASS", "FAIL"}
ValidReport ==
    /\ \A g \in Gates : gates[g] \in Ran \union {"NOT_RUN", "NOT_NEEDED"}
    /\ verdict = "PASSED" => /\ \A g \in Gates : gates[g] = "PASS"
                             /\ covered
                             /\ \A s \in Scanners : found[s] = "clean"
    /\ verdict = "HONEST_NEGATIVE" => Failures # {}
    /\ Failures # {} =>
          LET first == Min(Failures)
          IN  /\ \A i \in 1..(first - 1) : gates[GATE_ORDER[i]] = "PASS"
              /\ \A i \in (first + 1)..(Last - 1) : gates[GATE_ORDER[i]] = "NOT_RUN"
              /\ IF first < 9 THEN gates["compose_cleanup"] = "NOT_NEEDED"
                              ELSE gates["compose_cleanup"] \in Ran

-----------------------------------------------------------------------------
(* Properties.                                                             *)

(* Types, for run_gates (final_runner.py).                                 *)
Labels == {"gate", "write", "mkdir", "audit", "unlink", "rmdir", "scan", "redigest",
           "inspect", "finally", "done"}
TypeOK ==
    /\ turn \in 1..Last /\ at \in Labels /\ result \in Results
    /\ gates \in [Gates -> {"", "PASS", "FAIL", "NOT_RUN", "NOT_NEEDED"}]
    /\ found \in [Scanners -> {"clean", "findings", "invalid"}] /\ covered \in BOOLEAN
    /\ failed \in BOOLEAN /\ attempted \in BOOLEAN /\ raised \in BOOLEAN
    /\ verdict \in {"", "PASSED", "HONEST_NEGATIVE", "no report"}
    /\ attested \in BOOLEAN /\ database \in {"frozen", "changed"}
    /\ scanned \in [Trivy -> {"", "frozen", "changed"}]
    /\ temps \subseteq {"requirements", "cache"} /\ project \in Ups \union {"none"}

(* Whatever the commands do, a report that is made passes the check of     *)
(* final_once.py: run_gates and _valid_report agree about every path, so   *)
(* no finished run is turned into INTERNAL_ERROR.                          *)
ReportAccepted == verdict \in {"PASSED", "HONEST_NEGATIVE"} => ValidReport

(* When the run has ended, containers and temporaries are gone, or the     *)
(* gate that should have removed them is reported as failed, or there is   *)
(* no report at all (the `finally` blocks of run_gates).                   *)
LeftoverTold ==
    verdict \in {"PASSED", "HONEST_NEGATIVE"} =>
        /\ project # "none" => gates["compose_cleanup"] = "FAIL"
        /\ temps # {} => gates["pip_audit"] = "FAIL"

(* A trivy gate passes only with the scan of the frozen database, even     *)
(* when the database is replaced around the scan (the two digests).        *)
ScansFrozen == \A g \in Trivy : attested /\ gates[g] = "PASS" => scanned[g] = "frozen"

(* The tests run only against a container of the frozen image (the gate    *)
(* image_identity stands between compose_start and pytest_coverage).       *)
TestsFrozen == at = "gate" /\ ~failed /\ gate = "pytest_coverage" => project = "frozen"

(* Every command has a timeout and nothing is retried: the run ends.       *)
Ends == <>(at = "done")

=============================================================================
