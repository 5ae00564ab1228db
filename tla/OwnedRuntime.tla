------------------------------ MODULE OwnedRuntime ------------------------------
(***************************************************************************)
(* One rehearsal as the control-room adapter runs it                       *)
(* (src/src/migration_rehearsal/control_room_adapter.py, run_rehearsal to  *)
(* the receipt, and record_delivery_failure): a Compose project of its     *)
(* own, under the engine lock, removed and accounted for whatever fails.   *)
(* A step is one docker command, one file operation or one wait.           *)
(*                                                                         *)
(* A run is named by the request that asks for it; its nonce is its own,   *)
(* and so is its server process: within one process the run slot keeps     *)
(* runs apart (ControlRoomHttp), between processes the engine lock.  What  *)
(* a run creates is told apart as its network, its container and anything  *)
(* else that carries its project's label.                                  *)
(***************************************************************************)
CONSTANTS Requests,  \* requests that ask for a run, each in a process
          None       \* a model value

(* What a receipt may say.                                                 *)
Delivery == {"client_disconnected", "response_write_failed"}
States == {"complete", "not_needed", "blocked_identity_drift"}
Reasons == {"success", "preflight_rejected", "spawn_failed", "engine_error",
            "engine_timeout", "identity_drift"} \union Delivery
Jobs == [state : States, reason : Reasons]
Receipts == [nonce : Requests, said : Jobs]

ASSUME NoneAssumption == None \notin Requests \union Receipts

Things == {"network", "container", "stray"}
Exact == {"network", "container"}

VARIABLES at,        \* run |-> what its thread does next
          holder,    \* who holds the flock of engine.lock
          receipt,   \* last-cleanup.json
          temp,      \* whether last-cleanup.tmp exists
          present,   \* run |-> the resources labelled with its project
          late,      \* run |-> what the daemon still creates for a killed `up`
          recorded,  \* run |-> the last list of resources it has relied on
          job,       \* run |-> what its receipt is to say
          answer,    \* run |-> the status line of its answer
          drifted,   \* whether, and when, somebody else touched a run's project
          confirmed  \* observed: the runs whose receipt has said success

disk == <<receipt, temp, confirmed>>
docker == <<present, late, drifted>>
runs == <<recorded, job>>
vars == <<at, holder, answer, disk, docker, runs>>

Job(state, reason) == [state |-> state, reason |-> reason]

Init == /\ at = [r \in Requests |-> "load"] /\ holder = None
        /\ receipt = None /\ temp = FALSE /\ confirmed = {}
        /\ present = [r \in Requests |-> {}] /\ late = [r \in Requests |-> {}]
        /\ drifted = "no"
        /\ recorded = [r \in Requests |-> {}]
        /\ job = [r \in Requests |-> Job("not_needed", "preflight_rejected")]
        /\ answer = [r \in Requests |-> "none"]

Goes(r, from, to) == at[r] = from /\ at' = [at EXCEPT ![r] = to]

(* What the finally block is to write, ...                                 *)
WillWrite(r, state, reason) == job' = [job EXCEPT ![r] = Job(state, reason)]
Keeps(r, reason) == job' = [job EXCEPT ![r].reason = reason]
(* ... or a command of it fails, and then no receipt is written at all.    *)
Escapes(r, from) == /\ Goes(r, from, "raised") /\ holder' = None
                    /\ UNCHANGED <<answer, disk, docker, runs>>

(* A step that looks at the daemon and changes nothing there.              *)
Quiet == UNCHANGED <<holder, answer, disk, docker>>

-----------------------------------------------------------------------------
(* run_rehearsal up to the child.                                          *)

(* load_scenarios: the tracked fixture is what it was, or RuntimeError.    *)
(* (FixtureValidationError is for a scenario no request brings here.)      *)
Load(r) == /\ Goes(r, "load", "flock") \/ Goes(r, "load", "raised")
           /\ Quiet /\ UNCHANGED runs

(* The directory or the lock file may be refused.                          *)
Flock(r) == /\ \/ Goes(r, "flock", "verify") /\ holder = None /\ holder' = r
               \/ Goes(r, "flock", "busy") /\ holder # None /\ UNCHANGED holder
               \/ Goes(r, "flock", "raised") /\ UNCHANGED holder
            /\ UNCHANGED <<answer, disk, docker, runs>>

(* _verify_local_runtime, and no resource has the project's label yet.     *)
Verify(r) ==
    /\ \/ Goes(r, "verify", "up") /\ present[r] = {} /\ Keeps(r, "spawn_failed")
       \/ /\ Goes(r, "verify", "write")
          /\ WillWrite(r, "not_needed", "preflight_rejected")
    /\ Quiet /\ UNCHANGED recorded

(* `up` creates the network, then the container, or fails or is killed     *)
(* before, and then the daemon may still complete it.                      *)
Up(r) ==
    /\ \/ /\ Goes(r, "up", "list")
          /\ present' = [present EXCEPT ![r] = @ \union Exact] /\ UNCHANGED late
       \/ /\ Goes(r, "up", "partial")
          /\ \E now \in {{}, {"network"}, Exact} : \E soon \in {{}, Exact \ now} :
                /\ present' = [present EXCEPT ![r] = @ \union now]
                /\ late' = [late EXCEPT ![r] = soon]
    /\ UNCHANGED <<holder, answer, disk, drifted, runs>>

(* The ownership snapshot.  An inventory, here and in Partial, Compare and *)
(* Recheck, is three commands in a row (_resource_ids) and one step of the *)
(* model: what comes while they run counts as before or after all three.   *)
List(r) ==
    /\ \/ /\ Goes(r, "list", IF present[r] = {} THEN "partial" ELSE "inspect")
          /\ recorded' = [recorded EXCEPT ![r] = present[r]]
       \/ Goes(r, "list", "partial") /\ UNCHANGED recorded
    /\ Quiet /\ UNCHANGED job

(* _started_runtime takes exactly one network and one container, as they   *)
(* were asked for; an inspection may also fail.                            *)
Identical(r) == recorded[r] = Exact /\ Exact \subseteq present[r]
Inspect(r) ==
    /\ (Goes(r, "inspect", "relay") /\ Identical(r)) \/ Goes(r, "inspect", "partial")
    /\ Quiet /\ UNCHANGED runs

(* The relay compares the whole set again before it probes.                *)
StartRelay(r) ==
    /\ \/ /\ Goes(r, "relay", "child") /\ Identical(r) /\ present[r] = recorded[r]
          /\ Keeps(r, "engine_error")
       \/ Goes(r, "relay", "compare") /\ UNCHANGED job
    /\ Quiet /\ UNCHANGED recorded

(* Mutant: the exit of a killed child is taken for its reason.             *)
Child_ExitAsReason(r) ==
    \E reason \in {"success", "spawn_failed", "engine_error", "signal"} :
       /\ Goes(r, "child", IF reason = "success" THEN "health" ELSE "compare")
       /\ IF reason = "success" THEN UNCHANGED job ELSE Keeps(r, reason)
       /\ Quiet /\ UNCHANGED recorded
(* _run_child.  A child that does not start, or whose evidence is refused, *)
(* leaves the reason of one that was never started.                        *)
Child(r) ==
    \E reason \in {"success", "spawn_failed", "engine_error", "engine_timeout"} :
       /\ Goes(r, "child", IF reason = "success" THEN "health" ELSE "compare")
       /\ IF reason = "success" THEN UNCHANGED job ELSE Keeps(r, reason)
       /\ Quiet /\ UNCHANGED recorded

(* relay.assert_healthy and assert_destination_observed.                   *)
Health(r) == /\ Goes(r, "health", "compare")
             /\ Keeps(r, "success") \/ UNCHANGED job
             /\ Quiet /\ UNCHANGED recorded

-----------------------------------------------------------------------------
(* The finally block, with the relay closed.                               *)

Blocked(r, from) == /\ Goes(r, from, "write")
                    /\ WillWrite(r, "blocked_identity_drift", "identity_drift")

(* Mutant: the snapshot is not compared again.                             *)
Compare_Trusting(r) ==
    \/ Goes(r, "compare", "down") /\ Quiet /\ UNCHANGED runs
    \/ Escapes(r, "compare")
(* A started run removes its project only if it is what was recorded.      *)
Compare(r) ==
    \/ /\ \/ Goes(r, "compare", "down") /\ present[r] = recorded[r] /\ UNCHANGED job
          \/ Blocked(r, "compare") /\ present[r] # recorded[r]
       /\ Quiet /\ UNCHANGED recorded
    \/ Escapes(r, "compare")

(* A run that did not start looks for what `up` has left.                  *)
Partial(r) ==
    \/ /\ \/ Goes(r, "partial", "check") /\ present[r] # {} /\ UNCHANGED job
          \/ /\ Goes(r, "partial", "write") /\ present[r] = {}
             /\ WillWrite(r, "not_needed", job[r].reason)
       /\ recorded' = [recorded EXCEPT ![r] = present[r]]
       /\ Quiet
    \/ Escapes(r, "partial")
CheckPartial(r) ==
    \/ /\ \/ Goes(r, "check", "down") /\ Identical(r) /\ UNCHANGED job
          \/ Blocked(r, "check")
       /\ Quiet /\ UNCHANGED recorded
    \/ Escapes(r, "check")

Removes(r, leaves) == \E left \in leaves : present' = [present EXCEPT ![r] = left]

(* `down` removes all that carries the label, the containers first; the    *)
(* rest may stay, whether it succeeds or fails.                            *)
Down(r) ==
    \/ /\ Goes(r, "down", "recheck")
       /\ Removes(r, {{}, present[r] \ {"container"}})
       /\ UNCHANGED <<holder, answer, disk, late, drifted, runs>>
    \/ /\ Goes(r, "down", "raised") /\ holder' = None
       /\ Removes(r, {present[r] \ {"container"}, present[r]})
       /\ UNCHANGED <<answer, disk, late, drifted, runs>>

(* Mutant: what is left after `down` is not counted.                       *)
Recheck_Uncounted(r) ==
    \/ /\ Goes(r, "recheck", "write") /\ WillWrite(r, "complete", job[r].reason)
       /\ Quiet /\ UNCHANGED recorded
    \/ Escapes(r, "recheck")
Recheck(r) ==
    \/ /\ \/ /\ Goes(r, "recheck", "write") /\ present[r] = {}
             /\ WillWrite(r, "complete", job[r].reason)
          \/ Blocked(r, "recheck") /\ present[r] # {}
       /\ Quiet /\ UNCHANGED recorded
    \/ Escapes(r, "recheck")

-----------------------------------------------------------------------------
(* _cleanup_receipt, for a run and for a failed delivery.                  *)

AsJson(r) == [nonce |-> r, said |-> job[r]]

Success == Job("complete", "success")
After(r) == CASE job[r].reason \in Delivery -> "answered"
              [] job[r] = Success -> "result"
              [] OTHER -> "raised"
Without(r) == IF job[r].reason \in Delivery THEN "answered" ELSE "raised"

(* The temporary file is created exclusively; one left by a killed writer  *)
(* refuses every later receipt.                                            *)
OpenTemp(r) ==
    /\ \/ Goes(r, "write", "replace") /\ ~temp /\ temp' = TRUE /\ UNCHANGED holder
       \/ Goes(r, "write", Without(r)) /\ holder' = None /\ UNCHANGED temp
    /\ UNCHANGED <<receipt, confirmed, answer, docker, runs>>

(* Mutant: the lock is kept until the answer is sent.                      *)
Replace_KeepsLock(r) ==
    /\ \/ /\ Goes(r, "replace", After(r)) \/ Goes(r, "replace", Without(r))
          /\ receipt' = AsJson(r) /\ temp' = FALSE
          /\ confirmed' = (IF job[r] = Success THEN confirmed \union {r} ELSE confirmed)
       \/ Goes(r, "replace", Without(r)) /\ temp' \in BOOLEAN /\ UNCHANGED <<receipt, confirmed>>
    /\ holder' = (IF at'[r] = "result" THEN holder ELSE None)
    /\ UNCHANGED <<answer, docker, runs>>
(* Write, fsync and rename; or one fails and the temporary file is removed *)
(* (if that works); or the directory's fsync fails when the receipt is     *)
(* there already.  The lock goes with the file.                            *)
Replace(r) ==
    /\ \/ /\ Goes(r, "replace", After(r)) \/ Goes(r, "replace", Without(r))
          /\ receipt' = AsJson(r) /\ temp' = FALSE
          /\ confirmed' = (IF job[r] = Success THEN confirmed \union {r} ELSE confirmed)
       \/ Goes(r, "replace", Without(r)) /\ temp' \in BOOLEAN /\ UNCHANGED <<receipt, confirmed>>
    /\ holder' = None
    /\ UNCHANGED <<answer, docker, runs>>

-----------------------------------------------------------------------------
(* record_delivery_failure.                                                *)

(* The directory or the lock file may be refused; the lock is waited for.  *)
Deliver(r) == /\ Goes(r, "deliver", "await") \/ Goes(r, "deliver", "answered")
              /\ UNCHANGED <<holder, answer, disk, docker, runs>>
Await(r) == /\ Goes(r, "await", "match") /\ holder = None /\ holder' = r
            /\ UNCHANGED <<answer, disk, docker, runs>>

OwnSuccess(r) == [nonce |-> r, said |-> Success]

(* Mutant: the nonce of the receipt is not compared.                       *)
Match_AnyNonce(r) ==
    /\ \/ /\ Goes(r, "match", "write")
          /\ receipt # None /\ receipt.said = Success
          /\ \E why \in Delivery : WillWrite(r, "complete", why)
          /\ UNCHANGED holder
       \/ /\ Goes(r, "match", "answered") /\ (receipt = None \/ receipt.said # Success)
          /\ holder' = None /\ UNCHANGED job
    /\ UNCHANGED <<answer, disk, docker, recorded>>
(* Only the run's own success is replaced; anything else raises.           *)
Match(r) ==
    /\ \/ /\ Goes(r, "match", "write") /\ receipt = OwnSuccess(r)
          /\ \E why \in Delivery : WillWrite(r, "complete", why)
          /\ UNCHANGED holder
       \/ /\ Goes(r, "match", "answered") /\ receipt # OwnSuccess(r)
          /\ holder' = None /\ UNCHANGED job
    /\ UNCHANGED <<answer, disk, docker, recorded>>

-----------------------------------------------------------------------------
(* The request's thread, with what run_rehearsal returns or raises.        *)

(* EngineBusyError, and any other exception; "not_needed" is in each of    *)
(* these answers.                                                          *)
Reject(r) == /\ \/ Goes(r, "busy", "answered") /\ answer' = [answer EXCEPT ![r] = "503"]
                \/ Goes(r, "raised", "answered") /\ answer' = [answer EXCEPT ![r] = "500"]
             /\ UNCHANGED <<holder, disk, docker, runs>>

(* Mutant: a run whose clean-up raised is answered like one that did not.  *)
Send_Raised(r) == /\ \/ Goes(r, "result", "answered") \/ Goes(r, "result", "deliver")
                     \/ Goes(r, "raised", "answered")
                  /\ answer' = [answer EXCEPT ![r] = "200"]
                  /\ UNCHANGED <<holder, disk, docker, runs>>
(* The result is sent, or cannot be.                                       *)
Send(r) == /\ Goes(r, "result", "answered") \/ Goes(r, "result", "deliver")
           /\ answer' = [answer EXCEPT ![r] = "200"]
           /\ UNCHANGED <<holder, disk, docker, runs>>

Run(r) == \/ Load(r) \/ Flock(r) \/ Verify(r) \/ Up(r) \/ List(r) \/ Inspect(r)
          \/ StartRelay(r) \/ Child(r) \/ Health(r)
          \/ Compare(r) \/ Partial(r) \/ CheckPartial(r) \/ Down(r) \/ Recheck(r)
          \/ OpenTemp(r) \/ Replace(r)
          \/ Reject(r) \/ Send(r) \/ Deliver(r) \/ Await(r) \/ Match(r)

-----------------------------------------------------------------------------
(* The daemon completes what a killed `up` had begun.                      *)
Late(r) == /\ late[r] # {}
           /\ present' = [present EXCEPT ![r] = @ \union late[r]]
           /\ late' = [late EXCEPT ![r] = {}]
           /\ UNCHANGED <<at, holder, answer, disk, drifted, runs>>

(* Bound: once, somebody else removes or replaces something of the project *)
(* of a run that is past the lock, or adds to it.                          *)
Drift(r) ==
    /\ drifted = "no"
    /\ drifted' = (IF at[r] \in {"check", "down"} THEN "late" ELSE "early")
    /\ holder = r /\ at[r] \notin {"write", "replace", "match"}
    /\ \E there \in SUBSET (present[r] \union {"stray"}) :
          /\ there # present[r] /\ present' = [present EXCEPT ![r] = there]
    /\ UNCHANGED <<at, holder, answer, disk, late, runs>>

(* The process of a run is killed: its lock goes, its files and what the   *)
(* daemon keeps stay.                                                      *)
Kill(r) == /\ at[r] # "answered" /\ at' = [at EXCEPT ![r] = "killed"]
           /\ holder' = (IF holder = r THEN None ELSE holder)
           /\ UNCHANGED <<answer, disk, docker, runs>>

Over == (\A r \in Requests : at[r] \in {"answered", "killed"}) /\ UNCHANGED vars

Next == (\E r \in Requests : Run(r) \/ Late(r) \/ Drift(r) \/ Kill(r)) \/ Over

Spec == Init /\ [][Next]_vars

(* Every command has a timeout, and the operating system runs each thread. *)
FairSpec == Spec /\ \A r \in Requests : WF_vars(Run(r))

-----------------------------------------------------------------------------
(* Properties.                                                             *)

Places == {"load", "flock", "verify", "up", "list", "inspect", "relay", "child", "health",
           "compare", "partial", "check", "down", "recheck", "write", "replace", "raised",
           "busy", "result", "deliver", "await", "match", "answered", "killed"}

(* Types, for _cleanup_receipt's check of its values and the rest.         *)
TypeOK ==
    /\ at \in [Requests -> Places] /\ holder \in Requests \union {None}
    /\ receipt \in Receipts \union {None}
    /\ temp \in BOOLEAN /\ drifted \in {"no", "early", "late"} /\ confirmed \subseteq Requests
    /\ present \in [Requests -> SUBSET Things] /\ late \in [Requests -> SUBSET Exact]
    /\ recorded \in [Requests -> SUBSET Things] /\ job \in [Requests -> Jobs]
    /\ answer \in [Requests -> {"none", "200", "500", "503"}]

(* A receipt that says "complete" or "not_needed" is true for ever of all  *)
(* that its run had recorded, whichever command failed and whoever touched *)
(* the project meanwhile (adapter.py:863-943).                             *)
Clean(r) == present[r] \intersect recorded[r] = {}
ReceiptHonest ==
    receipt # None /\ receipt.said.state # "blocked_identity_drift" => Clean(receipt.nonce)

(* Success is answered only by a run whose receipt has said so and that    *)
(* has removed what it recorded (adapter.py:861-944, http.py:497).         *)
AnswerHonest == \A r \in Requests : answer[r] = "200" => r \in confirmed /\ Clean(r)

(* What somebody else has added to a project is never removed with it,     *)
(* unless it came after the last comparison, which is one step here and    *)
(* lasts three commands (adapter.py:352-362, 867-881, 897-913).            *)
RemovesOnlyOwn ==
    \A r \in Requests : at[r] = "down" /\ "stray" \in present[r]
                          => drifted = "late"

(* A failed delivery replaces the receipt of its own run and no newer one  *)
(* ("Replace only the matching successful receipt", adapter.py:704).       *)
DeliveryKeepsNewer ==
    [][receipt' # receipt /\ receipt'.said.reason \in Delivery
          => receipt = OwnSuccess(receipt'.nonce)]_vars

(* Every request is answered unless its process is killed, whether or not  *)
(* it has to wait for the lock to record a failed delivery.                *)
RequestsEnd == \A r \in Requests : <>(at[r] \in {"answered", "killed"})

(* What the answer says of the clean-up ("No database operation started.", *)
(* web/control-room/app.js:338, for "not_needed"): no resource is left.    *)
NothingStarted == \A r \in Requests : answer[r] = "500" => present[r] = {}

=============================================================================
