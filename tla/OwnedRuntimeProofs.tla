--------------------------- MODULE OwnedRuntimeProofs ---------------------------
(***************************************************************************)
(* What OwnedRuntime guarantees for any number of runs and processes:      *)
(* receipts and answers say the truth of the clean-up, a failed delivery   *)
(* replaces no newer receipt, and nobody else's resource is removed.       *)
(***************************************************************************)
EXTENDS OwnedRuntime, TLAPS

(* Before `up`, under the engine lock, and after the run.                  *)
Early == {"load", "flock", "busy", "verify", "up"}
Held == {"verify", "up", "list", "inspect", "relay", "child", "health", "compare", "partial",
         "check", "down", "recheck", "write", "replace", "match"}
Done == {"write", "replace", "result", "deliver", "await", "match", "raised", "answered",
         "killed"}
Unclean == "blocked_identity_drift"

(* The flock: whoever is past it holds it.                                 *)
HolderInv == \A r \in Requests : holder = r <=> at[r] \in Held

(* Only a failed delivery plans a receipt that says so.                    *)
JobInv == \A r \in Requests : at[r] \notin Done => job[r].reason \notin Delivery

(* What the daemon still creates is neither there nor recorded, and a run  *)
(* that started has recorded exactly its network and its container.        *)
DockerInv ==
    \A r \in Requests :
       /\ present[r] \intersect late[r] = {} /\ recorded[r] \intersect late[r] = {}
       /\ at[r] \in Early => present[r] \subseteq {"stray"} /\ late[r] = {} /\ recorded[r] = {}
       /\ at[r] \in {"relay", "child", "health", "compare"} => recorded[r] = Exact

(* A stray among what is compared or removed came after the last look.     *)
StrayInv ==
    \A r \in Requests :
       /\ at[r] = "check" /\ "stray" \in present[r] => "stray" \in recorded[r] \/ drifted = "late"
       /\ at[r] = "down" /\ "stray" \in present[r] => drifted = "late"

(* A planned receipt is true, and that of a failed delivery replaces its   *)
(* own run's.                                                              *)
WriteInv ==
    \A r \in Requests : at[r] \in {"write", "replace"} =>
       /\ job[r].state # Unclean => Clean(r)
       /\ job[r].reason \in Delivery => receipt = OwnSuccess(r)

(* The receipt is of a run that is over, and true.                         *)
ReceiptInv == receipt # None => at[receipt.nonce] \in Done /\ ReceiptHonest

(* So is a success that has been confirmed, and only such ones are sent.   *)
ConfirmedInv ==
    \A r \in Requests :
       /\ r \in confirmed => at[r] \in Done /\ Clean(r)
       /\ at[r] = "result" \/ answer[r] = "200" => r \in confirmed

(* The inductive invariant.                                                *)
IInv == /\ TypeOK /\ HolderInv /\ JobInv /\ DockerInv /\ StrayInv
        /\ WriteInv /\ ReceiptInv /\ ConfirmedInv

LEMMA InitIInv == Init => IInv
<1> SUFFICES ASSUME Init PROVE IInv
    OBVIOUS
<1> USE NoneAssumption DEF Init
<1>1. TypeOK BY DEF TypeOK, Places, Jobs, Job, States, Reasons
<1>2. HolderInv BY DEF HolderInv, Held
<1>3. JobInv BY DEF JobInv, Job, Delivery
<1>4. DockerInv BY DEF DockerInv
<1>5. StrayInv BY DEF StrayInv
<1>6. WriteInv BY DEF WriteInv
<1>7. ReceiptInv BY DEF ReceiptInv
<1>8. ConfirmedInv BY DEF ConfirmedInv
<1> QED BY <1>1, <1>2, <1>3, <1>4, <1>5, <1>6, <1>7, <1>8 DEF IInv

-----------------------------------------------------------------------------
(* Where a receipt's writer goes on.                                       *)

LEMMA AfterReceipt ==
    ASSUME NEW r \in Requests
    PROVE  /\ After(r) \in {"answered", "result", "raised"}
           /\ After(r) = "result" => job[r] = Success
           /\ Without(r) \in {"answered", "raised"}
<1>1. CASE job[r].reason \in Delivery BY <1>1 DEF After, Without
<1>2. CASE job[r].reason \notin Delivery /\ job[r] = Success
      BY <1>2 DEF After, Without
<1>3. CASE job[r].reason \notin Delivery /\ job[r] # Success
      BY <1>3 DEF After, Without
<1> QED BY <1>1, <1>2, <1>3

LEMMA OwnIsTrue ==
    ASSUME ReceiptInv, NEW r \in Requests, receipt = OwnSuccess(r)
    PROVE  Clean(r)
<1>1. OwnSuccess(r).nonce = r /\ OwnSuccess(r).said.state = "complete"
      BY DEF OwnSuccess, Success, Job
<1>2. OwnSuccess(r) \in Receipts
      BY DEF OwnSuccess, Success, Job, Receipts, Jobs, States, Reasons
<1> QED BY <1>1, <1>2, NoneAssumption DEF ReceiptInv, ReceiptHonest

(* What a run plans to write.                                              *)
LEMMA WillWriteJob ==
    ASSUME TypeOK, NEW r \in Requests, NEW s \in States, NEW w \in Reasons, WillWrite(r, s, w)
    PROVE  /\ job' \in [Requests -> Jobs] /\ job'[r].state = s /\ job'[r].reason = w
           /\ \A x \in Requests : x # r => job'[x] = job[x]
BY DEF TypeOK, WillWrite, Job, Jobs

LEMMA KeepsJob ==
    ASSUME TypeOK, NEW r \in Requests, NEW w \in Reasons, Keeps(r, w)
    PROVE  /\ job' \in [Requests -> Jobs] /\ job'[r].reason = w
           /\ \A x \in Requests : x # r => job'[x] = job[x]
<1>1. job[r] \in Jobs BY DEF TypeOK
<1>2. [job[r] EXCEPT !.reason = w] \in Jobs BY <1>1 DEF Jobs
<1> QED BY <1>2 DEF TypeOK, Keeps, Jobs

-----------------------------------------------------------------------------
(* run_rehearsal up to the child.                                          *)

LEMMA LoadStep ==
    ASSUME IInv, NEW r \in Requests, Load(r)
    PROVE  IInv'
<1> USE NoneAssumption DEF IInv
<1>1. TypeOK' BY DEF Load, Goes, Quiet, disk, docker, runs, TypeOK, Places
<1>2. HolderInv' BY DEF Load, Goes, Quiet, TypeOK, HolderInv, Held
<1>3. JobInv' BY DEF Load, Goes, runs, TypeOK, JobInv, Done
<1>4. DockerInv' BY DEF Load, Goes, Quiet, docker, runs, TypeOK, DockerInv, Early
<1>5. StrayInv' BY DEF Load, Goes, Quiet, docker, runs, TypeOK, StrayInv
<1>6. WriteInv'
      BY DEF Load, Goes, Quiet, disk, docker, runs, TypeOK, WriteInv, Clean
<1>7. ReceiptInv'
      BY DEF Load, Goes, Quiet, disk, docker, runs, TypeOK, Receipts, ReceiptInv,
             Done, ReceiptHonest, Clean
<1>8. ConfirmedInv'
      BY DEF Load, Goes, Quiet, disk, docker, runs, TypeOK, ConfirmedInv, Done,
             Clean
<1> QED BY <1>1, <1>2, <1>3, <1>4, <1>5, <1>6, <1>7, <1>8

LEMMA FlockStep ==
    ASSUME IInv, NEW r \in Requests, Flock(r)
    PROVE  IInv'
<1> USE NoneAssumption DEF IInv
<1>1. TypeOK' BY DEF Flock, Goes, disk, docker, runs, TypeOK, Places
<1>2. HolderInv' BY DEF Flock, Goes, TypeOK, HolderInv, Held
<1>3. JobInv' BY DEF Flock, Goes, runs, TypeOK, JobInv, Done
<1>4. DockerInv' BY DEF Flock, Goes, docker, runs, TypeOK, DockerInv, Early
<1>5. StrayInv' BY DEF Flock, Goes, docker, runs, TypeOK, StrayInv
<1>6. WriteInv' BY DEF Flock, Goes, disk, docker, runs, TypeOK, WriteInv, Clean
<1>7. ReceiptInv'
      BY DEF Flock, Goes, disk, docker, runs, TypeOK, Receipts, ReceiptInv, Done,
             ReceiptHonest, Clean
<1>8. ConfirmedInv'
      BY DEF Flock, Goes, disk, docker, runs, TypeOK, ConfirmedInv, Done, Clean
<1> QED BY <1>1, <1>2, <1>3, <1>4, <1>5, <1>6, <1>7, <1>8

LEMMA VerifyStep ==
    ASSUME IInv, NEW r \in Requests, Verify(r)
    PROVE  IInv'
<1> USE NoneAssumption DEF IInv
<1>0. /\ job' \in [Requests -> Jobs] /\ \A x \in Requests : x # r => job'[x] = job[x]
      /\ \/ at'[r] = "up" /\ job'[r].reason = "spawn_failed"
         \/ at'[r] = "write" /\ job'[r].state = "not_needed" /\ job'[r].reason = "preflight_rejected"
      BY WillWriteJob, KeepsJob DEF Verify, Goes, TypeOK, States, Reasons
<1>1. TypeOK'
  <2>1. at' \in [Requests -> Places] BY <1>0 DEF Verify, Goes, TypeOK, Places
  <2>2. job' \in [Requests -> Jobs] BY <1>0
  <2>3. present' \in [Requests -> SUBSET Things] /\ late' \in [Requests -> SUBSET Exact]
        BY <1>0 DEF Verify, Quiet, docker, TypeOK
  <2>4. recorded' \in [Requests -> SUBSET Things]
        BY <1>0 DEF Verify, TypeOK
  <2>5. holder' \in Requests \union {None} /\ answer' = answer /\ drifted' = drifted
        BY <1>0 DEF Verify, Quiet, docker, TypeOK
  <2>6. receipt' \in Receipts \union {None} /\ temp' \in BOOLEAN
        /\ confirmed' \subseteq Requests
        BY <1>0 DEF Verify, Quiet, disk, TypeOK
  <2> QED BY <2>1, <2>2, <2>3, <2>4, <2>5, <2>6 DEF TypeOK
<1>2. HolderInv' BY DEF Verify, Goes, Quiet, TypeOK, HolderInv, Held
<1>3. JobInv' BY <1>0 DEF Verify, Goes, TypeOK, JobInv, Delivery
<1>4. DockerInv' BY DEF Verify, Goes, Quiet, docker, TypeOK, DockerInv, Early
<1>5. StrayInv' BY DEF Verify, Goes, Quiet, docker, TypeOK, StrayInv
<1>6. WriteInv'
  <2>1. \A x \in Requests : at'[x] \in {"write", "replace"} => x = r
        BY DEF Verify, Goes, TypeOK, HolderInv, Held
  <2>2. CASE at'[r] \in {"write", "replace"}
    <3>1. job'[r].state # Unclean => present'[r] \intersect recorded'[r] = {}
          BY <2>2, <1>0 DEF Verify, Goes, DockerInv, Early
    <3>2. job'[r].reason \in Delivery => receipt' = OwnSuccess(r)
          BY <2>2, <1>0 DEF Delivery
    <3> QED BY <2>1, <3>1, <3>2 DEF WriteInv, Clean
  <2> QED BY <2>1, <2>2 DEF WriteInv
<1>7. ReceiptInv'
      BY DEF Verify, Goes, Quiet, disk, docker, TypeOK, Receipts, ReceiptInv, Done,
             ReceiptHonest, Clean
<1>8. ConfirmedInv'
      BY DEF Verify, Goes, Quiet, disk, docker, TypeOK, ConfirmedInv, Done, Clean
<1> QED BY <1>1, <1>2, <1>3, <1>4, <1>5, <1>6, <1>7, <1>8

LEMMA UpStep ==
    ASSUME IInv, NEW r \in Requests, Up(r)
    PROVE  IInv'
<1> USE NoneAssumption DEF IInv
<1>1. TypeOK'
  <2>1. at' \in [Requests -> Places] BY DEF Up, Goes, TypeOK, Places
  <2>2. job' \in [Requests -> Jobs] BY DEF Up, runs, TypeOK
  <2>3. present' \in [Requests -> SUBSET Things] /\ late' \in [Requests -> SUBSET Exact]
        BY DEF Up, TypeOK, Things, Exact
  <2>4. recorded' \in [Requests -> SUBSET Things]
        BY DEF Up, runs, TypeOK
  <2>5. holder' \in Requests \union {None} /\ answer' = answer /\ drifted' = drifted
        BY DEF Up, TypeOK
  <2>6. receipt' \in Receipts \union {None} /\ temp' \in BOOLEAN
        /\ confirmed' \subseteq Requests
        BY DEF Up, disk, TypeOK
  <2> QED BY <2>1, <2>2, <2>3, <2>4, <2>5, <2>6 DEF TypeOK
<1>2. HolderInv' BY DEF Up, Goes, TypeOK, HolderInv, Held
<1>3. JobInv' BY DEF Up, Goes, runs, TypeOK, JobInv, Done
<1>4. DockerInv' BY DEF Up, Goes, runs, TypeOK, DockerInv, Early, Exact
<1>5. StrayInv' BY DEF Up, Goes, runs, TypeOK, StrayInv
<1>6. WriteInv' BY DEF Up, Goes, TypeOK, WriteInv, HolderInv, Held
<1>7. ReceiptInv'
      BY DEF Up, Goes, disk, runs, TypeOK, Receipts, ReceiptInv, Done,
             ReceiptHonest, Clean
<1>8. ConfirmedInv' BY DEF Up, Goes, disk, runs, TypeOK, ConfirmedInv, Done, Clean
<1> QED BY <1>1, <1>2, <1>3, <1>4, <1>5, <1>6, <1>7, <1>8

LEMMA ListStep ==
    ASSUME IInv, NEW r \in Requests, List(r)
    PROVE  IInv'
<1> USE NoneAssumption DEF IInv
<1>1. TypeOK'
  <2>1. at' \in [Requests -> Places] BY DEF List, Goes, TypeOK, Places
  <2>2. job' \in [Requests -> Jobs] BY DEF List, TypeOK
  <2>3. present' \in [Requests -> SUBSET Things] /\ late' \in [Requests -> SUBSET Exact]
        BY DEF List, Quiet, docker, TypeOK
  <2>4. recorded' \in [Requests -> SUBSET Things]
        BY DEF List, TypeOK
  <2>5. holder' \in Requests \union {None} /\ answer' = answer /\ drifted' = drifted
        BY DEF List, Quiet, docker, TypeOK
  <2>6. receipt' \in Receipts \union {None} /\ temp' \in BOOLEAN
        /\ confirmed' \subseteq Requests
        BY DEF List, Quiet, disk, TypeOK
  <2> QED BY <2>1, <2>2, <2>3, <2>4, <2>5, <2>6 DEF TypeOK
<1>2. HolderInv' BY DEF List, Goes, Quiet, TypeOK, HolderInv, Held
<1>3. JobInv' BY DEF List, Goes, TypeOK, JobInv, Done
<1>4. DockerInv' BY DEF List, Goes, Quiet, docker, TypeOK, DockerInv, Early
<1>5. StrayInv' BY DEF List, Goes, Quiet, docker, TypeOK, StrayInv
<1>6. WriteInv' BY DEF List, Goes, TypeOK, WriteInv, HolderInv, Held
<1>7. ReceiptInv'
      BY DEF List, Goes, Quiet, disk, docker, TypeOK, Receipts, ReceiptInv, Done,
             ReceiptHonest, Clean
<1>8. ConfirmedInv'
      BY DEF List, Goes, Quiet, disk, docker, TypeOK, ConfirmedInv, Done, Clean
<1> QED BY <1>1, <1>2, <1>3, <1>4, <1>5, <1>6, <1>7, <1>8

LEMMA InspectStep ==
    ASSUME IInv, NEW r \in Requests, Inspect(r)
    PROVE  IInv'
<1> USE NoneAssumption DEF IInv
<1>1. TypeOK' BY DEF Inspect, Goes, Quiet, disk, docker, runs, TypeOK, Places
<1>2. HolderInv' BY DEF Inspect, Goes, Quiet, TypeOK, HolderInv, Held
<1>3. JobInv' BY DEF Inspect, Goes, runs, TypeOK, JobInv, Done
<1>4. DockerInv'
      BY DEF Inspect, Identical, Goes, Quiet, docker, runs, TypeOK, DockerInv, Early
<1>5. StrayInv' BY DEF Inspect, Goes, Quiet, docker, runs, TypeOK, StrayInv
<1>6. WriteInv' BY DEF Inspect, Goes, TypeOK, WriteInv, HolderInv, Held
<1>7. ReceiptInv'
      BY DEF Inspect, Goes, Quiet, disk, docker, runs, TypeOK, Receipts, ReceiptInv,
             Done, ReceiptHonest, Clean
<1>8. ConfirmedInv'
      BY DEF Inspect, Goes, Quiet, disk, docker, runs, TypeOK, ConfirmedInv, Done,
             Clean
<1> QED BY <1>1, <1>2, <1>3, <1>4, <1>5, <1>6, <1>7, <1>8

LEMMA StartRelayStep ==
    ASSUME IInv, NEW r \in Requests, StartRelay(r)
    PROVE  IInv'
<1> USE NoneAssumption DEF IInv
<1>0. /\ job' \in [Requests -> Jobs] /\ \A x \in Requests : x # r => job'[x] = job[x]
      /\ \/ at'[r] = "child" /\ job'[r].reason = "engine_error"
         \/ at'[r] = "compare" /\ job'[r] = job[r]
      BY WillWriteJob, KeepsJob DEF StartRelay, Goes, TypeOK, Reasons
<1>1. TypeOK'
  <2>1. at' \in [Requests -> Places] BY <1>0 DEF StartRelay, Goes, TypeOK, Places
  <2>2. job' \in [Requests -> Jobs] BY <1>0
  <2>3. present' \in [Requests -> SUBSET Things] /\ late' \in [Requests -> SUBSET Exact]
        BY <1>0 DEF StartRelay, Quiet, docker, TypeOK
  <2>4. recorded' \in [Requests -> SUBSET Things]
        BY <1>0 DEF StartRelay, TypeOK
  <2>5. holder' \in Requests \union {None} /\ answer' = answer /\ drifted' = drifted
        BY <1>0 DEF StartRelay, Quiet, docker, TypeOK
  <2>6. receipt' \in Receipts \union {None} /\ temp' \in BOOLEAN
        /\ confirmed' \subseteq Requests
        BY <1>0 DEF StartRelay, Quiet, disk, TypeOK
  <2> QED BY <2>1, <2>2, <2>3, <2>4, <2>5, <2>6 DEF TypeOK
<1>2. HolderInv' BY DEF StartRelay, Goes, Quiet, TypeOK, HolderInv, Held
<1>3. JobInv' BY <1>0 DEF StartRelay, Goes, TypeOK, JobInv, Done, Delivery
<1>4. DockerInv' BY DEF StartRelay, Goes, Quiet, docker, TypeOK, DockerInv, Early
<1>5. StrayInv' BY DEF StartRelay, Goes, Quiet, docker, TypeOK, StrayInv
<1>6. WriteInv' BY <1>0 DEF StartRelay, Goes, TypeOK, WriteInv, HolderInv, Held
<1>7. ReceiptInv'
      BY DEF StartRelay, Goes, Quiet, disk, docker, TypeOK, Receipts, ReceiptInv,
             Done, ReceiptHonest, Clean
<1>8. ConfirmedInv'
      BY DEF StartRelay, Goes, Quiet, disk, docker, TypeOK, ConfirmedInv, Done,
             Clean
<1> QED BY <1>1, <1>2, <1>3, <1>4, <1>5, <1>6, <1>7, <1>8

LEMMA ChildStep ==
    ASSUME IInv, NEW r \in Requests, Child(r)
    PROVE  IInv'
<1> USE NoneAssumption DEF IInv
<1>0. /\ job' \in [Requests -> Jobs] /\ \A x \in Requests : x # r => job'[x] = job[x]
      /\ \/ at'[r] = "health" /\ job'[r] = job[r]
         \/ at'[r] = "compare" /\ job'[r].reason \in {"spawn_failed", "engine_error", "engine_timeout"}
      BY WillWriteJob, KeepsJob DEF Child, Goes, TypeOK, Reasons
<1>1. TypeOK'
  <2>1. at' \in [Requests -> Places] BY <1>0 DEF Child, Goes, TypeOK, Places
  <2>2. job' \in [Requests -> Jobs] BY <1>0
  <2>3. present' \in [Requests -> SUBSET Things] /\ late' \in [Requests -> SUBSET Exact]
        BY <1>0 DEF Child, Quiet, docker, TypeOK
  <2>4. recorded' \in [Requests -> SUBSET Things]
        BY <1>0 DEF Child, TypeOK
  <2>5. holder' \in Requests \union {None} /\ answer' = answer /\ drifted' = drifted
        BY <1>0 DEF Child, Quiet, docker, TypeOK
  <2>6. receipt' \in Receipts \union {None} /\ temp' \in BOOLEAN
        /\ confirmed' \subseteq Requests
        BY <1>0 DEF Child, Quiet, disk, TypeOK
  <2> QED BY <2>1, <2>2, <2>3, <2>4, <2>5, <2>6 DEF TypeOK
<1>2. HolderInv' BY DEF Child, Goes, Quiet, HolderInv, Held
<1>3. JobInv' BY <1>0 DEF Child, Goes, JobInv, Done, Delivery
<1>4. DockerInv' BY DEF Child, Goes, Quiet, docker, DockerInv, Early
<1>5. StrayInv' BY DEF Child, Goes, Quiet, docker, StrayInv
<1>6. WriteInv' BY <1>0 DEF Child, Goes, WriteInv, HolderInv, Held
<1>7. ReceiptInv'
      BY DEF Child, Goes, Quiet, disk, docker, ReceiptInv, Done, ReceiptHonest,
             Clean
<1>8. ConfirmedInv'
      BY DEF Child, Goes, Quiet, disk, docker, ConfirmedInv, Done, Clean
<1> QED BY <1>1, <1>2, <1>3, <1>4, <1>5, <1>6, <1>7, <1>8

LEMMA HealthStep ==
    ASSUME IInv, NEW r \in Requests, Health(r)
    PROVE  IInv'
<1> USE NoneAssumption DEF IInv
<1>0. /\ job' \in [Requests -> Jobs] /\ \A x \in Requests : x # r => job'[x] = job[x]
      /\ \/ at'[r] = "compare" /\ job'[r].reason \in {"success", job[r].reason}
      BY WillWriteJob, KeepsJob DEF Health, Goes, TypeOK, Reasons
<1>1. TypeOK'
  <2>1. at' \in [Requests -> Places] BY <1>0 DEF Health, Goes, TypeOK, Places
  <2>2. job' \in [Requests -> Jobs] BY <1>0
  <2>3. present' \in [Requests -> SUBSET Things] /\ late' \in [Requests -> SUBSET Exact]
        BY <1>0 DEF Health, Quiet, docker, TypeOK
  <2>4. recorded' \in [Requests -> SUBSET Things]
        BY <1>0 DEF Health, TypeOK
  <2>5. holder' \in Requests \union {None} /\ answer' = answer /\ drifted' = drifted
        BY <1>0 DEF Health, Quiet, docker, TypeOK
  <2>6. receipt' \in Receipts \union {None} /\ temp' \in BOOLEAN
        /\ confirmed' \subseteq Requests
        BY <1>0 DEF Health, Quiet, disk, TypeOK
  <2> QED BY <2>1, <2>2, <2>3, <2>4, <2>5, <2>6 DEF TypeOK
<1>2. HolderInv' BY DEF Health, Goes, Quiet, HolderInv, Held
<1>3. JobInv' BY <1>0 DEF Health, Goes, JobInv, Done, Delivery
<1>4. DockerInv' BY DEF Health, Goes, Quiet, docker, DockerInv, Early
<1>5. StrayInv' BY DEF Health, Goes, Quiet, docker, StrayInv
<1>6. WriteInv' BY <1>0 DEF Health, Goes, WriteInv, HolderInv, Held
<1>7. ReceiptInv'
      BY DEF Health, Goes, Quiet, disk, docker, ReceiptInv, Done, ReceiptHonest,
             Clean
<1>8. ConfirmedInv'
      BY DEF Health, Goes, Quiet, disk, docker, ConfirmedInv, Done, Clean
<1> QED BY <1>1, <1>2, <1>3, <1>4, <1>5, <1>6, <1>7, <1>8

-----------------------------------------------------------------------------
(* The finally block.                                                      *)

LEMMA CompareStep ==
    ASSUME IInv, NEW r \in Requests, Compare(r)
    PROVE  IInv'
<1> USE NoneAssumption DEF IInv
<1>0. /\ job' \in [Requests -> Jobs] /\ \A x \in Requests : x # r => job'[x] = job[x]
      /\ \/ at'[r] \in {"down", "raised"} /\ job'[r] = job[r]
         \/ at'[r] = "write" /\ job'[r].state = Unclean /\ job'[r].reason = "identity_drift"
  <2>1. CASE Blocked(r, "compare")
    <3>1. WillWrite(r, Unclean, "identity_drift") /\ at'[r] = "write"
          BY <2>1 DEF Blocked, Goes, TypeOK, Unclean
    <3> QED BY <3>1, WillWriteJob DEF States, Reasons, Unclean
  <2>2. CASE at'[r] \in {"down", "raised"} /\ job' = job BY <2>2 DEF TypeOK
  <2> QED BY <2>1, <2>2 DEF Compare, Escapes, Goes, runs, TypeOK
<1>1. TypeOK'
  <2>1. at' \in [Requests -> Places]
        BY <1>0 DEF Compare, Escapes, Blocked, Goes, TypeOK, Places
  <2>2. job' \in [Requests -> Jobs] BY <1>0
  <2>3. present' \in [Requests -> SUBSET Things] /\ late' \in [Requests -> SUBSET Exact]
        BY <1>0 DEF Compare, Escapes, Quiet, docker, TypeOK
  <2>4. recorded' \in [Requests -> SUBSET Things]
        BY <1>0 DEF Compare, Escapes, runs, TypeOK
  <2>5. holder' \in Requests \union {None} /\ answer' = answer /\ drifted' = drifted
        BY <1>0 DEF Compare, Escapes, Quiet, docker, TypeOK
  <2>6. receipt' \in Receipts \union {None} /\ temp' \in BOOLEAN
        /\ confirmed' \subseteq Requests
        BY <1>0 DEF Compare, Escapes, Quiet, disk, TypeOK
  <2> QED BY <2>1, <2>2, <2>3, <2>4, <2>5, <2>6 DEF TypeOK
<1>2. HolderInv'
      BY DEF Compare, Escapes, Blocked, Goes, Quiet, TypeOK, HolderInv, Held
<1>3. JobInv' BY <1>0 DEF Compare, Escapes, Blocked, Goes, TypeOK, JobInv, Done
<1>4. DockerInv'
      BY DEF Compare, Escapes, Blocked, Goes, Quiet, docker, runs, TypeOK,
             DockerInv, Early
<1>5. StrayInv'
      BY DEF Compare, Escapes, Blocked, Goes, Quiet, docker, runs, TypeOK, StrayInv,
             DockerInv, Exact
<1>6. WriteInv'
  <2>1. \A x \in Requests : at'[x] \in {"write", "replace"} => x = r
        BY DEF Compare, Escapes, Blocked, Goes, TypeOK, HolderInv, Held
  <2>2. CASE at'[r] \in {"write", "replace"}
    <3>1. job'[r].state # Unclean => present'[r] \intersect recorded'[r] = {}
          BY <2>2, <1>0 DEF Compare
    <3>2. job'[r].reason \in Delivery => receipt' = OwnSuccess(r)
          BY <2>2, <1>0 DEF Delivery
    <3> QED BY <2>1, <3>1, <3>2 DEF WriteInv, Clean
  <2> QED BY <2>1, <2>2 DEF WriteInv
<1>7. ReceiptInv'
      BY DEF Compare, Escapes, Blocked, Goes, Quiet, disk, docker, runs, TypeOK,
             Receipts, ReceiptInv, Done, ReceiptHonest, Clean
<1>8. ConfirmedInv'
      BY DEF Compare, Escapes, Blocked, Goes, Quiet, disk, docker, runs, TypeOK,
             ConfirmedInv, Done, Clean
<1> QED BY <1>1, <1>2, <1>3, <1>4, <1>5, <1>6, <1>7, <1>8

LEMMA PartialStep ==
    ASSUME IInv, NEW r \in Requests, Partial(r)
    PROVE  IInv'
<1> USE NoneAssumption DEF IInv
<1>0. /\ job' \in [Requests -> Jobs] /\ \A x \in Requests : x # r => job'[x] = job[x]
      /\ \/ at'[r] \in {"check", "raised"} /\ job'[r] = job[r]
         \/ at'[r] = "write" /\ job'[r].state = "not_needed" /\ job'[r].reason = job[r].reason
  <2>1. CASE WillWrite(r, "not_needed", job[r].reason) /\ at'[r] = "write"
    <3>1. job[r].reason \in Reasons BY DEF TypeOK, Jobs
    <3> QED BY <2>1, <3>1, WillWriteJob DEF States
  <2>2. CASE at'[r] \in {"check", "raised"} /\ job' = job BY <2>2 DEF TypeOK
  <2> QED BY <2>1, <2>2 DEF Partial, Escapes, Goes, runs, TypeOK
<1>1. TypeOK'
  <2>1. at' \in [Requests -> Places]
        BY <1>0 DEF Partial, Escapes, Goes, TypeOK, Places
  <2>2. job' \in [Requests -> Jobs] BY <1>0
  <2>3. present' \in [Requests -> SUBSET Things] /\ late' \in [Requests -> SUBSET Exact]
        BY <1>0 DEF Partial, Escapes, Quiet, docker, TypeOK
  <2>4. recorded' \in [Requests -> SUBSET Things]
        BY <1>0 DEF Partial, Escapes, runs, TypeOK
  <2>5. holder' \in Requests \union {None} /\ answer' = answer /\ drifted' = drifted
        BY <1>0 DEF Partial, Escapes, Quiet, docker, TypeOK
  <2>6. receipt' \in Receipts \union {None} /\ temp' \in BOOLEAN
        /\ confirmed' \subseteq Requests
        BY <1>0 DEF Partial, Escapes, Quiet, disk, TypeOK
  <2> QED BY <2>1, <2>2, <2>3, <2>4, <2>5, <2>6 DEF TypeOK
<1>2. HolderInv' BY DEF Partial, Escapes, Goes, Quiet, TypeOK, HolderInv, Held
<1>3. JobInv' BY <1>0 DEF Partial, Escapes, Goes, TypeOK, JobInv, Done
<1>4. DockerInv'
      BY DEF Partial, Escapes, Goes, Quiet, docker, runs, TypeOK, DockerInv, Early
<1>5. StrayInv' BY DEF Partial, Escapes, Goes, Quiet, docker, runs, TypeOK, StrayInv
<1>6. WriteInv'
  <2>1. \A x \in Requests : at'[x] \in {"write", "replace"} => x = r
        BY DEF Partial, Escapes, Goes, TypeOK, HolderInv, Held
  <2>2. CASE at'[r] \in {"write", "replace"}
    <3>1. job'[r].state # Unclean => present'[r] \intersect recorded'[r] = {}
          BY <2>2, <1>0 DEF Partial, Escapes, Goes, TypeOK
    <3>2. job'[r].reason \in Delivery => receipt' = OwnSuccess(r)
          BY <2>2, <1>0 DEF Partial, Escapes, Goes, JobInv, Done
    <3> QED BY <2>1, <3>1, <3>2 DEF WriteInv, Clean
  <2> QED BY <2>1, <2>2 DEF WriteInv
<1>7. ReceiptInv'
      BY DEF Partial, Escapes, Goes, Quiet, disk, docker, runs, TypeOK, Receipts,
             ReceiptInv, Done, ReceiptHonest, Clean
<1>8. ConfirmedInv'
      BY DEF Partial, Escapes, Goes, Quiet, disk, docker, runs, TypeOK,
             ConfirmedInv, Done, Clean
<1> QED BY <1>1, <1>2, <1>3, <1>4, <1>5, <1>6, <1>7, <1>8

LEMMA CheckPartialStep ==
    ASSUME IInv, NEW r \in Requests, CheckPartial(r)
    PROVE  IInv'
<1> USE NoneAssumption DEF IInv
<1>0. /\ job' \in [Requests -> Jobs] /\ \A x \in Requests : x # r => job'[x] = job[x]
      /\ \/ at'[r] \in {"down", "raised"} /\ job'[r] = job[r]
         \/ at'[r] = "write" /\ job'[r].state = Unclean /\ job'[r].reason = "identity_drift"
  <2>1. CASE Blocked(r, "check")
    <3>1. WillWrite(r, Unclean, "identity_drift") /\ at'[r] = "write"
          BY <2>1 DEF Blocked, Goes, TypeOK, Unclean
    <3> QED BY <3>1, WillWriteJob DEF States, Reasons, Unclean
  <2>2. CASE at'[r] \in {"down", "raised"} /\ job' = job BY <2>2 DEF TypeOK
  <2> QED BY <2>1, <2>2 DEF CheckPartial, Escapes, Goes, runs, TypeOK
<1>1. TypeOK'
  <2>1. at' \in [Requests -> Places]
        BY <1>0 DEF CheckPartial, Escapes, Blocked, Goes, TypeOK, Places
  <2>2. job' \in [Requests -> Jobs] BY <1>0
  <2>3. present' \in [Requests -> SUBSET Things] /\ late' \in [Requests -> SUBSET Exact]
        BY <1>0 DEF CheckPartial, Escapes, Quiet, docker, TypeOK
  <2>4. recorded' \in [Requests -> SUBSET Things]
        BY <1>0 DEF CheckPartial, Escapes, runs, TypeOK
  <2>5. holder' \in Requests \union {None} /\ answer' = answer /\ drifted' = drifted
        BY <1>0 DEF CheckPartial, Escapes, Quiet, docker, TypeOK
  <2>6. receipt' \in Receipts \union {None} /\ temp' \in BOOLEAN
        /\ confirmed' \subseteq Requests
        BY <1>0 DEF CheckPartial, Escapes, Quiet, disk, TypeOK
  <2> QED BY <2>1, <2>2, <2>3, <2>4, <2>5, <2>6 DEF TypeOK
<1>2. HolderInv'
      BY DEF CheckPartial, Escapes, Blocked, Goes, Quiet, TypeOK, HolderInv, Held
<1>3. JobInv' BY <1>0 DEF CheckPartial, Escapes, Blocked, Goes, TypeOK, JobInv, Done
<1>4. DockerInv'
      BY DEF CheckPartial, Escapes, Blocked, Goes, Quiet, docker, runs, TypeOK,
             DockerInv, Early
<1>5. StrayInv'
      BY DEF CheckPartial, Escapes, Blocked, Identical, Goes, Quiet, docker, runs,
             TypeOK, StrayInv, Exact
<1>6. WriteInv'
  <2>1. \A x \in Requests : at'[x] \in {"write", "replace"} => x = r
        BY DEF CheckPartial, Escapes, Blocked, Goes, TypeOK, HolderInv, Held
  <2>2. CASE at'[r] \in {"write", "replace"}
    <3>1. job'[r].state # Unclean => present'[r] \intersect recorded'[r] = {}
          BY <2>2, <1>0 DEF CheckPartial
    <3>2. job'[r].reason \in Delivery => receipt' = OwnSuccess(r)
          BY <2>2, <1>0 DEF Delivery
    <3> QED BY <2>1, <3>1, <3>2 DEF WriteInv, Clean
  <2> QED BY <2>1, <2>2 DEF WriteInv
<1>7. ReceiptInv'
      BY DEF CheckPartial, Escapes, Blocked, Goes, Quiet, disk, docker, runs,
             TypeOK, Receipts, ReceiptInv, Done, ReceiptHonest, Clean
<1>8. ConfirmedInv'
      BY DEF CheckPartial, Escapes, Blocked, Goes, Quiet, disk, docker, runs,
             TypeOK, ConfirmedInv, Done, Clean
<1> QED BY <1>1, <1>2, <1>3, <1>4, <1>5, <1>6, <1>7, <1>8

LEMMA DownStep ==
    ASSUME IInv, NEW r \in Requests, Down(r)
    PROVE  IInv'
<1> USE NoneAssumption DEF IInv
<1>1. TypeOK'
  <2>1. at' \in [Requests -> Places] BY DEF Down, Goes, TypeOK, Places
  <2>2. job' \in [Requests -> Jobs] BY DEF Down, runs, TypeOK
  <2>3. present' \in [Requests -> SUBSET Things] /\ late' \in [Requests -> SUBSET Exact]
        BY DEF Down, Removes, TypeOK
  <2>4. recorded' \in [Requests -> SUBSET Things]
        BY DEF Down, runs, TypeOK
  <2>5. holder' \in Requests \union {None} /\ answer' = answer /\ drifted' = drifted
        BY DEF Down, TypeOK
  <2>6. receipt' \in Receipts \union {None} /\ temp' \in BOOLEAN
        /\ confirmed' \subseteq Requests
        BY DEF Down, disk, TypeOK
  <2> QED BY <2>1, <2>2, <2>3, <2>4, <2>5, <2>6 DEF TypeOK
<1>2. HolderInv' BY DEF Down, Goes, TypeOK, HolderInv, Held
<1>3. JobInv' BY DEF Down, Goes, runs, TypeOK, JobInv, Done
<1>4. DockerInv' BY DEF Down, Removes, Goes, runs, TypeOK, DockerInv, Early
<1>5. StrayInv' BY DEF Down, Removes, Goes, runs, TypeOK, StrayInv
<1>6. WriteInv' BY DEF Down, Goes, TypeOK, WriteInv, HolderInv, Held
<1>7. ReceiptInv'
      BY DEF Down, Removes, Goes, disk, runs, TypeOK, Receipts, ReceiptInv, Done,
             ReceiptHonest, Clean
<1>8. ConfirmedInv'
      BY DEF Down, Removes, Goes, disk, runs, TypeOK, ConfirmedInv, Done, Clean
<1> QED BY <1>1, <1>2, <1>3, <1>4, <1>5, <1>6, <1>7, <1>8

LEMMA RecheckStep ==
    ASSUME IInv, NEW r \in Requests, Recheck(r)
    PROVE  IInv'
<1> USE NoneAssumption DEF IInv
<1>0. /\ job' \in [Requests -> Jobs] /\ \A x \in Requests : x # r => job'[x] = job[x]
      /\ \/ at'[r] = "raised" /\ job'[r] = job[r]
         \/ at'[r] = "write" /\ present[r] = {} /\ job'[r].reason = job[r].reason
         \/ at'[r] = "write" /\ job'[r].state = Unclean /\ job'[r].reason = "identity_drift"
  <2>1. CASE Blocked(r, "recheck")
    <3>1. WillWrite(r, Unclean, "identity_drift") /\ at'[r] = "write"
          BY <2>1 DEF Blocked, Goes, TypeOK, Unclean
    <3> QED BY <3>1, WillWriteJob DEF States, Reasons, Unclean
  <2>2. CASE at'[r] \in {"raised"} /\ job' = job BY <2>2 DEF TypeOK
  <2>3. CASE WillWrite(r, "complete", job[r].reason) /\ at'[r] = "write" /\ present[r] = {}
    <3>1. job[r].reason \in Reasons BY DEF TypeOK, Jobs
    <3> QED BY <2>3, <3>1, WillWriteJob DEF States
  <2> QED BY <2>1, <2>2, <2>3 DEF Recheck, Escapes, Goes, runs, TypeOK
<1>1. TypeOK'
  <2>1. at' \in [Requests -> Places]
        BY <1>0 DEF Recheck, Escapes, Blocked, Goes, TypeOK, Places
  <2>2. job' \in [Requests -> Jobs] BY <1>0
  <2>3. present' \in [Requests -> SUBSET Things] /\ late' \in [Requests -> SUBSET Exact]
        BY <1>0 DEF Recheck, Escapes, Quiet, docker, TypeOK
  <2>4. recorded' \in [Requests -> SUBSET Things]
        BY <1>0 DEF Recheck, Escapes, runs, TypeOK
  <2>5. holder' \in Requests \union {None} /\ answer' = answer /\ drifted' = drifted
        BY <1>0 DEF Recheck, Escapes, Quiet, docker, TypeOK
  <2>6. receipt' \in Receipts \union {None} /\ temp' \in BOOLEAN
        /\ confirmed' \subseteq Requests
        BY <1>0 DEF Recheck, Escapes, Quiet, disk, TypeOK
  <2> QED BY <2>1, <2>2, <2>3, <2>4, <2>5, <2>6 DEF TypeOK
<1>2. HolderInv'
      BY DEF Recheck, Escapes, Blocked, Goes, Quiet, TypeOK, HolderInv, Held
<1>3. JobInv' BY <1>0 DEF Recheck, Escapes, Blocked, Goes, TypeOK, JobInv, Done
<1>4. DockerInv'
      BY DEF Recheck, Escapes, Blocked, Goes, Quiet, docker, runs, TypeOK,
             DockerInv, Early
<1>5. StrayInv'
      BY DEF Recheck, Escapes, Blocked, Goes, Quiet, docker, runs, TypeOK, StrayInv
<1>6. WriteInv'
  <2>1. \A x \in Requests : at'[x] \in {"write", "replace"} => x = r
        BY DEF Recheck, Escapes, Blocked, Goes, TypeOK, HolderInv, Held
  <2>2. CASE at'[r] \in {"write", "replace"}
    <3>1. job'[r].state # Unclean => present'[r] \intersect recorded'[r] = {}
          BY <2>2, <1>0 DEF Recheck, Escapes, Quiet, docker
    <3>2. job'[r].reason \in Delivery => receipt' = OwnSuccess(r)
          BY <2>2, <1>0 DEF Recheck, Escapes, Goes, JobInv, Done, Delivery
    <3> QED BY <2>1, <3>1, <3>2 DEF WriteInv, Clean
  <2> QED BY <2>1, <2>2 DEF WriteInv
<1>7. ReceiptInv'
      BY DEF Recheck, Escapes, Blocked, Goes, Quiet, disk, docker, runs, TypeOK,
             Receipts, ReceiptInv, Done, ReceiptHonest, Clean
<1>8. ConfirmedInv'
      BY DEF Recheck, Escapes, Blocked, Goes, Quiet, disk, docker, runs, TypeOK,
             ConfirmedInv, Done, Clean
<1> QED BY <1>1, <1>2, <1>3, <1>4, <1>5, <1>6, <1>7, <1>8

-----------------------------------------------------------------------------
(* The receipt.                                                            *)

LEMMA OpenTempStep ==
    ASSUME IInv, NEW r \in Requests, OpenTemp(r)
    PROVE  IInv'
<1> USE NoneAssumption DEF IInv
<1>0. PICK to \in {"replace", "answered", "raised"} :
         /\ Goes(r, "write", to) /\ temp' \in BOOLEAN
         /\ IF to = "replace" THEN UNCHANGED holder ELSE holder' = None
         /\ UNCHANGED <<receipt, confirmed, answer, docker, runs>>
      BY AfterReceipt DEF OpenTemp, TypeOK
<1>1. TypeOK'
  <2>1. at' \in [Requests -> Places] BY <1>0 DEF Goes, TypeOK, Places
  <2>2. job' \in [Requests -> Jobs] BY <1>0 DEF runs, TypeOK
  <2>3. present' \in [Requests -> SUBSET Things] /\ late' \in [Requests -> SUBSET Exact]
        BY <1>0 DEF docker, TypeOK
  <2>4. recorded' \in [Requests -> SUBSET Things]
        BY <1>0 DEF runs, TypeOK
  <2>5. holder' \in Requests \union {None} /\ answer' = answer /\ drifted' = drifted
        BY <1>0 DEF docker, TypeOK
  <2>6. receipt' \in Receipts \union {None} /\ temp' \in BOOLEAN
        /\ confirmed' \subseteq Requests
        BY <1>0 DEF TypeOK
  <2> QED BY <2>1, <2>2, <2>3, <2>4, <2>5, <2>6 DEF TypeOK
<1>2. HolderInv' BY <1>0 DEF Goes, TypeOK, HolderInv, Held
<1>3. JobInv' BY <1>0 DEF Goes, runs, JobInv, Done
<1>4. DockerInv' BY <1>0 DEF Goes, docker, runs, DockerInv, Early
<1>5. StrayInv' BY <1>0 DEF Goes, docker, runs, StrayInv
<1>6. WriteInv' BY <1>0 DEF Goes, docker, runs, WriteInv, Clean
<1>7. ReceiptInv'
      BY <1>0 DEF Goes, docker, runs, ReceiptInv, Done, ReceiptHonest, Clean
<1>8. ConfirmedInv' BY <1>0 DEF Goes, docker, runs, ConfirmedInv, Done, Clean
<1> QED BY <1>1, <1>2, <1>3, <1>4, <1>5, <1>6, <1>7, <1>8

LEMMA ReplaceStep ==
    ASSUME IInv, NEW r \in Requests, Replace(r)
    PROVE  IInv'
<1> USE NoneAssumption DEF IInv
<1>0. PICK to \in {"answered", "result", "raised"} :
         /\ Goes(r, "replace", to) /\ holder' = None /\ UNCHANGED <<answer, docker, runs>>
         /\ \/ /\ receipt' = AsJson(r) /\ temp' = FALSE
               /\ confirmed' = IF job[r] = Success THEN confirmed \union {r} ELSE confirmed
               /\ to = "result" => job[r] = Success
            \/ to # "result" /\ temp' \in BOOLEAN /\ UNCHANGED <<receipt, confirmed>>
      BY AfterReceipt DEF Replace
<1>1. TypeOK'
  <2>1. at' \in [Requests -> Places] /\ holder' \in Requests \union {None} /\ temp' \in BOOLEAN
        BY <1>0 DEF Goes, TypeOK, Places
  <2>2. receipt' \in Receipts \union {None}
        BY <1>0 DEF TypeOK, AsJson, Receipts
  <2>3. confirmed' \subseteq Requests BY <1>0 DEF TypeOK
  <2>4. UNCHANGED <<answer, present, late, drifted, recorded, job>>
        BY <1>0 DEF docker, runs
  <2> QED BY <2>1, <2>2, <2>3, <2>4 DEF TypeOK
<1>2. HolderInv' BY <1>0 DEF Goes, TypeOK, HolderInv, Held
<1>3. JobInv' BY <1>0 DEF Goes, runs, JobInv, Done
<1>4. DockerInv' BY <1>0 DEF Goes, docker, runs, DockerInv, Early
<1>5. StrayInv' BY <1>0 DEF Goes, docker, runs, StrayInv
<1>6. WriteInv' BY <1>0 DEF Goes, TypeOK, WriteInv, HolderInv, Held
<1>7. ReceiptInv'
  <2>1. UNCHANGED <<present, recorded>> BY <1>0 DEF docker, runs
  <2>2. CASE receipt' = AsJson(r)
    <3>1. receipt'.nonce = r /\ receipt'.said = job[r] BY <2>2 DEF AsJson
    <3>2. at'[r] \in Done BY <1>0 DEF Goes, Done
    <3>3. job[r].state # Unclean => Clean(r) BY <1>0 DEF Goes, WriteInv
    <3> QED BY <2>1, <3>1, <3>2, <3>3 DEF ReceiptInv, ReceiptHonest, Clean, Unclean
  <2>3. CASE receipt' = receipt
    <3>1. \A x \in Requests : at[x] \in Done => at'[x] \in Done
          BY <1>0 DEF Goes, Done
    <3> QED
        BY <2>1, <2>3, <3>1 DEF ReceiptInv, ReceiptHonest, Clean, TypeOK, Receipts
  <2> QED BY <1>0, <2>2, <2>3
<1>8. ConfirmedInv'
  <2>1. UNCHANGED <<present, recorded, answer>> BY <1>0 DEF docker, runs
  <2>2. \A x \in Requests : at[x] \in Done => at'[x] \in Done
        BY <1>0 DEF Goes, Done
  <2>3. job[r] = Success => Clean(r)
        BY <1>0 DEF Goes, WriteInv, Success, Job, Unclean
  <2>4. confirmed \subseteq confirmed'
        /\ \A x \in confirmed' : x \in confirmed \/ (x = r /\ job[r] = Success)
        BY <1>0
  <2>5. \A x \in Requests : at'[x] = "result" => at[x] = "result" \/ (x = r /\ r \in confirmed')
        BY <1>0 DEF Goes, TypeOK
  <2>6. at'[r] \in Done BY <1>0 DEF Goes, Done
  <2> QED BY <2>1, <2>2, <2>3, <2>4, <2>5, <2>6 DEF ConfirmedInv, Clean
<1> QED BY <1>1, <1>2, <1>3, <1>4, <1>5, <1>6, <1>7, <1>8

-----------------------------------------------------------------------------
(* The answer and its delivery.                                            *)

LEMMA RejectStep ==
    ASSUME IInv, NEW r \in Requests, Reject(r)
    PROVE  IInv'
<1> USE NoneAssumption DEF IInv
<1>1. TypeOK'
  <2>1. at' \in [Requests -> Places] BY DEF Reject, Goes, TypeOK, Places
  <2>2. job' \in [Requests -> Jobs] BY DEF Reject, runs, TypeOK
  <2>3. present' \in [Requests -> SUBSET Things] /\ late' \in [Requests -> SUBSET Exact]
        BY DEF Reject, docker, TypeOK
  <2>4. recorded' \in [Requests -> SUBSET Things]
        BY DEF Reject, runs, TypeOK
  <2>5. holder' \in Requests \union {None} /\ answer' \in [Requests -> {"none", "200", "500", "503"}] /\ drifted' = drifted
        BY DEF Reject, docker, TypeOK
  <2>6. receipt' \in Receipts \union {None} /\ temp' \in BOOLEAN
        /\ confirmed' \subseteq Requests
        BY DEF Reject, disk, TypeOK
  <2> QED BY <2>1, <2>2, <2>3, <2>4, <2>5, <2>6 DEF TypeOK
<1>2. HolderInv' BY DEF Reject, Goes, TypeOK, HolderInv, Held
<1>3. JobInv' BY DEF Reject, Goes, runs, TypeOK, JobInv, Done
<1>4. DockerInv' BY DEF Reject, Goes, docker, runs, TypeOK, DockerInv, Early
<1>5. StrayInv' BY DEF Reject, Goes, docker, runs, TypeOK, StrayInv
<1>6. WriteInv' BY DEF Reject, Goes, disk, docker, runs, TypeOK, WriteInv, Clean
<1>7. ReceiptInv'
      BY DEF Reject, Goes, disk, docker, runs, TypeOK, Receipts, ReceiptInv, Done,
             ReceiptHonest, Clean
<1>8. ConfirmedInv'
      BY DEF Reject, Goes, disk, docker, runs, TypeOK, ConfirmedInv, Done, Clean
<1> QED BY <1>1, <1>2, <1>3, <1>4, <1>5, <1>6, <1>7, <1>8

LEMMA SendStep ==
    ASSUME IInv, NEW r \in Requests, Send(r)
    PROVE  IInv'
<1> USE NoneAssumption DEF IInv
<1>1. TypeOK' BY DEF Send, Goes, disk, docker, runs, TypeOK, Places
<1>2. HolderInv' BY DEF Send, Goes, TypeOK, HolderInv, Held
<1>3. JobInv' BY DEF Send, Goes, runs, TypeOK, JobInv, Done
<1>4. DockerInv' BY DEF Send, Goes, docker, runs, TypeOK, DockerInv, Early
<1>5. StrayInv' BY DEF Send, Goes, docker, runs, TypeOK, StrayInv
<1>6. WriteInv' BY DEF Send, Goes, disk, docker, runs, TypeOK, WriteInv, Clean
<1>7. ReceiptInv'
      BY DEF Send, Goes, disk, docker, runs, TypeOK, Receipts, ReceiptInv, Done,
             ReceiptHonest, Clean
<1>8. ConfirmedInv'
      BY DEF Send, Goes, disk, docker, runs, TypeOK, ConfirmedInv, Done, Clean
<1> QED BY <1>1, <1>2, <1>3, <1>4, <1>5, <1>6, <1>7, <1>8

LEMMA DeliverStep ==
    ASSUME IInv, NEW r \in Requests, Deliver(r)
    PROVE  IInv'
<1> USE NoneAssumption DEF IInv
<1>1. TypeOK' BY DEF Deliver, Goes, disk, docker, runs, TypeOK, Places
<1>2. HolderInv' BY DEF Deliver, Goes, TypeOK, HolderInv, Held
<1>3. JobInv' BY DEF Deliver, Goes, runs, TypeOK, JobInv, Done
<1>4. DockerInv' BY DEF Deliver, Goes, docker, runs, TypeOK, DockerInv, Early
<1>5. StrayInv' BY DEF Deliver, Goes, docker, runs, TypeOK, StrayInv
<1>6. WriteInv' BY DEF Deliver, Goes, disk, docker, runs, TypeOK, WriteInv, Clean
<1>7. ReceiptInv'
      BY DEF Deliver, Goes, disk, docker, runs, TypeOK, Receipts, ReceiptInv, Done,
             ReceiptHonest, Clean
<1>8. ConfirmedInv'
      BY DEF Deliver, Goes, disk, docker, runs, TypeOK, ConfirmedInv, Done, Clean
<1> QED BY <1>1, <1>2, <1>3, <1>4, <1>5, <1>6, <1>7, <1>8

LEMMA AwaitStep ==
    ASSUME IInv, NEW r \in Requests, Await(r)
    PROVE  IInv'
<1> USE NoneAssumption DEF IInv
<1>1. TypeOK' BY DEF Await, Goes, disk, docker, runs, TypeOK, Places
<1>2. HolderInv' BY DEF Await, Goes, TypeOK, HolderInv, Held
<1>3. JobInv' BY DEF Await, Goes, runs, JobInv, Done
<1>4. DockerInv' BY DEF Await, Goes, docker, runs, DockerInv, Early
<1>5. StrayInv' BY DEF Await, Goes, docker, runs, StrayInv
<1>6. WriteInv' BY DEF Await, Goes, WriteInv, HolderInv, Held
<1>7. ReceiptInv'
      BY DEF Await, Goes, disk, docker, runs, ReceiptInv, Done, ReceiptHonest, Clean
<1>8. ConfirmedInv'
      BY DEF Await, Goes, disk, docker, runs, ConfirmedInv, Done, Clean
<1> QED BY <1>1, <1>2, <1>3, <1>4, <1>5, <1>6, <1>7, <1>8

LEMMA MatchStep ==
    ASSUME IInv, NEW r \in Requests, Match(r)
    PROVE  IInv'
<1> USE NoneAssumption DEF IInv
<1>0. /\ job' \in [Requests -> Jobs] /\ \A x \in Requests : x # r => job'[x] = job[x]
      /\ \/ at'[r] = "answered" /\ job'[r] = job[r]
         \/ at'[r] = "write" /\ receipt = OwnSuccess(r) /\ job'[r].reason \in Delivery
      BY WillWriteJob, KeepsJob DEF Match, Goes, TypeOK, States, Reasons, Delivery
<1>1. TypeOK'
  <2>1. at' \in [Requests -> Places] BY <1>0 DEF Match, Goes, TypeOK, Places
  <2>2. job' \in [Requests -> Jobs] BY <1>0
  <2>3. present' \in [Requests -> SUBSET Things] /\ late' \in [Requests -> SUBSET Exact]
        BY <1>0 DEF Match, docker, TypeOK
  <2>4. recorded' \in [Requests -> SUBSET Things]
        BY <1>0 DEF Match, TypeOK
  <2>5. holder' \in Requests \union {None} /\ answer' = answer /\ drifted' = drifted
        BY <1>0 DEF Match, docker, TypeOK
  <2>6. receipt' \in Receipts \union {None} /\ temp' \in BOOLEAN
        /\ confirmed' \subseteq Requests
        BY <1>0 DEF Match, disk, TypeOK
  <2> QED BY <2>1, <2>2, <2>3, <2>4, <2>5, <2>6 DEF TypeOK
<1>2. HolderInv' BY DEF Match, Goes, TypeOK, HolderInv, Held
<1>3. JobInv' BY <1>0 DEF Match, Goes, TypeOK, JobInv, Done
<1>4. DockerInv' BY DEF Match, Goes, docker, TypeOK, DockerInv, Early
<1>5. StrayInv' BY DEF Match, Goes, docker, TypeOK, StrayInv
<1>6. WriteInv'
  <2>1. \A x \in Requests : at'[x] \in {"write", "replace"} => x = r
        BY DEF Match, Goes, TypeOK, HolderInv, Held
  <2>2. CASE at'[r] \in {"write", "replace"}
    <3>1. job'[r].state # Unclean => present'[r] \intersect recorded'[r] = {}
          BY OwnIsTrue, <2>2, <1>0 DEF Match, docker, Clean
    <3>2. job'[r].reason \in Delivery => receipt' = OwnSuccess(r)
          BY <2>2, <1>0 DEF Match, disk
    <3> QED BY <2>1, <3>1, <3>2 DEF WriteInv, Clean
  <2> QED BY <2>1, <2>2 DEF WriteInv
<1>7. ReceiptInv'
      BY DEF Match, Goes, disk, docker, TypeOK, Receipts, ReceiptInv, Done,
             ReceiptHonest, Clean
<1>8. ConfirmedInv'
      BY DEF Match, Goes, disk, docker, TypeOK, ConfirmedInv, Done, Clean
<1> QED BY <1>1, <1>2, <1>3, <1>4, <1>5, <1>6, <1>7, <1>8

-----------------------------------------------------------------------------
(* The daemon, somebody else, and a kill.                                  *)

LEMMA LateStep ==
    ASSUME IInv, NEW r \in Requests, Late(r)
    PROVE  IInv'
<1> USE NoneAssumption DEF IInv
<1>1. TypeOK' BY DEF Late, disk, runs, TypeOK, Things, Exact
<1>2. HolderInv' BY DEF Late, HolderInv
<1>3. JobInv' BY DEF Late, runs, JobInv
<1>4. DockerInv' BY DEF Late, runs, TypeOK, DockerInv
<1>5. StrayInv' BY DEF Late, runs, TypeOK, StrayInv, Exact
<1>6. WriteInv' BY DEF Late, disk, runs, WriteInv, DockerInv, Clean
<1>7. ReceiptInv'
      BY DEF Late, disk, runs, ReceiptInv, DockerInv, ReceiptHonest, Clean
<1>8. ConfirmedInv' BY DEF Late, disk, runs, ConfirmedInv, DockerInv, Clean
<1> QED BY <1>1, <1>2, <1>3, <1>4, <1>5, <1>6, <1>7, <1>8

LEMMA DriftStep ==
    ASSUME IInv, NEW r \in Requests, Drift(r)
    PROVE  IInv'
<1> USE NoneAssumption DEF IInv
<1>1. TypeOK' BY DEF Drift, disk, runs, TypeOK, Things
<1>2. HolderInv' BY DEF Drift, HolderInv
<1>3. JobInv' BY DEF Drift, runs, JobInv
<1>4. DockerInv'
  <2>1. PICK there \in SUBSET (present[r] \union {"stray"}) :
            present' = [present EXCEPT ![r] = there]
        BY DEF Drift
  <2>2. at' = at /\ late' = late /\ recorded' = recorded BY DEF Drift, runs
  <2>3. \A x \in Requests : present'[x] = IF x = r THEN there ELSE present[x]
        BY <2>1 DEF TypeOK
  <2>4. there \intersect late[r] = {} /\ (at[r] \in Early => there \subseteq {"stray"})
        BY DEF TypeOK, DockerInv, Exact
  <2> QED BY <2>2, <2>3, <2>4 DEF DockerInv
<1>5. StrayInv' BY DEF Drift, runs, StrayInv
<1>6. WriteInv' BY DEF Drift, WriteInv, HolderInv, Held
<1>7. ReceiptInv'
      BY DEF Drift, disk, runs, ReceiptInv, HolderInv, Held, Done, ReceiptHonest,
             Clean
<1>8. ConfirmedInv'
      BY DEF Drift, disk, runs, ConfirmedInv, HolderInv, Held, Done, Clean
<1> QED BY <1>1, <1>2, <1>3, <1>4, <1>5, <1>6, <1>7, <1>8

LEMMA KillStep ==
    ASSUME IInv, NEW r \in Requests, Kill(r)
    PROVE  IInv'
<1> USE NoneAssumption DEF IInv
<1>1. TypeOK' BY DEF Kill, disk, docker, runs, TypeOK, Places
<1>2. HolderInv' BY DEF Kill, TypeOK, HolderInv, Held
<1>3. JobInv' BY DEF Kill, runs, JobInv, Done
<1>4. DockerInv' BY DEF Kill, docker, runs, DockerInv, Early
<1>5. StrayInv' BY DEF Kill, docker, runs, StrayInv
<1>6. WriteInv' BY DEF Kill, disk, docker, runs, WriteInv, Clean
<1>7. ReceiptInv'
      BY DEF Kill, disk, docker, runs, ReceiptInv, Done, ReceiptHonest, Clean
<1>8. ConfirmedInv' BY DEF Kill, disk, docker, runs, ConfirmedInv, Done, Clean
<1> QED BY <1>1, <1>2, <1>3, <1>4, <1>5, <1>6, <1>7, <1>8

-----------------------------------------------------------------------------

LEMMA StutterStep == IInv /\ UNCHANGED vars => IInv'
<1> SUFFICES ASSUME IInv, UNCHANGED vars PROVE IInv'
    OBVIOUS
<1> USE DEF IInv
<1>1. UNCHANGED <<at, holder, answer, receipt, temp, confirmed, present, late, drifted, recorded,
                  job>>
      BY DEF vars, disk, docker, runs
<1>2. TypeOK' BY <1>1 DEF TypeOK
<1>3. HolderInv' /\ JobInv' BY <1>1 DEF HolderInv, JobInv
<1>4. DockerInv' /\ StrayInv' BY <1>1 DEF DockerInv, StrayInv
<1>5. WriteInv' BY <1>1 DEF WriteInv, Clean
<1>6. ReceiptInv' /\ ConfirmedInv'
      BY <1>1 DEF ReceiptInv, ReceiptHonest, ConfirmedInv, Clean
<1> QED BY <1>2, <1>3, <1>4, <1>5, <1>6

LEMMA StepIInv == IInv /\ [Next]_vars => IInv'
<1> SUFFICES ASSUME IInv, [Next]_vars PROVE IInv'
    OBVIOUS
<1>1. ASSUME NEW r \in Requests, Run(r) PROVE IInv'
      BY <1>1, LoadStep, FlockStep, VerifyStep, UpStep, ListStep, InspectStep,
         StartRelayStep,
         ChildStep, HealthStep, CompareStep, PartialStep, CheckPartialStep, DownStep,
         RecheckStep, OpenTempStep, ReplaceStep, RejectStep, SendStep, DeliverStep, AwaitStep,
         MatchStep DEF Run
<1>2. ASSUME NEW r \in Requests, Late(r) \/ Drift(r) \/ Kill(r) PROVE IInv'
      BY <1>2, LateStep, DriftStep, KillStep
<1>3. CASE UNCHANGED vars BY <1>3, StutterStep
<1> QED BY <1>1, <1>2, <1>3 DEF Next, Over

(* Every reachable state satisfies the inductive invariant.                *)
THEOREM Invariance == Spec => []IInv
<1> QED BY InitIInv, StepIInv, PTL DEF Spec

(* Types: TypeOK for every value of the constants.                         *)
THEOREM TypeCorrect == Spec => []TypeOK
<1>1. IInv => TypeOK BY DEF IInv
<1> QED BY Invariance, <1>1, PTL

(* A receipt that speaks of a clean-up is true for ever: ReceiptHonest.    *)
THEOREM ReceiptsAreTrue == Spec => []ReceiptHonest
<1>1. IInv => ReceiptHonest BY DEF IInv, ReceiptInv, ReceiptHonest
<1> QED BY Invariance, <1>1, PTL

(* Success is answered only after it was recorded and what the run had     *)
(* recorded was removed: AnswerHonest.                                     *)
THEOREM AnswersAreTrue == Spec => []AnswerHonest
<1>1. IInv => AnswerHonest BY DEF IInv, ConfirmedInv, AnswerHonest
<1> QED BY Invariance, <1>1, PTL

(* What somebody else has added is not removed unless it came after the    *)
(* last comparison: RemovesOnlyOwn.                                        *)
THEOREM OnlyOwnRemoved == Spec => []RemovesOnlyOwn
<1>1. IInv => RemovesOnlyOwn BY DEF IInv, StrayInv, RemovesOnlyOwn
<1> QED BY Invariance, <1>1, PTL

(* A failed delivery replaces the receipt of its own run only:             *)
(* DeliveryKeepsNewer.                                                     *)
THEOREM NewerReceiptKept == Spec => DeliveryKeepsNewer
<1>1. IInv /\ [Next]_vars =>
         [receipt' # receipt /\ receipt'.said.reason \in Delivery
             => receipt = OwnSuccess(receipt'.nonce)]_vars
  <2> SUFFICES ASSUME IInv, [Next]_vars, receipt' # receipt,
                      receipt'.said.reason \in Delivery
               PROVE  receipt = OwnSuccess(receipt'.nonce)
      OBVIOUS
  <2>1. PICK r \in Requests : Replace(r)
    <3>1. ASSUME NEW r \in Requests, Run(r), ~Replace(r) PROVE receipt' = receipt
          BY <3>1
             DEF Run, Load, Flock, Verify, Up, List, Inspect, StartRelay, Child,
                 Health,
                      Compare, Partial, CheckPartial, Down, Recheck, OpenTemp, Reject, Send,
                      Deliver, Await, Match, Quiet, Escapes, disk
    <3>2. ASSUME NEW r \in Requests, Late(r) \/ Drift(r) \/ Kill(r) PROVE receipt' = receipt
          BY <3>2 DEF Late, Drift, Kill, disk
    <3>3. UNCHANGED vars => receipt' = receipt BY DEF vars, disk
    <3> QED BY <3>1, <3>2, <3>3 DEF Next, Over
  <2>2. receipt' = AsJson(r) /\ at[r] = "replace" BY <2>1 DEF Replace, Goes
  <2>3. receipt'.nonce = r /\ job[r].reason \in Delivery BY <2>2 DEF AsJson
  <2> QED BY <2>2, <2>3 DEF IInv, WriteInv
<1> QED BY Invariance, <1>1, PTL DEF Spec, DeliveryKeepsNewer

=============================================================================
