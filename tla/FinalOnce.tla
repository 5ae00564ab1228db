------------------------------ MODULE FinalOnce ------------------------------
(***************************************************************************)
(* The one-shot ownership of the final gates                               *)
(* (src/src/migration_rehearsal/final_once.py): callers that may start at  *)
(* the same time and for different commits share a directory with a lock,  *)
(* a marker, a report and a terminal file.  A step is one file operation,  *)
(* so a caller can be killed, or meet an OSError, between any two.         *)
(*                                                                         *)
(* A file is absent, partly written, or has its content.  What a power     *)
(* loss leaves is `disk`: the entries as they were when the directory last *)
(* reached the disk, by fsync or because the kernel wrote it back; a file  *)
(* that was itself not synced may be found partly written.                 *)
(*                                                                         *)
(* Symbolic links and foreign files in the directory are left out: no step *)
(* of the program creates them.                                            *)
(***************************************************************************)
EXTENDS Naturals

CONSTANTS Callers,      \* processes that run the protocol, again and again
          Attempts,     \* the attempt ids of the frozen commits they may see
          NoAttempt,    \* the id "0" * 64 of a terminal without a readable marker
          Absent,       \* no such file, no value
          Partial,      \* a file that was created and not written completely
          Nobody,       \* no caller
          PowerMayFail  \* whether the machine may lose power

Names == {"lock", "marker", "report", "terminal", "report_tmp", "terminal_tmp",
          "work"} \* "work": the temporaries of the gates
Temps == {"report_tmp", "terminal_tmp", "work"}

(* A report is told apart by its status only: one run makes at most one.   *)
Reports == {"passed", "failed"}

Terminal(id, reason, report) == [attempt |-> id, reason |-> reason, report |-> report]
Terminals ==
    {Terminal(a, r, Absent) : a \in Attempts \union {NoAttempt},
                              r \in {"INTERRUPTED_AFTER_MARKER", "INTERNAL_ERROR"}}
    \union {Terminal(a, "ALL_GATES_PASSED", "passed") : a \in Attempts}
    \union {Terminal(a, "GATE_FAILED", "failed") : a \in Attempts}

ASSUME DistinctAssumption ==
    /\ NoAttempt \notin Attempts /\ Nobody \notin Callers
    /\ Absent # Partial /\ Absent # NoAttempt
    /\ \A x \in {Absent, Partial} :
          x \notin Attempts /\ x \notin Terminals /\ x \notin Reports \union {"lock", "error"}
ASSUME SwitchAssumption == PowerMayFail \in BOOLEAN

VARIABLES files,   \* name |-> what a process finds there
          synced,  \* the names whose content is on disk
          disk,    \* name |-> what a power loss would leave there
          parent,  \* "new": the entry of the directory itself, which nothing
                   \* syncs, may be lost; "durable": it is on disk; "lost"
          holder,  \* the caller that holds the flock
          at,      \* caller |-> its next step
          job,     \* caller |-> the write it is doing
          own,     \* caller |-> the id of the attempt it makes
          calm,    \* whether failures are over (only liveness asks)
          runs,    \* observed: how often the effect has begun
          outcome, \* observed: what the effect produced
          told     \* observed: the terminals returned to callers

dir == <<files, synced, disk, parent>>
seen == <<runs, outcome, told>>
vars == <<files, synced, disk, parent, holder, at, job, own, calm, runs, outcome, told>>

-----------------------------------------------------------------------------
(* The directory.                                                          *)

Write(name, value) == [name |-> name, value |-> value]
NoJob == Write("lock", Absent)
Jobs == [name : {"marker"}, value : Attempts] \union [name : {"report"}, value : Reports]
           \union [name : {"terminal"}, value : Terminals]

(* Mutant: nothing is written beside its target.                           *)
Target_InPlace(j) == j.name

(* _write_exclusive writes in place, _write_atomic beside the target.      *)
Target(j) == CASE j.name = "report"   -> "report_tmp"
               [] j.name = "terminal" -> "terminal_tmp"
               [] OTHER               -> j.name

Present(n) == files[n] # Absent

(* What reaches the disk with the directory, given the files synced.       *)
Flushed(ok) == [n \in Names |-> IF files[n] = Absent \/ n \in ok THEN files[n]
                                                                 ELSE Partial]

(* The kernel writes the directory and some of the files back by itself.   *)
Writeback == /\ PowerMayFail
             /\ \E more \in SUBSET {n \in Names : Present(n)} :
                   /\ synced' = synced \union more
                   /\ disk' = Flushed(synced \union more)
             /\ UNCHANGED <<files, parent, holder, at, job, own, calm, seen>>

Init == /\ files = [n \in Names |-> Absent] /\ disk = [n \in Names |-> Absent]
        /\ synced = {} /\ parent = "new"
        /\ holder = Nobody
        /\ at = [c \in Callers |-> "idle"]
        /\ job = [c \in Callers |-> NoJob] /\ own = [c \in Callers |-> NoAttempt]
        /\ calm = FALSE
        /\ runs = 0 /\ outcome = Absent /\ told = {}

Step(c, label) == at' = [at EXCEPT ![c] = label]

(* A caller stops and the system closes its files, which ends its flock.   *)
Leave(c) == /\ Step(c, "idle")
            /\ job' = [job EXCEPT ![c] = NoJob] /\ own' = [own EXCEPT ![c] = NoAttempt]
            /\ holder' = (IF holder = c THEN Nobody ELSE holder)
            /\ UNCHANGED calm

(* Return a terminal; return BLOCKED, or raise.                            *)
Answer(c, t) == Leave(c) /\ told' = told \union {t} /\ UNCHANGED <<runs, outcome>>
Blocked(c) == Leave(c) /\ UNCHANGED seen

-----------------------------------------------------------------------------
(* Before the marker.                                                      *)

(* A call begins.  Without the lock it only looks whether there is a       *)
(* terminal, which it does not trust when its lock file is missing.        *)
Begin(c) == /\ at[c] = "idle"
            /\ Present("terminal") => Present("lock")
            /\ Step(c, "flock")
            /\ UNCHANGED <<dir, holder, job, own, calm, seen>>

(* Mutant: the flock does not exclude.                                     *)
Lock_Shared(c) == /\ at[c] = "flock"
                  /\ files' = [files EXCEPT !["lock"] = "lock"]
                  /\ synced' = synced \union {"lock"}
                  /\ holder' = c /\ Step(c, "inspect")
                  /\ UNCHANGED <<disk, parent, job, own, calm, seen>>

Lock(c) == /\ at[c] = "flock"
           /\ files' = [files EXCEPT !["lock"] = "lock"]
           /\ synced' = synced \union {"lock"}
           /\ IF holder = Nobody
              THEN holder' = c /\ Step(c, "inspect") /\ UNCHANGED <<job, own, calm>>
              ELSE Leave(c)
           /\ UNCHANGED <<disk, parent, seen>>

(* _valid_marker, or the all-zero id.                                      *)
MarkerId == IF files["marker"] \in Attempts THEN files["marker"] ELSE NoAttempt

(* The terminal answers for this marker and the report it names is there.  *)
Valid(t) == /\ t \in Terminals /\ t.attempt = MarkerId
            /\ MarkerId # NoAttempt /\ t.report # Absent => files["report"] = t.report

(* There is a terminal: return it, or refuse it.  A marker that cannot be  *)
(* read is none; then only a terminal without an id is returned.           *)
Unread(t) == ~calm /\ t \in Terminals /\ t.attempt = NoAttempt
Replay(c) == LET t == files["terminal"]
                 clean == \A n \in Temps : ~Present(n) IN
             /\ at[c] = "inspect" /\ Present("terminal")
             /\ \/ clean /\ (Valid(t) \/ Unread(t)) /\ Answer(c, t)
                \/ ~(clean /\ Valid(t) /\ calm) /\ Blocked(c)
             /\ UNCHANGED dir

Inspect(c) == /\ at[c] = "inspect" /\ ~Present("terminal") /\ Step(c, "clean")
              /\ UNCHANGED <<dir, holder, job, own, calm, seen>>

(* _cleanup_stale_temps: unlink them in this order, then fsync.            *)
Stale == IF Present("report_tmp") THEN "report_tmp"
         ELSE IF Present("terminal_tmp") THEN "terminal_tmp" ELSE "work"

Clean(c) == /\ at[c] = "clean" /\ Present(Stale)
            /\ files' = [files EXCEPT ![Stale] = Absent]
            /\ synced' = synced \ {Stale}
            /\ UNCHANGED <<disk, parent, holder, at, job, own, calm, seen>>

CleanDone(c) == /\ at[c] = "clean" /\ ~Present(Stale)
                /\ disk' = Flushed(synced)
                /\ Step(c, "settle")
                /\ UNCHANGED <<files, synced, parent, holder, job, own, calm, seen>>

Start(c, name, value) == /\ job' = [job EXCEPT ![c] = Write(name, value)]
                         /\ Step(c, "open")

(* A marker and no terminal: an earlier caller did not get to its end.  A  *)
(* marker that cannot be read, because it is incomplete or because reading *)
(* it fails, counts as one without an id.                                  *)
Orphan(id) == Terminal(id, IF id = NoAttempt THEN "INTERNAL_ERROR"
                                             ELSE "INTERRUPTED_AFTER_MARKER", Absent)
Read == {MarkerId} \union (IF calm THEN {} ELSE {NoAttempt})

(* Mutant: an attempt with an unreadable marker is refused for ever.       *)
Settle_RefusesPartial(c) ==
    /\ at[c] = "settle"
    /\ IF ~Present("marker")
       THEN Step(c, "preflight") /\ UNCHANGED <<holder, job, own, calm, seen>>
       ELSE IF MarkerId = NoAttempt THEN Blocked(c)
            ELSE Start(c, "terminal", Orphan(MarkerId)) /\ UNCHANGED <<holder, own, calm, seen>>
    /\ UNCHANGED dir

Settle(c) == /\ at[c] = "settle"
             /\ IF Present("marker") THEN \E id \in Read : Start(c, "terminal", Orphan(id))
                                     ELSE Step(c, "preflight") /\ UNCHANGED job
             /\ UNCHANGED <<dir, holder, own, calm, seen>>

(* Mutant: the identity is read again for the terminal.                    *)
Preflight_IdentityTwice(c) ==
    /\ at[c] = "preflight"
    /\ \/ \E a, b \in Attempts : /\ Start(c, "marker", a)
                                 /\ own' = [own EXCEPT ![c] = b]
                                 /\ UNCHANGED <<holder, calm, seen>>
       \/ Blocked(c)
    /\ UNCHANGED dir

(* The preflight passes and identity() gives the attempt, or BLOCKED.      *)
Preflight(c) == /\ at[c] = "preflight"
                /\ \/ \E a \in Attempts : /\ Start(c, "marker", a)
                                          /\ own' = [own EXCEPT ![c] = a]
                                          /\ UNCHANGED <<holder, calm, seen>>
                   \/ Blocked(c)
                /\ UNCHANGED dir

-----------------------------------------------------------------------------
(* One durable write, and what follows it.                                 *)

Open(c) == /\ at[c] = "open"
           /\ job[c].name = "marker" => ~Present("marker")
           /\ files' = [files EXCEPT ![Target(job[c])] = Partial]
           /\ synced' = synced \ {Target(job[c])}
           /\ Step(c, "fill")
           /\ UNCHANGED <<disk, parent, holder, job, own, calm, seen>>

Fill(c) == /\ at[c] = "fill"
           /\ files' = [files EXCEPT ![Target(job[c])] = job[c].value]
           /\ synced' = synced \ {Target(job[c])}
           /\ Step(c, "fsync")
           /\ UNCHANGED <<disk, parent, holder, job, own, calm, seen>>

(* Mutant: the content is not synced before it is renamed.                 *)
Fsync_Skipped(c) == /\ at[c] = "fsync"
                    /\ Step(c, IF job[c].name = "marker" THEN "dirsync" ELSE "rename")
                    /\ UNCHANGED <<dir, holder, job, own, calm, seen>>

Fsync(c) == /\ at[c] = "fsync"
            /\ synced' = synced \union {Target(job[c])}
            /\ disk' = IF disk[Target(job[c])] = Absent THEN disk
                       ELSE [disk EXCEPT ![Target(job[c])] = job[c].value]
            /\ Step(c, IF job[c].name = "marker" THEN "dirsync" ELSE "rename")
            /\ UNCHANGED <<files, parent, holder, job, own, calm, seen>>

Rename(c) == /\ at[c] = "rename"
             /\ files' = [files EXCEPT ![job[c].name] = job[c].value,
                                       ![Target(job[c])] = Absent]
             /\ synced' = (synced \ {Target(job[c]), job[c].name}) \union
                             (IF Target(job[c]) \in synced THEN {job[c].name} ELSE {})
             /\ Step(c, "dirsync")
             /\ UNCHANGED <<disk, parent, holder, job, own, calm, seen>>

(* Mutant: the marker's directory entry is not synced before the effect.   *)
Dirsync_NotForMarker(c) ==
    /\ at[c] = "dirsync"
    /\ disk' = (IF job[c].name = "marker" THEN disk ELSE Flushed(synced))
    /\ IF job[c].name = "terminal"
       THEN Answer(c, job[c].value)
       ELSE /\ Step(c, IF job[c].name = "marker" THEN "effect" ELSE "reread")
            /\ UNCHANGED <<holder, job, own, calm, seen>>
    /\ UNCHANGED <<files, synced, parent>>

(* The fsync of the directory; what follows depends on what was written.   *)
Dirsync(c) ==
    /\ at[c] = "dirsync"
    /\ disk' = Flushed(synced)
    /\ IF job[c].name = "terminal"
       THEN Answer(c, job[c].value)
       ELSE /\ Step(c, IF job[c].name = "marker" THEN "effect" ELSE "reread")
            /\ UNCHANGED <<holder, job, own, calm, seen>>
    /\ UNCHANGED <<files, synced, parent>>

(* What the handler of every other exception decides.                      *)
Failure(c) == Terminal(own[c], "INTERNAL_ERROR", Absent)

Working == {files, [files EXCEPT !["work"] = Partial]}

EffectBegins(c) ==
    /\ at[c] = "effect"
    /\ runs' = runs + 1
    /\ Step(c, "running")
    /\ files' \in Working
    /\ UNCHANGED <<synced, disk, parent, holder, job, own, calm, outcome, told>>

(* The gates pass, one fails, or there is no valid report; whatever they   *)
(* do, a temporary of theirs may stay behind.                              *)
EffectEnds(c) ==
    /\ at[c] = "running"
    /\ \E result \in {"passed", "failed", "error"} :
          /\ outcome' = result
          /\ IF result = "error" THEN Start(c, "terminal", Failure(c))
                                 ELSE Start(c, "report", result)
    /\ files' \in Working \union {[files EXCEPT !["work"] = Absent]}
    /\ UNCHANGED <<synced, disk, parent, holder, own, calm, runs, told>>

(* The report is read back and its hash goes into the terminal; what was   *)
(* written under the lock is what is read.                                 *)
Reread(c) == /\ at[c] = "reread"
             /\ Start(c, "terminal",
                      Terminal(own[c], IF job[c].value = "passed" THEN "ALL_GATES_PASSED"
                                                                  ELSE "GATE_FAILED",
                               files["report"]))
             /\ UNCHANGED <<dir, holder, own, calm, seen>>

(* Any file operation may raise.  Only the report of passed gates is       *)
(* written inside the try whose handler makes a terminal of it.            *)
OSError(c) ==
    /\ ~calm
    /\ \/ /\ at[c] \in {"open", "fill", "fsync", "rename", "dirsync", "reread"}
          /\ IF job[c].name = "report" /\ job[c].value = "passed"
             THEN Start(c, "terminal", Failure(c)) /\ UNCHANGED <<holder, own, calm, seen>>
             ELSE Blocked(c)
       \/ at[c] \in {"flock", "inspect", "clean", "settle"} /\ Blocked(c)
    /\ UNCHANGED dir

Kill(c) == /\ ~calm /\ at[c] # "idle"
           /\ Blocked(c)
           /\ UNCHANGED dir

(* Power fails and the machine starts again.                               *)
Restart == /\ PowerMayFail /\ ~calm
           /\ synced' = Names
           /\ holder' = Nobody
           /\ at' = [c \in Callers |-> "idle"]
           /\ job' = [c \in Callers |-> NoJob] /\ own' = [c \in Callers |-> NoAttempt]
           /\ UNCHANGED <<calm, seen>>

PowerLoss == /\ Restart
             /\ files' = disk /\ UNCHANGED disk
             /\ parent' = IF parent = "new" THEN "durable" ELSE parent

(* The directory that mkdir made did not reach the disk; bound: once.      *)
DirectoryLoss == /\ Restart
                 /\ parent = "new" /\ parent' = "lost"
                 /\ files' = [n \in Names |-> Absent]
                 /\ disk' = [n \in Names |-> Absent]

(* From some moment on nothing fails any more.                             *)
Calm == ~calm /\ calm' = TRUE /\ UNCHANGED <<dir, holder, at, job, own, seen>>

CallerStep(c) ==
    \/ Begin(c) \/ Lock(c) \/ Replay(c) \/ Inspect(c) \/ Clean(c)
    \/ CleanDone(c) \/ Settle(c) \/ Preflight(c) \/ Open(c) \/ Fill(c) \/ Fsync(c)
    \/ Rename(c) \/ Dirsync(c) \/ EffectBegins(c) \/ EffectEnds(c) \/ Reread(c)

Next == \/ \E c \in Callers : CallerStep(c) \/ OSError(c) \/ Kill(c)
        \/ Writeback \/ PowerLoss \/ DirectoryLoss \/ Calm

Spec == Init /\ [][Next]_vars

(* Every call goes on until it returns, and calls keep being made.         *)
FairSpec == Spec /\ \A c \in Callers : WF_vars(CallerStep(c))

-----------------------------------------------------------------------------
(* Properties.                                                             *)

Labels == {"idle", "flock", "inspect", "clean", "settle", "preflight", "open", "fill",
           "fsync", "rename", "dirsync", "effect", "running", "reread"}
Content == [lock         |-> {"lock"},
            marker       |-> Attempts \union {Partial},
            report       |-> Reports,
            terminal     |-> Terminals,
            report_tmp   |-> Reports \union {Partial},
            terminal_tmp |-> Terminals \union {Partial},
            work         |-> {Partial}]

(* The type invariant.  A report or a terminal appears under its name only *)
(* complete, in the directory and in what a power loss leaves of it.       *)
TypeOK == /\ DOMAIN files = Names /\ DOMAIN disk = Names
          /\ \A n \in Names : {files[n], disk[n]} \subseteq Content[n] \union {Absent}
          /\ synced \subseteq Names /\ calm \in BOOLEAN
          /\ parent \in {"new", "durable", "lost"}
          /\ holder \in Callers \union {Nobody}
          /\ at \in [Callers -> Labels]
          /\ job \in [Callers -> Jobs \union {NoJob}]
          /\ own \in [Callers -> Attempts \union {NoAttempt}]
          /\ runs \in Nat /\ outcome \in Reports \union {"error", Absent}
          /\ told \subseteq Terminals

(* The gates run at most once, whichever callers ask, for whichever        *)
(* commits, and wherever they are killed, meet an error or lose power, as  *)
(* long as the directory that holds the marker is not itself lost.         *)
EffectOnce == parent # "lost" => runs <= 1

(* The docstring's "durable, single-attempt ownership", unconditionally    *)
(* (final_once.py:1).                                                      *)
SingleAttempt == runs <= 1

(* A verdict that names a report was earned: the one run produced that     *)
(* report, and the report is there and stays there after a power loss,     *)
(* before anyone is told and before the terminal can survive one.          *)
VerdictEarned ==
    parent # "lost" =>
        \A t \in told \union ({files["terminal"], disk["terminal"]} \ {Absent, Partial}) :
            t.report # Absent =>
                /\ outcome = t.report
                /\ files["report"] = t.report /\ disk["report"] = t.report

(* A terminal on its name passes the checks of later calls against the     *)
(* marker, the report and the lock file, whichever path wrote it; the one  *)
(* that does not is refused for ever.  It is the terminal of an attempt    *)
(* that was settled when its marker could not be read.                     *)
TerminalReadable ==
    Present("terminal") =>
        /\ Present("lock")
        /\ Valid(files["terminal"]) \/ files["terminal"] = Orphan(NoAttempt)

(* Every behaviour without power loss is one of the one-shot gate: one     *)
(* run, one verdict that never changes, and everyone told the same.        *)
Gate == INSTANCE OneShot WITH
    Verdicts <- Terminals, None <- Absent, verdict <- files["terminal"]
ImplementsOneShot == Gate!Spec

(* A verdict that was told stands: nobody is told that the gates passed    *)
(* while another call is told that they did not - "one terminal without    *)
(* replay" (final_once.py:462).                                            *)
VerdictStands == parent # "lost" => \A t, u \in told : t.report = "passed" => u.report = "passed"

(* Once failures are over, an attempt whose caller stopped at any point is *)
(* settled by the calls that follow.                                       *)
Settles == calm /\ Present("marker") ~> Present("terminal")
=============================================================================
