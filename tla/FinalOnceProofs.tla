-------------------------- MODULE FinalOnceProofs --------------------------
(***************************************************************************)
(* What FinalOnce guarantees for any number of callers and commits, with   *)
(* kills, errors and power losses anywhere: its types, that the effect     *)
(* runs at most once, and that a verdict that names a report was earned;   *)
(* and that without power losses it implements OneShot and every terminal  *)
(* can be read by later calls.                                             *)
(***************************************************************************)
EXTENDS FinalOnce, TLAPS

Inside == Labels \ {"idle", "flock"}
Writing == {"open", "fill", "fsync", "rename", "dirsync"}
Durable == {"lock", "report", "terminal"}

Writes(c, name) == at[c] \in Writing /\ job[c].name = name

(* The flock excludes.                                                     *)
HeldInv == \A c \in Callers : at[c] \in Inside => holder = c

(* A file that appears complete under its name was synced before.          *)
SyncInv == \A n \in Durable : files[n] # Absent => n \in synced

(* What a caller is writing, and what it has written when it reads back.   *)
JobInv ==
    \A c \in Callers :
        /\ at[c] \in Writing \union {"reread"} => job[c] \in Jobs
        /\ at[c] = "rename" => job[c].name # "marker" /\ Target(job[c]) \in synced
        /\ at[c] = "reread" => job[c].name = "report" /\ disk["report"] = files["report"]
        /\ at[c] \in {"dirsync", "reread"} /\ job[c].name = "report"
              => files["report"] = job[c].value
        /\ Writes(c, "marker") \/ Writes(c, "report") => own[c] \in Attempts
        /\ at[c] \in {"effect", "running", "reread"} => own[c] \in Attempts

(* The marker before the effect: a caller that is about to write it finds  *)
(* none, and it is on disk before the effect and for ever after it.        *)
MarkerInv ==
    /\ disk["marker"] # Absent => files["marker"] # Absent
    /\ \A c \in Callers :
          /\ at[c] = "preflight" \/ (at[c] = "open" /\ job[c].name = "marker")
                => files["marker"] = Absent
          /\ Writes(c, "marker") /\ at[c] # "open" => files["marker"] # Absent
          /\ at[c] = "effect" => disk["marker"] # Absent

(* The effect has not run when the marker is being written.                *)
RunsInv ==
    parent # "lost" =>
        /\ runs <= 1 /\ (runs > 0 => disk["marker"] # Absent)
        /\ \A c \in Callers :
              at[c] = "effect" \/ Writes(c, "marker") => runs = 0

(* A report being written is the outcome of the one run; a terminal being  *)
(* written names it only when it is there to stay.                         *)
Earned(t) == t.report # Absent => /\ outcome = t.report
                                  /\ files["report"] = t.report
                                  /\ disk["report"] = t.report
EarnedInv ==
    parent # "lost" =>
        /\ runs = 0 => outcome = Absent
        /\ \A c \in Callers :
              /\ at[c] = "running" => runs = 1 /\ outcome = Absent
              /\ Writes(c, "report") \/ at[c] = "reread" => outcome = job[c].value
              /\ Writes(c, "terminal") => Earned(job[c].value)
        /\ \A t \in told : Earned(t)
        /\ files["terminal"] # Absent => Earned(files["terminal"])
        /\ disk["terminal"] # Absent => Earned(disk["terminal"])

(* The inductive invariant.                                                *)
IInv == /\ TypeOK /\ HeldInv /\ SyncInv /\ JobInv /\ MarkerInv /\ RunsInv /\ EarnedInv

-----------------------------------------------------------------------------
(* A write and its target, and what may be written there.                  *)
LEMMA JobType ==
    ASSUME NEW j \in Jobs
    PROVE  /\ j.name \in {"marker", "report", "terminal"}
           /\ j.name = "marker" => Target(j) = "marker" /\ j.value \in Attempts
           /\ j.name = "report" => Target(j) = "report_tmp" /\ j.value \in Reports
           /\ j.name = "terminal" => Target(j) = "terminal_tmp" /\ j.value \in Terminals
           /\ j.value # Absent /\ j.value # Partial
BY DistinctAssumption DEF Jobs, Target, Reports

(* What is written is well typed.                                          *)
LEMMA WriteType ==
    /\ \A a \in Attempts : Write("marker", a) \in Jobs
    /\ \A r \in Reports : Write("report", r) \in Jobs
    /\ \A t \in Terminals : Write("terminal", t) \in Jobs
BY DEF Write, Jobs

(* Every terminal the protocol composes is one that its readers know.      *)
LEMMA TerminalType ==
    /\ \A id \in Attempts \union {NoAttempt} :
          Orphan(id) \in Terminals /\ Orphan(id).report = Absent
    /\ \A id \in Attempts \union {NoAttempt} :
          LET t == Terminal(id, "INTERNAL_ERROR", Absent)
          IN  t \in Terminals /\ t.report = Absent
    /\ \A a \in Attempts, r \in Reports :
          LET t == Terminal(a, IF r = "passed" THEN "ALL_GATES_PASSED" ELSE "GATE_FAILED", r)
          IN  t \in Terminals /\ t.report = r
<1>1. \A a \in Attempts, r \in Reports :
         LET t == Terminal(a, IF r = "passed" THEN "ALL_GATES_PASSED" ELSE "GATE_FAILED", r)
         IN  t \in Terminals /\ t.report = r
  <2> SUFFICES ASSUME NEW a \in Attempts, NEW r \in Reports
               PROVE  LET t == Terminal(a, IF r = "passed" THEN "ALL_GATES_PASSED"
                                                           ELSE "GATE_FAILED", r)
                      IN  t \in Terminals /\ t.report = r
    OBVIOUS
  <2>1. CASE r = "passed"
    BY <2>1 DEF Terminals, Terminal
  <2>2. CASE r = "failed"
    BY <2>2 DEF Terminals, Terminal
  <2> QED BY <2>1, <2>2 DEF Reports
<1>2. \A id \in Attempts \union {NoAttempt} :
         \A reason \in {"INTERRUPTED_AFTER_MARKER", "INTERNAL_ERROR"} :
            LET t == Terminal(id, reason, Absent)
            IN  t \in Terminals /\ t.report = Absent
  BY DEF Terminals, Terminal
<1> QED BY <1>1, <1>2 DEF Orphan

(* The content of the directory, name by name.                             *)
HasContent(f) == /\ f["lock"] \in {"lock", Absent}
                 /\ f["marker"] \in Attempts \union {Partial, Absent}
                 /\ f["report"] \in Reports \union {Absent}
                 /\ f["terminal"] \in Terminals \union {Absent}
                 /\ f["report_tmp"] \in Reports \union {Partial, Absent}
                 /\ f["terminal_tmp"] \in Terminals \union {Partial, Absent}
                 /\ f["work"] \in {Partial, Absent}

(* TypeOK, with its quantifier over the names written out.                 *)
LEMMA ContentByName ==
    ASSUME NEW f
    PROVE  (\A n \in Names : f[n] \in Content[n] \union {Absent}) <=> HasContent(f)
BY DEF Names, Content, HasContent

(* The rest of TypeOK.                                                     *)
OtherTypes == /\ DOMAIN files = Names /\ DOMAIN disk = Names
              /\ synced \subseteq Names /\ calm \in BOOLEAN
              /\ parent \in {"new", "durable", "lost"}
              /\ holder \in Callers \union {Nobody}
              /\ at \in [Callers -> Labels]
              /\ job \in [Callers -> Jobs \union {NoJob}]
              /\ own \in [Callers -> Attempts \union {NoAttempt}]
              /\ runs \in Nat /\ outcome \in Reports \union {"error", Absent}
              /\ told \subseteq Terminals

(* TypeOK in these two parts, in a state and in its successor.             *)
LEMMA TypeByName == TypeOK <=> HasContent(files) /\ HasContent(disk) /\ OtherTypes
BY ContentByName DEF TypeOK, OtherTypes

(* The same of the next state.                                             *)
LEMMA TypeByNamePrime == (TypeOK <=> HasContent(files) /\ HasContent(disk) /\ OtherTypes)'
BY ContentByName DEF TypeOK, OtherTypes

-----------------------------------------------------------------------------

(* The empty directory satisfies the invariant.                            *)
LEMMA InitInv == Init => IInv
<1> SUFFICES ASSUME Init PROVE IInv
  OBVIOUS
<1> USE DistinctAssumption DEF Init
<1>1. HasContent(files) /\ HasContent(disk)
  BY DEF HasContent, Names
<1>2. OtherTypes
  BY DEF OtherTypes, NoJob, Labels
<1>3. HeldInv /\ SyncInv /\ JobInv
  BY DEF HeldInv, SyncInv, JobInv, Inside, Labels, Durable, Names, Writing, Writes
<1>4. MarkerInv /\ RunsInv /\ EarnedInv
  BY DEF MarkerInv, RunsInv, EarnedInv, Names, Writing, Writes
<1> QED BY <1>1, <1>2, <1>3, <1>4, TypeByName DEF IInv

(* What a caller does, or suffers alone.                                   *)
LEMMA CallerInv ==
    ASSUME IInv, NEW c \in Callers, CallerStep(c) \/ OSError(c) \/ Kill(c)
    PROVE  IInv'
<1> USE JobType, DistinctAssumption, TypeByName DEF IInv, Step, dir, seen, Present
<1>1. CASE Begin(c)
  <2>1. (HasContent(files) /\ HasContent(disk))'
    BY <1>1 DEF Begin, HasContent, Names, OtherTypes, JobInv, HeldInv, SyncInv,
       Durable, Inside, Writing, Labels
  <2>2. OtherTypes'
    BY <1>1 DEF Begin, HasContent, OtherTypes, JobInv, Inside, Writing, Labels,
       Names, Reports, NoJob
  <2>3. (HeldInv /\ SyncInv)'
    BY <1>1 DEF Begin, HeldInv, SyncInv, Durable, JobInv, OtherTypes, Inside,
       Writing, Labels, Names
  <2>4. JobInv'
    BY <1>1 DEF Begin, JobInv, HeldInv, SyncInv, OtherTypes, HasContent, Names,
       Writes, Inside, Writing, Labels, Reports
  <2>5. (MarkerInv /\ RunsInv)'
    BY <1>1 DEF Begin, MarkerInv, RunsInv, JobInv, HeldInv, OtherTypes, HasContent,
       Names, Writes, Inside, Writing, Labels
  <2>6. EarnedInv'
    BY <1>1 DEF Begin, EarnedInv, Earned, RunsInv, JobInv, HeldInv, SyncInv,
       Durable, OtherTypes, HasContent, Names, Writes, Inside, Writing, Labels,
       Reports
  <2> QED BY <2>1, <2>2, <2>3, <2>4, <2>5, <2>6, TypeByNamePrime
<1>2. CASE Lock(c)
  <2>1. (HasContent(files) /\ HasContent(disk))'
    BY <1>2 DEF Lock, Leave, HasContent, Names, OtherTypes, JobInv, HeldInv,
       SyncInv, Durable, Inside, Writing, Labels
  <2>2. OtherTypes'
    BY <1>2 DEF Lock, Leave, HasContent, OtherTypes, JobInv, Inside, Writing,
       Labels, Names, Reports, NoJob
  <2>3. (HeldInv /\ SyncInv)'
    BY <1>2 DEF Lock, Leave, HeldInv, SyncInv, Durable, JobInv, OtherTypes, Inside,
       Writing, Labels, Names
  <2>4. JobInv'
    BY <1>2 DEF Lock, Leave, JobInv, HeldInv, SyncInv, OtherTypes, HasContent,
       Names, Writes, Inside, Writing, Labels, NoJob, Write, Reports
  <2>5. (MarkerInv /\ RunsInv)'
    BY <1>2 DEF Lock, Leave, MarkerInv, RunsInv, JobInv, HeldInv, OtherTypes,
       HasContent, Names, Writes, Inside, Writing, Labels, NoJob, Write
  <2>6. EarnedInv'
    BY <1>2 DEF Lock, Leave, EarnedInv, Earned, RunsInv, JobInv, HeldInv, SyncInv,
       Durable, OtherTypes, HasContent, Names, Writes, Inside, Writing, Labels,
       NoJob, Write, Reports
  <2> QED BY <2>1, <2>2, <2>3, <2>4, <2>5, <2>6, TypeByNamePrime
<1>3. CASE Replay(c)
  <2>1. (HasContent(files) /\ HasContent(disk))'
    BY <1>3 DEF Replay, Unread, Answer, Blocked, Leave, HasContent, Names, OtherTypes,
       JobInv, HeldInv, SyncInv, Durable, Inside, Writing, Labels
  <2>2. OtherTypes'
    BY <1>3 DEF Replay, Unread, Answer, Blocked, Leave, HasContent, OtherTypes, JobInv,
       Inside, Writing, Labels, Names, Reports, NoJob
  <2>3. (HeldInv /\ SyncInv)'
    BY <1>3 DEF Replay, Unread, Answer, Blocked, Leave, HeldInv, SyncInv, Durable, JobInv,
       OtherTypes, Inside, Writing, Labels, Names
  <2>4. JobInv'
    BY <1>3 DEF Replay, Unread, Answer, Blocked, Leave, JobInv, HeldInv, SyncInv,
       OtherTypes, HasContent, Names, Writes, Inside, Writing, Labels, NoJob, Write,
       Reports
  <2>5. (MarkerInv /\ RunsInv)'
    BY <1>3 DEF Replay, Unread, Answer, Blocked, Leave, MarkerInv, RunsInv, JobInv, HeldInv,
       OtherTypes, HasContent, Names, Writes, Inside, Writing, Labels, NoJob, Write
  <2>6. EarnedInv'
    BY <1>3 DEF Replay, Unread, Answer, Blocked, Leave, EarnedInv, Earned, RunsInv, JobInv,
       HeldInv, SyncInv, Durable, OtherTypes, HasContent, Names, Writes, Inside,
       Writing, Labels, NoJob, Write, Reports
  <2> QED BY <2>1, <2>2, <2>3, <2>4, <2>5, <2>6, TypeByNamePrime
<1>4. CASE Inspect(c)
  <2>1. (HasContent(files) /\ HasContent(disk))'
    BY <1>4 DEF Inspect, HasContent, Names, OtherTypes, JobInv, HeldInv, SyncInv,
       Durable, Inside, Writing, Labels
  <2>2. OtherTypes'
    BY <1>4 DEF Inspect, HasContent, OtherTypes, JobInv, Inside, Writing, Labels,
       Names, Reports, NoJob
  <2>3. (HeldInv /\ SyncInv)'
    BY <1>4 DEF Inspect, HeldInv, SyncInv, Durable, JobInv, OtherTypes, Inside,
       Writing, Labels, Names
  <2>4. JobInv'
    BY <1>4 DEF Inspect, JobInv, HeldInv, SyncInv, OtherTypes, HasContent, Names,
       Writes, Inside, Writing, Labels, Reports
  <2>5. (MarkerInv /\ RunsInv)'
    BY <1>4 DEF Inspect, MarkerInv, RunsInv, JobInv, HeldInv, OtherTypes,
       HasContent, Names, Writes, Inside, Writing, Labels
  <2>6. EarnedInv'
    BY <1>4 DEF Inspect, EarnedInv, Earned, RunsInv, JobInv, HeldInv, SyncInv,
       Durable, OtherTypes, HasContent, Names, Writes, Inside, Writing, Labels,
       Reports
  <2> QED BY <2>1, <2>2, <2>3, <2>4, <2>5, <2>6, TypeByNamePrime
<1>5. CASE Clean(c)
  <2>1. (HasContent(files) /\ HasContent(disk))'
    BY <1>5 DEF Clean, Stale, HasContent, Names, OtherTypes, JobInv, HeldInv,
       SyncInv, Durable, Inside, Writing, Labels
  <2>2. OtherTypes'
    BY <1>5 DEF Clean, Stale, HasContent, OtherTypes, JobInv, Inside, Writing,
       Labels, Names, Reports, NoJob
  <2>3. (HeldInv /\ SyncInv)'
    BY <1>5 DEF Clean, Stale, HeldInv, SyncInv, Durable, JobInv, OtherTypes, Inside,
       Writing, Labels, Names
  <2>4. JobInv'
    BY <1>5 DEF Clean, Stale, JobInv, HeldInv, SyncInv, OtherTypes, HasContent,
       Names, Writes, Inside, Writing, Labels, Reports
  <2>5. (MarkerInv /\ RunsInv)'
    BY <1>5 DEF Clean, Stale, MarkerInv, RunsInv, JobInv, HeldInv, OtherTypes,
       HasContent, Names, Writes, Inside, Writing, Labels
  <2>6. EarnedInv'
    BY <1>5 DEF Clean, Stale, EarnedInv, Earned, RunsInv, JobInv, HeldInv, SyncInv,
       Durable, OtherTypes, HasContent, Names, Writes, Inside, Writing, Labels,
       Reports
  <2> QED BY <2>1, <2>2, <2>3, <2>4, <2>5, <2>6, TypeByNamePrime
<1>6. CASE CleanDone(c)
  <2>1. (HasContent(files) /\ HasContent(disk))'
    BY <1>6 DEF CleanDone, Flushed, HasContent, Names, OtherTypes, JobInv, HeldInv,
       SyncInv, Durable, Inside, Writing, Labels
  <2>2. OtherTypes'
    BY <1>6 DEF CleanDone, Flushed, HasContent, OtherTypes, JobInv, Inside, Writing,
       Labels, Names, Reports, NoJob
  <2>3. (HeldInv /\ SyncInv)'
    BY <1>6 DEF CleanDone, Flushed, HeldInv, SyncInv, Durable, JobInv, OtherTypes,
       Inside, Writing, Labels, Names
  <2>4. JobInv'
    BY <1>6 DEF CleanDone, Flushed, JobInv, HeldInv, SyncInv, OtherTypes,
       HasContent, Names, Writes, Inside, Writing, Labels, Reports
  <2>5. (MarkerInv /\ RunsInv)'
    BY <1>6 DEF CleanDone, Flushed, MarkerInv, RunsInv, JobInv, HeldInv, OtherTypes,
       HasContent, Names, Writes, Inside, Writing, Labels
  <2>6. EarnedInv'
    BY <1>6 DEF CleanDone, Flushed, EarnedInv, Earned, RunsInv, JobInv, HeldInv,
       SyncInv, Durable, OtherTypes, HasContent, Names, Writes, Inside, Writing,
       Labels, Reports
  <2> QED BY <2>1, <2>2, <2>3, <2>4, <2>5, <2>6, TypeByNamePrime
<1>7. CASE Settle(c)
  <2>1. (HasContent(files) /\ HasContent(disk))'
    BY <1>7 DEF Settle, Start, Read, MarkerId, HasContent, Names, OtherTypes,
       JobInv, HeldInv, SyncInv, Durable, Inside, Writing, Labels
  <2>2. OtherTypes'
    BY <1>7, WriteType, TerminalType DEF Settle, Start, Read, MarkerId, HasContent,
       OtherTypes, JobInv, Inside, Writing, Labels, Names, Reports, NoJob
  <2>3. (HeldInv /\ SyncInv)'
    BY <1>7 DEF Settle, Start, Read, MarkerId, HeldInv, SyncInv, Durable, JobInv,
       OtherTypes, Inside, Writing, Labels, Names
  <2>4. JobInv'
    BY <1>7, WriteType, TerminalType DEF Settle, Start, Read, MarkerId, JobInv,
       HeldInv, SyncInv, OtherTypes, HasContent, Names, Writes, Inside, Writing,
       Labels, Write, Reports
  <2>5. (MarkerInv /\ RunsInv)'
    BY <1>7, WriteType, TerminalType DEF Settle, Start, Read, MarkerId, MarkerInv,
       RunsInv, JobInv, HeldInv, OtherTypes, HasContent, Names, Writes, Inside,
       Writing, Labels, Write
  <2>6. EarnedInv'
    BY <1>7, WriteType, TerminalType DEF Settle, Start, Read, MarkerId, EarnedInv,
       Earned, RunsInv, JobInv, HeldInv, SyncInv, Durable, OtherTypes, HasContent,
       Names, Writes, Inside, Writing, Labels, Write, Reports
  <2> QED BY <2>1, <2>2, <2>3, <2>4, <2>5, <2>6, TypeByNamePrime
<1>8. CASE Preflight(c)
  <2>1. (HasContent(files) /\ HasContent(disk))'
    BY <1>8 DEF Preflight, Start, Blocked, Leave, HasContent, Names, OtherTypes,
       JobInv, HeldInv, SyncInv, Durable, Inside, Writing, Labels
  <2>2. OtherTypes'
    BY <1>8, WriteType DEF Preflight, Start, Blocked, Leave, OtherTypes, Labels
  <2>3. (HeldInv /\ SyncInv)'
    BY <1>8 DEF Preflight, Start, Blocked, Leave, HeldInv, SyncInv, Durable, JobInv,
       OtherTypes, Inside, Writing, Labels, Names
  <2>4. JobInv'
    BY <1>8, WriteType, TerminalType DEF Preflight, Start, Blocked, Leave, JobInv,
       HeldInv, SyncInv, OtherTypes, HasContent, Names, Writes, Inside, Writing,
       Labels, Write, NoJob, Reports
  <2>5. (MarkerInv /\ RunsInv)'
    BY <1>8, WriteType, TerminalType DEF Preflight, Start, Blocked, Leave,
       MarkerInv, RunsInv, JobInv, HeldInv, OtherTypes, HasContent, Names, Writes,
       Inside, Writing, Labels, Write, NoJob
  <2>6. EarnedInv'
    BY <1>8, WriteType, TerminalType DEF Preflight, Start, Blocked, Leave,
       EarnedInv, Earned, RunsInv, JobInv, HeldInv, SyncInv, Durable, OtherTypes,
       HasContent, Names, Writes, Inside, Writing, Labels, Write, NoJob, Reports
  <2> QED BY <2>1, <2>2, <2>3, <2>4, <2>5, <2>6, TypeByNamePrime
<1>9. CASE Open(c)
  <2>1. (HasContent(files) /\ HasContent(disk))'
    BY <1>9 DEF Open, HasContent, Names, OtherTypes, JobInv, HeldInv, SyncInv,
       Durable, Inside, Writing, Labels
  <2>2. OtherTypes'
    BY <1>9 DEF Open, HasContent, OtherTypes, JobInv, Inside, Writing, Labels,
       Names, Reports, NoJob
  <2>3. (HeldInv /\ SyncInv)'
    BY <1>9 DEF Open, HeldInv, SyncInv, Durable, JobInv, OtherTypes, Inside,
       Writing, Labels, Names
  <2>4. JobInv'
    BY <1>9 DEF Open, JobInv, HeldInv, SyncInv, OtherTypes, HasContent, Names,
       Writes, Inside, Writing, Labels, Reports
  <2>5. (MarkerInv /\ RunsInv)'
    BY <1>9 DEF Open, MarkerInv, RunsInv, JobInv, HeldInv, OtherTypes, HasContent,
       Names, Writes, Inside, Writing, Labels
  <2>6. EarnedInv'
    BY <1>9 DEF Open, EarnedInv, Earned, RunsInv, JobInv, HeldInv, SyncInv, Durable,
       OtherTypes, HasContent, Names, Writes, Inside, Writing, Labels, Reports
  <2> QED BY <2>1, <2>2, <2>3, <2>4, <2>5, <2>6, TypeByNamePrime
<1>10. CASE Fill(c)
  <2>1. (HasContent(files) /\ HasContent(disk))'
    BY <1>10 DEF Fill, HasContent, Names, OtherTypes, JobInv, HeldInv, SyncInv,
       Durable, Inside, Writing, Labels
  <2>2. OtherTypes'
    BY <1>10 DEF Fill, HasContent, OtherTypes, JobInv, Inside, Writing, Labels,
       Names, Reports, NoJob
  <2>3. (HeldInv /\ SyncInv)'
    BY <1>10 DEF Fill, HeldInv, SyncInv, Durable, JobInv, OtherTypes, Inside,
       Writing, Labels, Names
  <2>4. JobInv'
    BY <1>10 DEF Fill, JobInv, HeldInv, SyncInv, OtherTypes, HasContent, Names,
       Writes, Inside, Writing, Labels, Reports
  <2>5. (MarkerInv /\ RunsInv)'
    BY <1>10 DEF Fill, MarkerInv, RunsInv, JobInv, HeldInv, OtherTypes, HasContent,
       Names, Writes, Inside, Writing, Labels
  <2>6. EarnedInv'
    BY <1>10 DEF Fill, EarnedInv, Earned, RunsInv, JobInv, HeldInv, SyncInv,
       Durable, OtherTypes, HasContent, Names, Writes, Inside, Writing, Labels,
       Reports
  <2> QED BY <2>1, <2>2, <2>3, <2>4, <2>5, <2>6, TypeByNamePrime
<1>11. CASE Fsync(c)
  <2>1. (HasContent(files) /\ HasContent(disk))'
    BY <1>11 DEF Fsync, HasContent, Names, OtherTypes, JobInv, HeldInv, SyncInv,
       Durable, Inside, Writing, Labels
  <2>2. OtherTypes'
    BY <1>11 DEF Fsync, HasContent, OtherTypes, JobInv, Inside, Writing, Labels,
       Names, Reports, NoJob
  <2>3. (HeldInv /\ SyncInv)'
    BY <1>11 DEF Fsync, HeldInv, SyncInv, Durable, JobInv, OtherTypes, Inside,
       Writing, Labels, Names
  <2>4. JobInv'
    BY <1>11 DEF Fsync, JobInv, HeldInv, SyncInv, OtherTypes, HasContent, Names,
       Writes, Inside, Writing, Labels, Reports
  <2>5. (MarkerInv /\ RunsInv)'
    BY <1>11 DEF Fsync, MarkerInv, RunsInv, JobInv, HeldInv, OtherTypes, HasContent,
       Names, Writes, Inside, Writing, Labels
  <2>6. EarnedInv'
    BY <1>11 DEF Fsync, EarnedInv, Earned, RunsInv, JobInv, HeldInv, SyncInv,
       Durable, OtherTypes, HasContent, Names, Writes, Inside, Writing, Labels,
       Reports
  <2> QED BY <2>1, <2>2, <2>3, <2>4, <2>5, <2>6, TypeByNamePrime
<1>12. CASE Rename(c)
  <2>1. (HasContent(files) /\ HasContent(disk))'
    BY <1>12 DEF Rename, HasContent, Names, OtherTypes, JobInv, HeldInv, SyncInv,
       Durable, Inside, Writing, Labels
  <2>2. OtherTypes'
    BY <1>12 DEF Rename, HasContent, OtherTypes, JobInv, Inside, Writing, Labels,
       Names, Reports, NoJob
  <2>3. (HeldInv /\ SyncInv)'
    BY <1>12 DEF Rename, HeldInv, SyncInv, Durable, JobInv, OtherTypes, Inside,
       Writing, Labels, Names
  <2>4. JobInv'
    BY <1>12 DEF Rename, JobInv, HeldInv, SyncInv, OtherTypes, HasContent, Names,
       Writes, Inside, Writing, Labels, Reports
  <2>5. (MarkerInv /\ RunsInv)'
    BY <1>12 DEF Rename, MarkerInv, RunsInv, JobInv, HeldInv, OtherTypes,
       HasContent, Names, Writes, Inside, Writing, Labels
  <2>6. EarnedInv'
    BY <1>12 DEF Rename, EarnedInv, Earned, RunsInv, JobInv, HeldInv, SyncInv,
       Durable, OtherTypes, HasContent, Names, Writes, Inside, Writing, Labels,
       Reports
  <2> QED BY <2>1, <2>2, <2>3, <2>4, <2>5, <2>6, TypeByNamePrime
<1>13. CASE Dirsync(c)
  <2>1. (HasContent(files) /\ HasContent(disk))'
    BY <1>13 DEF Dirsync, Flushed, Answer, Leave, HasContent, Names, OtherTypes,
       JobInv, HeldInv, SyncInv, Durable, Inside, Writing, Labels
  <2>2. OtherTypes'
    BY <1>13 DEF Dirsync, Flushed, Answer, Leave, HasContent, OtherTypes, JobInv,
       Inside, Writing, Labels, Names, Reports, NoJob
  <2>3. (HeldInv /\ SyncInv)'
    BY <1>13 DEF Dirsync, Flushed, Answer, Leave, HeldInv, SyncInv, Durable, JobInv,
       OtherTypes, Inside, Writing, Labels, Names
  <2>4. disk'["report"] = files["report"]
    BY <1>13 DEF Dirsync, Flushed, Answer, Leave, SyncInv, Durable, Names
  <2>5. JobInv'
    <3>1. ASSUME NEW d \in Callers, d # c PROVE at[d] \in {"idle", "flock"}
      BY <1>13, <3>1 DEF Dirsync, HeldInv, OtherTypes, Inside, Labels
    <3>2. CASE job[c].name = "terminal"
      BY <1>13, <3>1, <3>2 DEF Dirsync, Answer, Leave, JobInv, OtherTypes, Writes, Writing
    <3>3. CASE job[c].name # "terminal"
      <4>1. /\ at' = [at EXCEPT ![c] = IF job[c].name = "marker" THEN "effect" ELSE "reread"]
            /\ UNCHANGED <<files, synced, job, own>> /\ at[c] = "dirsync"
        BY <1>13, <3>3 DEF Dirsync
      <4>2. at[c] \in Writing /\ job[c] \in Jobs
        BY <4>1 DEF JobInv, Writing
      <4>3. Writes(c, "marker") \/ Writes(c, "report")
        BY <4>2, <3>3 DEF Writes
      <4>4. own[c] \in Attempts
        BY <4>3 DEF JobInv
      <4> QED BY <2>4, <3>1, <3>3, <4>1, <4>2, <4>4 DEF JobInv, OtherTypes, Writes, Writing
    <3> QED BY <3>2, <3>3
  <2>6. (MarkerInv /\ RunsInv)'
    BY <1>13 DEF Dirsync, Flushed, Answer, Leave, MarkerInv, RunsInv, JobInv,
       HeldInv, OtherTypes, HasContent, Names, Writes, Inside, Writing, Labels,
       NoJob, Write
  <2>7. EarnedInv'
    BY <1>13 DEF Dirsync, Flushed, Answer, Leave, EarnedInv, Earned, RunsInv,
       JobInv, HeldInv, SyncInv, Durable, OtherTypes, HasContent, Names, Writes,
       Inside, Writing, Labels, NoJob, Write, Reports
  <2> QED BY <2>1, <2>2, <2>3, <2>5, <2>6, <2>7, TypeByNamePrime
<1>14. CASE EffectBegins(c)
  <2>1. (HasContent(files) /\ HasContent(disk))'
    BY <1>14 DEF EffectBegins, Working, HasContent, Names, OtherTypes, JobInv,
       HeldInv, SyncInv, Durable, Inside, Writing, Labels
  <2>2. OtherTypes'
    BY <1>14 DEF EffectBegins, Working, HasContent, OtherTypes, JobInv, Inside,
       Writing, Labels, Names, Reports, NoJob
  <2>3. (HeldInv /\ SyncInv)'
    BY <1>14 DEF EffectBegins, Working, HeldInv, SyncInv, Durable, JobInv,
       OtherTypes, Inside, Writing, Labels, Names
  <2>4. JobInv'
    BY <1>14 DEF EffectBegins, Working, JobInv, HeldInv, SyncInv, OtherTypes,
       HasContent, Names, Writes, Inside, Writing, Labels, Reports
  <2>5. (MarkerInv /\ RunsInv)'
    BY <1>14 DEF EffectBegins, Working, MarkerInv, RunsInv, JobInv, HeldInv,
       OtherTypes, HasContent, Names, Writes, Inside, Writing, Labels
  <2>6. EarnedInv'
    BY <1>14 DEF EffectBegins, Working, EarnedInv, Earned, RunsInv, JobInv, HeldInv,
       SyncInv, Durable, OtherTypes, HasContent, Names, Writes, Inside, Writing,
       Labels, Reports
  <2> QED BY <2>1, <2>2, <2>3, <2>4, <2>5, <2>6, TypeByNamePrime
<1>15. CASE EffectEnds(c)
  <2>1. (HasContent(files) /\ HasContent(disk))'
    BY <1>15 DEF EffectEnds, Working, Start, Failure, HasContent, Names, OtherTypes,
       JobInv, HeldInv, SyncInv, Durable, Inside, Writing, Labels
  <2>2. OtherTypes'
    <3>1. Failure(c) \in Terminals
      BY TerminalType DEF Failure, OtherTypes
    <3>2. PICK result \in {"passed", "failed", "error"} :
             /\ outcome' = result
             /\ IF result = "error" THEN Start(c, "terminal", Failure(c))
                                    ELSE Start(c, "report", result)
      BY <1>15 DEF EffectEnds
    <3>3. \E j \in Jobs : job' = [job EXCEPT ![c] = j] /\ at' = [at EXCEPT ![c] = "open"]
      BY <3>1, <3>2, WriteType DEF Start, Reports
    <3>4. outcome' \in Reports \union {"error"}
      BY <3>2 DEF Reports
    <3>5. DOMAIN files' = Names
      BY <1>15 DEF EffectEnds, Working, OtherTypes
    <3> QED BY <1>15, <3>3, <3>4, <3>5 DEF EffectEnds, OtherTypes, Labels
  <2>3. (HeldInv /\ SyncInv)'
    BY <1>15 DEF EffectEnds, Working, Start, Failure, HeldInv, SyncInv, Durable,
       JobInv, OtherTypes, Inside, Writing, Labels, Names
  <2>4. JobInv'
    BY <1>15, WriteType, TerminalType DEF EffectEnds, Working, Start, Failure,
       JobInv, HeldInv, SyncInv, OtherTypes, HasContent, Names, Writes, Inside,
       Writing, Labels, Write, Reports
  <2>5. (MarkerInv /\ RunsInv)'
    BY <1>15, WriteType, TerminalType DEF EffectEnds, Working, Start, Failure,
       MarkerInv, RunsInv, JobInv, HeldInv, OtherTypes, HasContent, Names, Writes,
       Inside, Writing, Labels, Write
  <2>6. EarnedInv'
    BY <1>15, WriteType, TerminalType DEF EffectEnds, Working, Start, Failure,
       EarnedInv, Earned, RunsInv, JobInv, HeldInv, SyncInv, Durable, OtherTypes,
       HasContent, Names, Writes, Inside, Writing, Labels, Write, Reports
  <2> QED BY <2>1, <2>2, <2>3, <2>4, <2>5, <2>6, TypeByNamePrime
<1>16. CASE Reread(c)
  <2>1. (HasContent(files) /\ HasContent(disk))'
    BY <1>16 DEF Reread, Start, HasContent, Names, OtherTypes, JobInv, HeldInv,
       SyncInv, Durable, Inside, Writing, Labels
  <2>2. (HeldInv /\ SyncInv)'
    BY <1>16 DEF Reread, Start, HeldInv, SyncInv, Durable, JobInv, OtherTypes,
       Inside, Writing, Labels, Names
  <2>3. /\ files["report"] = job[c].value /\ own[c] \in Attempts
        /\ job[c].value \in Reports /\ disk["report"] = files["report"]
    BY <1>16 DEF Reread, JobInv, Writes, Writing
  <2> DEFINE t == Terminal(own[c], IF job[c].value = "passed" THEN "ALL_GATES_PASSED"
                                                         ELSE "GATE_FAILED",
                           files["report"])
  <2>4. t \in Terminals /\ t.report = files["report"] /\ Write("terminal", t) \in Jobs
    BY <2>3, TerminalType, WriteType
  <2>5. Write("terminal", t).name = "terminal" /\ Write("terminal", t).value = t
    BY DEF Write
  <2>6. job' = [job EXCEPT ![c] = Write("terminal", t)] /\ at' = [at EXCEPT ![c] = "open"]
    BY <1>16 DEF Reread, Start
  <2> HIDE DEF t
  <2>7. OtherTypes'
    BY <1>16, <2>4, <2>6 DEF Reread, OtherTypes, Labels
  <2>8. JobInv'
    BY <1>16, <2>4, <2>5, <2>6 DEF Reread, JobInv, HeldInv, OtherTypes, Writes, Inside,
       Writing, Labels
  <2>9. (MarkerInv /\ RunsInv)'
    BY <1>16, <2>5, <2>6 DEF Reread, MarkerInv, RunsInv, OtherTypes, Writes, Inside,
       Writing, Labels
  <2>10. EarnedInv'
    BY <1>16, <2>3, <2>4, <2>5, <2>6 DEF Reread, EarnedInv, Earned, OtherTypes, Writes,
       Inside, Writing, Labels
  <2> QED BY <2>1, <2>2, <2>7, <2>8, <2>9, <2>10, TypeByNamePrime
<1>17. CASE OSError(c)
  <2>1. (HasContent(files) /\ HasContent(disk))'
    BY <1>17 DEF OSError, Start, Failure, Blocked, Leave, HasContent, Names,
       OtherTypes, JobInv, HeldInv, SyncInv, Durable, Inside, Writing, Labels
  <2>2. OtherTypes'
    BY <1>17, WriteType, TerminalType, SMTT(20)
       DEF OSError, Start, Failure, Blocked, Leave, HasContent, OtherTypes,
       JobInv, Inside, Writing, Labels, Names, Reports, NoJob
  <2>3. (HeldInv /\ SyncInv)'
    BY <1>17 DEF OSError, Start, Failure, Blocked, Leave, HeldInv, SyncInv, Durable,
       JobInv, OtherTypes, Inside, Writing, Labels, Names
  <2>4. JobInv'
    BY <1>17, WriteType, TerminalType DEF OSError, Start, Failure, Blocked, Leave,
       JobInv, HeldInv, SyncInv, OtherTypes, HasContent, Names, Writes, Inside,
       Writing, Labels, Write, NoJob, Reports
  <2>5. (MarkerInv /\ RunsInv)'
    BY <1>17, WriteType, TerminalType DEF OSError, Start, Failure, Blocked, Leave,
       MarkerInv, RunsInv, JobInv, HeldInv, OtherTypes, HasContent, Names, Writes,
       Inside, Writing, Labels, Write, NoJob
  <2>6. EarnedInv'
    BY <1>17, WriteType, TerminalType DEF OSError, Start, Failure, Blocked, Leave,
       EarnedInv, Earned, RunsInv, JobInv, HeldInv, SyncInv, Durable, OtherTypes,
       HasContent, Names, Writes, Inside, Writing, Labels, Write, NoJob, Reports
  <2> QED BY <2>1, <2>2, <2>3, <2>4, <2>5, <2>6, TypeByNamePrime
<1>18. CASE Kill(c)
  <2>1. (HasContent(files) /\ HasContent(disk))'
    BY <1>18 DEF Kill, Blocked, Leave, HasContent, Names, OtherTypes, JobInv,
       HeldInv, SyncInv, Durable, Inside, Writing, Labels
  <2>2. OtherTypes'
    BY <1>18 DEF Kill, Blocked, Leave, HasContent, OtherTypes, JobInv, Inside,
       Writing, Labels, Names, Reports, NoJob
  <2>3. (HeldInv /\ SyncInv)'
    BY <1>18 DEF Kill, Blocked, Leave, HeldInv, SyncInv, Durable, JobInv,
       OtherTypes, Inside, Writing, Labels, Names
  <2>4. JobInv'
    BY <1>18 DEF Kill, Blocked, Leave, JobInv, HeldInv, SyncInv, OtherTypes,
       HasContent, Names, Writes, Inside, Writing, Labels, NoJob, Write, Reports
  <2>5. (MarkerInv /\ RunsInv)'
    BY <1>18 DEF Kill, Blocked, Leave, MarkerInv, RunsInv, JobInv, HeldInv,
       OtherTypes, HasContent, Names, Writes, Inside, Writing, Labels, NoJob, Write
  <2>6. EarnedInv'
    BY <1>18 DEF Kill, Blocked, Leave, EarnedInv, Earned, RunsInv, JobInv, HeldInv,
       SyncInv, Durable, OtherTypes, HasContent, Names, Writes, Inside, Writing,
       Labels, NoJob, Write, Reports
  <2> QED BY <2>1, <2>2, <2>3, <2>4, <2>5, <2>6, TypeByNamePrime
<1> QED
  BY <1>1, <1>2, <1>3, <1>4, <1>5, <1>6, <1>7, <1>8, <1>9, <1>10, <1>11, <1>12,
     <1>13, <1>14, <1>15, <1>16, <1>17, <1>18 DEF CallerStep

(* What happens to all of them.                                            *)
LEMMA MachineInv ==
    ASSUME IInv, Writeback \/ PowerLoss \/ DirectoryLoss \/ Calm \/ UNCHANGED vars
    PROVE  IInv'
<1> USE JobType, DistinctAssumption, TypeByName DEF IInv, Step, dir, seen, Present
<1>1. CASE Writeback
  <2>1. (HasContent(files) /\ HasContent(disk))'
    BY <1>1 DEF Writeback, Flushed, HasContent, Names, OtherTypes, JobInv, HeldInv,
       SyncInv, Durable, Inside, Writing, Labels
  <2>2. OtherTypes'
    BY <1>1 DEF Writeback, Flushed, HasContent, OtherTypes, JobInv, Inside, Writing,
       Labels, Names, Reports, NoJob
  <2>3. (HeldInv /\ SyncInv)'
    BY <1>1 DEF Writeback, Flushed, HeldInv, SyncInv, Durable, JobInv, OtherTypes,
       Inside, Writing, Labels, Names
  <2>4. disk'["report"] = files["report"]
    BY <1>1 DEF Writeback, Flushed, SyncInv, Durable, Names
  <2>5. JobInv'
    BY <1>1, <2>4 DEF Writeback, Answer, Leave, JobInv, HeldInv, SyncInv,
       OtherTypes, HasContent, Names, Writes, Inside, Writing, Labels, Reports
  <2>6. (MarkerInv /\ RunsInv)'
    BY <1>1 DEF Writeback, Flushed, MarkerInv, RunsInv, JobInv, HeldInv, OtherTypes,
       HasContent, Names, Writes, Inside, Writing, Labels
  <2>7. EarnedInv'
    BY <1>1 DEF Writeback, Flushed, EarnedInv, Earned, RunsInv, JobInv, HeldInv,
       SyncInv, Durable, OtherTypes, HasContent, Names, Writes, Inside, Writing,
       Labels, Reports
  <2> QED BY <2>1, <2>2, <2>3, <2>5, <2>6, <2>7, TypeByNamePrime
<1>2. CASE PowerLoss
  <2>1. (HasContent(files) /\ HasContent(disk))'
    BY <1>2 DEF PowerLoss, Restart, HasContent, Names, OtherTypes, JobInv, HeldInv,
       SyncInv, Durable, Inside, Writing, Labels
  <2>2. OtherTypes'
    BY <1>2 DEF PowerLoss, Restart, HasContent, OtherTypes, JobInv, Inside, Writing,
       Labels, Names, Reports, NoJob
  <2>3. (HeldInv /\ SyncInv)'
    BY <1>2 DEF PowerLoss, Restart, HeldInv, SyncInv, Durable, JobInv, OtherTypes,
       Inside, Writing, Labels, Names
  <2>4. JobInv'
    BY <1>2 DEF PowerLoss, Restart, JobInv, HeldInv, SyncInv, OtherTypes,
       HasContent, Names, Writes, Inside, Writing, Labels, NoJob, Write, Reports
  <2>5. (MarkerInv /\ RunsInv)'
    BY <1>2 DEF PowerLoss, Restart, MarkerInv, RunsInv, JobInv, HeldInv, OtherTypes,
       HasContent, Names, Writes, Inside, Writing, Labels, NoJob, Write
  <2>6. EarnedInv'
    BY <1>2 DEF PowerLoss, Restart, EarnedInv, Earned, RunsInv, JobInv, HeldInv,
       SyncInv, Durable, OtherTypes, HasContent, Names, Writes, Inside, Writing,
       Labels, NoJob, Write, Reports
  <2> QED BY <2>1, <2>2, <2>3, <2>4, <2>5, <2>6, TypeByNamePrime
<1>3. CASE DirectoryLoss
  <2>1. (HasContent(files) /\ HasContent(disk))'
    BY <1>3 DEF DirectoryLoss, Restart, HasContent, Names, OtherTypes, JobInv,
       HeldInv, SyncInv, Durable, Inside, Writing, Labels
  <2>2. OtherTypes'
    BY <1>3 DEF DirectoryLoss, Restart, HasContent, OtherTypes, JobInv, Inside,
       Writing, Labels, Names, Reports, NoJob
  <2>3. (HeldInv /\ SyncInv)'
    BY <1>3 DEF DirectoryLoss, Restart, HeldInv, SyncInv, Durable, JobInv,
       OtherTypes, Inside, Writing, Labels, Names
  <2>4. JobInv'
    BY <1>3 DEF DirectoryLoss, Restart, JobInv, HeldInv, SyncInv, OtherTypes,
       HasContent, Names, Writes, Inside, Writing, Labels, NoJob, Write, Reports
  <2>5. (MarkerInv /\ RunsInv)'
    BY <1>3 DEF DirectoryLoss, Restart, MarkerInv, RunsInv, JobInv, HeldInv,
       OtherTypes, HasContent, Names, Writes, Inside, Writing, Labels, NoJob, Write
  <2>6. EarnedInv'
    BY <1>3 DEF DirectoryLoss, Restart, EarnedInv, Earned, RunsInv, JobInv, HeldInv,
       SyncInv, Durable, OtherTypes, HasContent, Names, Writes, Inside, Writing,
       Labels, NoJob, Write, Reports
  <2> QED BY <2>1, <2>2, <2>3, <2>4, <2>5, <2>6, TypeByNamePrime
<1>4. CASE Calm
  <2>1. (HasContent(files) /\ HasContent(disk))'
    BY <1>4 DEF Calm, HasContent, Names, OtherTypes, JobInv, HeldInv, SyncInv,
       Durable, Inside, Writing, Labels
  <2>2. OtherTypes'
    BY <1>4 DEF Calm, HasContent, OtherTypes, JobInv, Inside, Writing, Labels,
       Names, Reports, NoJob
  <2>3. (HeldInv /\ SyncInv)'
    BY <1>4 DEF Calm, HeldInv, SyncInv, Durable, JobInv, OtherTypes, Inside,
       Writing, Labels, Names
  <2>4. JobInv'
    BY <1>4 DEF Calm, JobInv, HeldInv, SyncInv, OtherTypes, HasContent, Names,
       Writes, Inside, Writing, Labels, Reports
  <2>5. (MarkerInv /\ RunsInv)'
    BY <1>4 DEF Calm, MarkerInv, RunsInv, JobInv, HeldInv, OtherTypes, HasContent,
       Names, Writes, Inside, Writing, Labels
  <2>6. EarnedInv'
    BY <1>4 DEF Calm, EarnedInv, Earned, RunsInv, JobInv, HeldInv, SyncInv, Durable,
       OtherTypes, HasContent, Names, Writes, Inside, Writing, Labels, Reports
  <2> QED BY <2>1, <2>2, <2>3, <2>4, <2>5, <2>6, TypeByNamePrime
<1>5. CASE UNCHANGED vars
  <2>1. TypeOK'
    BY <1>5 DEF vars, TypeOK
  <2>2. (HeldInv /\ SyncInv /\ JobInv /\ MarkerInv /\ RunsInv /\ EarnedInv)'
    BY <1>5 DEF vars, HeldInv, SyncInv, JobInv, MarkerInv, RunsInv, EarnedInv, Earned, Writes
  <2> QED BY <2>1, <2>2
<1> QED BY <1>1, <1>2, <1>3, <1>4, <1>5

(* The invariant holds in every state.                                     *)
LEMMA Inductive == Spec => []IInv
<1>1. IInv /\ [Next]_vars => IInv'
  BY CallerInv, MachineInv DEF Next
<1> QED BY <1>1, InitInv, PTL DEF Spec

-----------------------------------------------------------------------------
(* The theorems.                                                           *)

(* Types: in particular a report or a terminal is never found incomplete   *)
(* under its name, in the directory or in what a power loss leaves of it.  *)
THEOREM TypeCorrect == Spec => []TypeOK
BY Inductive, PTL DEF IInv

(* The gates run at most once, for any number of callers and commits and   *)
(* whatever fails, unless the directory itself is lost (marker before      *)
(* effect, final_once.py:573-580).                                         *)
THEOREM AtMostOnce == Spec => []EffectOnce
<1>1. IInv => EffectOnce
  BY DEF IInv, RunsInv, EffectOnce
<1> QED BY <1>1, Inductive, PTL

(* A verdict that names a report is about the report of the one run, and   *)
(* the report is durable before the verdict is (final_once.py:583-609).    *)
THEOREM VerdictsEarned == Spec => []VerdictEarned
<1>1. IInv => VerdictEarned
  BY TypeByName DEF IInv, EarnedInv, Earned, VerdictEarned, HasContent
<1> QED BY <1>1, Inductive, PTL
-----------------------------------------------------------------------------
(* Without power losses, FinalOnce implements OneShot.                     *)

(* From the moment a caller saw no terminal until it renames its own there *)
(* is none, and then it is the one it wrote.                               *)
ResultInv ==
    \A c \in Callers :
        at[c] \in Inside \ {"inspect"} =>
            IF at[c] = "dirsync" /\ job[c].name = "terminal"
            THEN files["terminal"] = job[c].value
            ELSE files["terminal"] = Absent

(* The directory is lost with the power only.                              *)
NewInv == ~PowerMayFail => parent = "new"

RInv == ResultInv /\ NewInv

(* Callers preserve it.                                                    *)
LEMMA ResultCallerInv ==
    ASSUME IInv, RInv, NEW c \in Callers, CallerStep(c) \/ OSError(c) \/ Kill(c)
    PROVE  RInv'
<1> USE JobType, TypeByName DEF IInv, RInv, ResultInv, NewInv, HeldInv, OtherTypes, Inside,
                                Labels, Step, dir, seen, Present
<1>1. CASE Begin(c) \/ Lock(c) \/ Replay(c) \/ Inspect(c)
  BY <1>1 DEF Begin, Lock, Replay, Unread, Inspect, Answer, Blocked, Leave, Names
<1>2. CASE Clean(c) \/ CleanDone(c)
  BY <1>2 DEF Clean, CleanDone, Stale, Names
<1>3. CASE Settle(c) \/ Preflight(c) \/ Reread(c)
  BY <1>3 DEF Settle, Preflight, Reread, Start, Blocked, Leave
<1>4. CASE Open(c) \/ Fill(c) \/ Fsync(c)
  BY <1>4 DEF Open, Fill, Fsync, JobInv, Writing, Names
<1>5. CASE Rename(c)
  BY <1>5 DEF Rename, JobInv, Writing, Names
<1>6. CASE Dirsync(c)
  BY <1>6 DEF Dirsync, Answer, Leave
<1>7. CASE EffectBegins(c) \/ EffectEnds(c)
  BY <1>7 DEF EffectBegins, EffectEnds, Working, Start, Names
<1>8. CASE OSError(c) \/ Kill(c)
  BY <1>8 DEF OSError, Kill, Start, Blocked, Leave
<1> QED
  BY <1>1, <1>2, <1>3, <1>4, <1>5, <1>6, <1>7, <1>8 DEF CallerStep

(* So do the machine and the passing of time.                              *)
LEMMA ResultMachineInv ==
    ASSUME IInv, RInv, Writeback \/ PowerLoss \/ DirectoryLoss \/ Calm \/ UNCHANGED vars
    PROVE  RInv'
BY DEF RInv, ResultInv, NewInv, Writeback, PowerLoss, DirectoryLoss, Restart, Calm, vars, dir,
       seen, Inside

(* Both invariants hold in every state.                                    *)
LEMMA InductiveResult == Spec => [](IInv /\ RInv)
<1>1. Init => RInv
  BY DEF Init, RInv, ResultInv, NewInv, Inside, Labels
<1>2. IInv /\ RInv /\ [Next]_vars => RInv'
  BY ResultCallerInv, ResultMachineInv DEF Next
<1> QED BY <1>1, <1>2, Inductive, PTL DEF Spec

(* What OneShot sees.                                                      *)
Mapped == <<runs, outcome, files["terminal"], told>>

(* Each step of a caller is one of the gate's, or shows nothing.           *)
LEMMA CallerRefines ==
    ASSUME ~PowerMayFail, IInv, RInv, NEW c \in Callers,
           CallerStep(c) \/ OSError(c) \/ Kill(c)
    PROVE  Gate!Next \/ UNCHANGED Mapped
<1> USE TypeByName DEF IInv, RInv, ResultInv, OtherTypes, dir, seen, Mapped
<1>1. CASE Begin(c) \/ Inspect(c) \/ Settle(c) \/ Preflight(c) \/ Reread(c) \/ CleanDone(c)
  BY <1>1 DEF Begin, Inspect, Settle, Preflight, Reread, CleanDone, Start, Blocked
<1>2. CASE Lock(c) \/ Clean(c)
  BY <1>2 DEF Lock, Clean, Stale, Names
<1>3. CASE Replay(c)
  BY <1>3 DEF Replay, Unread, Answer, Blocked, Present, Gate!Next, Gate!Tell
<1>4. CASE Open(c) \/ Fill(c) \/ Fsync(c)
  BY <1>4, JobType DEF Open, Fill, Fsync, JobInv, Writing, Names
<1>5. CASE Rename(c) /\ job[c].name = "terminal"
  <2>1. job[c].value \in Terminals /\ Target(job[c]) = "terminal_tmp"
    BY <1>5, JobType DEF Rename, JobInv, Writing
  <2>2. files["terminal"] = Absent
    BY <1>5 DEF Rename, Inside, Labels
  <2>3. job[c].value.report \in {outcome, Absent}
    BY <1>5 DEF Rename, NewInv, EarnedInv, Earned, Writes, Writing
  <2>4. files'["terminal"] = job[c].value
    BY <1>5, <2>1 DEF Rename, Names
  <2>5. Gate!Decide(job[c].value)
    BY <1>5, <2>2, <2>3, <2>4 DEF Rename, Gate!Decide
  <2> QED BY <2>1, <2>5 DEF Gate!Next
<1>6. CASE Rename(c) /\ job[c].name # "terminal"
  BY <1>6, JobType DEF Rename, JobInv, Writing, Names
<1>7. CASE Dirsync(c)
  BY <1>7, JobType, DistinctAssumption DEF Dirsync, Answer, JobInv, Writing,
     Inside, Labels, Gate!Next, Gate!Tell
<1>8. CASE EffectBegins(c)
  BY <1>8 DEF EffectBegins, Working, Names, RunsInv, NewInv, Inside, Labels,
     Gate!Next, Gate!Run
<1>9. CASE EffectEnds(c)
  BY <1>9 DEF EffectEnds, Working, Names, EarnedInv, NewInv, Inside, Labels,
     Gate!Next, Gate!Finish
<1>10. CASE OSError(c) \/ Kill(c)
  BY <1>10 DEF OSError, Kill, Blocked
<1> QED
  BY <1>1, <1>2, <1>3, <1>4, <1>5, <1>6, <1>7, <1>8, <1>9, <1>10 DEF CallerStep

(* One run, one verdict that never changes, everyone told the same: for    *)
(* any number of callers and commits, kills and errors anywhere, as long   *)
(* as the machine keeps its power (final_once.py:449-611).                 *)
THEOREM Refinement == ASSUME ~PowerMayFail PROVE Spec => ImplementsOneShot
<1>1. Init => Gate!Init
  BY DEF Init, Gate!Init, Names
<1>2. ASSUME IInv, RInv, [Next]_vars
      PROVE  Gate!Next \/ UNCHANGED Mapped
  <2>1. CASE Writeback \/ PowerLoss \/ DirectoryLoss
    BY <2>1 DEF Writeback, PowerLoss, DirectoryLoss, Restart
  <2>2. CASE Calm \/ UNCHANGED vars
    BY <2>2 DEF Calm, vars, dir, seen, Mapped
  <2> QED BY <1>2, <2>1, <2>2, CallerRefines DEF Next
<1>3. IInv /\ RInv /\ [Next]_vars => [Gate!Next]_<<runs, outcome, files["terminal"], told>>
  BY <1>2 DEF Mapped
<1> QED BY <1>1, <1>3, InductiveResult, PTL DEF Spec, ImplementsOneShot, Gate!Spec

-----------------------------------------------------------------------------
(* Without power losses, a terminal can be read by every later call.       *)

Readable(t) == Valid(t) \/ t = Orphan(NoAttempt)

(* The marker of an attempt stays what its caller wrote, and a terminal is *)
(* readable from the moment its writer composes it.                        *)
ReadInv ==
    /\ \A c \in Callers :
          /\ at[c] \in Inside => files["lock"] # Absent
          /\ Writes(c, "marker") => job[c].value = own[c]
          /\ Writes(c, "marker") /\ at[c] \in {"fsync", "dirsync"}
                => files["marker"] = job[c].value
          /\ at[c] \in {"effect", "running", "reread"} \/ Writes(c, "report")
                => files["marker"] = own[c]
          /\ Writes(c, "terminal") => Readable(job[c].value)
    /\ TerminalReadable

(* Callers preserve it: only the holder of the lock changes the marker or  *)
(* the report, and it does so while there is no terminal.                  *)
LEMMA ReadCallerInv ==
    ASSUME IInv, RInv, ReadInv, NEW c \in Callers, CallerStep(c) \/ OSError(c) \/ Kill(c)
    PROVE  ReadInv'
<1> USE JobType, TypeByName, DistinctAssumption
    DEF IInv, RInv, ResultInv, HeldInv, OtherTypes, Step, dir, seen, Present, ReadInv,
        TerminalReadable, Inside, Labels, Writing, Writes
<1>0. ASSUME files'["marker"] = files["marker"], files'["report"] = files["report"], NEW t
      PROVE  Readable(t)' <=> Readable(t)
  BY <1>0 DEF Readable, Valid, MarkerId
<1>1. CASE Begin(c) \/ Lock(c) \/ Replay(c) \/ Inspect(c)
  BY <1>0, <1>1 DEF Begin, Lock, Replay, Unread, Inspect, Answer, Blocked, Leave, Names, Readable
<1>2. CASE Clean(c) \/ CleanDone(c)
  BY <1>0, <1>2 DEF Clean, CleanDone, Stale, Names, Readable
<1>3. CASE Settle(c)
  <2>1. \A id \in Read : Readable(Orphan(id))
    BY TerminalType DEF Read, Readable, Valid, MarkerId, Orphan, Terminal
  <2> QED BY <1>0, <1>3, <2>1 DEF Settle, Start, Write, Readable
<1>4. CASE Preflight(c)
  BY <1>0, <1>4 DEF Preflight, Start, Write, Blocked, Leave, Readable, NoJob
<1>5. CASE Open(c) \/ Fill(c)
  BY <1>0, <1>5 DEF Open, Fill, JobInv, Names, Readable
<1>6. CASE Fsync(c)
  BY <1>0, <1>6 DEF Fsync, JobInv, Readable
<1>7. CASE Rename(c)
  BY <1>0, <1>7 DEF Rename, JobInv, Names, Readable
<1>8. CASE Dirsync(c)
  BY <1>0, <1>8 DEF Dirsync, Answer, Leave, JobInv, Readable, NoJob, Write
<1>9. CASE EffectBegins(c)
  BY <1>0, <1>9 DEF EffectBegins, Working, Names, Readable
<1>10. ASSUME own[c] \in Attempts, files["marker"] = own[c]
       PROVE  /\ Readable(Failure(c))
              /\ \A r \in Reports : files["report"] = r =>
                    Readable(Terminal(own[c], IF r = "passed" THEN "ALL_GATES_PASSED"
                                                              ELSE "GATE_FAILED", r))
  BY <1>10, TerminalType DEF Readable, Valid, MarkerId, Failure, Terminal
<1>11. CASE EffectEnds(c)
  BY <1>0, <1>10, <1>11 DEF EffectEnds, Working, Names, Start, Write, JobInv, Readable
<1>12. CASE Reread(c)
  BY <1>0, <1>10, <1>12 DEF Reread, Start, Write, JobInv, Readable
<1>13. CASE OSError(c) \/ Kill(c)
  BY <1>0, <1>10, <1>13 DEF OSError, Kill, Start, Write, Blocked, Leave, NoJob, JobInv, Readable
<1> QED
  BY <1>1, <1>2, <1>3, <1>4, <1>5, <1>6, <1>7, <1>8, <1>9, <1>11, <1>12, <1>13 DEF CallerStep

(* A terminal on its name passes the checks of every later call, or is the *)
(* one of an attempt whose marker could not be read: TerminalReadable, for *)
(* any number of callers and commits, as long as the machine keeps its     *)
(* power (final_once.py:511-535).                                          *)
THEOREM TerminalsReadable == ASSUME ~PowerMayFail PROVE Spec => []TerminalReadable
<1>1. Init => ReadInv
  BY DEF Init, ReadInv, TerminalReadable, Present, Inside, Labels, Writes, Writing, Names
<1>2. IInv /\ RInv /\ ReadInv /\ [Next]_vars => ReadInv'
  <2> SUFFICES ASSUME IInv, RInv, ReadInv, [Next]_vars PROVE ReadInv'
    OBVIOUS
  <2>1. CASE Writeback \/ Calm \/ UNCHANGED vars
    <3>1. UNCHANGED <<files, at, job, own>>
      BY <2>1 DEF Writeback, Calm, vars, dir
    <3> QED BY <3>1 DEF ReadInv, Writes, Readable, Valid, MarkerId, TerminalReadable, Present
  <2>2. CASE PowerLoss \/ DirectoryLoss
    BY <2>2 DEF PowerLoss, DirectoryLoss, Restart
  <2> QED BY <2>1, <2>2, ReadCallerInv DEF Next
<1>3. ReadInv => TerminalReadable
  BY DEF ReadInv
<1> QED BY <1>1, <1>2, <1>3, InductiveResult, PTL DEF Spec

=============================================================================
