--------------------------------- MODULE Windows ---------------------------------
(***************************************************************************)
(* The two concurrency windows (src/src/migration_rehearsal/sync.py) with  *)
(* the drivers and actors that meet in them (contract.py):                 *)
(* run_concurrent_clients with a V1 and a V2 client in a ClientWindow, and *)
(* the failpoint batch of exercise_backfill_resume_and_down with one V1    *)
(* writer in a BackfillContentionWindow.  One of the two runs, as the      *)
(* drivers choose.  What the statements do to the rows is Migration's; any *)
(* of them may fail here.                                                  *)
(*                                                                         *)
(* A Barrier is the one of threading: the last to arrive turns it to       *)
(* draining, and an abort that comes before somebody has left it breaks it *)
(* for him all the same.  An Event is never cleared.                       *)
(***************************************************************************)
Clients == {"v1", "v2"}
Main == "main"
Actors == Clients \union {Main}
Barriers == {"admission", "dml"}
Parties(b) == IF b = "admission" THEN Clients ELSE Actors

VARIABLES driver,    \* "clients" or "backfill"
          at,        \* actor |-> what it does next
          barrier,   \* barrier |-> its state, and those who wait in it
          aborted, released, pidReady, dmlDone,  \* the events
          held,      \* the failpoint batch has its rows locked
          told,      \* observed: the coordinator has released the commits
          open       \* observed: the transactions open with their writes done
                     \* when the coordinator observed them

events == <<aborted, released, pidReady, dmlDone>>
notes == <<told, open>>
vars == <<driver, at, barrier, events, held, notes>>

Workers == IF driver = "clients" THEN Clients ELSE {"v1"}
Ended(w) == at[w] \in {"committed", "rolledback", "unconnected"}

Init == /\ driver \in {"clients", "backfill"}
        /\ at = [a \in Actors |-> IF a = Main THEN "submit"
                                  ELSE IF a \in Workers THEN "queued" ELSE "absent"]
        /\ barrier = [b \in Barriers |-> [state |-> "filling", in |-> {}]]
        /\ aborted = FALSE /\ released = FALSE /\ pidReady = FALSE /\ dmlDone = FALSE
        /\ held = (driver = "backfill") /\ told = FALSE /\ open = {}

Goes(a, from, to) == at[a] = from /\ at' = [at EXCEPT ![a] = to]
Moves(a, from, to) == /\ Goes(a, from, to)
                      /\ UNCHANGED <<driver, barrier, events, held, notes>>
(* A statement of a worker, or a step of the coordinator, that may raise.  *)
Tries(a, from, to) == Moves(a, from, to) \/ Moves(a, from, "abort")

-----------------------------------------------------------------------------
(* threading.Barrier.                                                      *)

In(b) == IF b = "dml" THEN "dml_in" ELSE "admission_in"

Arrive(a, b, from, to) ==
    LET there == barrier[b].in \union {a} IN
    /\ \/ Goes(a, from, "abort") /\ barrier[b].state = "broken" /\ UNCHANGED barrier
       \/ /\ Goes(a, from, to) /\ barrier[b].state = "filling" /\ there = Parties(b)
          /\ barrier' = [barrier EXCEPT ![b].state = "draining"]
       \/ /\ Goes(a, from, In(b)) /\ barrier[b].state = "filling" /\ there # Parties(b)
          /\ barrier' = [barrier EXCEPT ![b].in = there]
    /\ UNCHANGED <<driver, events, held, notes>>

Leave(a, b, to) ==
    LET rest == barrier[b].in \ {a} IN
    /\ \/ /\ Goes(a, In(b), to) /\ barrier[b].state = "draining"
          /\ barrier' = [barrier EXCEPT ![b] =
                 [state |-> IF rest = {} THEN "filling" ELSE "draining", in |-> rest]]
       \/ /\ Goes(a, In(b), "abort") /\ barrier[b].state = "broken"
          /\ barrier' = [barrier EXCEPT ![b].in = rest]
    /\ UNCHANGED <<driver, events, held, notes>>

Meet(a, b, from, to) == Arrive(a, b, from, to) \/ Leave(a, b, to)

(* Five seconds: the barrier is broken for all who wait in it.             *)
BarrierTimeout(a, b) ==
    /\ Goes(a, In(b), "abort") /\ barrier[b].state = "filling"
    /\ barrier' = [barrier EXCEPT ![b] = [state |-> "broken", in |-> @.in \ {a}]]
    /\ UNCHANGED <<driver, events, held, notes>>

-----------------------------------------------------------------------------
(* abort(), of either window, by whoever has failed; then the transaction  *)
(* is rolled back (the coordinator of the clients has none).               *)

(* Mutant: the events are set before the flag that says why.               *)
Abort_FlagLast(a) ==
    \/ Goes(a, "abort", "break") /\ released' = TRUE /\ UNCHANGED <<aborted, pidReady, dmlDone, barrier>>
    \/ /\ Goes(a, "break", "free")
       /\ barrier' = [b \in Barriers |-> [barrier[b] EXCEPT !.state = "broken"]]
       /\ UNCHANGED events
    \/ /\ Goes(a, "free", "rollback") /\ aborted' = TRUE
       /\ IF driver = "backfill" THEN pidReady' = TRUE /\ dmlDone' = TRUE
                                 ELSE UNCHANGED <<pidReady, dmlDone>>
       /\ UNCHANGED <<released, barrier>>
Abort(a) ==
    \/ Goes(a, "abort", "break") /\ aborted' = TRUE /\ UNCHANGED <<released, pidReady, dmlDone, barrier>>
    \/ /\ Goes(a, "break", "free")
       /\ barrier' = [b \in Barriers |-> [barrier[b] EXCEPT !.state = "broken"]]
       /\ UNCHANGED events
    \/ /\ Goes(a, "free", "rollback") /\ released' = TRUE
       /\ IF driver = "backfill" THEN pidReady' = TRUE /\ dmlDone' = TRUE
                                 ELSE UNCHANGED <<pidReady, dmlDone>>
       /\ UNCHANGED <<aborted, barrier>>

Aborts(a) == Abort(a) /\ UNCHANGED <<driver, held, notes>>

(* Mutant: an actor that fails only rolls back.                            *)
Failing_Quiet(w) == Moves(w, "abort", "rolledback")
Failing(w) == Aborts(w) \/ Moves(w, "rollback", "rolledback")

-----------------------------------------------------------------------------
(* The starts.                                                             *)

(* executor.submit.  It queues its work before it starts a thread; when    *)
(* the thread does not start it raises, and what was queued waits for a    *)
(* thread there is already ("v2" for v1's) or is never done.  For the      *)
(* clients that is outside of the try: nothing is aborted.                 *)
Submit ==
    /\ at[Main] = "submit"
    /\ at' \in IF driver = "clients"
               THEN {[at EXCEPT ![Main] = "dml", !["v1"] = "begin", !["v2"] = "begin"],
                     [at EXCEPT ![Main] = "leaving", !["v1"] = "begin"],
                     [at EXCEPT ![Main] = "leaving", !["v1"] = "absent", !["v2"] = "absent"]}
               ELSE {[at EXCEPT ![Main] = "pid", !["v1"] = "begin"],
                     [at EXCEPT ![Main] = "abort", !["v1"] = "absent"]}
    /\ UNCHANGED <<driver, barrier, events, held, notes>>

(* The second client comes to the first one's thread.                      *)
Dequeue(w) == at[Main] = "leaving" /\ Ended("v1") /\ Moves(w, "queued", "begin")

(* psycopg.connect is outside of the try, too: a worker without connection *)
(* aborts nothing.  What follows, up to the phase, is inside.              *)
Connect(w, to) == Tries(w, "begin", to) \/ Moves(w, "begin", "unconnected")

-----------------------------------------------------------------------------
(* worker_wait_for_commit_release; a worker whose time is up aborts.       *)
AwaitRelease(w) ==
    released /\ Moves(w, "release", IF aborted THEN "abort" ELSE "commit")
ReleaseTimeout(w) == Moves(w, "release", "abort")

(* _client_actor: admission under the shared advisory lock, the writes,    *)
(* and the commit, each of which may fail.                                 *)
Client(w) == /\ driver = "clients"
             /\ \/ Dequeue(w) \/ Connect(w, "admission")
                \/ Meet(w, "admission", "admission", "write")
                \/ Tries(w, "write", "dml") \/ Meet(w, "dml", "dml", "release")
                \/ AwaitRelease(w) \/ Tries(w, "commit", "committed") \/ Failing(w)

(* run_concurrent_clients: both are observed open, then released, then     *)
(* asked for their results in turn.                                        *)
Observe(to) == /\ Goes(Main, "observe", to)
               /\ open' = {w \in Workers : at[w] \in {"dml_in", "release"}}
               /\ UNCHANGED <<driver, barrier, events, held, told>>
Release == /\ Goes(Main, "tell", "v1") /\ released' = TRUE /\ told' = TRUE
           /\ UNCHANGED <<driver, barrier, aborted, pidReady, dmlDone, held, open>>
Result(w, to, fails) == Moves(Main, w, IF at[w] = "committed" THEN to ELSE fails) /\ Ended(w)

Coordinator == /\ driver = "clients"
               /\ \/ Submit \/ Meet(Main, "dml", "dml", "observe") \/ Observe("tell") \/ Observe("abort")
                  \/ Release \/ Result("v1", "v2", "abort") \/ Result("v2", "ok", "abort")
                  \/ Aborts(Main)
                  \/ Moves(Main, "rollback", "raised") /\ \A w \in Clients : Ended(w)
                  \/ Moves(Main, "leaving", "left") /\ \A w \in Clients : Ended(w) \/ at[w] = "absent"

-----------------------------------------------------------------------------
(* _backfill_v1_actor: its process number, then its update, which waits    *)
(* for the batch's rows (or its lock_timeout).                             *)
SetReady(w) == /\ Goes(w, "ready", "update") /\ pidReady' = TRUE
               /\ UNCHANGED <<driver, barrier, aborted, released, dmlDone, held, notes>>
Update(w) == (Moves(w, "update", "done") /\ ~held) \/ Moves(w, "update", "abort")
SetDone(w) == /\ Goes(w, "done", "release") /\ dmlDone' = TRUE
              /\ UNCHANGED <<driver, barrier, aborted, released, pidReady, held, notes>>

Writer(w) == /\ driver = "backfill"
             /\ \/ Connect(w, "ready") \/ SetReady(w) \/ Update(w) \/ SetDone(w)
                \/ AwaitRelease(w) \/ ReleaseTimeout(w)
                \/ Tries(w, "commit", "committed") \/ Failing(w)

(* The coordinator of the batch.  Whatever fails inside the executor's     *)
(* block waits for the writer first ("join"), and aborts after that.       *)
WaitPid == \/ pidReady /\ Moves(Main, "pid", IF aborted THEN "join" ELSE "blocked")
           \/ Moves(Main, "pid", "join")
(* pg_blocking_pids shows the writer waiting for the batch.                *)
SeeBlocked == (Moves(Main, "blocked", "batch") /\ at["v1"] = "update" /\ held)
              \/ Moves(Main, "blocked", "join")
RollBack == \/ /\ Goes(Main, "batch", "waitdml") /\ held' = FALSE
               /\ UNCHANGED <<driver, barrier, events, notes>>
            \/ Moves(Main, "batch", "join")
WaitDml == \/ dmlDone /\ Moves(Main, "waitdml", IF aborted THEN "join" ELSE "observe")
           \/ Moves(Main, "waitdml", "join")
(* The result of the writer, or three seconds.                             *)
ResultTimeout == Moves(Main, "v1", "join")
(* The batch's own rollback is the last of it.                             *)
Raise == /\ Goes(Main, "rollback", "raised") /\ held' = FALSE
         /\ UNCHANGED <<driver, barrier, events, notes>>

Batch == /\ driver = "backfill"
         /\ \/ Submit \/ WaitPid \/ SeeBlocked \/ RollBack \/ WaitDml
            \/ Observe("tell") \/ Observe("join") \/ Release
            \/ Result("v1", "last", "join") \/ ResultTimeout
            \/ Moves(Main, "join", "abort") /\ Ended("v1")
            \/ Tries(Main, "last", "ok") \/ Aborts(Main) \/ Raise

-----------------------------------------------------------------------------
Worker(w) == Client(w) \/ Writer(w)
Timeouts == /\ driver = "clients"
            /\ \/ \E a \in Actors, b \in Barriers : BarrierTimeout(a, b)
               \/ \E w \in Clients : ReleaseTimeout(w) \/ (~Ended(w) /\ Moves(Main, w, "abort"))
Over == (\A w \in Clients : Ended(w) \/ at[w] = "absent") /\ at[Main] \in {"ok", "raised", "left"}
        /\ UNCHANGED vars

Next == \/ \E w \in Clients : Worker(w)
        \/ Coordinator \/ Batch \/ Timeouts \/ Over

Spec == Init /\ [][Next]_vars

(* Somebody has failed outside of every try: nobody aborts for him, and    *)
(* those who wait for him have their timeouts only.                        *)
Silent == at[Main] \in {"leaving", "left"} \/ \E w \in Clients : at[w] = "unconnected"

(* Every thread runs and every statement ends.  Timeouts are needed, and   *)
(* fair, after a silent failure; nobody in the client window depends on    *)
(* them otherwise.                                                         *)
FairSpec == /\ Spec /\ WF_vars(Coordinator) /\ WF_vars(Batch) /\ WF_vars(Silent /\ Timeouts)
            /\ \A w \in Clients : WF_vars(Worker(w))

-----------------------------------------------------------------------------
(* Properties.                                                             *)

(* A worker commits only when the coordinator has observed and released    *)
(* it: an abort, which sets the same event, releases nobody to commit      *)
(* (sync.py:40-51, 81-93).                                                 *)
CommitsReleased == \A w \in Clients : at[w] = "committed" => told

(* A driver that reports success has observed every transaction open at    *)
(* once with its writes done, and all have committed since, whatever       *)
(* timed out meanwhile (contract.py:785-796, 973-983).                     *)
SuccessIsReal ==
    at[Main] = "ok" => open = Workers /\ \A w \in Workers : at[w] = "committed"

(* What the windows promise their drivers.                                 *)
WindowHolds == CommitsReleased /\ SuccessIsReal

(* Whoever fails, and wherever the others are, all come to an end; in the  *)
(* client window even if no timeout ever fires, unless a connection or a   *)
(* thread could not be had: the abort of that window starts with the first *)
(* of those who wait to give up (sync.py:47-51, contract.py:927, 970-971). *)
AllEnd == <>(/\ at[Main] \in {"ok", "raised", "left"}
             /\ \A w \in Clients : Ended(w) \/ at[w] = "absent")

=============================================================================
