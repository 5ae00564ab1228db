---------------------------- MODULE ControlRoomHttp ----------------------------
(***************************************************************************)
(* One process of the control room's server                                *)
(* (src/src/migration_rehearsal/control_room_http.py and                   *)
(* _serve_owned_server of src/scripts/control_room.py): the main thread's  *)
(* accept loop, one thread for each admitted request, MaxHttpRequests of   *)
(* them at a time and one run at a time, and SIGTERM.  What a run does is  *)
(* OwnedRuntime's; here it returns or raises after some time.              *)
(***************************************************************************)
EXTENDS Integers, FiniteSets

CONSTANTS Requests,         \* connections that may come, each once
          MaxHttpRequests,  \* _MAX_HTTP_REQUESTS
          None              \* a model value

ASSUME HttpAssumption == MaxHttpRequests \in Nat \ {0} /\ None \notin Requests

VARIABLES at,        \* request |-> where it, or its thread, is
          slots,     \* what is left of _request_slots
          threads,   \* _threads: those server_close is to join
          runSlot,   \* who holds run_slot
          loop,      \* the main thread
          shutdown,  \* the loop has been asked to stop
          sigterm,   \* the handler: "none", "started", or, when the thread
                     \* that calls shutdown() did not start, "failed", or
                     \* "swallowed" if that was in process_request
          closed     \* server_close() has returned

main == <<loop, shutdown, sigterm, closed>>
vars == <<at, slots, threads, runSlot, main>>

Init == /\ at = [r \in Requests |-> "new"]
        /\ slots = MaxHttpRequests /\ threads = {} /\ runSlot = None
        /\ loop = "look" /\ shutdown = FALSE /\ sigterm = "none" /\ closed = FALSE

Alive == {r \in Requests : at[r] \notin {"new", "queued", "unstarted", "over"}}

Goes(r, from, to) == at[r] = from /\ at' = [at EXCEPT ![r] = to]

-----------------------------------------------------------------------------
(* The main thread: serve_forever.                                         *)

Listening == ~closed /\ loop # "ended"
Connect(r) == /\ Listening /\ Goes(r, "new", "queued")
              /\ UNCHANGED <<slots, threads, runSlot, main>>

(* The flag is looked at after every wait, before a connection is taken.   *)
Look == /\ loop = "look" /\ loop' = IF shutdown THEN "left" ELSE "accept"
        /\ UNCHANGED <<at, slots, threads, runSlot, shutdown, sigterm, closed>>

(* process_request without a slot: 503 at once, no thread.                 *)
Refuse(r) == /\ loop = "accept" /\ loop' = "look" /\ slots = 0
             /\ Goes(r, "queued", "over")
             /\ UNCHANGED <<slots, threads, runSlot, shutdown, sigterm, closed>>

Admit(r) == /\ loop = "accept" /\ loop' = "look" /\ slots > 0
            /\ Goes(r, "queued", "handler")
            /\ slots' = slots - 1 /\ threads' = (threads \intersect Alive) \union {r}
            /\ UNCHANGED <<runSlot, shutdown, sigterm, closed>>

(* Mutant: the thread that did not start is not reaped.                    *)
StartFails_NotReaped(r) ==
    /\ loop = "accept" /\ loop' = "look" /\ slots > 0
    /\ Goes(r, "queued", "unstarted") /\ threads' = threads \union {r}
    /\ UNCHANGED <<slots, runSlot, shutdown, sigterm, closed>>
(* ThreadingMixIn has listed the thread when its start raises: it is       *)
(* reaped, with all others that have ended, and the slot is given back.    *)
StartFails(r) ==
    /\ loop = "accept" /\ loop' = "look" /\ slots > 0
    /\ Goes(r, "queued", "unstarted")
    /\ threads' = threads \intersect Alive
    /\ UNCHANGED <<slots, runSlot, shutdown, sigterm, closed>>

(* Nothing came within the poll interval.                                  *)
Poll == /\ loop = "accept" /\ loop' = "look"
        /\ UNCHANGED <<at, slots, threads, runSlot, shutdown, sigterm, closed>>

-----------------------------------------------------------------------------
(* SIGTERM.                                                                *)

(* Mutant: the handler calls shutdown() itself, in the main thread.        *)
Sigterm_InPlace == /\ sigterm = "none" /\ loop \in {"look", "accept"}
                   /\ sigterm' = "started" /\ shutdown' = TRUE /\ loop' = "blocked"
                   /\ UNCHANGED <<at, slots, threads, runSlot, closed>>
(* The first SIGTERM starts a thread that calls shutdown(); if it does not *)
(* start, the handler raises in the main thread, out of serve_forever.     *)
(* Every later SIGTERM is ignored.                                         *)
Sigterm ==
    /\ sigterm = "none" /\ loop \in {"look", "accept"}
    /\ \/ sigterm' = "started" /\ shutdown' = TRUE /\ UNCHANGED loop
       \/ sigterm' = "failed" /\ loop' = "left" /\ UNCHANGED shutdown
    /\ UNCHANGED <<at, slots, threads, runSlot, closed>>

(* The handler raises while the main thread is in process_request: what it *)
(* raises ends there, and the loop goes on without its shutdown.  A slot   *)
(* that has just been taken is lost, or is given back at once and again by *)
(* the thread that has just begun.                                         *)
Interrupted(r) ==
    /\ sigterm = "none" /\ sigterm' = "swallowed"
    /\ loop = "accept" /\ loop' = "look"
    /\ \/ Goes(r, "queued", "over") /\ UNCHANGED <<slots, threads>>
       \/ /\ Goes(r, "queued", "over") /\ UNCHANGED threads
          /\ slots > 0 /\ slots' = slots - 1
       \/ /\ Goes(r, "queued", "unstarted") /\ threads' = threads \intersect Alive
          /\ slots > 0 /\ UNCHANGED slots
       \/ /\ Goes(r, "queued", "handler") /\ threads' = (threads \intersect Alive) \union {r}
          /\ slots > 0 /\ slots' \in {slots, slots - 1}
    /\ UNCHANGED <<runSlot, shutdown, closed>>

(* Joining the shutdown thread raises if it never started; server_close()  *)
(* is then not called.                                                     *)
JoinShutdown == /\ loop = "left"
                /\ loop' = (IF sigterm = "failed" THEN "raised" ELSE "closing")
                /\ UNCHANGED <<at, slots, threads, runSlot, shutdown, sigterm, closed>>

(* Mutant: daemon_threads is True, and nobody waits for a request.         *)
Joined_Daemon == {}
(* daemon_threads is False.                                                *)
Joined == Alive

(* server_close(): the listener, then every listed thread is joined, which *)
(* raises for one that never started.                                      *)
Close == /\ loop = "closing" /\ closed' = TRUE
         /\ IF \E r \in threads : at[r] = "unstarted" THEN loop' = "raised"
            ELSE threads \intersect Joined = {} /\ loop' = "ending"
         /\ UNCHANGED <<at, slots, threads, runSlot, shutdown, sigterm>>

(* The interpreter waits for what is left of them.                         *)
End == /\ loop \in {"ending", "raised"} /\ Joined = {} /\ loop' = "ended"
       /\ UNCHANGED <<at, slots, threads, runSlot, shutdown, sigterm, closed>>

Main == Look \/ Poll \/ JoinShutdown \/ Close \/ End
        \/ \E r \in Requests : Refuse(r) \/ Admit(r) \/ StartFails(r)

-----------------------------------------------------------------------------
(* A request's thread.                                                     *)

Keeps(r, from, to) == Goes(r, from, to) /\ UNCHANGED <<slots, threads, runSlot, main>>

(* Whatever needs no run is answered at once: assets, health, scenarios,   *)
(* evidence, each rejection of the ladder of do_POST, the sample that is   *)
(* always rejected; and a run while another one has the run slot: 503.     *)
Other(r) == Keeps(r, "handler", "leaving")
Busy(r) == runSlot # None /\ Keeps(r, "handler", "leaving")
TryRun(r) == /\ Goes(r, "handler", "running") /\ runSlot = None /\ runSlot' = r
             /\ UNCHANGED <<slots, threads, main>>

(* Mutant: a busy engine is answered without giving the run slot back.     *)
Raises_Return(r) == Keeps(r, "running", "answered") \/ Keeps(r, "running", "leaving")
(* The runner returns, or raises: 503 for a busy engine, 422, or 500.      *)
Raises(r) == Keeps(r, "running", "answered")
Returns(r) == Keeps(r, "running", "sending")

(* The answer is sent with the run slot held; a failure is recorded first, *)
(* and recording it may raise.                                             *)
Send(r) == Keeps(r, "sending", "answered") \/ Keeps(r, "sending", "delivery")
Record(r) == Keeps(r, "delivery", "answered")

ReleaseRun(r) == /\ Goes(r, "answered", "leaving") /\ runSlot' = None
                 /\ UNCHANGED <<slots, threads, main>>

(* process_request_thread: finally the slot, whatever was raised before.   *)
(* The semaphore is bounded: one too many raises, and the thread ends.     *)
Leave(r) == /\ Goes(r, "leaving", "over")
            /\ slots' = IF slots < MaxHttpRequests THEN slots + 1 ELSE slots
            /\ UNCHANGED <<threads, runSlot, main>>

Thread(r) == \/ Other(r) \/ Busy(r) \/ TryRun(r) \/ Raises(r) \/ Returns(r) \/ Send(r)
             \/ Record(r) \/ ReleaseRun(r) \/ Leave(r)

-----------------------------------------------------------------------------

Ended == loop = "ended" /\ UNCHANGED vars

Next == Main \/ Sigterm \/ (\E r \in Requests : Connect(r) \/ Interrupted(r) \/ Thread(r)) \/ Ended

Spec == Init /\ [][Next]_vars

(* The operating system runs every thread.                                 *)
FairSpec == Spec /\ WF_vars(Main) /\ \A r \in Requests : WF_vars(Thread(r))

-----------------------------------------------------------------------------
(* Properties.                                                             *)

Places == {"new", "queued", "unstarted", "handler", "running", "sending", "delivery",
           "answered", "leaving", "over"}

(* Types, for the server and its threads.                                  *)
TypeOK ==
    /\ at \in [Requests -> Places] /\ slots \in 0..MaxHttpRequests
    /\ threads \subseteq Requests /\ runSlot \in Requests \union {None}
    /\ loop \in {"look", "accept", "left", "closing", "ending", "raised", "ended"}
    /\ shutdown \in BOOLEAN /\ sigterm \in {"none", "started", "failed", "swallowed"}
    /\ closed \in BOOLEAN

(* Each admission slot and the run slot are taken once and given back once *)
(* on every path, and whoever runs or answers a run has the run slot       *)
(* (http.py:109-145, 452-508).  A SIGTERM handler that raises inside of    *)
(* process_request may lose one admission slot or give one back twice.     *)
RunPlaces == {"running", "sending", "delivery", "answered"}
SlotsBalanced ==
    /\ slots + Cardinality(Alive) \in
           IF sigterm = "swallowed" THEN MaxHttpRequests - 1 .. MaxHttpRequests + 1
                                    ELSE {MaxHttpRequests}
    /\ {r \in Requests : at[r] \in RunPlaces} = {runSlot} \ {None}

(* The process ends only when every request it has admitted is over, its   *)
(* run's clean-up and delivery record included ("Stop accepting on         *)
(* SIGTERM, then wait for non-daemon request cleanup.").                   *)
ExitAfterRequests == loop = "ended" => Alive = {}

(* Only a shutdown thread that did not start keeps server_close() from its *)
(* end: no thread of a request that did not start does (http.py:127-134).  *)
ClosesCleanly == loop = "raised" => sigterm = "failed"

(* After a SIGTERM whose handler has started its thread, or raised out of  *)
(* the loop, the process ends: nobody waits for the main thread that waits *)
(* for him.  One that was swallowed is the exception (control_room.py:     *)
(* 494-504): the loop goes on, and no later one is heard.                  *)
SigtermExits == sigterm \in {"started", "failed"} ~> loop = "ended"

=============================================================================
