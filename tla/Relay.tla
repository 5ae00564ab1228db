--------------------------------- MODULE Relay ---------------------------------
(***************************************************************************)
(* The loopback relay of one run                                           *)
(* (src/src/migration_rehearsal/control_room_runtime/relay.py): the thread *)
(* of the adapter that starts and closes it, its accept thread, and one    *)
(* worker thread for each connection.  A step is one call that may block,  *)
(* one look at `_stop`, or one section under `_lock`.                      *)
(*                                                                         *)
(* Bytes are counted in chunks; a direction is named by where it goes.     *)
(***************************************************************************)
EXTENDS Naturals, FiniteSets

CONSTANTS Clients,   \* connections that may arrive, each once
          Capacity,  \* _MAX_CONNECTIONS
          Talkers,   \* bound: those whose peers send data and end; the others
                     \* stay open until somebody cuts them
          Chunks     \* bound: how much a peer sends

ASSUME CapacityAssumption == Capacity \in Nat /\ Chunks \in Nat

Dirs == {"up", "down"}
Ends == {"client", "upstream"}

VARIABLES at,         \* the adapter's thread in start() and close()
          listener,   \* the listening socket is open
          accepting,  \* the accept thread
          stop,       \* the event _stop
          free,       \* what is left of the semaphore _capacity
          workers,    \* the set _workers; a worker is named by its client
          registered, \* the set _sockets
          failed,     \* whether _failures holds a failure
          probed,     \* _destination_probe
          connected,  \* whether _destination_connections is positive
          pc,         \* client |-> where its worker is
          open,       \* the open sockets, as <<client, end>>
          flow,       \* client |-> direction |-> [read, sent, eof, shut]
          lost        \* observed: a worker failed and ended during the run

threads == <<at, accepting, pc>>
accounts == <<free, workers, registered, open>>
notes == <<failed, probed, connected, lost>>
vars == <<threads, accounts, notes, listener, stop, flow>>

Fresh == [d \in Dirs |-> [read |-> 0, sent |-> 0, eof |-> FALSE, shut |-> FALSE]]
Sockets(c) == {<<c, e>> : e \in Ends}

Init == /\ at = "new" /\ listener = FALSE /\ accepting = "none" /\ stop = FALSE
        /\ free = Capacity /\ workers = {} /\ registered = {} /\ open = {}
        /\ failed = FALSE /\ probed = FALSE /\ connected = FALSE
        /\ lost = FALSE
        /\ pc = [c \in Clients |-> "none"] /\ flow = [c \in Clients |-> Fresh]

-----------------------------------------------------------------------------
(* start(), and what the adapter does before close().                      *)

Goes(from, to) == at = from /\ at' = to

(* The fixed port may be taken; then nothing is kept.                      *)
Bind == /\ \/ Goes("new", "probing") /\ listener' = TRUE
           \/ Goes("new", "stopping") /\ UNCHANGED listener
        /\ UNCHANGED <<accepting, pc, accounts, notes, stop, flow>>

(* _prove_destination_available: revalidate and connect, again and again   *)
(* until the deadline; a failure closes the listener.                      *)
Probe == /\ \/ /\ Goes("probing", "starting")
               /\ probed' = TRUE /\ UNCHANGED listener
            \/ Goes("probing", "stopping") /\ listener' = FALSE /\ UNCHANGED probed
         /\ UNCHANGED <<accepting, pc, accounts, failed, connected, lost, stop, flow>>

(* Thread.start may raise; start() has kept the thread by then.            *)
StartThread == /\ \/ Goes("starting", "serving") /\ accepting' = "head"
                  \/ Goes("starting", "stopping") /\ accepting' = "unstarted"
               /\ UNCHANGED <<pc, accounts, notes, listener, stop, flow>>

(* The child has ended: the run is over, with or without a success that    *)
(* the adapter confirms here.  Healthy, then connected to: that is two     *)
(* looks under the lock, and a failure between them counts as after both.  *)
AssertHealthy ==
    /\ Goes("serving", IF ~failed /\ probed /\ connected THEN "confirmed" ELSE "stopping")
    /\ UNCHANGED <<accepting, pc, accounts, notes, listener, stop, flow>>
ChildFailed == /\ Goes("serving", "stopping")
               /\ UNCHANGED <<accepting, pc, accounts, notes, listener, stop, flow>>

-----------------------------------------------------------------------------
(* close().                                                                *)

(* Mutant: close() goes on without the accept thread.                      *)
BeginClose_NoJoin == /\ at \in {"stopping", "confirmed"} /\ at' = "sockets"
                     /\ stop' = TRUE /\ listener' = FALSE
                     /\ UNCHANGED <<accepting, pc, accounts, notes, flow>>
(* The event is set, then the listener closed.                             *)
BeginClose == /\ at \in {"stopping", "confirmed"} /\ at' = "joining"
              /\ stop' = TRUE /\ listener' = FALSE
              /\ UNCHANGED <<accepting, pc, accounts, notes, flow>>

(* Joining a thread that never started raises.                             *)
JoinAccept == /\ \/ Goes("joining", "sockets") /\ accepting \in {"none", "dead"}
                 \/ Goes("joining", "raised") /\ accepting = "unstarted"
              /\ UNCHANGED <<accepting, pc, accounts, notes, listener, stop, flow>>

CloseSockets == /\ Goes("sockets", "workers") /\ open' = open \ registered
                /\ UNCHANGED <<accepting, pc, free, workers, registered, notes, listener, stop,
                               flow>>

JoinWorkers == /\ Goes("workers", "closed") /\ workers = {}
               /\ UNCHANGED <<accepting, pc, accounts, notes, listener, stop, flow>>

Adapter == \/ Bind \/ Probe \/ StartThread \/ AssertHealthy \/ ChildFailed
           \/ BeginClose \/ JoinAccept \/ CloseSockets \/ JoinWorkers

-----------------------------------------------------------------------------
(* The accept thread.                                                      *)

LookAtStop == /\ accepting = "head"
              /\ accepting' = IF stop THEN "dead" ELSE "accept"
              /\ UNCHANGED <<at, pc, accounts, notes, listener, stop, flow>>

Timeout == /\ accepting = "accept" /\ accepting' = "head"
           /\ UNCHANGED <<at, pc, accounts, notes, listener, stop, flow>>

(* accept() raises: because the listener was closed, or by itself.         *)
AcceptFails == /\ accepting = "accept" /\ accepting' = "dead"
               /\ failed' = (failed \/ ~stop)
               /\ UNCHANGED <<at, pc, accounts, probed, connected, lost, listener,
                              stop, flow>>

(* Mutant: the answer of the semaphore is not looked at.                   *)
Accept_Unbounded(c) ==
    /\ accepting = "accept" /\ listener /\ pc[c] = "none"
    /\ free' = free - 1 /\ open' = open \union {<<c, "client">>}
    /\ accepting' = "got" /\ pc' = [pc EXCEPT ![c] = "accepted"]
    /\ UNCHANGED <<at, workers, registered, notes, listener, stop, flow>>
(* A connection without a slot is closed at once.                          *)
Accept(c) ==
    /\ accepting = "accept" /\ listener /\ pc[c] = "none"
    /\ IF free > 0
       THEN /\ free' = free - 1 /\ open' = open \union {<<c, "client">>}
            /\ accepting' = "got" /\ pc' = [pc EXCEPT ![c] = "accepted"]
       ELSE /\ accepting' = "head" /\ pc' = [pc EXCEPT ![c] = "done"]
            /\ UNCHANGED <<free, open>>
    /\ UNCHANGED <<at, workers, registered, notes, listener, stop, flow>>

Spawn(c) == /\ accepting = "got" /\ pc[c] = "accepted"
            /\ workers' = workers \union {c}
            /\ accepting' = "head" /\ pc' = [pc EXCEPT ![c] = "begin"]
            /\ UNCHANGED <<at, free, registered, open, notes, listener, stop, flow>>

(* Mutant: the worker that did not start stays in the set.                 *)
SpawnFails_NotDiscarded(c) ==
    /\ accepting = "got" /\ pc[c] = "accepted"
    /\ workers' = workers \union {c} /\ free' = free + 1 /\ open' = open \ Sockets(c)
    /\ failed' = TRUE /\ stop' = TRUE
    /\ accepting' = "dead" /\ pc' = [pc EXCEPT ![c] = "done"]
    /\ lost' = (lost \/ at = "serving")
    /\ UNCHANGED <<at, registered, probed, connected, listener, flow>>
(* Worker.start raises: all is undone, the relay stops by itself.          *)
SpawnFails(c) ==
    /\ accepting = "got" /\ pc[c] = "accepted"
    /\ free' = free + 1 /\ open' = open \ Sockets(c)
    /\ failed' = TRUE /\ stop' = TRUE
    /\ accepting' = "dead" /\ pc' = [pc EXCEPT ![c] = "done"]
    /\ lost' = (lost \/ at = "serving")
    /\ UNCHANGED <<at, workers, registered, probed, connected, listener, flow>>

Acceptor == LookAtStop \/ Timeout \/ AcceptFails
            \/ \E c \in Clients : Accept(c) \/ Spawn(c) \/ SpawnFails(c)

-----------------------------------------------------------------------------
(* A worker.                                                               *)

Moves(c, from, to) == pc[c] = from /\ pc' = [pc EXCEPT ![c] = to]

(* The worker leaves its try block, ...                                    *)
Return(c, from, to) ==
    /\ Moves(c, from, to)
    /\ UNCHANGED <<at, accepting, accounts, notes, listener, stop, flow>>

(* Mutant: only a failed revalidation is kept.                             *)
Fail_TransportIgnored(c, from) ==
    /\ Moves(c, from, "broken")
    /\ failed' = (failed \/ (from = "revalidate" /\ ~stop))
    /\ UNCHANGED <<at, accepting, accounts, probed, connected, lost, listener, stop, flow>>
(* ... or raises; the handlers keep the failure unless the relay is        *)
(* stopping.                                                               *)
Fail(c, from) ==
    /\ Moves(c, from, "broken")
    /\ failed' = (failed \/ ~stop)
    /\ UNCHANGED <<at, accepting, accounts, probed, connected, lost, listener, stop,
                   flow>>

(* The client's socket is registered before the look at _stop.             *)
Begin(c) ==
    /\ Moves(c, "begin", IF stop THEN "finish" ELSE "revalidate")
    /\ registered' = registered \union {<<c, "client">>}
    /\ UNCHANGED <<at, accepting, free, workers, open, notes, listener, stop, flow>>

(* The container is looked up and compared, then _stop once more.          *)
Revalidate(c) == \/ Return(c, "revalidate", IF stop THEN "finish" ELSE "connect")
                 \/ Fail(c, "revalidate")

Connect(c) == \/ /\ Moves(c, "connect", "connected")
                 /\ open' = open \union {<<c, "upstream">>}
                 /\ UNCHANGED <<at, accepting, free, workers, registered, notes, listener, stop,
                                flow>>
              \/ Fail(c, "connect")

RegisterUpstream(c) ==
    /\ Moves(c, "connected", "forward")
    /\ registered' = registered \union {<<c, "upstream">>} /\ connected' = TRUE
    /\ UNCHANGED <<at, accepting, free, workers, open, failed, probed, lost, listener,
                   stop, flow>>

(* Mutant: the slot is returned only by workers that did not fail.         *)
Finish_SlotLost(c) ==
    /\ pc[c] \in {"finish", "drained", "broken"} /\ pc' = [pc EXCEPT ![c] = "leave"]
    /\ registered' = registered \ Sockets(c) /\ open' = open \ Sockets(c)
    /\ free' = (IF pc[c] = "broken" THEN free ELSE free + 1)
    /\ flow' = [flow EXCEPT ![c] = Fresh]
    /\ lost' = (lost \/ (pc[c] = "broken" /\ at = "serving"))
    /\ UNCHANGED <<at, accepting, workers, failed, probed, connected, listener, stop>>
(* The `finally` block: both sockets and the slot; at last the thread      *)
(* takes itself out of the set.                                            *)
Finish(c) ==
    /\ pc[c] \in {"finish", "drained", "broken"} /\ pc' = [pc EXCEPT ![c] = "leave"]
    /\ registered' = registered \ Sockets(c) /\ open' = open \ Sockets(c)
    /\ free' = free + 1
    /\ flow' = [flow EXCEPT ![c] = Fresh]
    /\ lost' = (lost \/ (pc[c] = "broken" /\ at = "serving"))
    /\ UNCHANGED <<at, accepting, workers, failed, probed, connected, listener, stop>>

Leave(c) == /\ Moves(c, "leave", "done") /\ workers' = workers \ {c}
            /\ UNCHANGED <<at, accepting, free, registered, open, notes, listener, stop, flow>>

-----------------------------------------------------------------------------
(* _forward.                                                               *)

Usable(c) == Sockets(c) \subseteq open
Set(c, d, r) == flow' = [flow EXCEPT ![c][d] = r]
OnlyFlow == UNCHANGED <<threads, accounts, notes, listener, stop>>

(* A chunk, or the end of what the source sends.                           *)
Read(c, d) ==
    /\ pc[c] = "forward" /\ Usable(c) /\ c \in Talkers /\ ~flow[c][d].eof
    /\ \/ flow[c][d].read < Chunks /\ Set(c, d, [flow[c][d] EXCEPT !.read = @ + 1])
       \/ Set(c, d, [flow[c][d] EXCEPT !.eof = TRUE])
    /\ OnlyFlow

Send(c, d) == /\ pc[c] = "forward" /\ Usable(c) /\ flow[c][d].sent < flow[c][d].read
              /\ Set(c, d, [flow[c][d] EXCEPT !.sent = @ + 1])
              /\ OnlyFlow

(* Mutant: the end is passed on before what was read.                      *)
Shutdown_Early(c, d) ==
    /\ pc[c] = "forward" /\ flow[c][d].eof /\ ~flow[c][d].shut
    /\ Set(c, d, [flow[c][d] EXCEPT !.shut = TRUE])
    /\ OnlyFlow
Shutdown(c, d) ==
    /\ pc[c] = "forward" /\ flow[c][d].eof /\ ~flow[c][d].shut
    /\ flow[c][d].sent = flow[c][d].read
    /\ Set(c, d, [flow[c][d] EXCEPT !.shut = TRUE])
    /\ OnlyFlow

(* Both sources have ended and nothing is buffered.                        *)
Drained(c) == /\ \A d \in Dirs : flow[c][d].shut
              /\ Return(c, "forward", "drained")

(* A peer resets; the relay is stopping; the idle deadline, or a socket    *)
(* that close() has closed.                                                *)
PeerFails(c) == Return(c, "forward", "finish")
StopSeen(c) == stop /\ Return(c, "forward", "finish")
ForwardFails(c) == Fail(c, "forward")

Forward(c) == \/ \E d \in Dirs : Read(c, d) \/ Send(c, d) \/ Shutdown(c, d)
              \/ Drained(c) \/ PeerFails(c) \/ StopSeen(c) \/ ForwardFails(c)

Worker(c) == \/ Begin(c) \/ Revalidate(c) \/ Connect(c) \/ RegisterUpstream(c)
             \/ Forward(c) \/ Finish(c) \/ Leave(c)

-----------------------------------------------------------------------------

Over == at \in {"closed", "raised"} /\ UNCHANGED vars

Next == Adapter \/ Acceptor \/ (\E c \in Clients : Worker(c)) \/ Over

Spec == Init /\ [][Next]_vars

(* The operating system runs every thread; the child ends (it has 75 s).   *)
FairSpec == /\ Spec /\ WF_vars(Adapter) /\ WF_vars(Acceptor)
            /\ \A c \in Clients : WF_vars(Worker(c))

-----------------------------------------------------------------------------
(* Properties.                                                             *)

Places == {"none", "accepted", "begin", "revalidate", "connect", "connected", "forward",
           "drained", "broken", "finish", "leave", "done"}
Holders == {c \in Clients : pc[c] \notin {"none", "leave", "done"}}

(* Types, for LoopbackPostgresRelay; the worker set holds those that run.  *)
TypeOK ==
    /\ at \in {"new", "probing", "starting", "serving", "confirmed", "stopping", "joining",
               "sockets", "workers", "closed", "raised"}
    /\ accepting \in {"none", "unstarted", "head", "accept", "got", "dead"}
    /\ {listener, stop, failed, probed, connected} \subseteq BOOLEAN
    /\ free \in Nat /\ workers \subseteq Clients
    /\ registered \subseteq Clients \X Ends /\ open \subseteq Clients \X Ends
    /\ pc \in [Clients -> Places]

(* Each connection takes one slot of the semaphore and gives it back once, *)
(* on every path (relay.py:227, 243, 289): none is lost, none returned     *)
(* twice (which BoundedSemaphore would answer with a ValueError).          *)
SlotsBalanced == free + Cardinality(Holders) = Capacity

(* When close() is over, whoever raced with it, no thread works for the    *)
(* relay and no socket is open ("Close every owned socket and join every   *)
(* owned thread.").                                                        *)
NothingLeft == at \in {"closed", "raised"} =>
                  /\ ~listener /\ open = {} /\ registered = {}
                  /\ workers = {} /\ accepting \notin {"head", "accept", "got"}
                  /\ \A c \in Clients : pc[c] \in {"none", "done"}

(* What a source sent before it ended arrives before its end does, and a   *)
(* worker that ends by itself has passed on everything (_forward).         *)
EndsAfterData ==
    \A c \in Clients : \A d \in Dirs :
        /\ flow[c][d].shut => flow[c][d].eof /\ flow[c][d].sent = flow[c][d].read
        /\ pc[c] = "drained" => flow[c][d].shut

(* A run is confirmed only if no worker that ended before had failed: a    *)
(* failure is not lost between a worker, a relay that stops by itself and  *)
(* assert_healthy (relay.py:150-163, 276-284).                             *)
HealthSound ==
    [][at' = "confirmed" /\ at # "confirmed" => ~lost]_vars

(* close() returns: no thread it waits for waits for ever.                 *)
CloseReturns == at \in {"stopping", "confirmed"} ~> at \in {"closed", "raised"}

=============================================================================
