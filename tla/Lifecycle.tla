------------------------------- MODULE Lifecycle -------------------------------
(***************************************************************************)
(* Starting and stopping the control room (src/scripts/control_room.py):   *)
(* `start` and `stop` commands at once, the server processes, server.json  *)
(* and the start lock in the state directory, and process identifiers that *)
(* the kernel gives out again.  A step is one system call or one file      *)
(* operation that another process can come between.                        *)
(*                                                                         *)
(* A server is named by the command that starts it: its nonce, start time  *)
(* and command line are its own, its process identifier is not.            *)
(***************************************************************************)
EXTENDS FiniteSets

CONSTANTS Starters,  \* bound: `start` commands, each run once
          Stoppers,  \* those who run `stop`, again and again
          Pids,      \* process identifiers
          None,      \* a model value
          Stranger   \* a model value: any process that is no control room

ASSUME LifecycleAssumption ==
    /\ None # Stranger /\ {None, Stranger} \intersect (Starters \union Pids) = {}
    /\ Starters \intersect Stoppers = {}

VARIABLES at,      \* command |-> what it does next
          state,   \* server.json: the server it describes
          temp,    \* whether server.tmp exists
          lock,    \* whether start.lock exists
          pid,     \* server |-> its process identifier
          life,    \* server |-> what has become of it
          host,    \* process identifier |-> the process it names
          port,    \* the server that has bound the port
          seen,    \* stopper |-> the state it goes by
          fd,      \* stopper |-> the process its pidfd is for
          signals, \* observed: the processes a `stop` has signalled
          started, \* observed: the servers whose start has succeeded
          raced    \* observed: an unlink took another state than was compared

files == <<state, temp, lock>>
servers == <<pid, life, host, port>>
views == <<seen, fd>>
notes == <<signals, started, raced>>
vars == <<at, files, servers, views, notes>>

Commands == Starters \union Stoppers
Alive(a) == life[a] \in {"booting", "serving", "stopping", "closing"}

Init == /\ at = [c \in Commands |-> "idle"]
        /\ state = None /\ temp = FALSE /\ lock = FALSE
        /\ pid = [a \in Starters |-> None] /\ life = [a \in Starters |-> "unborn"]
        /\ host = [p \in Pids |-> None] /\ port = None
        /\ seen = [b \in Stoppers |-> None] /\ fd = [b \in Stoppers |-> None]
        /\ signals = {} /\ started = {} /\ raced = FALSE

Goes(c, from, to) == at[c] = from /\ at' = [at EXCEPT ![c] = to]
(* A step that only looks.                                                 *)
Looks(c, from, to) == Goes(c, from, to) /\ UNCHANGED <<files, servers, views, notes>>

-----------------------------------------------------------------------------
(* start.                                                                  *)

(* The port must be free and server.json missing, before the start lock.   *)
ProbePort(a) == Looks(a, "idle", IF port = None THEN "read" ELSE "end")
ReadState(a) == Looks(a, "read", IF state = None THEN "lock" ELSE "end")

TakeLock(a) == /\ Goes(a, "lock", IF lock THEN "end" ELSE "spawn") /\ lock' = TRUE
               /\ UNCHANGED <<state, temp, servers, views, notes>>

(* Popen, and a pidfd to see that the kernel has them; without one the     *)
(* process is terminated and no state was written.                         *)
Spawn(a) ==
    \/ \E p \in Pids :
          /\ host[p] = None /\ host' = [host EXCEPT ![p] = a]
          /\ pid' = [pid EXCEPT ![a] = p]
          /\ \/ Goes(a, "spawn", "write") /\ life' = [life EXCEPT ![a] = "booting"]
             \/ Goes(a, "spawn", "unlock") /\ life' = [life EXCEPT ![a] = "dead"]
          /\ UNCHANGED <<port, files, views, notes>>
    \/ Looks(a, "spawn", "unlock")

(* _write_state never replaces a state; nor a temporary file that somebody *)
(* has left.                                                               *)
OpenTemp(a) == /\ IF state # None \/ temp
                  THEN Goes(a, "write", "undo") /\ UNCHANGED temp
                  ELSE Goes(a, "write", "replace") /\ temp' = TRUE
               /\ UNCHANGED <<state, lock, servers, views, notes>>
Replace(a) == /\ \/ Goes(a, "replace", "health") /\ state' = a
                 \/ Goes(a, "replace", "undo") /\ state' \in {state, a}
              /\ temp' = FALSE
              /\ UNCHANGED <<lock, servers, views, notes>>

(* Whoever answers on the port counts as healthy; after five seconds the   *)
(* start is undone.                                                        *)
Health(a) == \/ /\ Goes(a, "health", "unlock") /\ port # None
                /\ started' = started \union {a}
                /\ UNCHANGED <<files, servers, views, signals, raced>>
             \/ Looks(a, "health", "undo")

(* terminate and wait; a server that needs more than two seconds leaves    *)
(* everything as it is.                                                    *)
Undo(a) == \/ /\ Goes(a, "undo", "forget")
              /\ life' = [life EXCEPT ![a] = "dead"] /\ port' = (IF port = a THEN None ELSE port)
              /\ UNCHANGED <<pid, host, files, views, notes>>
           \/ /\ Goes(a, "undo", "unlock") /\ life[a] \in {"serving", "stopping", "closing"}
              /\ life' = [life EXCEPT ![a] = IF @ = "serving" THEN "stopping" ELSE @]
              /\ UNCHANGED <<pid, host, port, files, views, notes>>
(* _remove_state of its own state; another one stays.                      *)
Forget(a) == Looks(a, "forget", IF state = a THEN "unlink" ELSE "unlock")

(* The other half of _remove_state: whatever is there now is unlinked.     *)
Unlink(c, expected, to) ==
    /\ Goes(c, "unlink", to) /\ state' = None
    /\ raced' = (raced \/ state \notin {expected, None})
    /\ UNCHANGED <<temp, lock, servers, views, signals, started>>

(* Ctrl-C in the middle of it: only the finally blocks are run, for the    *)
(* temporary file and the lock; the server and its state stay.             *)
Interrupt(a) ==
    /\ at[a] \in {"write", "replace", "health", "undo", "forget", "unlink"}
    /\ at' = [at EXCEPT ![a] = "unlock"] /\ temp' = (temp /\ at[a] # "replace")
    /\ UNCHANGED <<state, lock, servers, views, notes>>

Unlock(a) == /\ Goes(a, "unlock", "end") /\ lock' = FALSE
             /\ UNCHANGED <<state, temp, servers, views, notes>>

Start(a) == \/ ProbePort(a) \/ ReadState(a) \/ TakeLock(a) \/ Spawn(a) \/ OpenTemp(a)
            \/ Replace(a) \/ Health(a) \/ Undo(a) \/ Forget(a) \/ Unlink(a, a, "unlock")
            \/ Interrupt(a) \/ Unlock(a)

-----------------------------------------------------------------------------
(* stop.                                                                   *)

ReadSeen(b) == /\ Goes(b, "idle", "open") /\ state # None
               /\ seen' = [seen EXCEPT ![b] = state]
               /\ UNCHANGED <<fd, files, servers, notes>>

(* pidfd_open of the process that has this identifier now, if any has.     *)
OpenFd(b) == /\ Goes(b, "open", IF host[pid[seen[b]]] = None THEN "stale" ELSE "reread")
             /\ fd' = [fd EXCEPT ![b] = host[pid[seen[b]]]]
             /\ UNCHANGED <<seen, files, servers, notes>>

(* Nobody has it: the state is stale if the port is free as well.          *)
Stale(b) == Looks(b, "stale", IF port = None THEN "remove" ELSE "idle")

Reread(b) == \/ /\ Goes(b, "reread", "identify")
                /\ state # None /\ pid[state] = pid[seen[b]]
                /\ seen' = [seen EXCEPT ![b] = state]
                /\ UNCHANGED <<fd, files, servers, notes>>
             \/ Looks(b, "reread", "idle") /\ ~(state # None /\ pid[state] = pid[seen[b]])

(* Mutant: the identity is not read again.                                 *)
Identify_Trusting(b) == Looks(b, "identify", "signal")
(* Command line, start time and executable of the identifier, read after   *)
(* the pidfd is held.                                                      *)
Identify(b) ==
    Looks(b, "identify",
          IF host[pid[seen[b]]] = seen[b] /\ Alive(seen[b]) THEN "signal" ELSE "idle")

(* The signal goes to the process of the pidfd, if that still is there.    *)
Signal(b) ==
    /\ IF fd[b] = Stranger \/ (fd[b] \in Starters /\ Alive(fd[b]))
       THEN /\ Goes(b, "signal", "wait") /\ signals' = signals \union {fd[b]}
            /\ life' = [a \in Starters |->
                          CASE a # fd[b] -> life[a]
                            [] life[a] = "booting" -> "dead"
                            [] life[a] = "serving" -> "stopping"
                            [] OTHER -> life[a]]
       ELSE Goes(b, "signal", "idle") /\ UNCHANGED <<signals, life>>
    /\ UNCHANGED <<pid, host, port, files, views, started, raced>>

(* Mutant: the state is removed without waiting for the process.           *)
Wait_Not(b) == Looks(b, "wait", "remove")
(* The process has ended, or 140 seconds have passed.                      *)
Wait(b) == Looks(b, "wait", IF fd[b] \in Starters /\ Alive(fd[b]) THEN "idle" ELSE "remove")

(* _remove_state: the state must still be the one gone by.                 *)
Remove(b) == Looks(b, "remove", IF state = seen[b] THEN "unlink" ELSE "idle")

Stop(b) == \/ ReadSeen(b) \/ OpenFd(b) \/ Stale(b) \/ Reread(b) \/ Identify(b)
           \/ Signal(b) \/ Wait(b) \/ Remove(b) \/ Unlink(b, seen[b], "idle")

-----------------------------------------------------------------------------
(* The processes.                                                          *)

(* The server binds the port, or finds it taken and ends.                  *)
Bind(a) == /\ life[a] = "booting"
           /\ \/ port = None /\ port' = a /\ life' = [life EXCEPT ![a] = "serving"]
              \/ UNCHANGED port /\ life' = [life EXCEPT ![a] = "dead"]
           /\ UNCHANGED <<at, pid, host, files, views, notes>>

(* Told to stop it gives up the port, and then waits for its requests.     *)
Close(a) == /\ life[a] = "stopping" /\ life' = [life EXCEPT ![a] = "closing"]
            /\ port' = None
            /\ UNCHANGED <<at, pid, host, files, views, notes>>
(* It ends, or is killed, ...                                              *)
Exit(a) == /\ life[a] \in {"serving", "stopping", "closing"}
           /\ life' = [life EXCEPT ![a] = "dead"]
           /\ port' = (IF port = a THEN None ELSE port)
           /\ UNCHANGED <<at, pid, host, files, views, notes>>
(* ... and its identifier is free when its parent has waited for it or is  *)
(* gone itself.                                                            *)
Reap(a) == /\ life[a] = "dead" /\ at[a] \in {"forget", "unlink", "unlock", "end", "killed"}
           /\ host' = [p \in Pids |-> IF host[p] = a THEN None ELSE host[p]]
           /\ life' = [life EXCEPT ![a] = "reaped"]
           /\ UNCHANGED <<at, pid, port, files, views, notes>>

(* Somebody else's process comes and goes; a pidfd of it is nobody's then. *)
Comes(p) == /\ host[p] = None /\ host' = [host EXCEPT ![p] = Stranger]
            /\ UNCHANGED <<at, pid, life, port, files, views, notes>>
Leaves(p) == /\ host[p] = Stranger /\ host' = [host EXCEPT ![p] = None]
             /\ fd' = [b \in Stoppers |->
                          IF fd[b] = Stranger /\ pid[seen[b]] = p THEN None ELSE fd[b]]
             /\ UNCHANGED <<at, pid, life, port, files, seen, notes>>

(* A command is killed; its files and its server stay.                     *)
Kill(c) == /\ at[c] \notin {"idle", "end", "killed"}
           /\ at' = [at EXCEPT ![c] = IF c \in Starters THEN "killed" ELSE "idle"]
           /\ UNCHANGED <<files, servers, views, notes>>

Next == \/ \E a \in Starters : Start(a) \/ Bind(a) \/ Close(a) \/ Exit(a) \/ Reap(a)
        \/ \E b \in Stoppers : Stop(b)
        \/ \E p \in Pids : Comes(p) \/ Leaves(p)
        \/ \E c \in Commands : Kill(c)

Spec == Init /\ [][Next]_vars

-----------------------------------------------------------------------------
(* Properties.                                                             *)

(* `stop` signals servers of this project and nobody else, whoever has got *)
(* the process identifier of the state since (control_room.py:419-467).    *)
SignalsOwned == Stranger \notin signals

(* A server that was started is the one in server.json until it has ended: *)
(* `stop` finds it and a second `start` is refused, whatever was killed,   *)
(* interrupted or undone meanwhile.  The one way to lose it is the window  *)
(* inside _remove_state (control_room.py:268-278): two commands remove a   *)
(* state, and a third one has started a server between the comparison of   *)
(* the slower and its unlink.                                              *)
LivingIsRecorded == \A a \in started : Alive(a) => state = a \/ raced

=============================================================================
