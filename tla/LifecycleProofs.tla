---------------------------- MODULE LifecycleProofs ----------------------------
(***************************************************************************)
(* What Lifecycle guarantees for any number of `start` and `stop` commands *)
(* and of process identifiers: only servers of the project are signalled,  *)
(* and a started server stays recorded while it lives.                     *)
(***************************************************************************)
EXTENDS Lifecycle, TLAPS

Before == {"idle", "read", "lock", "spawn"}
Within == {"spawn", "write", "replace", "health", "undo", "forget", "unlink", "unlock"}
StartPlaces == Before \union Within \union {"end", "killed"}
StopPlaces == {"idle", "open", "stale", "reread", "identify", "signal", "wait", "remove", "unlink"}
Lively == {"booting", "serving", "stopping", "closing"}
Lives == Lively \union {"unborn", "dead", "reaped"}

TypeInv ==
    /\ at \in [Commands -> StartPlaces \union StopPlaces]
    /\ \A a \in Starters : at[a] \in StartPlaces
    /\ \A b \in Stoppers : at[b] \in StopPlaces
    /\ state \in Starters \union {None} /\ lock \in BOOLEAN
    /\ pid \in [Starters -> Pids \union {None}] /\ life \in [Starters -> Lives]
    /\ host \in [Pids -> Starters \union {None, Stranger}]
    /\ seen \in [Stoppers -> Starters \union {None}]
    /\ fd \in [Stoppers -> Starters \union {None, Stranger}]
    /\ started \subseteq Starters /\ raced \in BOOLEAN

(* A server has its identifier from its birth until it is reaped.          *)
PidInv ==
    /\ \A a \in Starters : life[a] # "unborn" => pid[a] \in Pids
    /\ \A a \in Starters : life[a] \notin {"unborn", "reaped"} => host[pid[a]] = a
    /\ \A p \in Pids : host[p] \in Starters => pid[host[p]] = p /\ life[host[p]] # "unborn"

(* The start lock excludes; a killed starter leaves it to nobody.          *)
LockInv ==
    /\ \A a \in Starters : at[a] \in Within => lock
    /\ \A a1, a2 \in Starters : at[a1] \in Within /\ at[a2] \in Within => a1 = a2

(* How far a `start` is, and what has become of its server by then.        *)
StartInv ==
    \A a \in Starters :
        /\ at[a] \in Before => life[a] = "unborn"
        /\ at[a] \in {"write", "replace", "health", "undo"} => life[a] \notin {"unborn", "reaped"}
        /\ at[a] \in {"forget", "unlink"} => life[a] \in {"dead", "reaped"}
        /\ at[a] = "replace" => state = None
        /\ state = a => life[a] # "unborn"
        /\ a \in started => life[a] # "unborn"

(* What a `stop` goes by: the server it has seen was born; the process of  *)
(* its pidfd has or had the same identifier, and is the server it has seen *)
(* once it is identified; the server is gone before its state is removed.  *)
StopInv ==
    \A b \in Stoppers :
        /\ at[b] # "idle" => seen[b] \in Starters /\ life[seen[b]] # "unborn"
        /\ at[b] \in {"reread", "identify"} =>
              /\ fd[b] = Stranger => host[pid[seen[b]]] = Stranger
              /\ fd[b] \in Starters => /\ pid[fd[b]] = pid[seen[b]]
                                       /\ life[fd[b]] # "unborn"
        /\ at[b] \in {"signal", "wait"} =>
              /\ fd[b] # Stranger
              /\ fd[b] \in Starters => \/ fd[b] = seen[b]
                                       \/ at[b] = "signal" /\ life[fd[b]] \in {"dead", "reaped"}
        /\ at[b] = "wait" => fd[b] = seen[b]
        /\ at[b] \in {"stale", "remove", "unlink"} => life[seen[b]] \in {"dead", "reaped"}

(* A server whose start has succeeded, or may yet, is recorded.            *)
RecordInv ==
    \A a \in Starters :
        (a \in started \/ at[a] = "health") /\ life[a] \in Lively => state = a \/ raced

IInv == TypeInv /\ PidInv /\ LockInv /\ StartInv /\ StopInv /\ RecordInv /\ SignalsOwned

LEMMA InitIInv == Init => IInv
<1> SUFFICES ASSUME Init PROVE IInv
    OBVIOUS
<1> USE LifecycleAssumption DEF Init
<1>1. TypeInv BY DEF TypeInv, Commands, Lives, StartPlaces, StopPlaces, Before
<1>2. PidInv BY DEF PidInv
<1>3. LockInv BY DEF LockInv, Within, Commands
<1>4. StartInv BY DEF StartInv, Commands
<1>5. StopInv BY DEF StopInv, Commands
<1>6. RecordInv BY DEF RecordInv, Lively
<1> QED BY <1>1, <1>2, <1>3, <1>4, <1>5, <1>6 DEF IInv, SignalsOwned

-----------------------------------------------------------------------------
(* One lemma for each action.                                              *)

LEMMA ProbePortStep ==
    ASSUME IInv, NEW a \in Starters, ProbePort(a)
    PROVE  IInv'
<1> USE LifecycleAssumption DEF IInv
<1>1. TypeInv'
      BY DEF ProbePort, Goes, Looks, files, servers, views, notes, TypeInv,
             Commands, StartPlaces, Before
<1>2. PidInv' BY DEF ProbePort, Looks, servers, PidInv
<1>3. LockInv' BY DEF ProbePort, Goes, Looks, files, LockInv, Within
<1>4. StartInv'
      BY DEF ProbePort, Goes, Looks, files, servers, notes, StartInv, Before
<1>5. StopInv' BY DEF ProbePort, Goes, Looks, servers, views, StopInv
<1>6. RecordInv' BY DEF ProbePort, Goes, Looks, files, servers, notes, RecordInv
<1>7. SignalsOwned' BY DEF ProbePort, Looks, notes, SignalsOwned
<1> QED BY <1>1, <1>2, <1>3, <1>4, <1>5, <1>6, <1>7

LEMMA ReadStateStep ==
    ASSUME IInv, NEW a \in Starters, ReadState(a)
    PROVE  IInv'
<1> USE LifecycleAssumption DEF IInv
<1>1. TypeInv'
      BY DEF ReadState, Goes, Looks, files, servers, views, notes, TypeInv,
             Commands, StartPlaces, Before
<1>2. PidInv' BY DEF ReadState, Looks, servers, PidInv
<1>3. LockInv' BY DEF ReadState, Goes, Looks, files, LockInv, Within
<1>4. StartInv'
      BY DEF ReadState, Goes, Looks, files, servers, notes, StartInv, Before
<1>5. StopInv' BY DEF ReadState, Goes, Looks, servers, views, StopInv
<1>6. RecordInv' BY DEF ReadState, Goes, Looks, files, servers, notes, RecordInv
<1>7. SignalsOwned' BY DEF ReadState, Looks, notes, SignalsOwned
<1> QED BY <1>1, <1>2, <1>3, <1>4, <1>5, <1>6, <1>7

LEMMA TakeLockStep ==
    ASSUME IInv, NEW a \in Starters, TakeLock(a)
    PROVE  IInv'
<1> USE LifecycleAssumption DEF IInv
<1>1. TypeInv'
      BY DEF TakeLock, Goes, servers, views, notes, TypeInv, Commands, StartPlaces,
             Before
<1>2. PidInv' BY DEF TakeLock, servers, PidInv
<1>3. LockInv' BY DEF TakeLock, Goes, LockInv, Within
<1>4. StartInv' BY DEF TakeLock, Goes, servers, notes, StartInv, Before
<1>5. StopInv' BY DEF TakeLock, Goes, servers, views, StopInv
<1>6. RecordInv' BY DEF TakeLock, Goes, servers, notes, RecordInv
<1>7. SignalsOwned' BY DEF TakeLock, notes, SignalsOwned
<1> QED BY <1>1, <1>2, <1>3, <1>4, <1>5, <1>6, <1>7

LEMMA SpawnStep ==
    ASSUME IInv, NEW a \in Starters, Spawn(a)
    PROVE  IInv'
<1> USE LifecycleAssumption DEF IInv
<1>1. TypeInv'
      BY DEF Spawn, Goes, Looks, files, servers, views, notes, TypeInv, Commands,
             StartPlaces, Within, Lives, Lively
<1>2. PidInv' BY DEF Spawn, Goes, Looks, servers, TypeInv, PidInv, StartInv, Before
<1>3. LockInv' BY DEF Spawn, Goes, Looks, files, TypeInv, LockInv, Within, Commands
<1>4. StartInv'
      BY DEF Spawn, Goes, Looks, files, servers, notes, TypeInv, StartInv, Before,
             Commands
<1>5. StopInv'
      BY DEF Spawn, Goes, Looks, servers, views, TypeInv, PidInv, StartInv, StopInv,
             Before, Commands
<1>6. RecordInv'
      BY DEF Spawn, Goes, Looks, files, servers, notes, TypeInv, StartInv,
             RecordInv, Commands, Before
<1>7. SignalsOwned' BY DEF Spawn, Looks, notes, SignalsOwned
<1> QED BY <1>1, <1>2, <1>3, <1>4, <1>5, <1>6, <1>7

LEMMA OpenTempStep ==
    ASSUME IInv, NEW a \in Starters, OpenTemp(a)
    PROVE  IInv'
<1> USE LifecycleAssumption DEF IInv
<1>1. TypeInv'
      BY DEF OpenTemp, Goes, servers, views, notes, TypeInv, Commands, StartPlaces,
             Within
<1>2. PidInv' BY DEF OpenTemp, servers, PidInv
<1>3. LockInv' BY DEF OpenTemp, Goes, TypeInv, LockInv, Within, Commands
<1>4. StartInv'
      BY DEF OpenTemp, Goes, servers, notes, TypeInv, StartInv, Before, Commands
<1>5. StopInv' BY DEF OpenTemp, Goes, servers, views, TypeInv, StopInv, Commands
<1>6. RecordInv' BY DEF OpenTemp, Goes, servers, notes, TypeInv, RecordInv, Commands
<1>7. SignalsOwned' BY DEF OpenTemp, notes, SignalsOwned
<1> QED BY <1>1, <1>2, <1>3, <1>4, <1>5, <1>6, <1>7

LEMMA ReplaceStep ==
    ASSUME IInv, NEW a \in Starters, Replace(a)
    PROVE  IInv'
<1> USE LifecycleAssumption DEF IInv
<1>1. TypeInv'
      BY DEF Replace, Goes, servers, views, notes, TypeInv, Commands, StartPlaces,
             Within
<1>2. PidInv' BY DEF Replace, servers, PidInv
<1>3. LockInv' BY DEF Replace, Goes, TypeInv, LockInv, Within, Commands
<1>4. StartInv'
      BY DEF Replace, Goes, servers, notes, TypeInv, StartInv, LockInv, Within,
             Before, Commands
<1>5. StopInv' BY DEF Replace, Goes, servers, views, TypeInv, StopInv, Commands
<1>6. RecordInv'
      BY DEF Replace, Goes, servers, notes, TypeInv, StartInv, RecordInv, Commands
<1>7. SignalsOwned' BY DEF Replace, notes, SignalsOwned
<1> QED BY <1>1, <1>2, <1>3, <1>4, <1>5, <1>6, <1>7

LEMMA HealthStep ==
    ASSUME IInv, NEW a \in Starters, Health(a)
    PROVE  IInv'
<1> USE LifecycleAssumption DEF IInv
<1>1. TypeInv'
      BY DEF Health, Goes, Looks, files, servers, views, notes, TypeInv, Commands,
             StartPlaces, Within
<1>2. PidInv' BY DEF Health, Looks, servers, PidInv
<1>3. LockInv' BY DEF Health, Goes, Looks, files, TypeInv, LockInv, Within, Commands
<1>4. StartInv'
      BY DEF Health, Goes, Looks, files, servers, notes, TypeInv, StartInv, Before,
             Commands
<1>5. StopInv'
      BY DEF Health, Goes, Looks, servers, views, TypeInv, StopInv, Commands
<1>6. RecordInv'
      BY DEF Health, Goes, Looks, files, servers, notes, TypeInv, RecordInv,
             Commands
<1>7. SignalsOwned' BY DEF Health, Looks, notes, SignalsOwned
<1> QED BY <1>1, <1>2, <1>3, <1>4, <1>5, <1>6, <1>7

LEMMA UndoStep ==
    ASSUME IInv, NEW a \in Starters, Undo(a)
    PROVE  IInv'
<1> USE LifecycleAssumption DEF IInv
<1>1. TypeInv'
      BY DEF Undo, Goes, files, views, notes, TypeInv, Commands, StartPlaces,
             Within, Lives, Lively
<1>2. PidInv' BY DEF Undo, Goes, TypeInv, PidInv, StartInv
<1>3. LockInv' BY DEF Undo, Goes, files, TypeInv, LockInv, Within, Commands
<1>4. StartInv' BY DEF Undo, Goes, files, notes, TypeInv, StartInv, Before, Commands
<1>5. StopInv' BY DEF Undo, Goes, views, TypeInv, StopInv, Commands
<1>6. RecordInv'
      BY DEF Undo, Goes, files, notes, TypeInv, RecordInv, Lively, Commands
<1>7. SignalsOwned' BY DEF Undo, notes, SignalsOwned
<1> QED BY <1>1, <1>2, <1>3, <1>4, <1>5, <1>6, <1>7

LEMMA ForgetStep ==
    ASSUME IInv, NEW a \in Starters, Forget(a)
    PROVE  IInv'
<1> USE LifecycleAssumption DEF IInv
<1>1. TypeInv'
      BY DEF Forget, Goes, Looks, files, servers, views, notes, TypeInv, Commands,
             StartPlaces, Within
<1>2. PidInv' BY DEF Forget, Looks, servers, PidInv
<1>3. LockInv' BY DEF Forget, Goes, Looks, files, LockInv, Within
<1>4. StartInv' BY DEF Forget, Goes, Looks, files, servers, notes, StartInv, Before
<1>5. StopInv' BY DEF Forget, Goes, Looks, servers, views, StopInv
<1>6. RecordInv' BY DEF Forget, Goes, Looks, files, servers, notes, RecordInv
<1>7. SignalsOwned' BY DEF Forget, Looks, notes, SignalsOwned
<1> QED BY <1>1, <1>2, <1>3, <1>4, <1>5, <1>6, <1>7

LEMMA UnlockStep ==
    ASSUME IInv, NEW a \in Starters, Unlock(a)
    PROVE  IInv'
<1> USE LifecycleAssumption DEF IInv
<1>1. TypeInv'
      BY DEF Unlock, Goes, servers, views, notes, TypeInv, Commands, StartPlaces
<1>2. PidInv' BY DEF Unlock, servers, PidInv
<1>3. LockInv' BY DEF Unlock, Goes, TypeInv, LockInv, Within, Commands
<1>4. StartInv' BY DEF Unlock, Goes, servers, notes, StartInv, Before
<1>5. StopInv' BY DEF Unlock, Goes, servers, views, StopInv
<1>6. RecordInv' BY DEF Unlock, Goes, servers, notes, RecordInv
<1>7. SignalsOwned' BY DEF Unlock, notes, SignalsOwned
<1> QED BY <1>1, <1>2, <1>3, <1>4, <1>5, <1>6, <1>7

LEMMA ReadSeenStep ==
    ASSUME IInv, NEW b \in Stoppers, ReadSeen(b)
    PROVE  IInv'
<1> USE LifecycleAssumption DEF IInv
<1>1. TypeInv'
      BY DEF ReadSeen, Goes, files, servers, notes, TypeInv, Commands, StopPlaces
<1>2. PidInv' BY DEF ReadSeen, servers, PidInv
<1>3. LockInv' BY DEF ReadSeen, Goes, files, LockInv
<1>4. StartInv' BY DEF ReadSeen, Goes, files, servers, notes, StartInv
<1>5. StopInv' BY DEF ReadSeen, Goes, servers, TypeInv, StartInv, StopInv
<1>6. RecordInv' BY DEF ReadSeen, Goes, files, servers, notes, RecordInv
<1>7. SignalsOwned' BY DEF ReadSeen, notes, SignalsOwned
<1> QED BY <1>1, <1>2, <1>3, <1>4, <1>5, <1>6, <1>7

LEMMA OpenFdStep ==
    ASSUME IInv, NEW b \in Stoppers, OpenFd(b)
    PROVE  IInv'
<1> USE LifecycleAssumption DEF IInv
<1>1. TypeInv'
      BY DEF OpenFd, Goes, files, servers, notes, PidInv, StopInv, TypeInv,
             Commands, StopPlaces
<1>2. PidInv' BY DEF OpenFd, servers, PidInv
<1>3. LockInv' BY DEF OpenFd, Goes, files, LockInv
<1>4. StartInv' BY DEF OpenFd, Goes, files, servers, notes, StartInv
<1>5. StopInv' BY DEF OpenFd, Goes, servers, TypeInv, PidInv, StopInv
<1>6. RecordInv' BY DEF OpenFd, Goes, files, servers, notes, RecordInv
<1>7. SignalsOwned' BY DEF OpenFd, notes, SignalsOwned
<1> QED BY <1>1, <1>2, <1>3, <1>4, <1>5, <1>6, <1>7

LEMMA StaleStep ==
    ASSUME IInv, NEW b \in Stoppers, Stale(b)
    PROVE  IInv'
<1> USE LifecycleAssumption DEF IInv
<1>1. TypeInv'
      BY DEF Stale, Goes, Looks, files, servers, views, notes, TypeInv, Commands,
             StopPlaces
<1>2. PidInv' BY DEF Stale, Looks, servers, PidInv
<1>3. LockInv' BY DEF Stale, Goes, Looks, files, LockInv
<1>4. StartInv' BY DEF Stale, Goes, Looks, files, servers, notes, StartInv
<1>5. StopInv' BY DEF Stale, Goes, Looks, servers, views, StopInv
<1>6. RecordInv' BY DEF Stale, Goes, Looks, files, servers, notes, RecordInv
<1>7. SignalsOwned' BY DEF Stale, Looks, notes, SignalsOwned
<1> QED BY <1>1, <1>2, <1>3, <1>4, <1>5, <1>6, <1>7

LEMMA RereadStep ==
    ASSUME IInv, NEW b \in Stoppers, Reread(b)
    PROVE  IInv'
<1> USE LifecycleAssumption DEF IInv
<1>1. TypeInv'
      BY DEF Reread, Goes, Looks, files, servers, views, notes, TypeInv, Commands,
             StopPlaces
<1>2. PidInv' BY DEF Reread, Looks, servers, PidInv
<1>3. LockInv' BY DEF Reread, Goes, Looks, files, TypeInv, LockInv, Commands
<1>4. StartInv'
      BY DEF Reread, Goes, Looks, files, servers, notes, TypeInv, StartInv, Commands
<1>5. StopInv'
      BY DEF Reread, Goes, Looks, servers, views, TypeInv, StartInv, StopInv,
             Commands
<1>6. RecordInv'
      BY DEF Reread, Goes, Looks, files, servers, notes, TypeInv, RecordInv,
             Commands
<1>7. SignalsOwned' BY DEF Reread, Looks, notes, SignalsOwned
<1> QED BY <1>1, <1>2, <1>3, <1>4, <1>5, <1>6, <1>7

LEMMA IdentifyStep ==
    ASSUME IInv, NEW b \in Stoppers, Identify(b)
    PROVE  IInv'
<1> USE LifecycleAssumption DEF IInv
<1>1. TypeInv'
      BY DEF Identify, Goes, Looks, files, servers, views, notes, TypeInv, Commands,
             StopPlaces
<1>2. PidInv' BY DEF Identify, Looks, servers, PidInv
<1>3. LockInv' BY DEF Identify, Goes, Looks, files, LockInv
<1>4. StartInv' BY DEF Identify, Goes, Looks, files, servers, notes, StartInv
<1>5. StopInv' BY DEF Identify, Goes, Looks, servers, views, PidInv, StopInv
<1>6. RecordInv' BY DEF Identify, Goes, Looks, files, servers, notes, RecordInv
<1>7. SignalsOwned' BY DEF Identify, Looks, notes, SignalsOwned
<1> QED BY <1>1, <1>2, <1>3, <1>4, <1>5, <1>6, <1>7

LEMMA SignalStep ==
    ASSUME IInv, NEW b \in Stoppers, Signal(b)
    PROVE  IInv'
<1> USE LifecycleAssumption DEF IInv
<1>1. TypeInv'
      BY DEF Signal, Goes, files, views, TypeInv, Commands, StopPlaces, Lives,
             Lively
<1>2. PidInv' BY DEF Signal, PidInv
<1>3. LockInv' BY DEF Signal, Goes, files, TypeInv, LockInv, Commands
<1>4. StartInv' BY DEF Signal, Goes, files, TypeInv, StartInv, Commands
<1>5. StopInv' BY DEF Signal, Goes, views, TypeInv, StopInv, Alive, Commands
<1>6. RecordInv' BY DEF Signal, Goes, files, TypeInv, RecordInv, Lively, Commands
<1>7. SignalsOwned' BY DEF Signal, Goes, SignalsOwned, StopInv
<1> QED BY <1>1, <1>2, <1>3, <1>4, <1>5, <1>6, <1>7

LEMMA WaitStep ==
    ASSUME IInv, NEW b \in Stoppers, Wait(b)
    PROVE  IInv'
<1> USE LifecycleAssumption DEF IInv
<1>1. TypeInv'
      BY DEF Wait, Goes, Looks, files, servers, views, notes, TypeInv, Commands,
             StopPlaces
<1>2. PidInv' BY DEF Wait, Looks, servers, PidInv
<1>3. LockInv' BY DEF Wait, Goes, Looks, files, LockInv
<1>4. StartInv' BY DEF Wait, Goes, Looks, files, servers, notes, StartInv
<1>5. StopInv'
      BY DEF Wait, Goes, Looks, servers, views, TypeInv, StopInv, Lively, Lives,
             Alive
<1>6. RecordInv' BY DEF Wait, Goes, Looks, files, servers, notes, RecordInv
<1>7. SignalsOwned' BY DEF Wait, Looks, notes, SignalsOwned
<1> QED BY <1>1, <1>2, <1>3, <1>4, <1>5, <1>6, <1>7

LEMMA RemoveStep ==
    ASSUME IInv, NEW b \in Stoppers, Remove(b)
    PROVE  IInv'
<1> USE LifecycleAssumption DEF IInv
<1>1. TypeInv'
      BY DEF Remove, Goes, Looks, files, servers, views, notes, TypeInv, Commands,
             StopPlaces
<1>2. PidInv' BY DEF Remove, Looks, servers, PidInv
<1>3. LockInv' BY DEF Remove, Goes, Looks, files, LockInv
<1>4. StartInv' BY DEF Remove, Goes, Looks, files, servers, notes, StartInv
<1>5. StopInv' BY DEF Remove, Goes, Looks, servers, views, StopInv
<1>6. RecordInv' BY DEF Remove, Goes, Looks, files, servers, notes, RecordInv
<1>7. SignalsOwned' BY DEF Remove, Looks, notes, SignalsOwned
<1> QED BY <1>1, <1>2, <1>3, <1>4, <1>5, <1>6, <1>7

LEMMA BindStep ==
    ASSUME IInv, NEW a \in Starters, Bind(a)
    PROVE  IInv'
<1> USE LifecycleAssumption DEF IInv
<1>1. TypeInv' BY DEF Bind, files, views, notes, TypeInv, Lives, Lively
<1>2. PidInv' BY DEF Bind, TypeInv, PidInv
<1>3. LockInv' BY DEF Bind, files, LockInv
<1>4. StartInv' BY DEF Bind, files, notes, TypeInv, StartInv
<1>5. StopInv' BY DEF Bind, views, TypeInv, StopInv
<1>6. RecordInv' BY DEF Bind, files, notes, TypeInv, RecordInv, Lively
<1>7. SignalsOwned' BY DEF Bind, notes, SignalsOwned
<1> QED BY <1>1, <1>2, <1>3, <1>4, <1>5, <1>6, <1>7

LEMMA CloseStep ==
    ASSUME IInv, NEW a \in Starters, Close(a)
    PROVE  IInv'
<1> USE LifecycleAssumption DEF IInv
<1>1. TypeInv' BY DEF Close, files, views, notes, TypeInv, Lives, Lively
<1>2. PidInv' BY DEF Close, PidInv
<1>3. LockInv' BY DEF Close, files, LockInv
<1>4. StartInv' BY DEF Close, files, notes, StartInv
<1>5. StopInv' BY DEF Close, views, StopInv
<1>6. RecordInv' BY DEF Close, files, notes, RecordInv, Lively
<1>7. SignalsOwned' BY DEF Close, notes, SignalsOwned
<1> QED BY <1>1, <1>2, <1>3, <1>4, <1>5, <1>6, <1>7

LEMMA ExitStep ==
    ASSUME IInv, NEW a \in Starters, Exit(a)
    PROVE  IInv'
<1> USE LifecycleAssumption DEF IInv
<1>1. TypeInv' BY DEF Exit, files, views, notes, TypeInv, Lives
<1>2. PidInv' BY DEF Exit, PidInv
<1>3. LockInv' BY DEF Exit, files, LockInv
<1>4. StartInv' BY DEF Exit, files, notes, StartInv
<1>5. StopInv' BY DEF Exit, views, StopInv
<1>6. RecordInv' BY DEF Exit, files, notes, RecordInv, Lively
<1>7. SignalsOwned' BY DEF Exit, notes, SignalsOwned
<1> QED BY <1>1, <1>2, <1>3, <1>4, <1>5, <1>6, <1>7

LEMMA ReapStep ==
    ASSUME IInv, NEW a \in Starters, Reap(a)
    PROVE  IInv'
<1> USE LifecycleAssumption DEF IInv
<1>1. TypeInv' BY DEF Reap, files, views, notes, TypeInv, Lives
<1>2. PidInv' BY DEF Reap, TypeInv, PidInv
<1>3. LockInv' BY DEF Reap, files, LockInv
<1>4. StartInv' BY DEF Reap, files, notes, StartInv
<1>5. StopInv' BY DEF Reap, views, PidInv, StopInv
<1>6. RecordInv' BY DEF Reap, files, notes, RecordInv, Lively
<1>7. SignalsOwned' BY DEF Reap, notes, SignalsOwned
<1> QED BY <1>1, <1>2, <1>3, <1>4, <1>5, <1>6, <1>7

LEMMA ComesStep ==
    ASSUME IInv, NEW p \in Pids, Comes(p)
    PROVE  IInv'
<1> USE LifecycleAssumption DEF IInv
<1>1. TypeInv' BY DEF Comes, files, views, notes, TypeInv
<1>2. PidInv' BY DEF Comes, PidInv
<1>3. LockInv' BY DEF Comes, files, LockInv
<1>4. StartInv' BY DEF Comes, files, notes, StartInv
<1>5. StopInv' BY DEF Comes, views, StopInv
<1>6. RecordInv' BY DEF Comes, files, notes, RecordInv
<1>7. SignalsOwned' BY DEF Comes, notes, SignalsOwned
<1> QED BY <1>1, <1>2, <1>3, <1>4, <1>5, <1>6, <1>7

LEMMA LeavesStep ==
    ASSUME IInv, NEW p \in Pids, Leaves(p)
    PROVE  IInv'
<1> USE LifecycleAssumption DEF IInv
<1>1. TypeInv' BY DEF Leaves, files, notes, TypeInv
<1>2. PidInv' BY DEF Leaves, PidInv
<1>3. LockInv' BY DEF Leaves, files, LockInv
<1>4. StartInv' BY DEF Leaves, files, notes, StartInv
<1>5. StopInv' BY DEF Leaves, StopInv
<1>6. RecordInv' BY DEF Leaves, files, notes, RecordInv
<1>7. SignalsOwned' BY DEF Leaves, notes, SignalsOwned
<1> QED BY <1>1, <1>2, <1>3, <1>4, <1>5, <1>6, <1>7

LEMMA InterruptStep ==
    ASSUME IInv, NEW a \in Starters, Interrupt(a)
    PROVE  IInv'
<1> USE LifecycleAssumption DEF IInv
<1>1. TypeInv'
      BY DEF Interrupt, servers, views, notes, TypeInv, Commands, StartPlaces, Within
<1>2. PidInv' BY DEF Interrupt, servers, PidInv
<1>3. LockInv' BY DEF Interrupt, LockInv, Within
<1>4. StartInv' BY DEF Interrupt, servers, notes, StartInv, Before
<1>5. StopInv' BY DEF Interrupt, servers, views, StopInv
<1>6. RecordInv' BY DEF Interrupt, servers, notes, RecordInv
<1>7. SignalsOwned' BY DEF Interrupt, notes, SignalsOwned
<1> QED BY <1>1, <1>2, <1>3, <1>4, <1>5, <1>6, <1>7

LEMMA KillStep ==
    ASSUME IInv, NEW c \in Commands, Kill(c)
    PROVE  IInv'
<1> USE LifecycleAssumption DEF IInv
<1>1. TypeInv'
      BY DEF Kill, files, servers, views, notes, TypeInv, StartPlaces, StopPlaces
<1>2. PidInv' BY DEF Kill, servers, PidInv
<1>3. LockInv' BY DEF Kill, files, LockInv, Within
<1>4. StartInv' BY DEF Kill, files, servers, notes, StartInv, Before
<1>5. StopInv' BY DEF Kill, servers, views, StopInv
<1>6. RecordInv' BY DEF Kill, files, servers, notes, RecordInv
<1>7. SignalsOwned' BY DEF Kill, notes, SignalsOwned
<1> QED BY <1>1, <1>2, <1>3, <1>4, <1>5, <1>6, <1>7

(* The second half of _remove_state, for a `start` and for a `stop`.        *)
LEMMA StartUnlinkStep ==
    ASSUME IInv, NEW a \in Starters, Unlink(a, a, "unlock")
    PROVE  IInv'
<1> USE LifecycleAssumption DEF IInv
<1>1. TypeInv'
      BY DEF Unlink, Goes, servers, views, TypeInv, Commands, StartPlaces, Within
<1>2. PidInv' BY DEF Unlink, servers, PidInv
<1>3. LockInv' BY DEF Unlink, Goes, LockInv, Within
<1>4. StartInv' BY DEF Unlink, Goes, servers, StartInv, Before
<1>5. StopInv' BY DEF Unlink, Goes, servers, views, StopInv
<1>6. RecordInv'
  <2>1. ASSUME NEW x \in Starters, x \in started \/ at[x] = "health", life[x] \in Lively
        PROVE  state \notin {a, None} \/ raced
        BY <2>1 DEF Unlink, Goes, RecordInv, StartInv, Lively
  <2>2. \A x \in Starters : at'[x] = "health" => at[x] = "health"
        BY DEF Unlink, Goes
  <2>3. life' = life /\ started' = started /\ (raced \/ state \notin {a, None} => raced')
        BY Zenon DEF Unlink, servers
  <2> QED BY <2>1, <2>2, <2>3 DEF RecordInv
<1>7. SignalsOwned' BY DEF Unlink, SignalsOwned
<1> QED BY <1>1, <1>2, <1>3, <1>4, <1>5, <1>6, <1>7

LEMMA StopUnlinkStep ==
    ASSUME IInv, NEW b \in Stoppers, Unlink(b, seen[b], "idle")
    PROVE  IInv'
<1> USE LifecycleAssumption DEF IInv
<1>1. TypeInv' BY DEF Unlink, Goes, servers, views, TypeInv, Commands, StopPlaces
<1>2. PidInv' BY DEF Unlink, servers, PidInv
<1>3. LockInv' BY DEF Unlink, Goes, LockInv
<1>4. StartInv' BY DEF Unlink, Goes, servers, StartInv
<1>5. StopInv' BY DEF Unlink, Goes, servers, views, StopInv
<1>6. RecordInv'
  <2>1. ASSUME NEW x \in Starters, x \in started \/ at[x] = "health", life[x] \in Lively
        PROVE  state \notin {seen[b], None} \/ raced
        BY <2>1 DEF Unlink, Goes, RecordInv, StopInv, Lively
  <2>2. \A x \in Starters : at'[x] = "health" => at[x] = "health"
        BY DEF Unlink, Goes
  <2>3. life' = life /\ started' = started /\ (raced \/ state \notin {seen[b], None} => raced')
        BY Zenon DEF Unlink, servers
  <2> QED BY <2>1, <2>2, <2>3 DEF RecordInv
<1>7. SignalsOwned' BY DEF Unlink, SignalsOwned
<1> QED BY <1>1, <1>2, <1>3, <1>4, <1>5, <1>6, <1>7

-----------------------------------------------------------------------------
LEMMA StepIInv == IInv /\ [Next]_vars => IInv'
<1> SUFFICES ASSUME IInv, [Next]_vars PROVE IInv'
    OBVIOUS
<1>1. CASE \E a \in Starters : Start(a)
  <2> PICK a \in Starters : Start(a) BY <1>1
  <2> QED
      BY ProbePortStep, ReadStateStep, TakeLockStep, SpawnStep, OpenTempStep,
         ReplaceStep, HealthStep, UndoStep, ForgetStep, StartUnlinkStep,
         InterruptStep, UnlockStep
      DEF Start
<1>2. CASE \E b \in Stoppers : Stop(b)
  <2> PICK b \in Stoppers : Stop(b) BY <1>2
  <2> QED
      BY ReadSeenStep, OpenFdStep, StaleStep, RereadStep, IdentifyStep, SignalStep,
         WaitStep, RemoveStep, StopUnlinkStep
      DEF Stop
<1>3. CASE \E a \in Starters : Bind(a) \/ Close(a) \/ Exit(a) \/ Reap(a)
      BY <1>3, BindStep, CloseStep, ExitStep, ReapStep
<1>4. CASE \E p \in Pids : Comes(p) \/ Leaves(p)
      BY <1>4, ComesStep, LeavesStep
<1>5. CASE \E c \in Commands : Kill(c)
      BY <1>5, KillStep
<1>6. CASE UNCHANGED vars
      BY <1>6
         DEF vars, files, servers, views, notes, IInv, TypeInv, PidInv, LockInv,
             StartInv, StopInv, RecordInv, SignalsOwned
<1> QED BY <1>1, <1>2, <1>3, <1>4, <1>5, <1>6 DEF Next

(* The inductive invariant holds of every reachable state.                 *)
THEOREM Invariance == Spec => []IInv
<1> QED BY InitIInv, StepIInv, PTL DEF Spec

(* No process but a server of this project is ever signalled by a `stop`,  *)
(* whoever has got its identifier since.                                   *)
THEOREM OnlyOwnSignalled == Spec => []SignalsOwned
<1>1. IInv => SignalsOwned BY DEF IInv
<1> QED BY <1>1, Invariance, PTL

(* A started server stays in server.json as long as it lives, but for the  *)
(* window inside _remove_state that LivingIsRecorded names.                *)
THEOREM LivingStayRecorded == Spec => []LivingIsRecorded
<1>1. IInv => LivingIsRecorded
      BY DEF IInv, TypeInv, RecordInv, LivingIsRecorded, Alive, Lively
<1> QED BY <1>1, Invariance, PTL

=============================================================================

