------------------------------ MODULE RelayProofs ------------------------------
(***************************************************************************)
(* What Relay guarantees for any number of connections, any capacity and   *)
(* any amount of data: the slots of the semaphore are balanced, nothing is *)
(* left when close() is over, a direction ends after its data, and a run   *)
(* is not confirmed over a lost failure.                                   *)
(***************************************************************************)
EXTENDS Relay, FiniteSetTheorems, TLAPS

Early == {"new", "probing", "starting"}
Late == {"sockets", "workers", "closed"}
Out == {"none", "leave", "done"}

(* Connections are admitted one at a time, so those that hold a slot stay  *)
(* finitely many.                                                          *)
SlotsInv == IsFiniteSet(Holders) /\ SlotsBalanced

(* What the thread of the adapter knows of the accept thread, and what the *)
(* accept thread says of the workers.                                      *)
PhaseInv == /\ at \in Early => accepting = "none" /\ ~stop
            /\ accepting \in {"none", "unstarted"} => \A c \in Clients : pc[c] = "none"
            /\ at \in Late => accepting \in {"none", "dead"}
            /\ at = "raised" => accepting = "unstarted"
            /\ at \in Late \union {"joining", "raised"} => ~listener
            /\ at = "closed" => workers = {}

(* The set of workers is that of the running ones, and at most one         *)
(* connection is accepted without having one.                              *)
WorkerInv == /\ workers = {c \in Clients : pc[c] \notin {"none", "accepted", "done"}}
             /\ \A c \in Clients : pc[c] = "accepted" =>
                   accepting = "got" /\ \A d \in Clients : pc[d] = "accepted" => d = c

(* Only a connection that holds a slot has sockets, and only one with a    *)
(* worker has registered some.                                             *)
SocketInv == \A c \in Clients : \A e \in Ends :
                /\ <<c, e>> \in open => pc[c] \notin Out
                /\ <<c, e>> \in registered => pc[c] \notin Out \union {"accepted"}

(* While the run goes on, whoever failed has said so.                      *)
LossInv == /\ lost => failed
           /\ at = "serving" /\ stop => failed
           /\ at = "serving" => \A c \in Clients : pc[c] = "broken" => failed

Direction == [read : Nat, sent : Nat, eof : BOOLEAN, shut : BOOLEAN]
FlowInv == flow \in [Clients -> [Dirs -> Direction]] /\ EndsAfterData

(* The inductive invariant.                                                *)
IInv == /\ TypeOK /\ SlotsInv /\ PhaseInv /\ WorkerInv /\ SocketInv /\ LossInv /\ FlowInv

LEMMA InitIInv == Init => IInv
<1> SUFFICES ASSUME Init PROVE IInv
    OBVIOUS
<1> USE CapacityAssumption DEF Init
<1>1. TypeOK BY DEF TypeOK, Places
<1>2. Holders = {} BY DEF Holders
<1>3. SlotsInv BY <1>2, FS_EmptySet DEF SlotsInv, SlotsBalanced
<1>4. PhaseInv BY DEF PhaseInv, Late
<1>5. WorkerInv /\ SocketInv BY DEF WorkerInv, SocketInv
<1>6. LossInv BY DEF LossInv
<1>7. FlowInv BY DEF FlowInv, EndsAfterData, Direction, Fresh
<1> QED BY <1>1, <1>3, <1>4, <1>5, <1>6, <1>7 DEF IInv

-----------------------------------------------------------------------------
(* Slots.                                                                  *)

(* What a move of one connection does to those that hold a slot.           *)
LEMMA HoldersMove ==
    ASSUME TypeOK, SlotsInv, NEW c \in Clients, NEW to, pc' = [pc EXCEPT ![c] = to]
    PROVE  /\ IsFiniteSet(Holders')
           /\ (pc[c] \in Out <=> to \in Out) => Holders' = Holders
           /\ pc[c] \in Out /\ to \notin Out
                => Cardinality(Holders') = Cardinality(Holders) + 1
           /\ pc[c] \notin Out /\ to \in Out
                => Cardinality(Holders') = Cardinality(Holders) - 1
<1>1. IsFiniteSet(Holders) /\ pc \in [Clients -> Places] BY DEF SlotsInv, TypeOK
<1>2. Holders = {x \in Clients : pc[x] \notin Out} BY DEF Holders, Out
<1>3. Holders' = {x \in Clients : pc'[x] \notin Out} BY DEF Holders, Out
<1>4. \A x \in Clients : pc'[x] = IF x = c THEN to ELSE pc[x] BY <1>1
<1>5. CASE pc[c] \in Out <=> to \in Out
  <2>1. Holders' = Holders BY <1>2, <1>3, <1>4, <1>5
  <2> QED BY <2>1, <1>1, <1>5
<1>6. CASE pc[c] \in Out /\ to \notin Out
  <2>1. Holders' = Holders \cup {c} /\ c \notin Holders BY <1>2, <1>3, <1>4, <1>6
  <2>2. IsFiniteSet(Holders') /\ Cardinality(Holders') = Cardinality(Holders) + 1
        BY <2>1, <1>1, FS_AddElement
  <2> QED BY <2>2, <1>6
<1>7. CASE pc[c] \notin Out /\ to \in Out
  <2>1. Holders' = Holders \ {c} /\ c \in Holders BY <1>2, <1>3, <1>4, <1>7
  <2>2. IsFiniteSet(Holders') /\ Cardinality(Holders') = Cardinality(Holders) - 1
        BY <2>1, <1>1, FS_RemoveElement
  <2> QED BY <2>2, <1>7
<1> QED BY <1>5, <1>6, <1>7

LEMMA SlotsKept ==
    ASSUME TypeOK, SlotsInv, NEW c \in Clients, NEW to, pc' = [pc EXCEPT ![c] = to],
           pc[c] \in Out <=> to \in Out, free' = free
    PROVE  SlotsInv'
BY HoldersMove DEF SlotsInv, SlotsBalanced

LEMMA SlotTaken ==
    ASSUME TypeOK, SlotsInv, NEW c \in Clients, NEW to, pc' = [pc EXCEPT ![c] = to],
           pc[c] \in Out, to \notin Out, free' = free - 1
    PROVE  SlotsInv'
<1>1. IsFiniteSet(Holders') /\ Cardinality(Holders') = Cardinality(Holders) + 1
      BY HoldersMove
<1>2. Cardinality(Holders) \in Nat BY FS_CardinalityType DEF SlotsInv
<1>3. SlotsBalanced'
      BY <1>1, <1>2, CapacityAssumption DEF SlotsInv, SlotsBalanced, TypeOK
<1> QED BY <1>1, <1>3 DEF SlotsInv

LEMMA SlotReturned ==
    ASSUME TypeOK, SlotsInv, NEW c \in Clients, NEW to, pc' = [pc EXCEPT ![c] = to],
           pc[c] \notin Out, to \in Out, free' = free + 1
    PROVE  SlotsInv'
<1>1. IsFiniteSet(Holders') /\ Cardinality(Holders') = Cardinality(Holders) - 1
      BY HoldersMove
<1>2. Cardinality(Holders) \in Nat BY FS_CardinalityType DEF SlotsInv
<1>3. SlotsBalanced'
      BY <1>1, <1>2, CapacityAssumption DEF SlotsInv, SlotsBalanced, TypeOK
<1> QED BY <1>1, <1>3 DEF SlotsInv

LEMMA SlotsSame ==
    ASSUME SlotsInv, pc' = pc, free' = free
    PROVE  SlotsInv'
<1>1. Holders' = Holders BY DEF Holders
<1> QED BY <1>1 DEF SlotsInv, SlotsBalanced

LEMMA FlowSame ==
    ASSUME FlowInv, flow' = flow, NEW c \in Clients, NEW to,
           pc' = [pc EXCEPT ![c] = to], pc \in [Clients -> Places],
           to = "drained" => \A d \in Dirs : flow[c][d].shut
    PROVE  FlowInv'
BY DEF FlowInv, EndsAfterData

-----------------------------------------------------------------------------
(* The thread of the adapter.                                              *)

LEMMA BindStep ==
    ASSUME IInv, Bind
    PROVE  IInv'
<1> USE DEF IInv
<1>1. TypeOK' BY DEF Bind, Goes, accounts, notes, TypeOK
<1>2. SlotsInv' BY SlotsSame DEF Bind, accounts
<1>3. PhaseInv' BY DEF Bind, Goes, PhaseInv, Early, Late
<1>4. WorkerInv' BY DEF Bind, accounts, WorkerInv
<1>5. SocketInv' BY DEF Bind, accounts, SocketInv
<1>6. LossInv' BY DEF Bind, Goes, notes, LossInv
<1>7. FlowInv' BY DEF Bind, FlowInv, EndsAfterData
<1> QED BY <1>1, <1>2, <1>3, <1>4, <1>5, <1>6, <1>7

LEMMA ProbeStep ==
    ASSUME IInv, Probe
    PROVE  IInv'
<1> USE DEF IInv
<1>1. TypeOK' BY DEF Probe, Goes, accounts, TypeOK
<1>2. SlotsInv' BY SlotsSame DEF Probe, accounts
<1>3. PhaseInv' BY DEF Probe, Goes, PhaseInv, Early, Late
<1>4. WorkerInv' BY DEF Probe, accounts, WorkerInv
<1>5. SocketInv' BY DEF Probe, accounts, SocketInv
<1>6. LossInv' BY DEF Probe, Goes, LossInv
<1>7. FlowInv' BY DEF Probe, FlowInv, EndsAfterData
<1> QED BY <1>1, <1>2, <1>3, <1>4, <1>5, <1>6, <1>7

LEMMA StartThreadStep ==
    ASSUME IInv, StartThread
    PROVE  IInv'
<1> USE DEF IInv
<1>1. TypeOK' BY DEF StartThread, Goes, accounts, notes, TypeOK
<1>2. SlotsInv' BY SlotsSame DEF StartThread, accounts
<1>3. PhaseInv' BY DEF StartThread, Goes, PhaseInv, Early, Late
<1>4. WorkerInv' BY DEF StartThread, Goes, accounts, PhaseInv, WorkerInv, Early
<1>5. SocketInv' BY DEF StartThread, accounts, SocketInv
<1>6. LossInv' BY DEF StartThread, Goes, notes, LossInv, PhaseInv, Early
<1>7. FlowInv' BY DEF StartThread, FlowInv, EndsAfterData
<1> QED BY <1>1, <1>2, <1>3, <1>4, <1>5, <1>6, <1>7

LEMMA AssertHealthyStep ==
    ASSUME IInv, AssertHealthy
    PROVE  IInv'
<1> USE DEF IInv
<1>1. TypeOK' BY DEF AssertHealthy, Goes, accounts, notes, TypeOK
<1>2. SlotsInv' BY SlotsSame DEF AssertHealthy, accounts
<1>3. PhaseInv' BY DEF AssertHealthy, Goes, PhaseInv, Early, Late
<1>4. WorkerInv' BY DEF AssertHealthy, accounts, WorkerInv
<1>5. SocketInv' BY DEF AssertHealthy, accounts, SocketInv
<1>6. LossInv' BY DEF AssertHealthy, Goes, notes, LossInv
<1>7. FlowInv' BY DEF AssertHealthy, FlowInv, EndsAfterData
<1> QED BY <1>1, <1>2, <1>3, <1>4, <1>5, <1>6, <1>7

LEMMA ChildFailedStep ==
    ASSUME IInv, ChildFailed
    PROVE  IInv'
<1> USE DEF IInv
<1>1. TypeOK' BY DEF ChildFailed, Goes, accounts, notes, TypeOK
<1>2. SlotsInv' BY SlotsSame DEF ChildFailed, accounts
<1>3. PhaseInv' BY DEF ChildFailed, Goes, PhaseInv, Early, Late
<1>4. WorkerInv' BY DEF ChildFailed, accounts, WorkerInv
<1>5. SocketInv' BY DEF ChildFailed, accounts, SocketInv
<1>6. LossInv' BY DEF ChildFailed, Goes, notes, LossInv
<1>7. FlowInv' BY DEF ChildFailed, FlowInv, EndsAfterData
<1> QED BY <1>1, <1>2, <1>3, <1>4, <1>5, <1>6, <1>7

LEMMA BeginCloseStep ==
    ASSUME IInv, BeginClose
    PROVE  IInv'
<1> USE DEF IInv
<1>1. TypeOK' BY DEF BeginClose, accounts, notes, TypeOK
<1>2. SlotsInv' BY SlotsSame DEF BeginClose, accounts
<1>3. PhaseInv' BY DEF BeginClose, PhaseInv, Early, Late
<1>4. WorkerInv' BY DEF BeginClose, accounts, WorkerInv
<1>5. SocketInv' BY DEF BeginClose, accounts, SocketInv
<1>6. LossInv' BY DEF BeginClose, notes, LossInv
<1>7. FlowInv' BY DEF BeginClose, FlowInv, EndsAfterData
<1> QED BY <1>1, <1>2, <1>3, <1>4, <1>5, <1>6, <1>7

LEMMA JoinAcceptStep ==
    ASSUME IInv, JoinAccept
    PROVE  IInv'
<1> USE DEF IInv
<1>1. TypeOK' BY DEF JoinAccept, Goes, accounts, notes, TypeOK
<1>2. SlotsInv' BY SlotsSame DEF JoinAccept, accounts
<1>3. PhaseInv' BY DEF JoinAccept, Goes, PhaseInv, Early, Late
<1>4. WorkerInv' BY DEF JoinAccept, accounts, WorkerInv
<1>5. SocketInv' BY DEF JoinAccept, accounts, SocketInv
<1>6. LossInv' BY DEF JoinAccept, Goes, notes, LossInv
<1>7. FlowInv' BY DEF JoinAccept, FlowInv, EndsAfterData
<1> QED BY <1>1, <1>2, <1>3, <1>4, <1>5, <1>6, <1>7

LEMMA CloseSocketsStep ==
    ASSUME IInv, CloseSockets
    PROVE  IInv'
<1> USE DEF IInv
<1>1. TypeOK' BY DEF CloseSockets, Goes, notes, TypeOK
<1>2. SlotsInv' BY SlotsSame DEF CloseSockets
<1>3. PhaseInv' BY DEF CloseSockets, Goes, PhaseInv, Early, Late
<1>4. WorkerInv' BY DEF CloseSockets, WorkerInv
<1>5. SocketInv' BY DEF CloseSockets, SocketInv
<1>6. LossInv' BY DEF CloseSockets, Goes, notes, LossInv
<1>7. FlowInv' BY DEF CloseSockets, FlowInv, EndsAfterData
<1> QED BY <1>1, <1>2, <1>3, <1>4, <1>5, <1>6, <1>7

LEMMA JoinWorkersStep ==
    ASSUME IInv, JoinWorkers
    PROVE  IInv'
<1> USE DEF IInv
<1>1. TypeOK' BY DEF JoinWorkers, Goes, accounts, notes, TypeOK
<1>2. SlotsInv' BY SlotsSame DEF JoinWorkers, accounts
<1>3. PhaseInv' BY DEF JoinWorkers, Goes, accounts, PhaseInv, Early, Late
<1>4. WorkerInv' BY DEF JoinWorkers, accounts, WorkerInv
<1>5. SocketInv' BY DEF JoinWorkers, accounts, SocketInv
<1>6. LossInv' BY DEF JoinWorkers, Goes, notes, LossInv
<1>7. FlowInv' BY DEF JoinWorkers, FlowInv, EndsAfterData
<1> QED BY <1>1, <1>2, <1>3, <1>4, <1>5, <1>6, <1>7

-----------------------------------------------------------------------------
(* The accept thread.                                                      *)

LEMMA LookAtStopStep ==
    ASSUME IInv, LookAtStop
    PROVE  IInv'
<1> USE DEF IInv
<1>1. TypeOK' BY DEF LookAtStop, accounts, notes, TypeOK
<1>2. SlotsInv' BY SlotsSame DEF LookAtStop, accounts
<1>3. PhaseInv' BY DEF LookAtStop, accounts, PhaseInv
<1>4. WorkerInv' BY DEF LookAtStop, accounts, WorkerInv
<1>5. SocketInv' BY DEF LookAtStop, accounts, SocketInv
<1>6. LossInv' BY DEF LookAtStop, notes, LossInv
<1>7. FlowInv' BY DEF LookAtStop, FlowInv, EndsAfterData
<1> QED BY <1>1, <1>2, <1>3, <1>4, <1>5, <1>6, <1>7

LEMMA TimeoutStep ==
    ASSUME IInv, Timeout
    PROVE  IInv'
<1> USE DEF IInv
<1>1. TypeOK' BY DEF Timeout, accounts, notes, TypeOK
<1>2. SlotsInv' BY SlotsSame DEF Timeout, accounts
<1>3. PhaseInv' BY DEF Timeout, accounts, PhaseInv
<1>4. WorkerInv' BY DEF Timeout, accounts, WorkerInv
<1>5. SocketInv' BY DEF Timeout, accounts, SocketInv
<1>6. LossInv' BY DEF Timeout, notes, LossInv
<1>7. FlowInv' BY DEF Timeout, FlowInv, EndsAfterData
<1> QED BY <1>1, <1>2, <1>3, <1>4, <1>5, <1>6, <1>7

LEMMA AcceptFailsStep ==
    ASSUME IInv, AcceptFails
    PROVE  IInv'
<1> USE DEF IInv
<1>1. TypeOK' BY DEF AcceptFails, accounts, TypeOK
<1>2. SlotsInv' BY SlotsSame DEF AcceptFails, accounts
<1>3. PhaseInv' BY DEF AcceptFails, accounts, PhaseInv
<1>4. WorkerInv' BY DEF AcceptFails, accounts, WorkerInv
<1>5. SocketInv' BY DEF AcceptFails, accounts, SocketInv
<1>6. LossInv' BY DEF AcceptFails, LossInv
<1>7. FlowInv' BY DEF AcceptFails, FlowInv, EndsAfterData
<1> QED BY <1>1, <1>2, <1>3, <1>4, <1>5, <1>6, <1>7

LEMMA AcceptStep ==
    ASSUME IInv, NEW c \in Clients, Accept(c)
    PROVE  IInv'
<1> USE DEF IInv
<1>1. TypeOK'
  <2>1. CASE free > 0 BY <2>1 DEF Accept, notes, Ends, TypeOK, Places
  <2>2. CASE ~(free > 0) BY <2>2 DEF Accept, notes, TypeOK, Places
  <2> QED BY <2>1, <2>2
<1>2. SlotsInv'
  <2>1. CASE free > 0
        BY <2>1, SlotTaken DEF Accept, Out
  <2>2. CASE ~(free > 0)
        BY <2>2, SlotsKept DEF Accept, Out
  <2> QED BY <2>1, <2>2
<1>3. PhaseInv' BY DEF Accept, PhaseInv
<1>4. WorkerInv' BY DEF Accept, TypeOK, WorkerInv
<1>5. SocketInv'
  <2>1. CASE free > 0
    <3>1. /\ open' = open \union {<<c, "client">>} /\ registered' = registered
          /\ pc[c] = "none" /\ pc' = [pc EXCEPT ![c] = "accepted"]
          BY <2>1 DEF Accept
    <3>2. \A x \in Clients : pc'[x] = IF x = c THEN "accepted" ELSE pc[x]
          BY <3>1 DEF TypeOK
    <3>3. \A x \in Clients, e \in Ends : <<x, e>> \in open' => x = c \/ <<x, e>> \in open
          BY <3>1
    <3>4. ASSUME NEW x \in Clients, NEW e \in Ends
          PROVE  /\ <<x, e>> \in open' => pc'[x] \notin Out
                 /\ <<x, e>> \in registered' => pc'[x] \notin Out \union {"accepted"}
      <4>1. CASE x = c BY <4>1, <3>1, <3>2 DEF SocketInv, Out
      <4>2. CASE x # c BY <4>2, <3>1, <3>2, <3>3 DEF SocketInv
      <4> QED BY <4>1, <4>2
    <3> QED BY <3>4 DEF SocketInv
  <2>2. CASE ~(free > 0) BY <2>2 DEF Accept, TypeOK, SocketInv, Out
  <2> QED BY <2>1, <2>2
<1>6. LossInv' BY DEF Accept, notes, TypeOK, LossInv
<1>7. FlowInv'
  <2>1. CASE free > 0 BY <2>1, FlowSame DEF Accept, TypeOK
  <2>2. CASE ~(free > 0) BY <2>2, FlowSame DEF Accept, TypeOK
  <2> QED BY <2>1, <2>2
<1> QED BY <1>1, <1>2, <1>3, <1>4, <1>5, <1>6, <1>7

LEMMA SpawnStep ==
    ASSUME IInv, NEW c \in Clients, Spawn(c)
    PROVE  IInv'
<1> USE DEF IInv
<1>1. TypeOK' BY DEF Spawn, notes, TypeOK, Places
<1>2. SlotsInv' BY SlotsKept DEF Spawn, Out
<1>3. PhaseInv' BY DEF Spawn, PhaseInv, Late
<1>4. WorkerInv' BY DEF Spawn, TypeOK, WorkerInv
<1>5. SocketInv' BY DEF Spawn, TypeOK, SocketInv, Out
<1>6. LossInv' BY DEF Spawn, notes, LossInv
<1>7. FlowInv' BY FlowSame DEF Spawn, TypeOK
<1> QED BY <1>1, <1>2, <1>3, <1>4, <1>5, <1>6, <1>7

LEMMA SpawnFailsStep ==
    ASSUME IInv, NEW c \in Clients, SpawnFails(c)
    PROVE  IInv'
<1> USE DEF IInv
<1>1. TypeOK' BY DEF SpawnFails, TypeOK, Places
<1>2. SlotsInv' BY SlotReturned DEF SpawnFails, Out
<1>3. PhaseInv' BY DEF SpawnFails, PhaseInv
<1>4. WorkerInv' BY DEF SpawnFails, TypeOK, WorkerInv
<1>5. SocketInv' BY DEF SpawnFails, Sockets, TypeOK, SocketInv
<1>6. LossInv' BY DEF SpawnFails, LossInv
<1>7. FlowInv' BY FlowSame DEF SpawnFails, TypeOK
<1> QED BY <1>1, <1>2, <1>3, <1>4, <1>5, <1>6, <1>7

-----------------------------------------------------------------------------
(* A worker.                                                               *)

LEMMA ReturnStep ==
    ASSUME IInv, NEW c \in Clients,
           NEW from \in {"begin", "revalidate", "connect", "connected", "forward", "drained", "broken", "finish"},
           NEW to \in {"begin", "revalidate", "connect", "connected", "forward", "drained", "broken", "finish"},
           to = "drained" => \A d \in Dirs : flow[c][d].shut, to # "broken", Return(c, from, to)
    PROVE  IInv'
<1> USE DEF IInv
<1>1. TypeOK' BY DEF Return, Moves, accounts, notes, TypeOK, Places
<1>2. SlotsInv' BY SlotsKept DEF Return, Moves, accounts, Out
<1>3. PhaseInv' BY DEF Return, Moves, accounts, PhaseInv
<1>4. WorkerInv' BY DEF Return, Moves, accounts, WorkerInv
<1>5. SocketInv' BY DEF Return, Moves, accounts, TypeOK, SocketInv, Out
<1>6. LossInv' BY DEF Return, Moves, notes, LossInv
<1>7. FlowInv' BY FlowSame DEF Return, Moves, TypeOK
<1> QED BY <1>1, <1>2, <1>3, <1>4, <1>5, <1>6, <1>7

LEMMA FailStep ==
    ASSUME IInv, NEW c \in Clients,
           NEW from \in {"revalidate", "connect", "forward"}, Fail(c, from)
    PROVE  IInv'
<1> USE DEF IInv
<1>1. TypeOK' BY DEF Fail, Moves, accounts, TypeOK, Places
<1>2. SlotsInv' BY SlotsKept DEF Fail, Moves, accounts, Out
<1>3. PhaseInv' BY DEF Fail, Moves, accounts, PhaseInv
<1>4. WorkerInv' BY DEF Fail, Moves, accounts, WorkerInv
<1>5. SocketInv' BY DEF Fail, Moves, accounts, TypeOK, SocketInv, Out
<1>6. LossInv' BY DEF Fail, LossInv
<1>7. FlowInv' BY FlowSame DEF Fail, Moves, TypeOK
<1> QED BY <1>1, <1>2, <1>3, <1>4, <1>5, <1>6, <1>7

LEMMA BeginStep ==
    ASSUME IInv, NEW c \in Clients, Begin(c)
    PROVE  IInv'
<1> USE DEF IInv
<1>1. TypeOK' BY DEF Begin, Moves, Ends, notes, TypeOK, Places
<1>2. SlotsInv'
  <2>1. CASE stop BY <2>1, SlotsKept DEF Begin, Moves, Out
  <2>2. CASE ~stop BY <2>2, SlotsKept DEF Begin, Moves, Out
  <2> QED BY <2>1, <2>2 DEF TypeOK
<1>3. PhaseInv' BY DEF Begin, Moves, PhaseInv
<1>4. WorkerInv' BY DEF Begin, Moves, WorkerInv
<1>5. SocketInv' BY DEF Begin, Moves, TypeOK, SocketInv, Out
<1>6. LossInv' BY DEF Begin, Moves, notes, LossInv
<1>7. FlowInv'
  <2>1. CASE stop BY <2>1, FlowSame DEF Begin, Moves, TypeOK
  <2>2. CASE ~stop BY <2>2, FlowSame DEF Begin, Moves, TypeOK
  <2> QED BY <2>1, <2>2
<1> QED BY <1>1, <1>2, <1>3, <1>4, <1>5, <1>6, <1>7

LEMMA RevalidateStep ==
    ASSUME IInv, NEW c \in Clients, Revalidate(c)
    PROVE  IInv'
BY ReturnStep, FailStep DEF Revalidate

LEMMA ConnectedStep ==
    ASSUME IInv, NEW c \in Clients, Moves(c, "connect", "connected") /\ open' = open \union {<<c, "upstream">>}
           /\ UNCHANGED <<at, accepting, free, workers, registered, notes, listener, stop, flow>>
    PROVE  IInv'
<1> USE DEF IInv
<1>1. TypeOK' BY DEF Moves, Ends, notes, TypeOK, Places
<1>2. SlotsInv' BY SlotsKept DEF Moves, Out
<1>3. PhaseInv' BY DEF Moves, PhaseInv
<1>4. WorkerInv' BY DEF Moves, WorkerInv
<1>5. SocketInv' BY DEF Moves, TypeOK, SocketInv, Out
<1>6. LossInv' BY DEF Moves, notes, LossInv
<1>7. FlowInv' BY FlowSame DEF Moves, TypeOK
<1> QED BY <1>1, <1>2, <1>3, <1>4, <1>5, <1>6, <1>7

LEMMA ConnectStep ==
    ASSUME IInv, NEW c \in Clients, Connect(c)
    PROVE  IInv'
BY ConnectedStep, FailStep DEF Connect

LEMMA RegisterUpstreamStep ==
    ASSUME IInv, NEW c \in Clients, RegisterUpstream(c)
    PROVE  IInv'
<1> USE DEF IInv
<1>1. TypeOK' BY DEF RegisterUpstream, Moves, Ends, TypeOK, Places
<1>2. SlotsInv' BY SlotsKept DEF RegisterUpstream, Moves, Out
<1>3. PhaseInv' BY DEF RegisterUpstream, Moves, PhaseInv
<1>4. WorkerInv' BY DEF RegisterUpstream, Moves, WorkerInv
<1>5. SocketInv' BY DEF RegisterUpstream, Moves, TypeOK, SocketInv, Out
<1>6. LossInv' BY DEF RegisterUpstream, Moves, LossInv
<1>7. FlowInv' BY FlowSame DEF RegisterUpstream, Moves, TypeOK
<1> QED BY <1>1, <1>2, <1>3, <1>4, <1>5, <1>6, <1>7

LEMMA FinishStep ==
    ASSUME IInv, NEW c \in Clients, Finish(c)
    PROVE  IInv'
<1> USE DEF IInv
<1>1. TypeOK' BY DEF Finish, TypeOK, Places
<1>2. SlotsInv' BY SlotReturned DEF Finish, Out
<1>3. PhaseInv' BY DEF Finish, PhaseInv
<1>4. WorkerInv' BY DEF Finish, WorkerInv
<1>5. SocketInv' BY DEF Finish, Sockets, TypeOK, SocketInv
<1>6. LossInv' BY DEF Finish, TypeOK, LossInv
<1>7. FlowInv' BY DEF Finish, TypeOK, FlowInv, EndsAfterData, Fresh, Direction
<1> QED BY <1>1, <1>2, <1>3, <1>4, <1>5, <1>6, <1>7

LEMMA LeaveStep ==
    ASSUME IInv, NEW c \in Clients, Leave(c)
    PROVE  IInv'
<1> USE DEF IInv
<1>1. TypeOK' BY DEF Leave, Moves, notes, TypeOK, Places
<1>2. SlotsInv' BY SlotsKept DEF Leave, Moves, Out
<1>3. PhaseInv' BY DEF Leave, Moves, PhaseInv
<1>4. WorkerInv' BY DEF Leave, Moves, TypeOK, WorkerInv
<1>5. SocketInv' BY DEF Leave, Moves, TypeOK, SocketInv, Out
<1>6. LossInv' BY DEF Leave, Moves, notes, LossInv
<1>7. FlowInv' BY FlowSame DEF Leave, Moves, TypeOK
<1> QED BY <1>1, <1>2, <1>3, <1>4, <1>5, <1>6, <1>7

(* A direction of _forward: only `flow` changes, and only for one record.  *)
LEMMA SetStep ==
    ASSUME IInv, NEW c \in Clients, NEW d \in Dirs, NEW r \in Direction, pc[c] = "forward",
           r.shut => r.eof /\ r.sent = r.read, Set(c, d, r), OnlyFlow
    PROVE  IInv'
<1>1. UNCHANGED <<at, accepting, pc, free, workers, registered, open, failed, probed, connected,
                  lost, listener, stop>>
      BY DEF OnlyFlow, threads, accounts, notes
<1>2. TypeOK' BY <1>1 DEF IInv, TypeOK
<1>3. SlotsInv' BY <1>1, SlotsSame DEF IInv
<1>4. PhaseInv' /\ WorkerInv' BY <1>1 DEF IInv, PhaseInv, WorkerInv
<1>5. SocketInv' /\ LossInv' BY <1>1 DEF IInv, SocketInv, LossInv
<1>6. FlowInv'
  <2>1. flow \in [Clients -> [Dirs -> Direction]] BY DEF IInv, FlowInv
  <2>2. flow' = [flow EXCEPT ![c] = [flow[c] EXCEPT ![d] = r]] BY DEF Set
  <2>3. flow[c] \in [Dirs -> Direction] BY <2>1
  <2>4. flow' \in [Clients -> [Dirs -> Direction]] BY <2>1, <2>2, <2>3
  <2>5. \A x \in Clients : \A y \in Dirs :
            flow'[x][y] = IF x = c /\ y = d THEN r ELSE flow[x][y]
        BY <2>1, <2>2, <2>3
  <2>6. EndsAfterData' BY <1>1, <2>5 DEF IInv, FlowInv, EndsAfterData
  <2> QED BY <2>4, <2>6 DEF FlowInv
<1> QED BY <1>2, <1>3, <1>4, <1>5, <1>6 DEF IInv

LEMMA TransferStep ==
    ASSUME IInv, NEW c \in Clients, NEW d \in Dirs, Read(c, d) \/ Send(c, d) \/ Shutdown(c, d)
    PROVE  IInv'
<1> DEFINE f == flow[c][d]
<1>1. f \in Direction BY DEF IInv, FlowInv
<1>2. f.shut => f.eof /\ f.sent = f.read BY DEF IInv, FlowInv, EndsAfterData
<1>3. f.read \in Nat /\ f.sent \in Nat /\ f.eof \in BOOLEAN /\ f.shut \in BOOLEAN
      BY <1>1 DEF Direction
<1>4. PICK r : /\ pc[c] = "forward" /\ Set(c, d, r) /\ OnlyFlow
               /\ \/ ~f.eof /\ r \in {[f EXCEPT !.read = f.read + 1], [f EXCEPT !.eof = TRUE]}
                  \/ f.sent < f.read /\ r = [f EXCEPT !.sent = f.sent + 1]
                  \/ f.eof /\ f.sent = f.read /\ r = [f EXCEPT !.shut = TRUE]
      BY DEF Read, Send, Shutdown
<1>5. r \in Direction
  <2>1. [f EXCEPT !.read = f.read + 1] \in Direction BY <1>1 DEF Direction
  <2>2. [f EXCEPT !.eof = TRUE] \in Direction BY <1>1 DEF Direction
  <2>3. [f EXCEPT !.sent = f.sent + 1] \in Direction BY <1>1 DEF Direction
  <2>4. [f EXCEPT !.shut = TRUE] \in Direction BY <1>1 DEF Direction
  <2> QED BY <1>4, <2>1, <2>2, <2>3, <2>4
<1>6. r.shut => r.eof /\ r.sent = r.read BY <1>1, <1>2, <1>3, <1>4 DEF Direction
<1> QED BY <1>4, <1>5, <1>6, SetStep

LEMMA ForwardStep ==
    ASSUME IInv, NEW c \in Clients, Forward(c)
    PROVE  IInv'
<1>1. CASE \E d \in Dirs : Read(c, d) \/ Send(c, d) \/ Shutdown(c, d)
      BY <1>1, TransferStep
<1>2. CASE Drained(c) \/ PeerFails(c) \/ StopSeen(c)
      BY <1>2, ReturnStep DEF Drained, PeerFails, StopSeen
<1>3. CASE ForwardFails(c) BY <1>3, FailStep DEF ForwardFails
<1> QED BY <1>1, <1>2, <1>3 DEF Forward

-----------------------------------------------------------------------------

LEMMA StutterStep == IInv /\ UNCHANGED vars => IInv'
<1> SUFFICES ASSUME IInv, UNCHANGED vars PROVE IInv'
    OBVIOUS
<1>1. UNCHANGED <<at, accepting, pc, free, workers, registered, open, failed, probed, connected,
                  lost, listener, stop, flow>>
      BY DEF vars, threads, accounts, notes
<1>2. TypeOK' /\ SlotsInv' BY <1>1, SlotsSame DEF IInv, TypeOK
<1>3. PhaseInv' /\ WorkerInv' BY <1>1 DEF IInv, PhaseInv, WorkerInv
<1>4. SocketInv' /\ LossInv' BY <1>1 DEF IInv, SocketInv, LossInv
<1>5. FlowInv' BY <1>1 DEF IInv, FlowInv, EndsAfterData
<1> QED BY <1>2, <1>3, <1>4, <1>5 DEF IInv

LEMMA StepIInv == IInv /\ [Next]_vars => IInv'
<1> SUFFICES ASSUME IInv, [Next]_vars PROVE IInv'
    OBVIOUS
<1>1. CASE Adapter
      BY <1>1, BindStep, ProbeStep, StartThreadStep, AssertHealthyStep,
         ChildFailedStep,
         BeginCloseStep, JoinAcceptStep, CloseSocketsStep, JoinWorkersStep DEF Adapter
<1>2. CASE Acceptor
      BY <1>2, LookAtStopStep, TimeoutStep, AcceptFailsStep, AcceptStep, SpawnStep,
         SpawnFailsStep DEF Acceptor
<1>3. ASSUME NEW c \in Clients, Worker(c) PROVE IInv'
      BY <1>3, BeginStep, RevalidateStep, ConnectStep, RegisterUpstreamStep,
         ForwardStep,
         FinishStep, LeaveStep DEF Worker
<1>4. CASE Over BY <1>4, StutterStep DEF Over
<1>5. CASE UNCHANGED vars BY <1>5, StutterStep
<1> QED BY <1>1, <1>2, <1>3, <1>4, <1>5 DEF Next

(* Every reachable state satisfies the inductive invariant.                *)
THEOREM Invariance == Spec => []IInv
<1> QED BY InitIInv, StepIInv, PTL DEF Spec

(* Types: TypeOK for every value of the constants.                         *)
THEOREM TypeCorrect == Spec => []TypeOK
<1>1. IInv => TypeOK BY DEF IInv
<1> QED BY Invariance, <1>1, PTL

(* Each connection takes one slot of the relay and gives it back once:     *)
(* SlotsBalanced.                                                          *)
THEOREM SlotsStayBalanced == Spec => []SlotsBalanced
<1>1. IInv => SlotsBalanced BY DEF IInv, SlotsInv
<1> QED BY Invariance, <1>1, PTL

(* When close() is over no thread works for the relay and no socket is     *)
(* open: NothingLeft.                                                      *)
THEOREM CloseLeavesNothing == Spec => []NothingLeft
<1>1. IInv => NothingLeft
  <2> SUFFICES ASSUME IInv, at \in {"closed", "raised"} PROVE NothingLeft
      BY DEF NothingLeft
  <2>1. ~listener /\ accepting \notin {"head", "accept", "got"}
        BY DEF IInv, PhaseInv, Late
  <2>2. \A c \in Clients : pc[c] \in {"none", "done"}
    <3>1. CASE at = "closed" BY <3>1, <2>1 DEF IInv, PhaseInv, WorkerInv
    <3>2. CASE at = "raised" BY <3>2 DEF IInv, PhaseInv
    <3> QED BY <3>1, <3>2
  <2>3. workers = {} BY <2>2 DEF IInv, WorkerInv
  <2>4. open = {} /\ registered = {} BY <2>2 DEF IInv, TypeOK, SocketInv, Out
  <2> QED BY <2>1, <2>2, <2>3, <2>4 DEF NothingLeft
<1> QED BY Invariance, <1>1, PTL

(* What a source sent arrives before its end does: EndsAfterData.          *)
THEOREM DataBeforeEnd == Spec => []EndsAfterData
<1>1. IInv => EndsAfterData BY DEF IInv, FlowInv
<1> QED BY Invariance, <1>1, PTL

(* No run is confirmed over a worker that had failed: HealthSound.         *)
THEOREM NoLostFailure == Spec => HealthSound
<1>1. IInv /\ [Next]_vars => [at' = "confirmed" /\ at # "confirmed" => ~lost]_vars
  <2> SUFFICES ASSUME IInv, [Next]_vars, at' = "confirmed", at # "confirmed" PROVE ~lost
      OBVIOUS
  <2>1. CASE AssertHealthy BY <2>1 DEF AssertHealthy, Goes, IInv, LossInv
  <2>2. CASE Adapter /\ ~AssertHealthy
        BY <2>2
           DEF Adapter, Bind, Probe, StartThread, ChildFailed, BeginClose,
               JoinAccept,
                    CloseSockets, JoinWorkers, Goes
  <2>3. CASE at' = at BY <2>3
  <2>4. \/ AssertHealthy \/ (Adapter /\ ~AssertHealthy) \/ at' = at
    <3>1. Acceptor => at' = at
          BY DEF Acceptor, LookAtStop, Timeout, AcceptFails, Accept, Spawn,
                 SpawnFails
    <3>2. ASSUME NEW c \in Clients, Worker(c) PROVE at' = at
          BY <3>2
             DEF Worker, Begin, Revalidate, Return, Fail, Connect, RegisterUpstream,
                 Forward,
                      Read, Send, Shutdown, OnlyFlow, threads, Drained, PeerFails, StopSeen,
                      ForwardFails, Finish, Leave
    <3> QED BY <3>1, <3>2 DEF Next, Over, vars, threads
  <2> QED BY <2>1, <2>2, <2>3, <2>4
<1> QED BY Invariance, <1>1, PTL DEF Spec, HealthSound

=============================================================================
