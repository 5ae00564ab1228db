------------------------- MODULE ControlRoomHttpProofs -------------------------
(***************************************************************************)
(* What ControlRoomHttp guarantees for any number of connections and of    *)
(* admission slots: both kinds of slot are balanced, the process ends      *)
(* after its requests, and server_close() joins no thread that never       *)
(* started.                                                                *)
(***************************************************************************)
EXTENDS ControlRoomHttp, FiniteSetTheorems, TLAPS

Dead == {"new", "queued", "unstarted", "over"}
Live == Places \ Dead

(* Nobody listed for server_close() failed to start.                       *)
ListedInv == \A r \in threads : at[r] # "unstarted"

(* SlotsBalanced is about a sum and about who has the run slot.            *)
Sum == slots + Cardinality(Alive)
Sums == IF sigterm = "swallowed" THEN MaxHttpRequests - 1 .. MaxHttpRequests + 1
                                 ELSE {MaxHttpRequests}

(* The inductive invariant; Alive stays finite because connections are     *)
(* admitted one at a time.                                                 *)
IInv == /\ TypeOK /\ IsFiniteSet(Alive) /\ SlotsBalanced
        /\ ListedInv /\ ExitAfterRequests /\ ClosesCleanly

LEMMA InitIInv == Init => IInv
<1> SUFFICES ASSUME Init PROVE IInv
    OBVIOUS
<1> USE HttpAssumption DEF Init
<1>0. slots \in 0..MaxHttpRequests OBVIOUS
<1>1. TypeOK BY <1>0 DEF TypeOK, Places
<1>2. Alive = {} BY DEF Alive
<1>3. IsFiniteSet(Alive) /\ Cardinality(Alive) = 0 BY <1>2, FS_EmptySet
<1>4. {r \in Requests : at[r] \in RunPlaces} = {runSlot} \ {None} BY DEF RunPlaces
<1>5. SlotsBalanced BY <1>3, <1>4 DEF SlotsBalanced
<1> QED BY <1>1, <1>3, <1>5 DEF IInv, ListedInv, ExitAfterRequests, ClosesCleanly

-----------------------------------------------------------------------------
(* What a move of one request does to those that are alive, and to those   *)
(* that have the run slot.                                                 *)

LEMMA AliveMoves ==
    ASSUME TypeOK, IsFiniteSet(Alive), NEW r \in Requests, NEW from, NEW to, Goes(r, from, to)
    PROVE  /\ IsFiniteSet(Alive')
           /\ (from \in Dead /\ to \in Dead) \/ (from \notin Dead /\ to \notin Dead)
                => Alive' = Alive
           /\ from \in Dead /\ to \notin Dead
                => Cardinality(Alive') = Cardinality(Alive) + 1
           /\ from \notin Dead /\ to \in Dead
                => Alive' \subseteq Alive /\ Cardinality(Alive') = Cardinality(Alive) - 1
<1>1. at[r] = from /\ at' = [at EXCEPT ![r] = to] /\ at \in [Requests -> Places]
      BY DEF Goes, TypeOK
<1>2. Alive = {x \in Requests : at[x] \notin Dead} BY DEF Alive, Dead
<1>3. Alive' = {x \in Requests : at'[x] \notin Dead} BY DEF Alive, Dead
<1>4. \A x \in Requests : at'[x] = IF x = r THEN to ELSE at[x] BY <1>1
<1>5. CASE (from \in Dead /\ to \in Dead) \/ (from \notin Dead /\ to \notin Dead)
  <2>1. Alive' = Alive BY <1>1, <1>2, <1>3, <1>4, <1>5
  <2> QED BY <2>1, <1>5
<1>6. CASE from \in Dead /\ to \notin Dead
  <2>1. Alive' = Alive \cup {r} /\ r \notin Alive BY <1>1, <1>2, <1>3, <1>4, <1>6
  <2>2. IsFiniteSet(Alive') /\ Cardinality(Alive') = Cardinality(Alive) + 1
        BY <2>1, FS_AddElement
  <2> QED BY <2>2, <1>6
<1>7. CASE from \notin Dead /\ to \in Dead
  <2>1. Alive' = Alive \ {r} /\ r \in Alive BY <1>1, <1>2, <1>3, <1>4, <1>7
  <2>2. IsFiniteSet(Alive') /\ Cardinality(Alive') = Cardinality(Alive) - 1
        BY <2>1, FS_RemoveElement
  <2> QED BY <2>1, <2>2, <1>7
<1> QED BY <1>5, <1>6, <1>7

Having == {r \in Requests : at[r] \in RunPlaces}

LEMMA HavingMoves ==
    ASSUME TypeOK, NEW r \in Requests, NEW from, NEW to, Goes(r, from, to)
    PROVE  /\ (from \in RunPlaces <=> to \in RunPlaces) => Having' = Having
           /\ from \notin RunPlaces /\ to \in RunPlaces => Having' = Having \union {r}
           /\ from \in RunPlaces /\ to \notin RunPlaces => r \in Having /\ Having' = Having \ {r}
BY DEF Goes, TypeOK, Having

-----------------------------------------------------------------------------
(* A step of a request: its slots.                                         *)

(* A move that keeps both slots.                                           *)
LEMMA SameSlots ==
    ASSUME IInv, NEW r \in Requests, NEW from, NEW to, Goes(r, from, to),
           from \in Dead <=> to \in Dead, from \in RunPlaces <=> to \in RunPlaces,
           to \in Places, UNCHANGED <<slots, runSlot>>,
           sigterm' = sigterm \/ (sigterm = "none" /\ sigterm' = "swallowed")
    PROVE  /\ at' \in [Requests -> Places] /\ Alive' = Alive
           /\ IsFiniteSet(Alive') /\ SlotsBalanced'
<1>1. Alive' = Alive /\ IsFiniteSet(Alive') BY AliveMoves DEF IInv
<1>2. Having' = Having BY HavingMoves DEF IInv
<1>3. at' \in [Requests -> Places] BY DEF Goes, IInv, TypeOK
<1>4. Sums \subseteq Sums' BY HttpAssumption DEF Sums
<1>5. Sum' = Sum /\ Sum \in Sums BY <1>1 DEF IInv, SlotsBalanced, Sum, Sums
<1> QED BY <1>1, <1>2, <1>3, <1>4, <1>5 DEF IInv, SlotsBalanced, Having, Sum, Sums

(* A move inside the thread, with nothing else changed.                    *)
LEMMA KeepsStep ==
    ASSUME IInv, NEW r \in Requests, NEW from, NEW to, Keeps(r, from, to),
           to \in Places \ Dead, from \notin Dead, from \in RunPlaces <=> to \in RunPlaces
    PROVE  IInv'
<1>1. Goes(r, from, to) /\ UNCHANGED <<slots, threads, runSlot, loop, shutdown, sigterm, closed>>
      BY DEF Keeps, main
<1>2. at' \in [Requests -> Places] /\ Alive' = Alive /\ IsFiniteSet(Alive') /\ SlotsBalanced'
      BY <1>1, SameSlots
<1>3. TypeOK' BY <1>1, <1>2 DEF IInv, TypeOK
<1>4. ListedInv' BY <1>1 DEF IInv, TypeOK, ListedInv, Goes, Dead
<1>5. ExitAfterRequests' /\ ClosesCleanly'
      BY <1>1, <1>2 DEF IInv, ExitAfterRequests, ClosesCleanly
<1> QED BY <1>2, <1>3, <1>4, <1>5 DEF IInv

LEMMA PlainStep ==
    ASSUME IInv, NEW r \in Requests,
           Other(r) \/ Busy(r) \/ Raises(r) \/ Returns(r) \/ Send(r) \/ Record(r)
    PROVE  IInv'
<1>1. \/ Keeps(r, "handler", "leaving") \/ Keeps(r, "running", "answered")
      \/ Keeps(r, "running", "sending") \/ Keeps(r, "sending", "answered")
      \/ Keeps(r, "sending", "delivery") \/ Keeps(r, "delivery", "answered")
      BY DEF Other, Busy, Raises, Returns, Send, Record
<1>2. {"handler", "leaving", "running", "answered", "sending", "delivery"} \subseteq Places \ Dead
      BY DEF Places, Dead
<1>3. {"running", "answered", "sending", "delivery"} \subseteq RunPlaces
      /\ "handler" \notin RunPlaces /\ "leaving" \notin RunPlaces
      BY DEF RunPlaces
<1> QED BY <1>1, <1>2, <1>3, KeepsStep

(* Taking and giving back a slot.                                          *)
LEMMA SlotStep ==
    ASSUME IInv, NEW r \in Requests, TryRun(r) \/ ReleaseRun(r) \/ Leave(r)
    PROVE  IInv'
<1> USE HttpAssumption
<1>a. TypeOK /\ IsFiniteSet(Alive) /\ SlotsBalanced /\ ListedInv /\ ExitAfterRequests /\ ClosesCleanly
      BY DEF IInv
<1>b. Cardinality(Alive) \in Nat /\ slots \in Nat /\ MaxHttpRequests \in Nat
      BY <1>a, FS_CardinalityType DEF TypeOK
<1>c. r \in Alive
      BY DEF TryRun, ReleaseRun, Leave, Goes, Alive
<1>1. /\ at' \in [Requests -> Places] /\ IsFiniteSet(Alive') /\ SlotsBalanced'
      /\ slots' \in 0..MaxHttpRequests /\ runSlot' \in Requests \union {None}
      /\ UNCHANGED <<threads, main>> /\ Alive' \subseteq Alive
      /\ \A x \in Requests : at'[x] = "unstarted" => at[x] = "unstarted"
  <2>3. CASE TryRun(r)
    <3>1. Goes(r, "handler", "running") /\ runSlot = None /\ runSlot' = r
          /\ UNCHANGED <<slots, threads, main>>
          BY <2>3 DEF TryRun
    <3>2. Alive' = Alive /\ IsFiniteSet(Alive') BY <3>1, <1>a, AliveMoves DEF Dead
    <3>3. Having' = Having \union {r} BY <3>1, <1>a, HavingMoves DEF RunPlaces
    <3>4. Having = {} BY <3>1, <1>a DEF SlotsBalanced, Having
    <3>5. SlotsBalanced' BY <3>1, <3>2, <3>3, <3>4, <1>a DEF SlotsBalanced, Having, main
    <3>6. at' \in [Requests -> Places]
          /\ \A x \in Requests : at'[x] = "unstarted" => at[x] = "unstarted"
          BY <3>1, <1>a DEF Goes, TypeOK, Places
    <3> QED BY <3>1, <3>2, <3>5, <3>6, <1>a DEF TypeOK
  <2>4. CASE ReleaseRun(r)
    <3>1. Goes(r, "answered", "leaving") /\ runSlot' = None /\ UNCHANGED <<slots, threads, main>>
          BY <2>4 DEF ReleaseRun
    <3>2. Alive' = Alive /\ IsFiniteSet(Alive') BY <3>1, <1>a, AliveMoves DEF Dead
    <3>3. r \in Having /\ Having' = Having \ {r} BY <3>1, <1>a, HavingMoves DEF RunPlaces
    <3>4. Having' = {} BY <3>3, <1>a DEF SlotsBalanced, Having
    <3>5. SlotsBalanced' BY <3>1, <3>2, <3>4, <1>a DEF SlotsBalanced, Having, main
    <3>6. at' \in [Requests -> Places]
          /\ \A x \in Requests : at'[x] = "unstarted" => at[x] = "unstarted"
          BY <3>1, <1>a DEF Goes, TypeOK, Places
    <3> QED BY <3>1, <3>2, <3>5, <3>6, <1>a DEF TypeOK
  <2>5. CASE Leave(r)
    <3>1. /\ Goes(r, "leaving", "over") /\ UNCHANGED <<threads, runSlot, main>>
          /\ slots' = IF slots < MaxHttpRequests THEN slots + 1 ELSE slots
          BY <2>5 DEF Leave
    <3>2. /\ IsFiniteSet(Alive') /\ Alive' \subseteq Alive
          /\ Cardinality(Alive') = Cardinality(Alive) - 1
          BY <3>1, <1>a, AliveMoves DEF Dead
    <3>3. Having' = Having BY <3>1, <1>a, HavingMoves DEF RunPlaces
    <3>4. slots \in 0..MaxHttpRequests BY <1>a DEF TypeOK
    <3>5. Cardinality(Alive') \in Nat BY <3>2, FS_CardinalityType
    <3>6. Sum' \in Sums'
      <4>1. Sum \in Sums /\ Sums' = Sums BY <3>1, <1>a DEF SlotsBalanced, Sum, Sums, main
      <4>2. CASE slots < MaxHttpRequests
        <5>1. Sum' = Sum BY <3>1, <3>2, <1>b, <4>2 DEF Sum
        <5> QED BY <4>1, <5>1
      <4>3. CASE slots = MaxHttpRequests
        <5>1. Sum = MaxHttpRequests + Cardinality(Alive) /\ Sum' = Sum - 1
              /\ Cardinality(Alive) > 0
              BY <3>1, <3>2, <3>5, <1>b, <4>3 DEF Sum
        <5>2. sigterm = "swallowed" BY <4>1, <5>1, <1>b DEF Sums
        <5>3. Sums = MaxHttpRequests - 1 .. MaxHttpRequests + 1 BY <5>2 DEF Sums
        <5> QED BY <4>1, <5>1, <5>3, <1>b
      <4> QED BY <4>2, <4>3, <3>4, <1>b
    <3>7. SlotsBalanced' BY <3>1, <3>3, <3>6, <1>a DEF SlotsBalanced, Having, Sum, Sums
    <3>8. at' \in [Requests -> Places]
          /\ \A x \in Requests : at'[x] = "unstarted" => at[x] = "unstarted"
          BY <3>1, <1>a DEF Goes, TypeOK, Places
    <3>9. slots' \in 0..MaxHttpRequests BY <3>1, <3>4, <1>b
    <3> QED BY <3>1, <3>2, <3>7, <3>8, <3>9, <1>a DEF TypeOK
  <2> QED BY <2>3, <2>4, <2>5
<1>2. TypeOK' BY <1>1, <1>a DEF TypeOK, main
<1>3. ListedInv' BY <1>1, <1>a DEF ListedInv, TypeOK
<1>4. ExitAfterRequests' BY <1>1, <1>a, <1>c DEF ExitAfterRequests, main
<1>5. ClosesCleanly' BY <1>1, <1>a DEF ClosesCleanly, main
<1> QED BY <1>1, <1>2, <1>3, <1>4, <1>5 DEF IInv

-----------------------------------------------------------------------------
(* A step that leaves the requests where they are.                         *)
LEMMA MainStep ==
    ASSUME IInv, Look \/ Poll \/ JoinShutdown \/ Close \/ End \/ Sigterm
    PROVE  IInv'
<1> USE HttpAssumption
<1>1. UNCHANGED <<at, slots, threads, runSlot>>
      BY DEF Look, Poll, JoinShutdown, Close, End, Sigterm
<1>2. Alive' = Alive BY <1>1 DEF Alive
<1>3. SlotsBalanced'
  <2>1. sigterm' = "swallowed" <=> sigterm = "swallowed"
        BY DEF Look, Poll, JoinShutdown, Close, End, Sigterm
  <2> QED BY <1>1, <1>2, <2>1 DEF IInv, SlotsBalanced
<1>4. ListedInv' BY <1>1 DEF IInv, ListedInv
<1>5. TypeOK' BY <1>1 DEF IInv, TypeOK, Look, Poll, JoinShutdown, Close, End, Sigterm
<1>6. ExitAfterRequests'
      BY <1>2 DEF IInv, ExitAfterRequests, Look, Poll, JoinShutdown, Close, End, Sigterm, Joined
<1>7. ClosesCleanly'
      BY DEF IInv, ClosesCleanly, ListedInv, Look, Poll, JoinShutdown, Close, End, Sigterm
<1> QED BY <1>2, <1>3, <1>4, <1>5, <1>6, <1>7 DEF IInv

(* A step that takes one connection from the listener or puts one there.   *)
LEMMA AdmissionStep ==
    ASSUME IInv, NEW r \in Requests, Connect(r) \/ Refuse(r) \/ Admit(r) \/ StartFails(r)
    PROVE  IInv'
<1> USE HttpAssumption
<1>a. TypeOK /\ IsFiniteSet(Alive) /\ SlotsBalanced /\ ListedInv /\ ExitAfterRequests /\ ClosesCleanly
      BY DEF IInv
<1>b. Cardinality(Alive) \in Nat /\ slots \in Nat /\ MaxHttpRequests \in Nat
      BY <1>a, FS_CardinalityType DEF TypeOK
<1>1. CASE Connect(r) \/ Refuse(r)
  <2>1. /\ \E from \in {"new", "queued"}, to \in {"queued", "over"} : Goes(r, from, to)
        /\ UNCHANGED <<slots, threads, runSlot, sigterm>>
        BY <1>1 DEF Connect, Refuse, main
  <2>2. at' \in [Requests -> Places] /\ Alive' = Alive /\ SlotsBalanced'
        BY <2>1, SameSlots DEF Dead, Places, RunPlaces
  <2>3. \A x \in Requests : at'[x] = "unstarted" => at[x] = "unstarted"
        BY <2>1, <1>a DEF Goes, TypeOK
  <2>4. loop' \in {loop, "look"} /\ UNCHANGED <<shutdown, sigterm, closed>>
        BY <1>1 DEF Connect, Refuse, main
  <2>5. TypeOK' BY <2>1, <2>2, <2>4, <1>a DEF TypeOK
  <2>6. ListedInv' BY <2>1, <2>3, <1>a DEF ListedInv, TypeOK
  <2>7. ExitAfterRequests' /\ ClosesCleanly'
        BY <2>2, <2>4, <1>a DEF ExitAfterRequests, ClosesCleanly
  <2> QED BY <2>2, <2>5, <2>6, <2>7, <1>a DEF IInv
<1>2. CASE StartFails(r)
  <2>1. Goes(r, "queued", "unstarted") /\ threads' = threads \intersect Alive
        /\ loop' = "look" /\ UNCHANGED <<slots, runSlot, shutdown, sigterm, closed>>
        BY <1>2 DEF StartFails
  <2>2. at' \in [Requests -> Places] /\ Alive' = Alive /\ SlotsBalanced'
        BY <2>1, SameSlots DEF Dead, Places, RunPlaces
  <2>3. TypeOK' BY <2>1, <2>2, <1>a DEF TypeOK
  <2>4. ListedInv' BY <2>1, <2>2 DEF ListedInv, Alive
  <2>5. ExitAfterRequests' /\ ClosesCleanly' BY <2>1 DEF ExitAfterRequests, ClosesCleanly
  <2> QED BY <2>2, <2>3, <2>4, <2>5, <1>a DEF IInv
<1>3. CASE Admit(r)
  <2>1. /\ Goes(r, "queued", "handler") /\ threads' = (threads \intersect Alive) \union {r}
        /\ slots > 0 /\ slots' = slots - 1 /\ loop' = "look"
        /\ UNCHANGED <<runSlot, shutdown, sigterm, closed>>
        BY <1>3 DEF Admit
  <2>2. IsFiniteSet(Alive') /\ Cardinality(Alive') = Cardinality(Alive) + 1
        BY <2>1, <1>a, AliveMoves DEF Dead
  <2>3. Having' = Having BY <2>1, <1>a, HavingMoves DEF RunPlaces
  <2>4. SlotsBalanced'
    <3>1. Sum' = Sum /\ Sums' = Sums BY <2>1, <2>2, <1>b DEF Sum, Sums
    <3> QED BY <2>1, <2>3, <3>1, <1>a DEF SlotsBalanced, Having, Sum, Sums
  <2>5. TypeOK' BY <2>1, <1>a, <1>b DEF TypeOK, Goes, Places
  <2>6. ListedInv' BY <2>1, <1>a DEF ListedInv, Goes, Alive, TypeOK
  <2>7. ExitAfterRequests' /\ ClosesCleanly' BY <2>1 DEF ExitAfterRequests, ClosesCleanly
  <2> QED BY <2>2, <2>4, <2>5, <2>6, <2>7 DEF IInv
<1> QED BY <1>1, <1>2, <1>3

(* The handler raises while a connection is being admitted.                *)
LEMMA InterruptedStep ==
    ASSUME IInv, NEW r \in Requests, Interrupted(r)
    PROVE  IInv'
<1> USE HttpAssumption
<1>a. TypeOK /\ IsFiniteSet(Alive) /\ SlotsBalanced /\ ListedInv
      BY DEF IInv
<1>b. /\ Cardinality(Alive) \in Nat /\ slots \in Nat /\ MaxHttpRequests \in Nat
      /\ Sum = MaxHttpRequests
  <2>1. sigterm = "none" BY DEF Interrupted
  <2> QED BY <2>1, <1>a, FS_CardinalityType DEF TypeOK, SlotsBalanced, Sum
<1>1. /\ sigterm = "none" /\ sigterm' = "swallowed" /\ loop' = "look"
      /\ UNCHANGED <<runSlot, shutdown, closed>>
      BY DEF Interrupted
<1>2. PICK to \in {"over", "unstarted", "handler"} :
        /\ Goes(r, "queued", to) /\ slots' \in {slots, slots - 1} /\ slots' \in 0..MaxHttpRequests
        /\ to = "over" => threads' = threads
        /\ to = "unstarted" => threads' = threads \intersect Alive /\ slots' = slots
        /\ to = "handler" => threads' = (threads \intersect Alive) \union {r}
      BY <1>a, <1>b DEF Interrupted, TypeOK
<1>3. at \in [Requests -> Places] /\ at[r] = "queued" /\ at' = [at EXCEPT ![r] = to]
      BY <1>a, <1>2 DEF TypeOK, Goes
<1>4. at' \in [Requests -> Places] /\ \A x \in Requests : at'[x] = IF x = r THEN to ELSE at[x]
      BY <1>3 DEF Places
<1>5. /\ IsFiniteSet(Alive')
      /\ Cardinality(Alive') = Cardinality(Alive) + IF to = "handler" THEN 1 ELSE 0
  <2>1. CASE to = "handler"
        BY <1>2, <1>a, <2>1, AliveMoves DEF Dead
  <2>2. CASE to # "handler"
    <3>1. Alive' = Alive /\ IsFiniteSet(Alive') BY <1>2, <1>a, <2>2, AliveMoves DEF Dead
    <3> QED BY <3>1, <2>2, <1>b
  <2> QED BY <2>1, <2>2
<1>6. SlotsBalanced'
  <2>1. Having' = Having BY <1>2, <1>a, HavingMoves DEF RunPlaces
  <2>2. Sum' \in MaxHttpRequests - 1 .. MaxHttpRequests + 1 BY <1>2, <1>5, <1>b DEF Sum
  <2> QED BY <1>1, <2>1, <2>2, <1>a DEF SlotsBalanced, Having, Sum
<1>7. ListedInv' BY <1>2, <1>3, <1>4, <1>a DEF ListedInv, TypeOK, Alive
<1>8. TypeOK' BY <1>1, <1>2, <1>4, <1>a DEF TypeOK
<1>9. ExitAfterRequests' /\ ClosesCleanly' BY <1>1 DEF ExitAfterRequests, ClosesCleanly
<1> QED BY <1>5, <1>6, <1>7, <1>8, <1>9 DEF IInv

LEMMA StepIInv == IInv /\ [Next]_vars => IInv'
<1> SUFFICES ASSUME IInv, [Next]_vars PROVE IInv'
    OBVIOUS
<1>1. CASE \E r \in Requests : Thread(r) BY <1>1, PlainStep, SlotStep DEF Thread
<1>2. CASE Look \/ Poll \/ JoinShutdown \/ Close \/ End \/ Sigterm BY <1>2, MainStep
<1>3. CASE \E r \in Requests : Connect(r) \/ Refuse(r) \/ Admit(r) \/ StartFails(r)
      BY <1>3, AdmissionStep
<1>4. CASE \E r \in Requests : Interrupted(r) BY <1>4, InterruptedStep
<1>5. CASE UNCHANGED vars
  <2>1. UNCHANGED <<at, slots, threads, runSlot, loop, shutdown, sigterm, closed>>
        BY <1>5 DEF vars, main
  <2>2. Alive' = Alive BY <2>1 DEF Alive
  <2> QED BY <2>1, <2>2 DEF IInv, TypeOK, SlotsBalanced, ListedInv, ExitAfterRequests, ClosesCleanly
<1> QED BY <1>1, <1>2, <1>3, <1>4, <1>5 DEF Next, Main, Ended

(* The inductive invariant holds of every reachable state of the server.   *)
THEOREM Invariance == Spec => []IInv
<1> QED BY InitIInv, StepIInv, PTL DEF Spec

(* Types, for any number of connections and slots.                         *)
THEOREM TypeCorrect == Spec => []TypeOK
<1>1. IInv => TypeOK BY DEF IInv
<1> QED BY <1>1, Invariance, PTL

(* Every path of a request gives the admission slot and the run slot back  *)
(* exactly once, but for the one admission slot that a SIGTERM handler     *)
(* raising inside of process_request may lose or give back twice.          *)
THEOREM SlotsStayBalanced == Spec => []SlotsBalanced
<1>1. IInv => SlotsBalanced BY DEF IInv
<1> QED BY <1>1, Invariance, PTL

(* The process outlives every request it has admitted.                     *)
THEOREM ExitComesLast == Spec => []ExitAfterRequests
<1>1. IInv => ExitAfterRequests BY DEF IInv
<1> QED BY <1>1, Invariance, PTL

(* server_close() raises only if the shutdown thread never started.        *)
THEOREM CloseIsClean == Spec => []ClosesCleanly
<1>1. IInv => ClosesCleanly BY DEF IInv
<1> QED BY <1>1, Invariance, PTL

=============================================================================
