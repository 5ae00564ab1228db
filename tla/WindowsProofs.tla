---------------------------- MODULE WindowsProofs ----------------------------
(***************************************************************************)
(* Proofs about Windows: what the windows promise their drivers, that      *)
(* nobody in the client window is left waiting for somebody who will not   *)
(* come, and that no step goes back.                                       *)
(***************************************************************************)
EXTENDS Windows, Integers, TLAPS

-----------------------------------------------------------------------------
(* The inductive invariant.                                                *)

Aborting == {"abort", "break", "free", "rollback"}
Failed == Aborting \union {"rolledback", "raised"}

(* Where the actors of the two drivers can be.                             *)
ClientPlaces == {"queued", "begin", "unconnected", "admission", "admission_in", "write", "dml",
                 "dml_in", "release", "commit", "committed", "rolledback", "absent"}
                    \union Aborting
CoordinatorPlaces == {"submit", "leaving", "left", "dml", "dml_in", "observe", "tell", "v1",
                      "v2", "ok", "raised"} \union Aborting
WriterPlaces == {"queued", "begin", "unconnected", "ready", "update", "done", "release",
                 "commit", "committed", "rolledback", "absent"} \union Aborting
BatchPlaces == {"submit", "pid", "blocked", "batch", "waitdml", "observe", "tell", "v1",
                "last", "join", "ok", "raised"} \union Aborting
Places == ClientPlaces \union CoordinatorPlaces \union WriterPlaces \union BatchPlaces

PlaceInv ==
    /\ driver \in {"clients", "backfill"} /\ at \in [Actors -> Places]
    /\ driver = "clients" => /\ at["v1"] \in ClientPlaces /\ at["v2"] \in ClientPlaces
                             /\ at[Main] \in CoordinatorPlaces
    /\ driver = "backfill" => /\ at["v1"] \in WriterPlaces /\ at["v2"] = "absent"
                              /\ at[Main] \in BatchPlaces

(* Until the coordinator has submitted them, nobody has done anything; and *)
(* the clients wait for a thread, or do without, only if that failed.      *)
Fresh == /\ \A w \in Clients : at[w] = IF w \in Workers THEN "queued" ELSE "absent"
         /\ barrier = [b \in Barriers |-> [state |-> "filling", in |-> {}]]
         /\ ~aborted /\ ~released /\ ~dmlDone /\ ~told /\ open = {}
StartInv ==
    /\ at[Main] = "submit" => Fresh
    /\ driver = "clients" => \A w \in Clients :
          at[w] \in {"queued", "absent"} => at[Main] \in {"submit", "leaving", "left"}

EventInv == /\ aborted \in BOOLEAN /\ released \in BOOLEAN /\ dmlDone \in BOOLEAN
            /\ told \in BOOLEAN

(* A barrier knows who waits in it.                                        *)
BarrierInv ==
    /\ barrier \in [Barriers -> [state : {"filling", "draining", "broken"}, in : SUBSET Actors]]
    /\ \A b \in Barriers : barrier[b].in = {a \in Actors : at[a] = In(b)}

(* Those on the way to a barrier, and those who never may set out or never *)
(* will come and tell nobody.                                              *)
Coming(b) == IF b = "admission" THEN {"begin", "admission"}
             ELSE {"begin", "admission", "admission_in", "write", "dml"}
Gone == {"unconnected", "leaving", "left", "absent"}
Before(b) == Coming(b) \union {"queued", "submit"} \union Gone

(* Either nobody has passed a barrier, or nobody is before it.             *)
Gathering(b) == /\ barrier[b].state \in {"filling", "broken"}
                /\ \A p \in Parties(b) : at[p] \in Before(b) \union {In(b)} \union Failed
                /\ \E p \in Parties(b) : at[p] # In(b)
Parting(b) == /\ \A p \in Parties(b) : at[p] \notin Before(b)
              /\ barrier[b].state = "filling" => barrier[b].in = {}
MeetingInv == driver = "clients" => \A b \in Barriers : Gathering(b) \/ Parting(b)

(* What whoever aborts has done by then.                                   *)
AbortInv == \A a \in Actors :
    /\ at[a] \in Failed \ {"abort"} => aborted
    /\ at[a] \in Failed \ {"abort", "break"} => \A b \in Barriers : barrier[b].state = "broken"
    /\ at[a] \in Failed \ {"abort", "break", "free"} => released
BrokenInv == aborted => \/ \E a \in Actors : at[a] = "break"
                        \/ \A b \in Barriers : barrier[b].state = "broken"

(* Commits are released by an abort or by the coordinator.                 *)
ToldInv == /\ released => told \/ aborted
           /\ told => released
           /\ told => at[Main] \in {"v1", "v2", "last", "ok", "join"} \union Failed
           /\ at[Main] \in {"v1", "v2", "last", "ok"} => told
           /\ \A w \in Clients : at[w] \in {"commit", "committed"} => told

(* Who has been met when the coordinator observes, and what it saw.        *)
Met == {"dml_in", "release", "commit", "committed"} \union Failed
DoneInv == driver = "backfill" =>
    /\ dmlDone => aborted \/ at["v1"] \in Met
    /\ at[Main] \in {"observe", "tell", "v1", "last", "ok"} => at["v1"] \in Met
OpenInv ==
    /\ open \subseteq Workers
    /\ at[Main] \in {"tell", "v1", "v2", "last", "ok"} => \A w \in Workers \ open : at[w] \in Failed
    /\ at[Main] \in {"v2", "last"} => at["v1"] = "committed"
    /\ at[Main] = "ok" => \A w \in Workers : at[w] = "committed"

IInv == /\ PlaceInv /\ StartInv /\ EventInv /\ BarrierInv /\ MeetingInv
        /\ AbortInv /\ BrokenInv /\ ToldInv /\ DoneInv /\ OpenInv

(* In the client window whoever waits is waited for by nobody he waits     *)
(* for: a barrier that fills has a party on its way, or somebody about to  *)
(* break it, unless a start has failed silently and nobody has given up    *)
(* since; a worker whose commit is held has a coordinator who has yet to   *)
(* release it; and a coordinator who waits for the workers holds none.     *)
NobodyStranded == driver = "clients" =>
    /\ \A b \in Barriers, a \in Actors :
          (Silent => aborted) /\ at[a] = In(b) /\ barrier[b].state = "filling" =>
              \/ \E p \in Parties(b) : at[p] \in Coming(b)
              \/ \E p \in Actors : at[p] \in {"abort", "break"}
    /\ \A w \in Clients : at[w] = "release" /\ ~released =>
          at[Main] \in {"dml", "dml_in", "observe", "tell", "abort", "break", "free"}
    /\ at[Main] \in {"v1", "v2", "rollback", "raised"} =>
          /\ released
          /\ \A b \in Barriers, w \in Clients : at[w] = In(b) => barrier[b].state # "filling"

(* What is left of an actor's way at the most.                             *)
Left == [submit |-> 17, queued |-> 17, begin |-> 16, admission |-> 15, admission_in |-> 14,
         write |-> 13, ready |-> 13, dml |-> 12, update |-> 12, dml_in |-> 11, done |-> 11,
         release |-> 10, commit |-> 6, pid |-> 16, blocked |-> 15, batch |-> 14,
         waitdml |-> 13, observe |-> 10, tell |-> 9, v1 |-> 8, v2 |-> 7, last |-> 7,
         join |-> 5, leaving |-> 5, abort |-> 4, break |-> 3, free |-> 2, rollback |-> 1,
         committed |-> 0, rolledback |-> 0, unconnected |-> 0, absent |-> 0, ok |-> 0,
         raised |-> 0, left |-> 0]
Rank == Left[at["v1"]] + Left[at["v2"]] + Left[at[Main]]
RankFalls == Rank' < Rank

-----------------------------------------------------------------------------
(* An actor takes a step.                                                  *)

LEMMA Names ==
    /\ Actors = {"v1", "v2", "main"} /\ Clients = {"v1", "v2"} /\ Main = "main"
    /\ Clients \subseteq Actors /\ Main \in Actors /\ Main \notin Clients
    /\ \A b \in Barriers : Parties(b) \subseteq Actors /\ In(b) \in {"admission_in", "dml_in"}
    /\ In("admission") = "admission_in" /\ In("dml") = "dml_in"
    /\ Workers \subseteq Clients /\ "v1" \in Workers
BY DEF Actors, Clients, Main, Parties, In, Workers

LEMMA GoesTo ==
    ASSUME PlaceInv, NEW a \in Actors, NEW from, NEW to \in Places, Goes(a, from, to)
    PROVE  /\ at' \in [Actors -> Places] /\ at[a] = from /\ at'[a] = to
           /\ \A x \in Actors : x # a => at'[x] = at[x]
BY DEF PlaceInv, Goes

(* The places of an actor.                                                 *)
Mine(a) == IF driver = "clients"
           THEN IF a \in Clients THEN ClientPlaces ELSE CoordinatorPlaces
           ELSE IF a = "v1" THEN WriterPlaces ELSE IF a = Main THEN BatchPlaces ELSE {"absent"}

Late == {"tell", "v1", "v2", "last", "ok"}
Seen == {"observe"} \union Late
Spoken == {"v1", "v2", "last", "ok"}
Told == Spoken \union {"join"} \union Failed

(* A step that takes nobody to where he may not be: not back from an abort *)
(* or the meeting, nor forward without what it takes to go there.          *)
Onward(a, from, to) ==
    /\ to \in Mine(a) /\ from # "committed"
    /\ from \notin {"submit", "absent"} /\ to \notin {"submit", "queued", "absent"}
    /\ from = "queued" => at[Main] = "leaving"
    /\ from \in Failed => to \in Failed
    /\ a \in Clients /\ from \in Met => to \in Met
    /\ a \in Clients /\ to \in {"commit", "committed"} => told
    /\ a = Main => /\ from \in {"leaving", "left"} => to = "left"
                   /\ from \in Told => to \in Told
                   /\ to \in Spoken => from \in Spoken
                   /\ driver = "backfill" /\ to \in Seen => from \in Seen \/ at["v1"] \in Met
                   /\ to \in Late => from \in Late
                   /\ to \in {"v2", "last"} => at["v1"] = "committed"
                   /\ to = "ok" => \A w \in Workers : at[w] = "committed"

Harmless(a, from, to) == /\ Onward(a, from, to) /\ from # "break"
                         /\ to \in Failed => to = "abort" \/ from = "rollback"

(* What such a step may do to the events, and has to have done to abort.   *)
Advances(a, to) ==
    /\ aborted' \in BOOLEAN /\ released' \in BOOLEAN /\ dmlDone' \in BOOLEAN
    /\ (aborted => aborted') /\ (released => released')
    /\ \A b \in Barriers : barrier[b].state = "broken" => barrier'[b].state = "broken"
    /\ released' => released \/ aborted'
    /\ dmlDone' => dmlDone \/ aborted' \/ (a = "v1" /\ to \in Met)
    /\ aborted' => aborted \/ to = "break"
    /\ at[a] = "break" => \A b \in Barriers : barrier'[b].state = "broken"
    /\ to \in Failed \ {"abort"} => aborted'
    /\ to \in Failed \ {"abort", "break"} => \A b \in Barriers : barrier'[b].state = "broken"
    /\ to \in Failed \ {"abort", "break", "free"} => released'

(* What IInv says besides the barriers.                                    *)
Others == /\ PlaceInv /\ StartInv /\ EventInv /\ AbortInv /\ BrokenInv
          /\ ToldInv /\ DoneInv /\ OpenInv

LEMMA ShiftKeeps ==
    ASSUME IInv, NEW a \in Actors, NEW from, NEW to, Goes(a, from, to), Onward(a, from, to),
           Advances(a, to), UNCHANGED <<driver, told, open>>
    PROVE  Others'
<1> USE DEF IInv
<1>0. to \in Places /\ Workers' = Workers
      BY Names DEF Onward, Mine, Places, Workers
<1>1. /\ at' \in [Actors -> Places] /\ at[a] = from /\ at'[a] = to
      /\ \A x \in Actors : x # a => at'[x] = at[x]
      BY <1>0, GoesTo
<1>2. PlaceInv'
  <2>1. to \in Mine(a) BY DEF Onward
  <2> QED BY <1>1, <2>1, Names DEF PlaceInv, Mine
<1>3. EventInv' BY DEF EventInv, Advances
<1>4. AbortInv'
  <2>2. ASSUME NEW x \in Actors
        PROVE  /\ at'[x] \in Failed \ {"abort"} => aborted'
               /\ at'[x] \in Failed \ {"abort", "break"} =>
                     \A b \in Barriers : barrier'[b].state = "broken"
               /\ at'[x] \in Failed \ {"abort", "break", "free"} => released'
    <3>1. CASE x # a BY <3>1, <1>1 DEF AbortInv, Advances
    <3>2. CASE x = a BY <3>2, <1>1 DEF Advances
    <3> QED BY <3>1, <3>2
  <2> QED BY <2>2 DEF AbortInv
<1>5. ToldInv'
  <2>1. ASSUME NEW w \in Clients, at'[w] \in {"commit", "committed"} PROVE told
    <3>1. CASE w # a BY <2>1, <3>1, <1>1, Names DEF ToldInv, Advances
    <3>2. CASE w = a BY <2>1, <3>2, <1>1 DEF Onward
    <3> QED BY <3>1, <3>2
  <2>2. CASE a # Main BY <2>1, <2>2, <1>1, Names DEF ToldInv, Advances
  <2>3. CASE a = Main
    <3>1. (from \in Told => to \in Told) /\ (to \in Spoken => from \in Spoken)
          BY <2>3 DEF Onward
    <3>2. (told => to \in Told) /\ (to \in Spoken => told)
          BY <3>1, <2>3, <1>1 DEF ToldInv, Told, Spoken
    <3> QED BY <2>1, <2>3, <3>2, <1>1 DEF ToldInv, Advances, Told, Spoken
  <2> QED BY <2>2, <2>3
<1>6. DoneInv'
  <2>1. CASE a = "v1"
    <3>1. from \in Met => to \in Met BY <2>1, Names DEF Onward
    <3> QED BY <2>1, <3>1, <1>1, Names DEF DoneInv, Advances
  <2>2. CASE a = Main
    <3>1. driver = "backfill" /\ to \in Seen => from \in Seen \/ at["v1"] \in Met
          BY <2>2 DEF Onward
    <3> QED
        BY <2>2, <3>1, <1>1, Names
           DEF DoneInv, Advances, Seen, Late, PlaceInv, BatchPlaces, Aborting
  <2>3. CASE a = "v2" BY <2>3, <1>1, Names DEF DoneInv, Advances
  <2> QED BY <2>1, <2>2, <2>3, Names
<1>7. OpenInv'
  <2>1. CASE a = Main
    <3>1. /\ to \in Late => from \in Late
          /\ to \in {"v2", "last"} => at["v1"] = "committed"
          /\ to = "ok" => \A w \in Workers : at[w] = "committed"
          BY <2>1 DEF Onward
    <3>2. \A w \in Workers : at'[w] = at[w] /\ w \in Actors BY <1>1, <2>1, Names
    <3> QED BY <2>1, <3>1, <3>2, <1>0, <1>1, Names DEF OpenInv, Late
  <2>2. CASE a # Main
    <3>1. from \in Failed => to \in Failed BY DEF Onward
    <3>2. from # "committed" BY DEF Onward
    <3>3. at'[Main] = at[Main] BY <1>1, <2>2, Names
    <3>4. \A w \in Workers \ open : at[w] \in Failed => at'[w] \in Failed
          BY <1>1, <3>1, Names
    <3>5. \A w \in Workers : at[w] = "committed" => at'[w] = "committed"
          BY <1>1, <3>2, Names
    <3> QED BY <3>3, <3>4, <3>5, <1>0, Names DEF OpenInv
  <2> QED BY <2>1, <2>2
<1>8. StartInv'
  <2>1. to \notin {"submit", "queued", "absent"} /\ from \notin {"submit", "absent"} BY DEF Onward
  <2>2. CASE a = Main
    <3>1. from \in {"leaving", "left"} => to \in {"leaving", "left"} BY <2>2 DEF Onward
    <3>2. \A w \in Clients : at'[w] = at[w] BY <1>1, <2>2, Names
    <3> QED BY <2>1, <2>2, <3>1, <3>2, <1>1 DEF StartInv
  <2>3. CASE a # Main
    <3>1. a \in Clients /\ at'[Main] = at[Main] BY <1>1, <2>3, Names
    <3>2. from = "queued" => at[Main] = "leaving" BY DEF Onward
    <3>3. at[Main] # "submit" BY <1>1, <2>1, <3>1, <3>2 DEF StartInv, Fresh
    <3>4. \A w \in Clients : at'[w] \in {"queued", "absent"} => at'[w] = at[w]
          BY <1>1, <2>1, Names
    <3> QED BY <3>1, <3>3, <3>4 DEF StartInv
  <2> QED BY <2>2, <2>3
<1>9. BrokenInv'
  <2>1. CASE at[a] = "break" BY <2>1 DEF Advances, BrokenInv
  <2>2. CASE aborted /\ at[a] # "break"
    <3>1. ASSUME NEW x \in Actors, at[x] = "break" PROVE at'[x] = "break"
          BY <1>1, <2>2, <3>1
    <3> QED BY <2>2, <3>1 DEF Advances, BrokenInv
  <2>3. CASE ~aborted BY <1>1, <2>3 DEF Advances, BrokenInv
  <2> QED BY <2>1, <2>2, <2>3
<1> QED BY <1>2, <1>3, <1>4, <1>5, <1>6, <1>7, <1>8, <1>9 DEF Others

-----------------------------------------------------------------------------
(* The barriers.                                                           *)

(* BarrierInv and MeetingInv, of one barrier.                              *)
Shapes == [state : {"filling", "draining", "broken"}, in : SUBSET Actors]
Knows(b) == barrier[b] \in Shapes /\ barrier[b].in = {a \in Actors : at[a] = In(b)}
Meets(b) == driver = "clients" => Gathering(b) \/ Parting(b)

LEMMA Barrierwise ==
    /\ BarrierInv <=> barrier \in [Barriers -> Shapes] /\ \A b \in Barriers : Knows(b)
    /\ MeetingInv <=> \A b \in Barriers : Meets(b)
BY DEF BarrierInv, MeetingInv, Knows, Meets, Shapes

(* A step past a barrier it has nothing to do with.                        *)
Beside(b, from, to) ==
    /\ from # In(b) /\ to # In(b)
    /\ to \in Before(b) => from \in Before(b)
    /\ driver = "clients" /\ from \in Before(b) \union Failed => to \in Before(b) \union Failed

LEMMA BesideKeeps ==
    ASSUME PlaceInv, NEW b \in Barriers, NEW a \in Actors, NEW from, NEW to \in Places,
           Goes(a, from, to), Beside(b, from, to), barrier'[b] = barrier[b], driver' = driver,
           Knows(b), Meets(b)
    PROVE  Knows(b)' /\ Meets(b)'
<1>1. /\ at' \in [Actors -> Places] /\ at[a] = from /\ at'[a] = to
      /\ \A x \in Actors : x # a => at'[x] = at[x]
      BY GoesTo
<1>2. \A x \in Actors : at'[x] = In(b) <=> at[x] = In(b)
      BY <1>1 DEF Beside
<1>3. Knows(b)' BY <1>2 DEF Knows
<1>4. \A p \in Parties(b) : p \in Actors BY Names
<1>5. ASSUME driver = "clients", Gathering(b) PROVE Gathering(b)'
  <2>1. ASSUME NEW p \in Parties(b) PROVE at'[p] \in Before(b) \union {In(b)} \union Failed
    <3>1. CASE p = a BY <1>1, <1>5, <3>1 DEF Gathering, Beside
    <3>2. CASE p # a BY <1>1, <1>4, <1>5, <3>2 DEF Gathering
    <3> QED BY <3>1, <3>2
  <2> QED BY <2>1, <1>2, <1>4, <1>5 DEF Gathering
<1>6. ASSUME Parting(b) PROVE Parting(b)'
  <2>1. ASSUME NEW p \in Parties(b) PROVE at'[p] \notin Before(b)
    <3>1. CASE p = a BY <1>1, <1>6, <3>1 DEF Parting, Beside
    <3>2. CASE p # a BY <1>1, <1>4, <1>6, <3>2 DEF Parting
    <3> QED BY <3>1, <3>2
  <2> QED BY <2>1, <1>6 DEF Parting
<1> QED BY <1>3, <1>5, <1>6 DEF Meets

(* One more waits in the barrier.                                          *)
LEMMA EnterKeeps ==
    ASSUME PlaceInv, NEW b \in Barriers, NEW a \in Parties(b), NEW from, from \in Before(b),
           Goes(a, from, In(b)), driver = "clients", driver' = driver,
           barrier[b].state = "filling", barrier[b].in \union {a} # Parties(b),
           barrier'[b] = [state |-> "filling", in |-> barrier[b].in \union {a}],
           Knows(b), Meets(b)
    PROVE  Knows(b)' /\ Meets(b)'
<1>0. a \in Actors /\ \A p \in Parties(b) : p \in Actors BY Names
<1>1. /\ at[a] = from /\ at'[a] = In(b)
      /\ \A x \in Actors : x # a => at'[x] = at[x]
  <2>1. In(b) \in Places BY DEF In, Places, ClientPlaces
  <2> QED BY <2>1, <1>0, GoesTo
<1>2. Knows(b)' BY <1>0, <1>1 DEF Knows, Shapes
<1>3. Gathering(b) BY <1>0, <1>1 DEF Meets, Parting
<1>4. \A x \in Actors : at[x] = In(b) => x \in Parties(b)
      BY Names DEF Parties, PlaceInv, CoordinatorPlaces, Aborting
<1>5. PICK p \in Parties(b) : p # a /\ at[p] # In(b) BY <1>0, <1>4 DEF Knows
<1>6. at'[p] # In(b) BY <1>0, <1>1, <1>5
<1>7. \A q \in Parties(b) : at'[q] \in Before(b) \union {In(b)} \union Failed
      BY <1>0, <1>1, <1>3 DEF Gathering
<1>8. Gathering(b)' BY <1>6, <1>7 DEF Gathering
<1> QED BY <1>2, <1>8 DEF Meets

(* The last one comes, or one leaves after that.                           *)
LEMMA PassKeeps ==
    ASSUME PlaceInv, NEW b \in Barriers, NEW a \in Parties(b), NEW from, NEW to \in Places,
           Goes(a, from, to), driver' = driver, to \notin Before(b), to # In(b),
           \A p \in Parties(b) : p # a => at[p] \notin Before(b),
           barrier'[b] \in Shapes, barrier'[b].in = barrier[b].in \ {a},
           barrier'[b].state = "filling" => barrier'[b].in = {},
           Knows(b)
    PROVE  Knows(b)' /\ Meets(b)'
<1>0. a \in Actors /\ \A p \in Parties(b) : p \in Actors BY Names
<1>1. at[a] = from /\ at'[a] = to /\ \A x \in Actors : x # a => at'[x] = at[x]
      BY <1>0, GoesTo
<1>2. Knows(b)' BY <1>0, <1>1 DEF Knows
<1>3. Parting(b)' BY <1>0, <1>1 DEF Parting
<1> QED BY <1>2, <1>3 DEF Meets

(* One leaves with the barrier broken.                                     *)
LEMMA BreakKeeps ==
    ASSUME PlaceInv, NEW b \in Barriers, NEW a \in Actors, Goes(a, In(b), "abort"),
           driver = "clients", driver' = driver,
           barrier'[b] = [state |-> "broken", in |-> barrier[b].in \ {a}],
           Knows(b), Meets(b)
    PROVE  Knows(b)' /\ Meets(b)'
<1>0. "abort" \in Failed /\ "abort" # In(b) /\ "abort" \notin Before(b) /\ "abort" \in Places
      BY DEF Failed, Aborting, In, Before, Coming, Gone, Places, ClientPlaces
<1>1. at'[a] = "abort" /\ at[a] = In(b) /\ \A x \in Actors : x # a => at'[x] = at[x]
      BY <1>0, GoesTo
<1>2. Knows(b)' BY <1>0, <1>1 DEF Knows, Shapes
<1>3. a \in Parties(b) /\ \A p \in Parties(b) : p \in Actors
      BY <1>1, Names DEF Parties, PlaceInv, CoordinatorPlaces, Aborting
<1>4. Gathering(b) => Gathering(b)' BY <1>0, <1>1, <1>3 DEF Gathering
<1>5. Parting(b) => Parting(b)' BY <1>0, <1>1, <1>3 DEF Parting
<1> QED BY <1>2, <1>4, <1>5 DEF Meets

-----------------------------------------------------------------------------
(* The kinds of steps.                                                     *)

Same == UNCHANGED <<driver, aborted, released, dmlDone, told, open>>

(* A step of the actor that leaves the barriers alone.                     *)
LEMMA OnwardKeeps ==
    ASSUME IInv, NEW a \in Actors, NEW from, NEW to, Goes(a, from, to), Onward(a, from, to),
           Advances(a, to), UNCHANGED <<driver, told, open, barrier>>,
           \A b \in Barriers : Beside(b, from, to)
    PROVE  IInv'
<1> USE DEF IInv
<1>1. to \in Places BY Names DEF Onward, Mine, Places
<1>2. Others'
      BY ShiftKeeps
<1>3. \A b \in Barriers : Knows(b)' /\ Meets(b)' BY <1>1, BesideKeeps, Barrierwise
<1>4. BarrierInv' /\ MeetingInv'
  <2>1. barrier' \in [Barriers -> Shapes] BY Barrierwise
  <2> QED
      BY <2>1, <1>3, Barrierwise DEF BarrierInv, MeetingInv, Knows, Meets, Shapes
<1> QED BY <1>2, <1>4 DEF Others

LEMMA SameAdvances ==
    ASSUME IInv, NEW a \in Actors, NEW from, NEW to, Goes(a, from, to), Harmless(a, from, to), Same,
           \A b \in Barriers : barrier[b].state = "broken" => barrier'[b].state = "broken"
    PROVE  Advances(a, to)
<1>1. to \in Failed => to = "abort" \/ (at[a] = "rollback" /\ at[a] \in Failed)
      BY DEF Harmless, Failed, Aborting, Goes
<1>2. to \in Failed \ {"abort"} =>
         aborted /\ released /\ \A b \in Barriers : barrier'[b].state = "broken"
      BY <1>1 DEF IInv, AbortInv
<1>3. from # "break" /\ at[a] = from
      BY DEF Harmless, Onward, Goes, Failed, Aborting
<1>4. to = "break" => aborted
      BY <1>2 DEF Failed, Aborting
<1> QED BY <1>2, <1>3, <1>4 DEF Advances, Same, IInv, EventInv

LEMMA OrdinaryKeeps ==
    ASSUME IInv, NEW a \in Actors, NEW from, NEW to, Goes(a, from, to), Harmless(a, from, to),
           Same, UNCHANGED barrier, \A b \in Barriers : Beside(b, from, to)
    PROVE  IInv'
<1>1. Advances(a, to) BY SameAdvances
<1> QED BY <1>1, OnwardKeeps DEF Harmless, Same

(* A step at one barrier, past the other.                                  *)
LEMMA MeetKeeps ==
    ASSUME IInv, NEW b \in Barriers, NEW a \in Actors, NEW from, NEW to,
           Goes(a, from, to), Harmless(a, from, to), Same,
           barrier' \in [Barriers -> Shapes],
           \A c \in Barriers : c # b => barrier'[c] = barrier[c] /\ Beside(c, from, to),
           barrier[b].state = "broken" => barrier'[b].state = "broken",
           Knows(b)', Meets(b)'
    PROVE  IInv'
<1> USE DEF IInv, Same
<1>1. to \in Places BY Names DEF Harmless, Onward, Mine, Places
<1>2. \A c \in Barriers : barrier[c].state = "broken" => barrier'[c].state = "broken"
      OBVIOUS
<1>3. Others'
  <2>1. Advances(a, to) BY <1>2, SameAdvances
  <2> QED BY <2>1, ShiftKeeps DEF Harmless
<1>4. \A c \in Barriers : c # b => Knows(c)' /\ Meets(c)'
      BY <1>1, BesideKeeps, Barrierwise
<1>5. \A c \in Barriers : Knows(c)' /\ Meets(c)'
      BY <1>4
<1>6. BarrierInv' /\ MeetingInv'
      BY <1>5 DEF BarrierInv, MeetingInv, Knows, Meets, Shapes
<1> QED BY <1>3, <1>6 DEF Others

LEMMA ArriveKeeps ==
    ASSUME IInv, driver = "clients", NEW b \in Barriers, NEW a \in Parties(b), NEW from, NEW to,
           Arrive(a, b, from, to), from \in Before(b), to \notin Before(b), to # In(b),
           \A next \in {to, In(b), "abort"} :
               /\ Harmless(a, from, next)
               /\ \A c \in Barriers : c # b \/ next = "abort" => Beside(c, from, next)
    PROVE  IInv'
<1> USE DEF IInv
<1>0. /\ a \in Actors /\ Same /\ barrier \in [Barriers -> Shapes] /\ Knows(b) /\ Meets(b)
      /\ to \in Places /\ In(b) \notin Before(b)
  <2>1. a \in Actors /\ to \in Places BY Names DEF Harmless, Onward, Mine, Places
  <2>2. Same BY DEF Arrive, events, notes, Same
  <2>3. In(b) \notin Before(b) BY DEF In, Before, Coming, Gone, Barriers
  <2> QED BY <2>1, <2>2, <2>3, Barrierwise
<1>1. CASE Goes(a, from, "abort") /\ UNCHANGED barrier
      BY <1>0, <1>1, OrdinaryKeeps
<1>2. CASE /\ Goes(a, from, to) /\ barrier[b].state = "filling"
           /\ barrier[b].in \union {a} = Parties(b)
           /\ barrier' = [barrier EXCEPT ![b].state = "draining"]
  <2>1. /\ barrier'[b] = [state |-> "draining", in |-> barrier[b].in]
        /\ barrier' \in [Barriers -> Shapes]
        /\ \A c \in Barriers : c # b => barrier'[c] = barrier[c]
        BY <1>0, <1>2 DEF Shapes
  <2>2. at[a] = from /\ from # In(b) BY <1>0, <1>2 DEF Goes
  <2>3. barrier'[b].in = barrier[b].in \ {a} BY <1>0, <2>1, <2>2 DEF Knows
  <2>4. \A p \in Parties(b) : p # a => at[p] \notin Before(b)
        BY <1>0, <1>2 DEF Knows
  <2>5. Knows(b)' /\ Meets(b)'
        BY <1>0, <1>2, <2>1, <2>3, <2>4, PassKeeps DEF Same
  <2> QED BY <1>0, <1>2, <2>1, <2>5, MeetKeeps
<1>3. CASE /\ Goes(a, from, In(b)) /\ barrier[b].state = "filling"
           /\ barrier[b].in \union {a} # Parties(b)
           /\ barrier' = [barrier EXCEPT ![b].in = barrier[b].in \union {a}]
  <2>1. /\ barrier'[b] = [state |-> "filling", in |-> barrier[b].in \union {a}]
        /\ barrier' \in [Barriers -> Shapes]
        /\ \A c \in Barriers : c # b => barrier'[c] = barrier[c]
        BY <1>0, <1>3 DEF Shapes
  <2>2. Knows(b)' /\ Meets(b)'
        BY <1>0, <1>3, <2>1, EnterKeeps DEF Same
  <2> QED BY <1>0, <1>3, <2>1, <2>2, MeetKeeps
<1> QED BY <1>1, <1>2, <1>3 DEF Arrive

LEMMA LeaveKeeps ==
    ASSUME IInv, driver = "clients", NEW b \in Barriers, NEW a \in Parties(b), NEW to,
           Leave(a, b, to) \/ BarrierTimeout(a, b), to \notin Before(b), to # In(b),
           \A next \in {to, "abort"} :
               /\ Harmless(a, In(b), next)
               /\ \A c \in Barriers : c # b => Beside(c, In(b), next)
    PROVE  IInv'
<1> USE DEF IInv
<1>0. /\ a \in Actors /\ Same /\ barrier \in [Barriers -> Shapes] /\ Knows(b) /\ Meets(b)
      /\ to \in Places
  <2>1. a \in Actors /\ to \in Places BY Names DEF Harmless, Onward, Mine, Places
  <2>2. Same BY DEF Leave, BarrierTimeout, events, notes, Same
  <2> QED BY <2>1, <2>2, Barrierwise
<1>1. CASE /\ Goes(a, In(b), to) /\ barrier[b].state = "draining"
           /\ barrier' = [barrier EXCEPT ![b] =
                 [state |-> IF barrier[b].in \ {a} = {} THEN "filling" ELSE "draining",
                  in |-> barrier[b].in \ {a}]]
  <2>1. /\ barrier'[b] = [state |-> IF barrier[b].in \ {a} = {} THEN "filling" ELSE "draining",
                          in |-> barrier[b].in \ {a}]
        /\ barrier' \in [Barriers -> Shapes]
        /\ \A c \in Barriers : c # b => barrier'[c] = barrier[c]
        BY <1>0, <1>1 DEF Shapes, Knows
  <2>2. Parting(b) BY <1>0, <1>1 DEF Meets, Gathering
  <2>3. Knows(b)' /\ Meets(b)'
        BY <1>0, <1>1, <2>1, <2>2, PassKeeps DEF Same, Parting
  <2> QED BY <1>0, <1>1, <2>1, <2>3, MeetKeeps
<1>2. CASE /\ Goes(a, In(b), "abort")
           /\ \/ /\ barrier[b].state = "broken"
                 /\ barrier' = [barrier EXCEPT ![b].in = barrier[b].in \ {a}]
              \/ barrier' = [barrier EXCEPT ![b] =
                    [state |-> "broken", in |-> barrier[b].in \ {a}]]
  <2>0. ASSUME NEW x, barrier[b].state = "broken"
        PROVE  [barrier[b] EXCEPT !.in = x] = [state |-> "broken", in |-> x]
        BY <1>0, <2>0 DEF Shapes
  <2>1. /\ barrier'[b] = [state |-> "broken", in |-> barrier[b].in \ {a}]
        /\ barrier' \in [Barriers -> Shapes]
        /\ \A c \in Barriers : c # b => barrier'[c] = barrier[c]
    <3>1. CASE barrier' = [barrier EXCEPT ![b] = [state |-> "broken", in |-> barrier[b].in \ {a}]]
          BY <1>0, <3>1 DEF Shapes, Knows
    <3>2. CASE /\ barrier[b].state = "broken"
               /\ barrier' = [barrier EXCEPT ![b].in = barrier[b].in \ {a}]
      <4>1. barrier' = [barrier EXCEPT ![b] = [barrier[b] EXCEPT !.in = barrier[b].in \ {a}]]
            BY <3>2
      <4>2. [barrier[b] EXCEPT !.in = barrier[b].in \ {a}]
                = [state |-> "broken", in |-> barrier[b].in \ {a}]
            BY <2>0, <3>2
      <4> QED BY <4>1, <4>2, <3>1
    <3> QED BY <1>2, <3>1, <3>2
  <2>2. Knows(b)' /\ Meets(b)'
        BY <1>0, <1>2, <2>1, BreakKeeps DEF Same
  <2> QED BY <1>0, <1>2, <2>1, <2>2, MeetKeeps
<1> QED BY <1>1, <1>2 DEF Leave, BarrierTimeout

-----------------------------------------------------------------------------
(* The steps that change events or notes.                                  *)

(* Where somebody is, he may be.                                           *)
LEMMA Mines ==
    ASSUME PlaceInv, NEW a \in Actors
    PROVE  at[a] \in Mine(a)
BY Names DEF PlaceInv, Mine

LEMMA AbortKeeps ==
    ASSUME IInv, NEW a \in Actors, Aborts(a)
    PROVE  IInv'
<1> USE DEF IInv
<1>1. ASSUME NEW from \in Failed, NEW to \in {"break", "free", "rollback"}, Goes(a, from, to),
             a # "v2" \/ driver = "clients"
      PROVE  Onward(a, from, to) /\ \A b \in Barriers : Beside(b, from, to)
  <2>1. to \in Mine(a)
        BY <1>1, Names DEF Mine, ClientPlaces, CoordinatorPlaces, WriterPlaces,
                          BatchPlaces, Aborting
  <2>2. Onward(a, from, to)
        BY <1>1, <2>1 DEF Onward, Failed, Aborting, Met, Told, Spoken, Seen, Late
  <2> QED BY <1>1, <2>2 DEF Beside, Barriers, In, Before, Coming, Gone, Failed, Aborting
<1>2. a # "v2" \/ driver = "clients"
      BY Names DEF Aborts, Abort, Goes, PlaceInv
<1>3. CASE Goes(a, "abort", "break") /\ aborted' = TRUE /\ UNCHANGED <<released, pidReady, dmlDone, barrier>>
  <2>1. Advances(a, "break") BY <1>3 DEF Advances, EventInv, Goes
  <2>2. Onward(a, "abort", "break") /\ \A b \in Barriers : Beside(b, "abort", "break")
        BY <1>1, <1>2, <1>3 DEF Failed, Aborting
  <2> QED BY <1>3, <2>1, <2>2, OnwardKeeps DEF Aborts, notes
<1>4. CASE /\ Goes(a, "break", "free") /\ UNCHANGED events
           /\ barrier' = [b \in Barriers |-> [barrier[b] EXCEPT !.state = "broken"]]
  <2>1. aborted BY <1>4 DEF AbortInv, Goes, Failed, Aborting
  <2>2. /\ \A b \in Barriers : barrier'[b] = [state |-> "broken", in |-> barrier[b].in]
        /\ barrier' \in [Barriers -> Shapes]
        BY <1>4, Barrierwise DEF Knows, Shapes
  <2>3. Advances(a, "free")
    <3>1. \A b \in Barriers : barrier'[b].state = "broken" BY <2>2
    <3>2. UNCHANGED <<aborted, released, dmlDone>> BY <1>4 DEF events
    <3> QED BY <2>1, <3>1, <3>2 DEF Advances, EventInv
  <2>4. Onward(a, "break", "free") /\ "free" \in Places /\ "free" \in Failed
        BY <1>1, <1>2, <1>4 DEF Failed, Aborting, Places, ClientPlaces
  <2>5. Others'
        BY <1>4, <2>3, <2>4, ShiftKeeps DEF Aborts, notes
  <2>6. /\ at[a] = "break" /\ at'[a] = "free" /\ \A x \in Actors : x # a => at'[x] = at[x]
        BY <1>4, <2>4, GoesTo
  <2>7. ASSUME NEW b \in Barriers PROVE Knows(b)' /\ Meets(b)'
    <3>1. \A x \in Actors : at'[x] = In(b) <=> at[x] = In(b) BY <2>6 DEF In
    <3>2. Knows(b) /\ Meets(b) BY Barrierwise
    <3>3. Knows(b)' BY <2>2, <3>1, <3>2 DEF Knows, Shapes
    <3>4. "free" \notin Before(b) /\ "free" # In(b) /\ "break" \notin Before(b)
          BY DEF Before, Coming, Gone, In
    <3>5. \A p \in Parties(b) : p \in Actors BY Names
    <3>6. Gathering(b) => Gathering(b)'
          BY <2>2, <2>4, <2>6, <3>4, <3>5 DEF Gathering
    <3>7. Parting(b) => Parting(b)' BY <2>2, <2>6, <3>4, <3>5 DEF Parting
    <3> QED BY <3>2, <3>3, <3>6, <3>7 DEF Meets, Aborts
  <2>8. BarrierInv' /\ MeetingInv'
        BY <2>2, <2>7 DEF BarrierInv, MeetingInv, Knows, Meets
  <2> QED BY <2>5, <2>8 DEF Others
<1>5. CASE /\ Goes(a, "free", "rollback") /\ released' = TRUE
           /\ IF driver = "backfill" THEN pidReady' = TRUE /\ dmlDone' = TRUE
                                     ELSE UNCHANGED <<pidReady, dmlDone>>
           /\ UNCHANGED <<aborted, barrier>>
  <2>1. aborted /\ \A b \in Barriers : barrier[b].state = "broken"
        BY <1>5 DEF AbortInv, Goes, Failed, Aborting
  <2>2. Advances(a, "rollback") BY <1>5, <2>1 DEF Advances, EventInv, Goes
  <2>3. Onward(a, "free", "rollback") /\ \A b \in Barriers : Beside(b, "free", "rollback")
        BY <1>1, <1>2, <1>5 DEF Failed, Aborting
  <2> QED BY <1>5, <2>2, <2>3, OnwardKeeps DEF Aborts, notes
<1> QED BY <1>3, <1>4, <1>5 DEF Aborts, Abort

(* The coordinator's steps between the meeting and the results.            *)
LEMMA NotedKeeps ==
    ASSUME IInv, at[Main] \in {"observe", "tell"}, at'[Main] \in {"tell", "v1", "abort", "join"},
           \A w \in Clients : at'[w] = at[w], UNCHANGED <<driver, barrier, aborted>>
    PROVE  StartInv' /\ BrokenInv'
<1>1. StartInv' BY DEF IInv, StartInv
<1>2. BrokenInv'
  <2>1. ASSUME NEW x \in Actors, at[x] = "break" PROVE at'[x] = "break"
        BY <2>1, Names
  <2> QED BY <2>1 DEF IInv, BrokenInv
<1> QED BY <1>1, <1>2

(* The coordinator takes note of the open transactions.                    *)
LEMMA ObserveKeeps ==
    ASSUME IInv, NEW to, Observe(to), to = "tell" \/ to = IF driver = "clients" THEN "abort" ELSE "join"
    PROVE  IInv'
<1> USE DEF IInv
<1>1. /\ UNCHANGED <<driver, barrier, aborted, released, dmlDone, told>>
      /\ open' = {w \in Workers : at[w] \in {"dml_in", "release"}}
      /\ Goes(Main, "observe", to)
      BY DEF Observe, events
<1>2. to \in Mine(Main) /\ to \in Places
      BY Names DEF Mine, CoordinatorPlaces, BatchPlaces, Places, Aborting
<1>3. /\ at' \in [Actors -> Places] /\ at[Main] = "observe" /\ at'[Main] = to
      /\ at'["v1"] = at["v1"] /\ at'["v2"] = at["v2"]
      /\ \A w \in Clients : at'[w] = at[w] /\ w \in Actors
      BY <1>1, <1>2, GoesTo, Names
<1>4. PlaceInv' /\ EventInv'
      BY <1>1, <1>2, <1>3, Names DEF PlaceInv, Mine, EventInv
<1>5. BarrierInv' /\ MeetingInv'
  <2>1. ASSUME NEW b \in Barriers PROVE Knows(b)' /\ Meets(b)'
    <3>1. Beside(b, "observe", to)
          BY DEF Beside, In, Before, Coming, Gone, Failed, Aborting
    <3> QED BY <1>1, <1>2, <3>1, BesideKeeps, Barrierwise, Names
  <2> QED
      BY <1>1, <2>1, Barrierwise DEF BarrierInv, MeetingInv, Knows, Meets, Shapes
<1>6. AbortInv'
  <2>1. to \notin Failed \ {"abort"} BY DEF Failed, Aborting
  <2>2. ASSUME NEW x \in Actors
        PROVE  /\ at'[x] \in Failed \ {"abort"} => aborted'
               /\ at'[x] \in Failed \ {"abort", "break"} =>
                     \A b \in Barriers : barrier'[b].state = "broken"
               /\ at'[x] \in Failed \ {"abort", "break", "free"} => released'
    <3>1. CASE x = Main BY <3>1, <1>3, <2>1
    <3>2. CASE x # Main
      <4>1. at'[x] = at[x] BY <3>2, <1>3, Names
      <4> QED BY <4>1, <1>1 DEF AbortInv
    <3> QED BY <3>1, <3>2
  <2> QED BY <2>2 DEF AbortInv
<1>7. ToldInv'
  <2>1. ~told BY <1>3 DEF ToldInv, Failed, Aborting
  <2> QED BY <1>1, <1>3, <2>1 DEF ToldInv
<1>8. DoneInv'
      BY <1>1, <1>3 DEF DoneInv
<1>9. OpenInv'
  <2>1. ASSUME NEW w \in Workers PROVE at[w] \in {"dml_in", "release"} \union Failed
    <3>1. w \in Clients BY Names
    <3>2. at[w] \notin {"commit", "committed"}
          BY <1>3, <3>1 DEF ToldInv, Failed, Aborting
    <3>3. CASE driver = "clients"
      <4>1. Parting("dml")
            BY <1>3, <3>3, Names
               DEF MeetingInv, Barriers, Gathering, Parties, Before, Coming, Gone, In,
               Failed, Aborting
      <4>2. at[w] \notin Before("dml") BY <3>1, <4>1, Names DEF Parting, Parties
      <4>3. at[w] \in ClientPlaces BY <3>1, <3>3, Names DEF PlaceInv
      <4> QED BY <3>2, <4>2, <4>3 DEF ClientPlaces, Before, Coming, Gone, Failed
    <3>4. CASE driver = "backfill"
      <4>1. w = "v1" BY <3>4, Names DEF Workers
      <4> QED BY <1>3, <3>2, <3>4, <4>1 DEF DoneInv, Met
    <3> QED BY <3>3, <3>4 DEF PlaceInv
  <2>2. Workers' = Workers BY <1>1 DEF Workers
  <2>3. \A w \in Workers \ open' : at'[w] \in Failed BY <1>1, <1>3, <2>1, Names
  <2> QED BY <1>1, <1>3, <2>2, <2>3 DEF OpenInv
<1>10. StartInv' /\ BrokenInv' BY <1>1, <1>3, NotedKeeps
<1> QED BY <1>4, <1>5, <1>6, <1>7, <1>8, <1>9, <1>10

(* The coordinator lets them commit.                                       *)
LEMMA ReleaseKeeps ==
    ASSUME IInv, Release
    PROVE  IInv'
<1> USE DEF IInv
<1>1. /\ UNCHANGED <<driver, barrier, aborted, dmlDone, open>>
      /\ released' = TRUE /\ told' = TRUE /\ Goes(Main, "tell", "v1")
      BY DEF Release
<1>2. "v1" \in Mine(Main) /\ "v1" \in Places
      BY Names DEF Mine, CoordinatorPlaces, BatchPlaces, Places
<1>3. /\ at' \in [Actors -> Places] /\ at[Main] = "tell" /\ at'[Main] = "v1"
      /\ at'["v1"] = at["v1"] /\ at'["v2"] = at["v2"]
      /\ \A w \in Clients : at'[w] = at[w] /\ w \in Actors
      BY <1>1, <1>2, GoesTo, Names
<1>4. PlaceInv' /\ EventInv'
      BY <1>1, <1>2, <1>3, Names DEF PlaceInv, Mine, EventInv
<1>5. BarrierInv' /\ MeetingInv'
  <2>1. ASSUME NEW b \in Barriers PROVE Knows(b)' /\ Meets(b)'
    <3>1. Beside(b, "tell", "v1")
          BY DEF Beside, In, Before, Coming, Gone, Failed, Aborting
    <3> QED BY <1>1, <1>2, <3>1, BesideKeeps, Barrierwise, Names
  <2> QED
      BY <1>1, <2>1, Barrierwise DEF BarrierInv, MeetingInv, Knows, Meets, Shapes
<1>6. AbortInv'
  <2>1. "v1" \notin Failed BY DEF Failed, Aborting
  <2>2. ASSUME NEW x \in Actors
        PROVE  /\ at'[x] \in Failed \ {"abort"} => aborted'
               /\ at'[x] \in Failed \ {"abort", "break"} =>
                     \A b \in Barriers : barrier'[b].state = "broken"
               /\ at'[x] \in Failed \ {"abort", "break", "free"} => released'
    <3>1. CASE x = Main BY <3>1, <1>3, <2>1
    <3>2. CASE x # Main
      <4>1. at'[x] = at[x] BY <3>2, <1>3, Names
      <4> QED BY <4>1, <1>1 DEF AbortInv
    <3> QED BY <3>1, <3>2
  <2> QED BY <2>2 DEF AbortInv
<1>7. ToldInv' BY <1>1, <1>3 DEF ToldInv
<1>8. DoneInv' BY <1>1, <1>3 DEF DoneInv
<1>9. OpenInv'
  <2>1. Workers' = Workers BY <1>1 DEF Workers
  <2>2. \A w \in Workers : at'[w] = at[w] BY <1>3, Names
  <2> QED BY <1>1, <1>3, <2>1, <2>2 DEF OpenInv
<1>10. StartInv' /\ BrokenInv' BY <1>1, <1>3, NotedKeeps
<1> QED BY <1>4, <1>5, <1>6, <1>7, <1>8, <1>9, <1>10

-----------------------------------------------------------------------------
(* The actions.                                                            *)

LEMMA MovesSame == ASSUME NEW a, NEW from, NEW to, Moves(a, from, to)
                   PROVE  Goes(a, from, to) /\ Same /\ UNCHANGED barrier
BY DEF Moves, Same, events, notes

(* The moves of a worker that are nobody else's business.                  *)
LEMMA WorkerMoves ==
    ASSUME IInv, NEW w \in Clients, NEW from, NEW to, Moves(w, from, to),
           \/ driver = "clients" /\ <<from, to>> \in
                 {<<"begin", "admission">>, <<"begin", "abort">>, <<"begin", "unconnected">>,
                  <<"write", "dml">>, <<"write", "abort">>}
           \/ driver = "backfill" /\ w = "v1" /\ <<from, to>> \in
                 {<<"begin", "ready">>, <<"begin", "abort">>, <<"begin", "unconnected">>,
                  <<"update", "done">>, <<"update", "abort">>}
           \/ w \in Workers /\ <<from, to>> \in
                 {<<"release", "abort">>, <<"commit", "committed">>, <<"commit", "abort">>,
                  <<"rollback", "rolledback">>}
           \/ w \in Workers /\ <<from, to>> = <<"release", "commit">> /\ told
           \/ w \in Workers /\ <<from, to>> = <<"queued", "begin">> /\ at[Main] = "leaving"
    PROVE  IInv'
<1>1. Goes(w, from, to) /\ Same /\ UNCHANGED barrier /\ w \in Actors /\ w # Main
      BY MovesSame, Names
<1>2. to \in Mine(w)
      BY Names DEF Mine, ClientPlaces, WriterPlaces, Aborting, Workers
<1>3. from = "commit" => told
      BY <1>1 DEF Goes, IInv, ToldInv
<1>4. Harmless(w, from, to)
      BY <1>1, <1>2, <1>3 DEF Harmless, Onward, Failed, Aborting, Met
<1>5. \A b \in Barriers : Beside(b, from, to)
      BY DEF Beside, In, Before, Coming, Gone, Failed, Aborting
<1> QED BY <1>1, <1>4, <1>5, OrdinaryKeeps

LEMMA AwaitReleaseKeeps ==
    ASSUME IInv, NEW w \in Workers, AwaitRelease(w)
    PROVE  IInv'
<1>1. w \in Clients BY Names
<1>2. CASE aborted BY <1>1, <1>2, WorkerMoves DEF AwaitRelease
<1>3. CASE ~aborted
  <2>1. told BY <1>3 DEF AwaitRelease, IInv, ToldInv
  <2> QED BY <1>1, <1>3, <2>1, WorkerMoves DEF AwaitRelease
<1> QED BY <1>2, <1>3

LEMMA ClientMeets ==
    ASSUME IInv, driver = "clients", NEW w \in Clients,
           \/ Meet(w, "admission", "admission", "write") \/ Meet(w, "dml", "dml", "release")
           \/ \E b \in Barriers : BarrierTimeout(w, b)
    PROVE  IInv'
<1>0. w \in Actors /\ w # Main /\ "admission" \in Barriers /\ "dml" \in Barriers
      /\ w \in Parties("admission") /\ w \in Parties("dml")
      BY Names DEF Barriers, Parties
<1>1. CASE Arrive(w, "admission", "admission", "write")
  <2>1. ASSUME NEW next \in {"write", "admission_in", "abort"}
        PROVE  /\ Harmless(w, "admission", next)
               /\ \A c \in Barriers : c # "admission" \/ next = "abort" => Beside(c, "admission", next)
    <3>1. Harmless(w, "admission", next)
          BY <1>0 DEF Harmless, Onward, Mine, ClientPlaces, Failed, Aborting, Met
    <3> QED BY <3>1 DEF Beside, In, Before, Coming, Gone, Barriers, Failed, Aborting
  <2> QED BY <1>0, <1>1, <2>1, ArriveKeeps, Names DEF Before, Coming, Gone
<1>2. CASE Arrive(w, "dml", "dml", "release")
  <2>1. ASSUME NEW next \in {"release", "dml_in", "abort"}
        PROVE  /\ Harmless(w, "dml", next)
               /\ \A c \in Barriers : c # "dml" \/ next = "abort" => Beside(c, "dml", next)
    <3>1. Harmless(w, "dml", next)
          BY <1>0 DEF Harmless, Onward, Mine, ClientPlaces, Failed, Aborting, Met
    <3> QED BY <3>1 DEF Beside, In, Before, Coming, Gone, Barriers, Failed, Aborting
  <2> QED BY <1>0, <1>2, <2>1, ArriveKeeps, Names DEF Before, Coming, Gone
<1>3. CASE Leave(w, "admission", "write") \/ BarrierTimeout(w, "admission")
  <2>1. ASSUME NEW next \in {"write", "abort"}
        PROVE  /\ Harmless(w, "admission_in", next)
               /\ \A c \in Barriers : c # "admission" => Beside(c, "admission_in", next)
    <3>1. Harmless(w, "admission_in", next)
          BY <1>0 DEF Harmless, Onward, Mine, ClientPlaces, Failed, Aborting, Met
    <3> QED BY <3>1 DEF Beside, In, Before, Coming, Gone, Barriers, Failed, Aborting
  <2> QED BY <1>0, <1>3, <2>1, LeaveKeeps, Names DEF Before, Coming, Gone
<1>4. CASE Leave(w, "dml", "release") \/ BarrierTimeout(w, "dml")
  <2>1. ASSUME NEW next \in {"release", "abort"}
        PROVE  /\ Harmless(w, "dml_in", next)
               /\ \A c \in Barriers : c # "dml" => Beside(c, "dml_in", next)
    <3>1. Harmless(w, "dml_in", next)
          BY <1>0 DEF Harmless, Onward, Mine, ClientPlaces, Failed, Aborting, Met
    <3> QED BY <3>1 DEF Beside, In, Before, Coming, Gone, Barriers, Failed, Aborting
  <2> QED BY <1>0, <1>4, <2>1, LeaveKeeps, Names DEF Before, Coming, Gone
<1> QED BY <1>1, <1>2, <1>3, <1>4 DEF Meet, Barriers

LEMMA CoordinatorMeets ==
    ASSUME IInv, driver = "clients",
           Meet(Main, "dml", "dml", "observe") \/ \E b \in Barriers : BarrierTimeout(Main, b)
    PROVE  IInv'
<1>0. Main \in Actors /\ Main \notin Clients /\ "dml" \in Barriers /\ Main \in Parties("dml")
      BY Names DEF Barriers, Parties
<1>1. CASE Arrive(Main, "dml", "dml", "observe")
  <2>1. ASSUME NEW next \in {"observe", "dml_in", "abort"}
        PROVE  /\ Harmless(Main, "dml", next)
               /\ \A c \in Barriers : c # "dml" \/ next = "abort" => Beside(c, "dml", next)
    <3>1. Harmless(Main, "dml", next)
          BY <1>0
             DEF Harmless, Onward, Mine, CoordinatorPlaces, Failed, Aborting, Met,
             Told, Spoken, Late
    <3> QED BY <3>1 DEF Beside, In, Before, Coming, Gone, Barriers, Failed, Aborting
  <2> QED BY <1>0, <1>1, <2>1, ArriveKeeps, Names DEF Before, Coming, Gone
<1>2. CASE Leave(Main, "dml", "observe") \/ BarrierTimeout(Main, "dml")
  <2>1. ASSUME NEW next \in {"observe", "abort"}
        PROVE  /\ Harmless(Main, "dml_in", next)
               /\ \A c \in Barriers : c # "dml" => Beside(c, "dml_in", next)
    <3>1. Harmless(Main, "dml_in", next)
          BY <1>0
             DEF Harmless, Onward, Mine, CoordinatorPlaces, Failed, Aborting, Met,
             Told, Spoken, Late
    <3> QED BY <3>1 DEF Beside, In, Before, Coming, Gone, Barriers, Failed, Aborting
  <2> QED BY <1>0, <1>2, <2>1, LeaveKeeps, Names DEF Before, Coming, Gone
<1>3. ~BarrierTimeout(Main, "admission")
      BY <1>0, Names
         DEF BarrierTimeout, Goes, IInv, PlaceInv, CoordinatorPlaces, Aborting
<1> QED BY <1>1, <1>2, <1>3 DEF Meet, Barriers

(* The moves of the coordinators.                                          *)
LEMMA MainMoves ==
    ASSUME IInv, NEW from, NEW to, Goes(Main, from, to), Same, UNCHANGED barrier,
           \/ driver = "clients" /\ <<from, to>> \in
                 {<<"v1", "abort">>, <<"v2", "abort">>, <<"rollback", "raised">>,
                  <<"leaving", "left">>}
           \/ driver = "backfill" /\ <<from, to>> \in
                 {<<"pid", "join">>, <<"pid", "blocked">>, <<"blocked", "batch">>,
                  <<"blocked", "join">>, <<"batch", "waitdml">>, <<"batch", "join">>,
                  <<"waitdml", "join">>, <<"v1", "join">>, <<"join", "abort">>,
                  <<"last", "abort">>, <<"rollback", "raised">>}
           \/ driver = "backfill" /\ <<from, to>> = <<"waitdml", "observe">> /\ at["v1"] \in Met
           \/ driver = "clients" /\ <<from, to>> = <<"v1", "v2">> /\ at["v1"] = "committed"
           \/ driver = "backfill" /\ <<from, to>> = <<"v1", "last">> /\ at["v1"] = "committed"
           \/ to = "ok" /\ from \in {"v2", "last"} /\ \A w \in Workers : at[w] = "committed"
    PROVE  IInv'
<1>0. Main \in Actors /\ Main \notin Clients BY Names
<1>1. to \in Mine(Main)
      BY <1>0, Names DEF Mine, CoordinatorPlaces, BatchPlaces, Aborting
<1>2. Onward(Main, from, to)
      BY <1>0, <1>1 DEF Onward, Failed, Aborting, Told, Spoken, Seen, Late
<1>3. to \in Failed => to = "abort" \/ from = "rollback" BY DEF Failed, Aborting
<1>4. \A b \in Barriers : Beside(b, from, to)
      BY DEF Beside, In, Before, Coming, Gone, Failed, Aborting
<1> QED BY <1>0, <1>2, <1>3, <1>4, OrdinaryKeeps DEF Harmless

(* Nobody has done anything yet: at the start, or once all is submitted.   *)
Starting ==
    /\ PlaceInv /\ EventInv
    /\ barrier = [b \in Barriers |-> [state |-> "filling", in |-> {}]]
    /\ ~aborted /\ ~released /\ ~dmlDone /\ ~told /\ open = {}
    /\ at[Main] \in {"submit", "leaving", "dml", "pid", "abort"}
    /\ \A w \in Clients : at[w] \in {"queued", "begin", "absent"}
    /\ at[Main] = "submit" => Fresh
    /\ driver = "clients" => at[Main] \in {"submit", "leaving"} \/ \A w \in Clients : at[w] = "begin"

LEMMA FreshStart == Starting => IInv
<1> SUFFICES ASSUME Starting PROVE IInv OBVIOUS
<1> USE DEF Starting
<1>1. \A a \in Actors : at[a] \in {"submit", "leaving", "dml", "pid", "abort", "queued", "begin", "absent"}
      BY Names
<1>2. StartInv BY DEF StartInv
<1>3. BarrierInv BY <1>1 DEF BarrierInv, In
<1>4. MeetingInv
  <2>1. ASSUME driver = "clients", NEW b \in Barriers PROVE Gathering(b)
    <3>1. at[Main] \in CoordinatorPlaces BY <2>1 DEF PlaceInv
    <3>2. at[Main] \in {"submit", "leaving", "dml", "abort"}
          BY <3>1 DEF CoordinatorPlaces, Aborting
    <3>3. \A p \in Parties(b) : at[p] \in Before(b) \union Failed
      <4>1. CASE b = "admission"
            BY <4>1 DEF Parties, Before, Coming, Gone
      <4>2. CASE b = "dml"
            BY <3>2, <4>2, Names DEF Parties, Before, Coming, Gone, Failed, Aborting
      <4> QED BY <4>1, <4>2 DEF Barriers
    <3>4. "v1" \in Parties(b) /\ at["v1"] # In(b)
          BY <1>1, Names DEF Parties, In
    <3> QED BY <3>3, <3>4 DEF Gathering
  <2> QED BY <2>1 DEF MeetingInv
<1>5. AbortInv BY <1>1 DEF AbortInv, Failed, Aborting
<1>6. BrokenInv BY DEF BrokenInv
<1>7. ToldInv BY DEF ToldInv
<1>8. DoneInv BY DEF DoneInv
<1>9. OpenInv BY DEF OpenInv
<1> QED BY <1>2, <1>3, <1>4, <1>5, <1>6, <1>7, <1>8, <1>9 DEF IInv

LEMMA SubmitTo ==
    ASSUME PlaceInv, Submit
    PROVE  /\ at' \in [Actors -> Places]
           /\ driver = "clients" =>
                 /\ at'[Main] \in {"dml", "leaving"}
                 /\ at'["v1"] \in {"begin", "absent"} /\ at'["v2"] \in {"begin", "absent", at["v2"]}
                 /\ at'[Main] = "dml" => at'["v1"] = "begin" /\ at'["v2"] = "begin"
           /\ driver = "backfill" =>
                 /\ at'[Main] \in {"pid", "abort"}
                 /\ at'["v1"] \in {"begin", "absent"} /\ at'["v2"] = at["v2"]
<1>1. {"dml", "leaving", "pid", "abort", "begin", "absent"} \subseteq Places
      BY DEF Places, ClientPlaces, CoordinatorPlaces, BatchPlaces, Aborting
<1> QED BY <1>1, Names DEF Submit, PlaceInv

LEMMA SubmitKeeps ==
    ASSUME IInv, Submit
    PROVE  IInv'
<1>1. at[Main] = "submit" /\ UNCHANGED <<driver, barrier, aborted, released, dmlDone, told, open>>
      BY DEF Submit, events, notes
<1>2. Fresh /\ PlaceInv /\ EventInv BY <1>1 DEF IInv, StartInv
<1>3. \A w \in Clients : at[w] \in {"queued", "absent"} BY <1>2 DEF Fresh
<1>4. driver = "backfill" => at["v2"] = "absent" BY <1>2 DEF PlaceInv
<1>5. PlaceInv'
      BY <1>1, <1>2, <1>3, <1>4, SubmitTo, Names
         DEF PlaceInv, ClientPlaces, CoordinatorPlaces, WriterPlaces, BatchPlaces, Aborting
<1>6. EventInv' BY <1>1, <1>2 DEF EventInv
<1>7. /\ at'[Main] \in {"leaving", "dml", "pid", "abort"}
      /\ \A w \in Clients : at'[w] \in {"queued", "begin", "absent"}
      /\ driver = "clients" => at'[Main] = "leaving" \/ \A w \in Clients : at'[w] = "begin"
      BY <1>2, <1>3, SubmitTo, Names DEF PlaceInv
<1>8. /\ barrier' = [b \in Barriers |-> [state |-> "filling", in |-> {}]]
      /\ ~aborted' /\ ~released' /\ ~dmlDone' /\ ~told' /\ open' = {}
      BY <1>1, <1>2 DEF Fresh
<1>9. Starting' BY <1>1, <1>5, <1>6, <1>7, <1>8 DEF Starting
<1> QED BY <1>9, FreshStart, PTL

LEMMA ClientKeeps ==
    ASSUME IInv, NEW w \in Clients, Client(w)
    PROVE  IInv'
<1>1. driver = "clients" /\ w \in Workers /\ w \in Actors
      BY Names DEF Client, Workers
<1>2. CASE Dequeue(w) \/ Connect(w, "admission") \/ Tries(w, "write", "dml")
      BY <1>1, <1>2, WorkerMoves DEF Dequeue, Connect, Tries
<1>3. CASE Meet(w, "admission", "admission", "write") \/ Meet(w, "dml", "dml", "release")
      BY <1>1, <1>3, ClientMeets
<1>4. CASE AwaitRelease(w) BY <1>1, <1>4, AwaitReleaseKeeps
<1>5. CASE Tries(w, "commit", "committed") \/ Moves(w, "rollback", "rolledback")
      BY <1>1, <1>5, WorkerMoves DEF Tries
<1>6. CASE Aborts(w) BY <1>1, <1>6, AbortKeeps
<1> QED BY <1>2, <1>3, <1>4, <1>5, <1>6 DEF Client, Failing

LEMMA CoordinatorKeeps ==
    ASSUME IInv, Coordinator
    PROVE  IInv'
<1>1. driver = "clients" /\ Main \in Actors /\ Workers = Clients
      BY Names DEF Coordinator, Workers
<1>2. CASE Meet(Main, "dml", "dml", "observe") BY <1>1, <1>2, CoordinatorMeets
<1>3. CASE Observe("tell") \/ Observe("abort") BY <1>1, <1>3, ObserveKeeps
<1>4. CASE Release BY <1>4, ReleaseKeeps
<1>5. CASE Result("v1", "v2", "abort")
      BY <1>1, <1>5, MovesSame, MainMoves DEF Result
<1>6. CASE Result("v2", "ok", "abort")
  <2>1. ASSUME at["v2"] = "committed", at[Main] = "v2" PROVE \A w \in Workers : at[w] = "committed"
        BY <1>1, <2>1, Names DEF IInv, OpenInv
  <2>2. CASE at["v2"] = "committed"
    <3>1. Moves(Main, "v2", "ok") BY <1>6, <2>2 DEF Result
    <3>2. at[Main] = "v2" BY <3>1 DEF Moves, Goes
    <3> QED BY <2>1, <2>2, <3>1, <3>2, MovesSame, MainMoves
  <2>3. CASE at["v2"] # "committed"
    <3>1. Moves(Main, "v2", "abort") BY <1>6, <2>3 DEF Result
    <3> QED BY <1>1, <3>1, MovesSame, MainMoves
  <2> QED BY <2>2, <2>3
<1>7. CASE Aborts(Main) BY <1>1, <1>7, AbortKeeps
<1>8. CASE Moves(Main, "rollback", "raised") \/ Moves(Main, "leaving", "left")
      BY <1>1, <1>8, MovesSame, MainMoves
<1>9. CASE Submit BY <1>9, SubmitKeeps
<1> QED BY <1>2, <1>3, <1>4, <1>5, <1>6, <1>7, <1>8, <1>9 DEF Coordinator

LEMMA WriterKeeps ==
    ASSUME IInv, NEW w \in Clients, Writer(w)
    PROVE  IInv'
<1> USE DEF IInv
<1>1. driver = "backfill" /\ w \in Actors /\ w # Main BY Names DEF Writer
<1>2. w = "v1" /\ w \in Workers
      BY <1>1, Names
         DEF Writer, Connect, Tries, SetReady, Update, SetDone, AwaitRelease,
             ReleaseTimeout,
         Failing, Aborts, Abort, Moves, Goes, PlaceInv, Workers
<1>3. CASE Connect(w, "ready") \/ Update(w)
      BY <1>1, <1>2, <1>3, WorkerMoves DEF Connect, Tries, Update
<1>4. CASE ReleaseTimeout(w) \/ Tries(w, "commit", "committed") \/ Moves(w, "rollback", "rolledback")
      BY <1>1, <1>2, <1>4, WorkerMoves DEF Tries, ReleaseTimeout
<1>5. CASE AwaitRelease(w) BY <1>2, <1>5, AwaitReleaseKeeps
<1>6. CASE SetReady(w) \/ SetDone(w)
  <2>1. PICK from \in {"ready", "done"}, to \in {"update", "release"} :
           /\ Goes(w, from, to) /\ <<from, to>> \in {<<"ready", "update">>, <<"done", "release">>}
           /\ UNCHANGED <<driver, barrier, aborted, released, told, open>>
           /\ dmlDone' = IF to = "release" THEN TRUE ELSE dmlDone
        BY <1>6 DEF SetReady, SetDone, notes
  <2>2. Onward(w, from, to)
        BY <1>1, <1>2, <2>1, Names
           DEF Onward, Mine, WriterPlaces, Failed, Aborting, Met
  <2>3. Advances(w, to)
        BY <1>2, <2>1 DEF Advances, EventInv, Failed, Aborting, Met, Goes
  <2>4. \A b \in Barriers : Beside(b, from, to)
        BY <1>1, <2>1 DEF Beside, In, Before, Coming, Gone
  <2> QED BY <1>1, <2>1, <2>2, <2>3, <2>4, OnwardKeeps
<1>7. CASE Aborts(w) BY <1>1, <1>7, AbortKeeps
<1> QED BY <1>3, <1>4, <1>5, <1>6, <1>7 DEF Writer, Failing

LEMMA BatchKeeps ==
    ASSUME IInv, Batch
    PROVE  IInv'
<1>1. driver = "backfill" /\ Main \in Actors /\ Workers = {"v1"}
      BY Names DEF Batch, Workers
<1>2. CASE WaitPid \/ SeeBlocked
      BY <1>1, <1>2, MovesSame, MainMoves DEF WaitPid, SeeBlocked
<1>3. CASE RollBack
  <2>1. CASE Moves(Main, "batch", "join") BY <1>1, <2>1, MovesSame, MainMoves
  <2>2. CASE Goes(Main, "batch", "waitdml") /\ UNCHANGED <<driver, barrier, events, notes>>
        BY <1>1, <2>2, MainMoves DEF Same, events, notes
  <2> QED BY <1>3, <2>1, <2>2 DEF RollBack
<1>4. CASE WaitDml
  <2>1. CASE Moves(Main, "waitdml", "join") BY <1>1, <2>1, MovesSame, MainMoves
  <2>2. CASE dmlDone /\ ~aborted /\ Moves(Main, "waitdml", "observe")
    <3>1. at["v1"] \in Met BY <1>1, <2>2 DEF IInv, DoneInv
    <3> QED BY <1>1, <2>2, <3>1, MovesSame, MainMoves
  <2> QED BY <1>4, <2>1, <2>2 DEF WaitDml
<1>5. CASE Observe("tell") \/ Observe("join") BY <1>1, <1>5, ObserveKeeps
<1>6. CASE Release BY <1>6, ReleaseKeeps
<1>7. CASE Result("v1", "last", "join") \/ ResultTimeout
      BY <1>1, <1>7, MovesSame, MainMoves DEF Result, ResultTimeout
<1>8. CASE Moves(Main, "join", "abort") BY <1>1, <1>8, MovesSame, MainMoves
<1>9. CASE Tries(Main, "last", "ok")
  <2>1. CASE Moves(Main, "last", "ok")
    <3>1. at["v1"] = "committed" BY <2>1 DEF Moves, Goes, IInv, OpenInv
    <3> QED BY <1>1, <2>1, <3>1, MovesSame, MainMoves
  <2>2. CASE Moves(Main, "last", "abort") BY <1>1, <2>2, MovesSame, MainMoves
  <2> QED BY <1>9, <2>1, <2>2 DEF Tries
<1>10. CASE Aborts(Main) BY <1>1, <1>10, AbortKeeps
<1>11. CASE Raise
  <2>1. Goes(Main, "rollback", "raised") /\ UNCHANGED <<driver, barrier, events, notes>>
        BY <1>11 DEF Raise
  <2> QED BY <1>1, <2>1, MainMoves DEF Same, events, notes
<1>12. CASE Submit BY <1>12, SubmitKeeps
<1> QED BY <1>2, <1>3, <1>4, <1>5, <1>6, <1>7, <1>8, <1>9, <1>10, <1>11, <1>12 DEF Batch

LEMMA TimeoutKeeps ==
    ASSUME IInv, Timeouts
    PROVE  IInv'
<1>1. driver = "clients" /\ Workers = Clients BY DEF Timeouts, Workers
<1>2. ASSUME NEW a \in Actors, NEW b \in Barriers, BarrierTimeout(a, b) PROVE IInv'
  <2>1. a = Main \/ a \in Clients BY Names
  <2> QED BY <1>1, <1>2, <2>1, ClientMeets, CoordinatorMeets
<1>3. ASSUME NEW w \in Clients, ReleaseTimeout(w) PROVE IInv'
      BY <1>1, <1>3, WorkerMoves DEF ReleaseTimeout
<1>4. ASSUME NEW w \in Clients, Moves(Main, w, "abort") PROVE IInv'
      BY <1>1, <1>4, Names, MovesSame, MainMoves
<1> QED BY <1>2, <1>3, <1>4 DEF Timeouts

LEMMA InitIInv == Init => IInv
<1> SUFFICES ASSUME Init PROVE IInv OBVIOUS
<1>1. /\ driver \in {"clients", "backfill"} /\ at \in [Actors -> Places] /\ at[Main] = "submit"
      /\ \A w \in Clients : at[w] = IF w \in Workers THEN "queued" ELSE "absent"
  <2>1. driver \in {"clients", "backfill"} BY DEF Init
  <2>2. at = [a \in Actors |-> IF a = Main THEN "submit"
                              ELSE IF a \in Workers THEN "queued" ELSE "absent"]
        BY DEF Init
  <2>3. {"submit", "queued", "absent"} \subseteq Places
        BY DEF Places, ClientPlaces, CoordinatorPlaces
  <2> QED BY <2>1, <2>2, <2>3, Names
<1>2. Fresh BY <1>1 DEF Init, Fresh
<1>3. EventInv BY DEF Init, EventInv
<1>4. PlaceInv
      BY <1>1, Names
         DEF PlaceInv, Workers, ClientPlaces, CoordinatorPlaces, WriterPlaces,
             BatchPlaces
<1>5. Starting BY <1>1, <1>2, <1>3, <1>4 DEF Starting, Fresh
<1> QED BY <1>5, FreshStart

LEMMA StepIInv == IInv /\ [Next]_vars => IInv'
<1> SUFFICES ASSUME IInv, [Next]_vars PROVE IInv' OBVIOUS
<1>1. CASE \E w \in Clients : Worker(w) BY <1>1, ClientKeeps, WriterKeeps DEF Worker
<1>2. CASE Coordinator \/ Batch \/ Timeouts
      BY <1>2, CoordinatorKeeps, BatchKeeps, TimeoutKeeps
<1>3. CASE UNCHANGED vars
  <2>1. UNCHANGED <<driver, at, barrier, aborted, released, dmlDone, told, open>>
        BY <1>3 DEF vars, events, notes
  <2>2. PlaceInv' /\ EventInv' BY <2>1 DEF IInv, PlaceInv, EventInv
  <2>3. BarrierInv' /\ MeetingInv'
        BY <2>1 DEF IInv, BarrierInv, MeetingInv, Gathering, Parting
  <2>4. AbortInv' /\ ToldInv' BY <2>1 DEF IInv, AbortInv, ToldInv
  <2>5. DoneInv' /\ OpenInv' BY <2>1 DEF IInv, DoneInv, OpenInv, Workers
  <2>6. StartInv' /\ BrokenInv' BY <2>1 DEF IInv, StartInv, Fresh, BrokenInv, Workers
  <2> QED BY <2>2, <2>3, <2>4, <2>5, <2>6 DEF IInv
<1> QED BY <1>1, <1>2, <1>3 DEF Next, Over

(* The strengthened invariant holds in every reachable state.              *)
THEOREM Invariance == Spec => []IInv
BY InitIInv, StepIInv, PTL DEF Spec

-----------------------------------------------------------------------------
(* The theorems.                                                           *)

(* The two promises of sync.py to the drivers of contract.py: no commit    *)
(* but a released one, and no success but with every transaction observed  *)
(* open at once and committed since.                                       *)
THEOREM WindowsHold == Spec => []WindowHolds
<1>1. IInv => CommitsReleased BY DEF IInv, ToldInv, CommitsReleased
<1>2. IInv => SuccessIsReal
  <2> SUFFICES ASSUME IInv, at[Main] = "ok"
               PROVE  open = Workers /\ \A w \in Workers : at[w] = "committed"
      BY DEF SuccessIsReal
  <2>1. \A w \in Workers : at[w] = "committed" BY DEF IInv, OpenInv
  <2>2. \A w \in Workers \ open : at[w] \in Failed BY DEF IInv, OpenInv
  <2>3. Workers \ open = {} BY <2>1, <2>2 DEF Failed, Aborting
  <2> QED BY <2>1, <2>3 DEF IInv, OpenInv
<1> QED BY <1>1, <1>2, Invariance, PTL DEF WindowHolds

LEMMA BarriersFill ==
    ASSUME IInv, driver = "clients", NEW b \in Barriers, NEW a \in Actors, at[a] = In(b),
           barrier[b].state = "filling", Silent => aborted
    PROVE  \/ \E p \in Parties(b) : at[p] \in Coming(b)
           \/ \E p \in Actors : at[p] \in {"abort", "break"}
<1>1. CASE aborted BY <1>1 DEF IInv, BrokenInv
<1>2. CASE ~aborted
  <2>1. barrier[b].in # {} BY DEF IInv, BarrierInv
  <2>2. Gathering(b) BY <2>1 DEF IInv, MeetingInv, Parting
  <2>3. PICK p \in Parties(b) : at[p] \in Before(b) \union Failed
        BY <2>2 DEF Gathering
  <2>4. p \in Actors BY Names
  <2>5. at[p] \in Failed => at[p] = "abort" BY <1>2, <2>4 DEF IInv, AbortInv
  <2>6. at[Main] \notin {"leaving", "left"} /\ \A w \in Clients : at[w] # "unconnected"
        BY <1>2 DEF Silent
  <2>7. at[Main] # "submit"
        BY <2>1 DEF IInv, StartInv, Fresh
  <2>8. \A w \in Clients : at[w] \notin {"queued", "absent"}
        BY <2>6, <2>7 DEF IInv, StartInv
  <2>9. at[p] \notin {"queued", "submit"} \union Gone
    <3>1. CASE p \in Clients
          BY <2>6, <2>8, <3>1 DEF Gone, IInv, PlaceInv, ClientPlaces, Aborting, Clients
    <3>2. CASE p = Main
          BY <2>6, <2>7, <3>2 DEF Gone, IInv, PlaceInv, CoordinatorPlaces, Aborting
    <3> QED BY <2>4, <3>1, <3>2, Names
  <2> QED BY <2>3, <2>4, <2>5, <2>9 DEF Before
<1> QED BY <1>1, <1>2 DEF IInv, EventInv

(* In the client window nobody waits for somebody who waits for him, and   *)
(* no wait needs its timeout: abort() reaches every waiter (sync.py).  The *)
(* exception is a connection or a thread that could not be had, after      *)
(* which somebody's timeout comes first (contract.py:927, 970-971).        *)
THEOREM NobodyIsStranded == Spec => []NobodyStranded
<1>1. IInv => NobodyStranded
  <2> SUFFICES ASSUME IInv, driver = "clients" PROVE NobodyStranded
      BY DEF NobodyStranded
  <2>1. ASSUME NEW w \in Clients, at[w] = "release", ~released
        PROVE  at[Main] \in {"dml", "dml_in", "observe", "tell", "abort", "break", "free"}
    <3>1. at[Main] \in CoordinatorPlaces BY DEF IInv, PlaceInv
    <3>2. at[Main] \notin {"v1", "v2", "ok"} BY <2>1 DEF IInv, ToldInv
    <3>3. at[Main] \notin {"rollback", "raised"}
          BY <2>1, Names DEF IInv, AbortInv, Failed, Aborting
    <3>4. at[Main] \notin {"submit", "leaving", "left"}
      <4>1. Parting("dml")
            BY <2>1, Names
               DEF IInv, MeetingInv, Barriers, Gathering, Parties, Before, Coming, Gone, In,
               Failed, Aborting
      <4> QED BY <4>1, Names DEF Parting, Parties, Before, Gone
    <3> QED BY <3>1, <3>2, <3>3, <3>4 DEF CoordinatorPlaces, Aborting
  <2>2. ASSUME at[Main] \in {"v1", "v2", "rollback", "raised"}
        PROVE  /\ released
               /\ \A b \in Barriers, w \in Clients : at[w] = In(b) => barrier[b].state # "filling"
    <3>1. CASE at[Main] \in {"rollback", "raised"}
          BY <3>1, Names DEF IInv, AbortInv, Failed, Aborting
    <3>2. CASE at[Main] \in {"v1", "v2"}
      <4>1. released BY <3>2 DEF IInv, ToldInv
      <4>2. Parting("dml")
            BY <3>2, Names
               DEF IInv, MeetingInv, Barriers, Gathering, Parties, Before, Coming, Gone, In,
               Failed, Aborting
      <4>3. ASSUME NEW b \in Barriers, NEW w \in Clients, at[w] = In(b)
            PROVE  barrier[b].state # "filling"
        <5>1. b = "dml"
              BY <4>2, <4>3, Names DEF Parting, Parties, Before, Coming, Gone, Barriers
        <5>2. barrier[b].in # {} BY <4>3, Names DEF IInv, BarrierInv
        <5> QED BY <4>2, <5>1, <5>2 DEF Parting
      <4> QED BY <4>1, <4>3
    <3> QED BY <2>2, <3>1, <3>2
  <2> QED BY <2>1, <2>2, BarriersFill DEF NobodyStranded
<1> QED BY <1>1, Invariance, PTL

-----------------------------------------------------------------------------
(* No step goes back.                                                      *)

LEMMA LeftIs ==
    /\ Left["begin"] = 16 /\ Left["admission"] = 15 /\ Left["admission_in"] = 14
    /\ Left["write"] = 13 /\ Left["ready"] = 13 /\ Left["dml"] = 12 /\ Left["update"] = 12
    /\ Left["dml_in"] = 11 /\ Left["done"] = 11 /\ Left["release"] = 10 /\ Left["commit"] = 6
    /\ Left["pid"] = 16 /\ Left["blocked"] = 15 /\ Left["batch"] = 14 /\ Left["waitdml"] = 13
    /\ Left["observe"] = 10 /\ Left["tell"] = 9 /\ Left["v1"] = 8 /\ Left["v2"] = 7
    /\ Left["last"] = 7 /\ Left["join"] = 5 /\ Left["abort"] = 4 /\ Left["break"] = 3
    /\ Left["free"] = 2 /\ Left["rollback"] = 1 /\ Left["committed"] = 0
    /\ Left["submit"] = 17 /\ Left["queued"] = 17 /\ Left["leaving"] = 5 /\ Left["left"] = 0
    /\ Left["unconnected"] = 0 /\ Left["rolledback"] = 0 /\ Left["absent"] = 0 /\ Left["ok"] = 0 /\ Left["raised"] = 0
BY DEF Left

LEMMA LeftRange == ASSUME NEW l \in Places PROVE Left[l] \in 0..17
BY LeftIs
   DEF Places, ClientPlaces, CoordinatorPlaces, WriterPlaces, BatchPlaces, Aborting

(* Somebody goes to where less is left.                                    *)
Nearer(a) == \E from \in Places, to \in Places : Goes(a, from, to) /\ Left[to] < Left[from]

LEMMA NearerLowers ==
    ASSUME PlaceInv, NEW a \in Actors, Nearer(a)
    PROVE  RankFalls
<1>1. PICK from \in Places, to \in Places : Goes(a, from, to) /\ Left[to] < Left[from]
      BY DEF Nearer
<1>2. /\ at' \in [Actors -> Places] /\ at[a] = from /\ at'[a] = to
      /\ \A x \in Actors : x # a => at'[x] = at[x]
      BY <1>1, GoesTo
<1>3. \A x \in Actors : Left[at[x]] \in Int /\ Left[at'[x]] \in Int
      BY <1>2, LeftRange DEF PlaceInv
<1>4. \A x \in Actors : Left[at'[x]] = IF x = a THEN Left[to] ELSE Left[at[x]]
      BY <1>2
<1>5. CASE a = "v1" BY <1>1, <1>2, <1>3, <1>4, <1>5, Names DEF RankFalls, Rank
<1>6. CASE a = "v2" BY <1>1, <1>2, <1>3, <1>4, <1>6, Names DEF RankFalls, Rank
<1>7. CASE a = Main BY <1>1, <1>2, <1>3, <1>4, <1>7, Names DEF RankFalls, Rank
<1> QED BY <1>5, <1>6, <1>7, Names

(* Submitted is nearer than queued, and waiting for it.                    *)
LEMMA SubmitLowers ==
    ASSUME IInv, Submit
    PROVE  RankFalls
<1>1. /\ at[Main] = "submit" /\ \A w \in Clients : at[w] \in {"queued", "absent"}
      /\ PlaceInv /\ driver \in {"clients", "backfill"}
      /\ driver = "backfill" => at["v2"] = "absent"
      /\ at["v1"] = "queued"
      BY Names DEF Submit, IInv, StartInv, Fresh, PlaceInv
<1>2. Left[at[Main]] = 17 /\ Left[at["v1"]] = 17 /\ Left[at["v2"]] \in 0..17
      BY <1>1, LeftIs, Names
<1>3. Left[at'[Main]] \in 0..16 /\ Left[at'["v1"]] \in 0..16
      BY <1>1, SubmitTo, LeftIs
<1>4. Left[at'["v2"]] \in 0..17 /\ Left[at'["v2"]] <= Left[at["v2"]]
  <2>1. driver = "clients" => at["v2"] = "queued"
        BY <1>1, Names DEF Submit, IInv, StartInv, Fresh, Workers
  <2> QED BY <1>1, <2>1, SubmitTo, LeftIs
<1> QED BY <1>2, <1>3, <1>4 DEF RankFalls, Rank

LEMMA RankIsNatural == PlaceInv => Rank \in 0..51
<1> SUFFICES ASSUME PlaceInv PROVE Rank \in 0..51 OBVIOUS
<1>1. \A x \in Actors : Left[at[x]] \in 0..17 BY LeftRange DEF PlaceInv
<1>2. Left[at["v1"]] \in 0..17 /\ Left[at["v2"]] \in 0..17 /\ Left[at[Main]] \in 0..17
      BY <1>1, Names
<1> QED BY <1>2 DEF Rank

(* The literal places.                                                     *)
LEMMA PlaceNames ==
    /\ {"begin", "admission", "admission_in", "write", "ready", "dml", "update", "dml_in",
        "done", "release", "commit", "committed", "rolledback"} \subseteq Places
    /\ {"queued", "unconnected", "leaving", "left"} \subseteq Places
    /\ {"pid", "blocked", "batch", "waitdml", "observe", "tell", "v1", "v2", "last", "join",
        "ok", "raised"} \subseteq Places
    /\ {"abort", "break", "free", "rollback"} \subseteq Places
BY DEF Places, ClientPlaces, CoordinatorPlaces, WriterPlaces, BatchPlaces, Aborting

LEMMA AbortNearer == ASSUME NEW a, Abort(a) PROVE Nearer(a)
BY LeftIs, PlaceNames DEF Abort, Nearer

LEMMA MeetNearer ==
    ASSUME NEW a, NEW b \in Barriers,
           \/ Meet(a, "admission", "admission", "write") \/ Meet(a, "dml", "dml", "release")
           \/ Meet(a, "dml", "dml", "observe") \/ BarrierTimeout(a, b)
    PROVE  Nearer(a)
BY LeftIs, PlaceNames, Names
   DEF Meet, Arrive, Leave, BarrierTimeout, In, Barriers, Nearer

LEMMA ClientNearer == ASSUME NEW w \in Clients, Client(w) PROVE Nearer(w)
<1>1. CASE \/ Tries(w, "write", "dml") \/ AwaitRelease(w)
           \/ Tries(w, "commit", "committed") \/ Moves(w, "rollback", "rolledback")
      BY <1>1, LeftIs, PlaceNames DEF Tries, AwaitRelease, Moves, Nearer
<1>2. CASE Meet(w, "admission", "admission", "write") \/ Meet(w, "dml", "dml", "release")
      BY <1>2, MeetNearer DEF Barriers
<1>3. CASE Aborts(w) BY <1>3, AbortNearer DEF Aborts
<1>4. CASE Dequeue(w) \/ Connect(w, "admission")
      BY <1>4, LeftIs, PlaceNames DEF Dequeue, Connect, Tries, Moves, Nearer
<1> QED BY <1>1, <1>2, <1>3, <1>4 DEF Client, Failing

LEMMA WriterNearer == ASSUME NEW w \in Clients, Writer(w) PROVE Nearer(w)
<1>1. CASE \/ Connect(w, "ready") \/ SetReady(w) \/ Update(w) \/ SetDone(w)
      BY <1>1, LeftIs, PlaceNames
         DEF Connect, Tries, SetReady, Update, SetDone, Moves, Nearer
<1>2. CASE \/ AwaitRelease(w) \/ ReleaseTimeout(w) \/ Tries(w, "commit", "committed")
           \/ Moves(w, "rollback", "rolledback")
      BY <1>2, LeftIs, PlaceNames
         DEF Tries, AwaitRelease, ReleaseTimeout, Moves, Nearer
<1>3. CASE Aborts(w) BY <1>3, AbortNearer DEF Aborts
<1> QED BY <1>1, <1>2, <1>3 DEF Writer, Failing

LEMMA CoordinatorNearer == ASSUME Coordinator PROVE Submit \/ Nearer(Main)
<1>1. CASE Meet(Main, "dml", "dml", "observe") BY <1>1, MeetNearer DEF Barriers
<1>2. CASE \/ Observe("tell") \/ Observe("abort") \/ Release \/ Moves(Main, "rollback", "raised")
           \/ Moves(Main, "leaving", "left")
      BY <1>2, LeftIs, PlaceNames DEF Observe, Release, Moves, Nearer
<1>3. CASE Result("v1", "v2", "abort") \/ Result("v2", "ok", "abort")
      BY <1>3, LeftIs, PlaceNames DEF Result, Moves, Nearer
<1>4. CASE Aborts(Main) BY <1>4, AbortNearer DEF Aborts
<1> QED BY <1>1, <1>2, <1>3, <1>4 DEF Coordinator

LEMMA BatchNearer == ASSUME Batch PROVE Submit \/ Nearer(Main)
<1>1. CASE WaitPid \/ SeeBlocked \/ RollBack \/ WaitDml
      BY <1>1, LeftIs, PlaceNames
         DEF WaitPid, SeeBlocked, RollBack, WaitDml, Moves, Nearer
<1>2. CASE Observe("tell") \/ Observe("join") \/ Release \/ Raise
      BY <1>2, LeftIs, PlaceNames DEF Observe, Release, Raise, Nearer
<1>3. CASE \/ Result("v1", "last", "join") \/ ResultTimeout \/ Moves(Main, "join", "abort")
           \/ Tries(Main, "last", "ok")
      BY <1>3, LeftIs, PlaceNames DEF Result, ResultTimeout, Tries, Moves, Nearer
<1>4. CASE Aborts(Main) BY <1>4, AbortNearer DEF Aborts
<1> QED BY <1>1, <1>2, <1>3, <1>4 DEF Batch

LEMMA TimeoutNearer == ASSUME Timeouts PROVE \E a \in Actors : Nearer(a)
<1>1. ASSUME NEW a \in Actors, NEW b \in Barriers, BarrierTimeout(a, b) PROVE Nearer(a)
      BY <1>1, MeetNearer
<1>2. ASSUME NEW w \in Clients, ReleaseTimeout(w) PROVE Nearer(w)
      BY <1>2, LeftIs, PlaceNames DEF ReleaseTimeout, Moves, Nearer
<1>3. ASSUME NEW w \in Clients, Moves(Main, w, "abort") PROVE Nearer(Main)
      BY <1>3, LeftIs, PlaceNames, Names DEF Moves, Nearer
<1> QED BY <1>1, <1>2, <1>3, Names DEF Timeouts

(* No actor ever does a step again, whatever fails and whatever times out: *)
(* a run of either driver takes at most 51 steps.  With the theorem above, *)
(* what AllEnd rests on.                                                   *)
THEOREM RunIsBounded == Spec => [](Rank \in 0..51) /\ [][RankFalls]_vars
<1>1. IInv => Rank \in 0..51 BY RankIsNatural DEF IInv
<1>2. IInv /\ [Next]_vars => [RankFalls]_vars
  <2> SUFFICES ASSUME IInv, Next PROVE RankFalls \/ UNCHANGED vars OBVIOUS
  <2>1. ASSUME NEW a \in Actors, Nearer(a) PROVE RankFalls
        BY <2>1, NearerLowers DEF IInv
  <2>2. CASE \E w \in Clients : Worker(w)
        BY <2>1, <2>2, ClientNearer, WriterNearer, Names DEF Worker
  <2>3. CASE Coordinator \/ Batch
        BY <2>1, <2>3, CoordinatorNearer, BatchNearer, SubmitLowers, Names
  <2>4. CASE Timeouts BY <2>1, <2>4, TimeoutNearer
  <2> QED BY <2>2, <2>3, <2>4 DEF Next, Over
<1> QED BY <1>1, <1>2, Invariance, PTL DEF Spec

=============================================================================
