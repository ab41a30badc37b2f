----------------------- MODULE ServerLifecycleProofs -----------------------
(***************************************************************************)
(* Proofs about ServerLifecycle, for any number of replicas, calls and     *)
(* faults: no call finds the server unprepared, and a stop loses none.     *)
(***************************************************************************)
EXTENDS ServerLifecycle, TLAPS

Starting == {"down", "connect", "getProject", "createProject"}
Servable == {"markReady", "watchSignals", "serving", "markNotReady", "closeListener"}
Stopping == {"gracefulStop", "shutdownHttp"}

\* How far the start of r has come is what it relies on: whoever created the project
\* and the indices, they are there.
ReplicaShape(r) ==
  /\ pc[r] \in Starting => created[r] = 0
  /\ pc[r] = "createIndex" =>
       /\ project /\ created[r] < Len(IndexKinds)
       /\ \A i \in 1..created[r] : IndexKinds[i] \in indices
  /\ pc[r] \in {"loadPermissions", "startServers"} \cup Servable \cup Stopping =>
       project /\ indices = Indices
  /\ pc[r] \in {"startServers"} \cup Servable \cup Stopping => loaded[r]
  /\ accepting[r] => pc[r] \in Servable
  /\ ready[r] => pc[r] \in {"watchSignals", "serving", "markNotReady"}

\* A call under way is at a process that lives; one that was accepted, at one that
\* came as far as its servers.
CallShape(c) ==
  /\ IF call[c] \in Open THEN at[c] \in Replica /\ pc[at[c]] # "down" ELSE at[c] = Nowhere
  /\ call[c] \in {"gateway", "running"} => pc[at[c]] \in Servable \cup Stopping
  /\ call[c] = "running" => pc[at[c]] # "shutdownHttp"

ShapeInv ==
  /\ TypeOK
  /\ \A r \in Replica : ReplicaShape(r)
  /\ \A c \in Call : CallShape(c)

----------------------------------------------------------------------------
\* initialize creates five indices.
LEMMA FiveIndices == Len(IndexKinds) = 5 /\ Indices = {IndexKinds[i] : i \in 1..5}
  BY DEF IndexKinds, Indices

\* Nothing has started.
LEMMA ShapeInit == Init => ShapeInv
<1> SUFFICES ASSUME Init PROVE ShapeInv
  OBVIOUS
<1>1. TypeOK
  <2>1. 0 \in 0..Len(IndexKinds) /\ 0 \in 0..MaxFaults
    BY FiveIndices, FaultAssumption
  <2>2. {loaded, accepting, ready, stopped} \subseteq [Replica -> BOOLEAN]
    BY DEF Init
  <2> QED
    BY <2>1, <2>2 DEF Init, TypeOK, Label, CallState
<1>2. \A r \in Replica : ReplicaShape(r)
  BY DEF Init, ReplicaShape, Starting, Servable, Stopping
<1>3. \A c \in Call : CallShape(c)
  BY DEF Init, CallShape, Open
<1> QED
  BY <1>1, <1>2, <1>3 DEF ShapeInv

\* A step that leaves the other replicas and their calls alone, and takes nothing from
\* the backends, keeps what they rely on.
LocalTo(r) ==
  /\ \A q \in Replica \ {r} :
       /\ pc'[q] = pc[q] /\ created'[q] = created[q] /\ loaded'[q] = loaded[q]
       /\ accepting'[q] = accepting[q] /\ ready'[q] = ready[q]
  /\ \A c \in Call : at[c] # r => call'[c] = call[c] /\ at'[c] = at[c]
  /\ (project => project') /\ indices \subseteq indices'

LEMMA OthersKeepShape ==
  ASSUME ShapeInv, TypeOK', NEW r \in Replica, LocalTo(r),
         ReplicaShape(r)', \A c \in CallsAt(r) : CallShape(c)'
  PROVE  ShapeInv'
<1>1. \A q \in Replica : ReplicaShape(q)'
  <2> SUFFICES ASSUME NEW q \in Replica \ {r} PROVE ReplicaShape(q)'
    OBVIOUS
  <2>1. /\ pc'[q] = pc[q] /\ created'[q] = created[q] /\ loaded'[q] = loaded[q]
        /\ accepting'[q] = accepting[q] /\ ready'[q] = ready[q]
        /\ (project => project') /\ indices \subseteq indices'
    BY DEF LocalTo
  <2>2. ReplicaShape(q)
    BY DEF ShapeInv
  <2>3. indices = Indices => indices' = Indices
    BY <2>1 DEF TypeOK
  <2>4. /\ pc'[q] \in Starting => created'[q] = 0
        /\ accepting'[q] => pc'[q] \in Servable
        /\ ready'[q] => pc'[q] \in {"watchSignals", "serving", "markNotReady"}
        /\ pc'[q] \in {"startServers"} \cup Servable \cup Stopping => loaded'[q]
    BY <2>1, <2>2 DEF ReplicaShape
  <2>5. pc'[q] = "createIndex" =>
          /\ project' /\ created'[q] < Len(IndexKinds)
          /\ \A i \in 1..created'[q] : IndexKinds[i] \in indices'
    BY <2>1, <2>2 DEF ReplicaShape
  <2>6. pc'[q] \in {"loadPermissions", "startServers"} \cup Servable \cup Stopping =>
          project' /\ indices' = Indices
    BY <2>1, <2>2, <2>3 DEF ReplicaShape
  <2> QED
    BY ONLY <2>4, <2>5, <2>6 DEF ReplicaShape
<1>2. \A c \in Call : CallShape(c)'
  BY DEF ShapeInv, LocalTo, CallShape, CallsAt, Open
<1> QED
  BY <1>1, <1>2 DEF ShapeInv

\* A process that is gone has no calls and remembers nothing.
LEMMA DeathKeepsShape ==
  ASSUME ShapeInv, NEW r \in Replica, Dies(r),
         stopped' \in [Replica -> BOOLEAN], faults' \in 0..MaxFaults
  PROVE  ShapeInv'
<1>1. TypeOK'
  <2>1. created' \in [Replica -> 0..Len(IndexKinds)]
    BY FiveIndices DEF ShapeInv, TypeOK, Dies
  <2>2. {loaded, accepting, ready, stopped}' \subseteq [Replica -> BOOLEAN]
    BY DEF ShapeInv, TypeOK, Dies
  <2>3. call' \in [Call -> CallState] /\ at' \in [Call -> Replica \cup {Nowhere}]
    BY DEF ShapeInv, TypeOK, Dies, EndCalls, CallState
  <2>4. pc' \in [Replica -> Label]
    BY DEF ShapeInv, TypeOK, Dies, Label
  <2> QED
    BY <2>1, <2>2, <2>3, <2>4 DEF ShapeInv, TypeOK, Dies, backends
<1>2. LocalTo(r)
  BY DEF ShapeInv, TypeOK, LocalTo, Dies, EndCalls, backends, CallsAt
<1>3. ReplicaShape(r)'
  BY DEF ShapeInv, TypeOK, ReplicaShape, Dies, Servable, Stopping
<1>4. \A c \in CallsAt(r) : CallShape(c)'
  BY DEF ShapeInv, TypeOK, CallShape, Dies, EndCalls, CallsAt, Open
<1> QED
  BY <1>1, <1>2, <1>3, <1>4, OthersKeepShape

\* A step of the main goroutine that loses no call: the other parts of its shape are
\* those of where it goes.
LEMMA AdvanceKeepsShape ==
  ASSUME ShapeInv, NEW r \in Replica, NEW from, NEW to \in Label, Goto(r, from, to),
         UNCHANGED <<backends, created, loaded, accepting, stopped, clients, faults>>,
         to # "down", from \in Servable \cup Stopping => to \in Servable \cup Stopping,
         to # "shutdownHttp" \/ \A c \in CallsAt(r) : call[c] # "running",
         ready' \in [Replica -> BOOLEAN],
         \A q \in Replica \ {r} : ready'[q] = ready[q],
         ReplicaShape(r)'
  PROVE  ShapeInv'
<1>1. TypeOK'
  BY DEF ShapeInv, TypeOK, Goto, backends, clients
<1>2. LocalTo(r)
  BY DEF ShapeInv, TypeOK, LocalTo, Goto, backends, clients
<1>3. \A c \in CallsAt(r) : CallShape(c)'
  BY DEF ShapeInv, TypeOK, CallShape, Goto, CallsAt, clients
<1> QED
  BY <1>1, <1>2, <1>3, OthersKeepShape

\* So does a step that only moves a call.
LEMMA CallKeepsShape ==
  ASSUME ShapeInv, NEW c \in Call, NEW state \in CallState, NEW where \in Replica \cup {Nowhere},
         call' = [call EXCEPT ![c] = state], at' = [at EXCEPT ![c] = where],
         UNCHANGED <<backends, process, faults>>,
         CallShape(c)'
  PROVE  ShapeInv'
<1>1. TypeOK'
  BY DEF ShapeInv, TypeOK, backends, process
<1>2. \A r \in Replica : ReplicaShape(r)'
  BY DEF ShapeInv, ReplicaShape, backends, process
<1>3. \A d \in Call : CallShape(d)'
  <2>1. \A d \in Call \ {c} : CallShape(d)'
    BY DEF ShapeInv, TypeOK, CallShape, process
  <2> QED
    BY <2>1
<1> QED
  BY <1>1, <1>2, <1>3 DEF ShapeInv

----------------------------------------------------------------------------
\* The step.
LEMMA StartStep ==
  ASSUME ShapeInv, NEW r \in Replica,
         Start(r) \/ Connect(r) \/ GetProject(r) \/ StartServers(r) \/ WatchSignals(r)
           \/ Signal(r) \/ GracefulStop(r) \/ Ready(r) \/ NotReady(r)
  PROVE  ShapeInv'
<1>0. TypeOK /\ ReplicaShape(r)
  BY DEF ShapeInv
<1>1. CASE Start(r)
  BY <1>0, <1>1, AdvanceKeepsShape
  DEF Start, Goto, TypeOK, ReplicaShape, Label, Starting, Servable, Stopping, backends, clients
<1>2. CASE Connect(r)
  BY <1>0, <1>2, AdvanceKeepsShape
  DEF Connect, Goto, TypeOK, ReplicaShape, Label, Starting, Servable, Stopping, backends, clients
<1>3. CASE GetProject(r)
  <2> DEFINE to == IF project THEN "createIndex" ELSE "createProject"
  <2>1. to \in Label \ {"down", "shutdownHttp"} /\ Goto(r, "getProject", to)
    BY <1>3 DEF GetProject, Label
  <2>2. ReplicaShape(r)'
    BY <1>0, <1>3, FiveIndices
    DEF GetProject, Goto, TypeOK, ReplicaShape, Starting, Servable, Stopping, backends
  <2>3. /\ UNCHANGED <<backends, created, loaded, accepting, stopped, clients, faults>>
        /\ ready' = ready /\ ready \in [Replica -> BOOLEAN]
        /\ "getProject" \notin Servable \cup Stopping
    BY <1>0, <1>3 DEF GetProject, TypeOK, Servable, Stopping
  <2> HIDE DEF to
  <2> QED
    BY <2>1, <2>2, <2>3, AdvanceKeepsShape
<1>4. CASE StartServers(r)
  <2>1. ReplicaShape(r)'
    BY <1>0, <1>4
    DEF StartServers, Goto, TypeOK, ReplicaShape, Starting, Servable, Stopping, backends
  <2>2. ready' = ready /\ ready \in [Replica -> BOOLEAN]
    BY <1>0, <1>4 DEF StartServers, TypeOK
  <2> QED
    BY <1>4, <2>1, <2>2, AdvanceKeepsShape DEF StartServers, Label, Servable, Stopping
<1>5. CASE WatchSignals(r)
  <2>1. ReplicaShape(r)'
    BY <1>0, <1>5
    DEF WatchSignals, Goto, TypeOK, ReplicaShape, Starting, Servable, Stopping, backends
  <2>2. ready' = ready /\ ready \in [Replica -> BOOLEAN]
    BY <1>0, <1>5 DEF WatchSignals, TypeOK
  <2> QED
    BY <1>5, <2>1, <2>2, AdvanceKeepsShape DEF WatchSignals, Label, Servable, Stopping
<1>6. CASE Signal(r)
  <2>1. ReplicaShape(r)'
    BY <1>0, <1>6
    DEF Signal, Goto, TypeOK, ReplicaShape, Starting, Servable, Stopping, backends
  <2>2. ready' = ready /\ ready \in [Replica -> BOOLEAN]
    BY <1>0, <1>6 DEF Signal, TypeOK
  <2> QED
    BY <1>6, <2>1, <2>2, AdvanceKeepsShape DEF Signal, Label, Servable, Stopping
<1>7. CASE GracefulStop(r)
  <2>1. ReplicaShape(r)'
    BY <1>0, <1>7
    DEF GracefulStop, Goto, TypeOK, ReplicaShape, Starting, Servable, Stopping, backends
  <2>2. ready' = ready /\ ready \in [Replica -> BOOLEAN]
    BY <1>0, <1>7 DEF GracefulStop, TypeOK
  <2> QED
    BY <1>7, <2>1, <2>2, AdvanceKeepsShape DEF GracefulStop, Label, Stopping
<1>8. CASE Ready(r)
  <2>1. ReplicaShape(r)'
    BY <1>0, <1>8
    DEF Ready, Goto, TypeOK, ReplicaShape, Starting, Servable, Stopping, backends
  <2>2. ready' \in [Replica -> BOOLEAN] /\ \A q \in Replica \ {r} : ready'[q] = ready[q]
    BY <1>0, <1>8 DEF Ready, TypeOK
  <2> QED
    BY <1>8, <2>1, <2>2, AdvanceKeepsShape DEF Ready, Label, Servable, Stopping
<1>9. CASE NotReady(r)
  <2>1. ReplicaShape(r)'
    BY <1>0, <1>9
    DEF NotReady, Goto, TypeOK, ReplicaShape, Starting, Servable, Stopping, backends
  <2>2. ready' \in [Replica -> BOOLEAN] /\ \A q \in Replica \ {r} : ready'[q] = ready[q]
    BY <1>0, <1>9 DEF NotReady, TypeOK
  <2> QED
    BY <1>9, <2>1, <2>2, AdvanceKeepsShape DEF NotReady, Label, Servable, Stopping
<1> QED
  BY <1>1, <1>2, <1>3, <1>4, <1>5, <1>6, <1>7, <1>8, <1>9

\* The steps of a start that change a backend, and the load of the permissions.
LEMMA PrepareStep ==
  ASSUME ShapeInv, NEW r \in Replica,
         CreateProject(r) \/ CreateIndex(r) \/ LoadServicePermissions(r) \/ Accepting(r)
  PROVE  ShapeInv'
<1>0. TypeOK /\ ReplicaShape(r)
  BY DEF ShapeInv
<1>1. CASE CreateProject(r)
  <2>1. TypeOK'
    BY <1>0, <1>1 DEF CreateProject, Goto, TypeOK, Label, clients
  <2>2. LocalTo(r)
    BY <1>0, <1>1 DEF CreateProject, Goto, TypeOK, LocalTo, clients
  <2>3. ReplicaShape(r)'
    BY <1>0, <1>1, FiveIndices
    DEF CreateProject, Goto, TypeOK, ReplicaShape, Starting, Servable, Stopping
  <2>4. \A c \in CallsAt(r) : CallShape(c)'
    BY <1>0, <1>1 DEF CreateProject, Goto, ShapeInv, TypeOK, CallShape, CallsAt, Servable, Stopping, clients
  <2> QED
    BY <2>1, <2>2, <2>3, <2>4, OthersKeepShape
<1>2. CASE CreateIndex(r)
  <2> DEFINE n == created[r] + 1
  <2>0. /\ created[r] \in 0..4 /\ n \in 1..5 /\ project /\ pc[r] = "createIndex"
        /\ \A i \in 1..created[r] : IndexKinds[i] \in indices
        /\ created' = [created EXCEPT ![r] = n]
        /\ indices' = indices \cup {IndexKinds[n]}
        /\ pc' = [pc EXCEPT ![r] = IF n = 5 THEN "loadPermissions" ELSE "createIndex"]
    BY <1>0, <1>2, FiveIndices DEF CreateIndex, Goto, TypeOK, ReplicaShape
  <2>1. TypeOK'
    BY <1>0, <1>2, <2>0, FiveIndices DEF CreateIndex, TypeOK, Label, clients
  <2>2. LocalTo(r)
    BY <1>0, <1>2, <2>0 DEF CreateIndex, TypeOK, LocalTo, clients
  <2>3. ReplicaShape(r)'
    <3>1. \A i \in 1..n : IndexKinds[i] \in indices'
      BY <2>0
    <3>2. n = 5 => indices' = Indices
      BY <3>1, <2>1, FiveIndices DEF TypeOK
    <3>3. created'[r] = n /\ pc'[r] = IF n = 5 THEN "loadPermissions" ELSE "createIndex"
      BY <1>0, <2>0 DEF TypeOK
    <3> HIDE DEF n
    <3> QED
      BY <1>0, <1>2, <2>0, <3>1, <3>2, <3>3, FiveIndices
      DEF CreateIndex, ReplicaShape, Starting, Servable, Stopping
  <2>4. \A c \in CallsAt(r) : CallShape(c)'
    BY <1>0, <1>2, <2>0 DEF CreateIndex, ShapeInv, TypeOK, CallShape, CallsAt, Servable, Stopping, clients
  <2> QED
    BY <2>1, <2>2, <2>3, <2>4, OthersKeepShape
<1>3. CASE LoadServicePermissions(r)
  <2>1. TypeOK'
    BY <1>0, <1>3 DEF LoadServicePermissions, Goto, TypeOK, Label, backends, clients
  <2>2. LocalTo(r)
    BY <1>0, <1>3 DEF LoadServicePermissions, Goto, TypeOK, LocalTo, backends, clients
  <2>3. ReplicaShape(r)'
    BY <1>0, <1>3
    DEF LoadServicePermissions, Goto, TypeOK, ReplicaShape, Starting, Servable, Stopping, backends
  <2>4. \A c \in CallsAt(r) : CallShape(c)'
    BY <1>0, <1>3
    DEF LoadServicePermissions, Goto, ShapeInv, TypeOK, CallShape, CallsAt, Servable, Stopping, clients
  <2> QED
    BY <2>1, <2>2, <2>3, <2>4, OthersKeepShape
<1>4. CASE Accepting(r)
  <2>1. TypeOK'
    BY <1>0, <1>4 DEF Accepting, TypeOK, backends, clients
  <2>2. LocalTo(r)
    BY <1>0, <1>4 DEF Accepting, TypeOK, LocalTo, backends, clients
  <2>3. ReplicaShape(r)'
    BY <1>0, <1>4 DEF Accepting, TypeOK, ReplicaShape, Starting, Servable, Stopping, backends
  <2>4. \A c \in CallsAt(r) : CallShape(c)'
    BY <1>0, <1>4 DEF Accepting, ShapeInv, CallShape, CallsAt, clients
  <2> QED
    BY <2>1, <2>2, <2>3, <2>4, OthersKeepShape
<1> QED
  BY <1>1, <1>2, <1>3, <1>4

\* The listener closes: what waits there goes, what was accepted stays.
LEMMA CloseStep ==
  ASSUME ShapeInv, NEW r \in Replica, CloseListener(r)
  PROVE  ShapeInv'
<1>0. TypeOK /\ ReplicaShape(r)
  BY DEF ShapeInv
<1>1. TypeOK'
  <2>1. call' \in [Call -> CallState] /\ at' \in [Call -> Replica \cup {Nowhere}]
    BY <1>0 DEF CloseListener, EndCalls, TypeOK, CallState
  <2> QED
    BY <1>0, <2>1 DEF CloseListener, Goto, TypeOK, Label, backends
<1>2. LocalTo(r)
  BY <1>0 DEF CloseListener, EndCalls, Goto, CallsAt, TypeOK, LocalTo, backends
<1>3. ReplicaShape(r)'
  BY <1>0
  DEF CloseListener, Goto, TypeOK, ReplicaShape, Starting, Servable, Stopping, backends
<1>4. \A c \in CallsAt(r) : CallShape(c)'
  BY <1>0
  DEF CloseListener, EndCalls, Goto, ShapeInv, TypeOK, CallShape, CallsAt, Open, Servable, Stopping
<1> QED
  BY <1>1, <1>2, <1>3, <1>4, OthersKeepShape

\* The processes that end, and the project that is created as one does.
LEMMA EndStep ==
  ASSUME ShapeInv, NEW r \in Replica,
         ProjectConflict(r) \/ SignalUnwatched(r) \/ Exit(r) \/ StartFails(r)
           \/ ProjectLost(r) \/ Crash(r)
  PROVE  ShapeInv'
<1>0. TypeOK /\ ReplicaShape(r)
  BY DEF ShapeInv
<1>1. CASE Dies(r)
  <2>1. stopped' \in [Replica -> BOOLEAN]
    BY <1>0, <1>1
    DEF TypeOK, ProjectConflict, SignalUnwatched, Exit, StartFails, ProjectLost, Crash
  <2>2. faults' \in 0..MaxFaults
    BY <1>0, FaultAssumption
    DEF TypeOK, ProjectConflict, SignalUnwatched, Exit, StartFails, ProjectLost, Crash
  <2> QED
    BY <1>1, <2>1, <2>2, DeathKeepsShape
<1>2. CASE ProjectLost(r)
  <2>1. TypeOK'
    <3>1. call' \in [Call -> CallState] /\ at' \in [Call -> Replica \cup {Nowhere}]
      BY <1>0, <1>2 DEF ProjectLost, EndCalls, TypeOK, CallState
    <3> QED
      BY <1>0, <1>2, <3>1, FaultAssumption DEF ProjectLost, TypeOK, Label
  <2>2. LocalTo(r)
    BY <1>0, <1>2 DEF ProjectLost, EndCalls, CallsAt, TypeOK, LocalTo
  <2>3. ReplicaShape(r)'
    BY <1>0, <1>2 DEF ProjectLost, TypeOK, ReplicaShape, Starting, Servable, Stopping
  <2>4. \A c \in CallsAt(r) : CallShape(c)'
    BY <1>2 DEF ProjectLost, EndCalls, CallShape, CallsAt, Open
  <2> QED
    BY <2>1, <2>2, <2>3, <2>4, OthersKeepShape
<1> QED
  BY <1>1, <1>2 DEF ProjectConflict, SignalUnwatched, Exit, StartFails, Crash

\* The calls.
LEMMA CallStep ==
  ASSUME ShapeInv, NEW c \in Call, MakeCall(c) \/ Serve(c)
  PROVE  ShapeInv'
<1>0. TypeOK /\ CallShape(c) /\ call = [call EXCEPT ![c] = call[c]] /\ at = [at EXCEPT ![c] = at[c]]
  BY DEF ShapeInv, TypeOK
<1>1. CASE MakeCall(c)
  <2>1. PICK r \in Replica :
          /\ call' = [call EXCEPT ![c] = IF Listening(r) THEN "waiting" ELSE "refused"]
          /\ at' = [at EXCEPT ![c] = IF Listening(r) THEN r ELSE Nowhere]
          /\ UNCHANGED <<backends, process, faults>>
    BY <1>1 DEF MakeCall
  <2>2. CallShape(c)'
    BY <1>0, <2>1 DEF CallShape, TypeOK, Listening, Open, process
  <2>3. CASE Listening(r)
    BY <2>1, <2>2, <2>3, CallKeepsShape DEF CallState
  <2>4. CASE ~Listening(r)
    BY <2>1, <2>2, <2>4, CallKeepsShape DEF CallState
  <2> QED
    BY <2>3, <2>4
<1>2. CASE Accept(c)
  <2>1. at[c] \in Replica /\ pc[at[c]] \in Servable
    BY <1>0, <1>2 DEF Accept, CallShape, Open, ShapeInv, ReplicaShape
  <2>2. CallShape(c)'
    BY <1>0, <1>2, <2>1 DEF Accept, CallShape, TypeOK, Open, Servable, process
  <2>3. /\ at' = [at EXCEPT ![c] = at[c]] /\ UNCHANGED <<backends, process, faults>>
        /\ \E state \in {"running", "gateway"} : call' = [call EXCEPT ![c] = state]
    BY <1>0, <1>2 DEF Accept
  <2> QED
    BY <2>1, <2>2, <2>3, CallKeepsShape DEF CallState
<1>3. ASSUME NEW state \in {"answered", "refused"}, EndCalls({c}, state),
             UNCHANGED <<backends, process, faults>>
      PROVE  ShapeInv'
  <2>1. call' = [call EXCEPT ![c] = state] /\ at' = [at EXCEPT ![c] = Nowhere]
    BY <1>0, <1>3 DEF EndCalls, TypeOK
  <2>2. CallShape(c)'
    BY <1>0, <2>1 DEF CallShape, TypeOK, Open
  <2> QED
    BY <1>3, <2>1, <2>2, CallKeepsShape DEF CallState
<1>4. CASE Forward(c)
  <2>1. CASE ~accepting[at[c]]
    BY <1>3, <1>4, <2>1 DEF Forward
  <2>2. CASE accepting[at[c]]
    <3>1. at[c] \in Replica /\ pc[at[c]] \in Servable
      BY <1>0, <1>4, <2>2 DEF Forward, CallShape, Open, ShapeInv, ReplicaShape
    <3>2. call' = [call EXCEPT ![c] = "running"] /\ UNCHANGED at
      BY <1>4, <2>2 DEF Forward
    <3>3. CallShape(c)'
      BY <1>0, <1>4, <3>1, <3>2 DEF Forward, CallShape, TypeOK, Open, Servable, process
    <3> QED
      BY <1>0, <1>4, <3>1, <3>2, <3>3, CallKeepsShape DEF Forward, CallState
  <2> QED
    BY <1>4, <2>1, <2>2 DEF Forward
<1>5. CASE Return(c)
  BY <1>3, <1>5 DEF Return
<1> QED
  BY <1>1, <1>2, <1>4, <1>5 DEF Serve

\* Every step keeps ShapeInv.
LEMMA ShapeStep == ShapeInv /\ [Next]_vars => ShapeInv'
<1> SUFFICES ASSUME ShapeInv, [Next]_vars PROVE ShapeInv'
  OBVIOUS
<1>1. CASE UNCHANGED vars
  BY <1>1
  DEF vars, backends, process, clients, ShapeInv, TypeOK, ReplicaShape, CallShape
<1>2. CASE Next
  BY <1>2, StartStep, PrepareStep, CloseStep, EndStep, CallStep DEF Next, Main
<1> QED
  BY <1>1, <1>2

----------------------------------------------------------------------------
(***************************************************************************)
(* The theorems.                                                           *)
(***************************************************************************)

\* ShapeInv holds in every behaviour.
LEMMA ShapeAlways == Spec => []ShapeInv
  BY ShapeInit, ShapeStep, PTL DEF Spec

\* Every variable of the lifecycle keeps its type, for any number of replicas that
\* start, stop and die.
THEOREM TypeCorrect == Spec => []TypeOK
<1>1. ShapeInv => TypeOK
  BY DEF ShapeInv
<1> QED
  BY <1>1, ShapeAlways, PTL

\* No call that a server took, over gRPC or the gateway, finds the project, an index or
\* the permissions missing: they are there before the first server goroutine runs, and
\* stay there.  The health service only says ready on a replica that has them and listens.
THEOREM PreparedToServe == Spec => []ServesPrepared
<1>1. ASSUME ShapeInv, NEW r \in Replica
      PROVE  /\ ready[r] \/ (\E c \in CallsAt(r) : call[c] \in {"gateway", "running"}) =>
                  project /\ indices = Indices /\ loaded[r]
             /\ ready[r] => Listening(r)
  <2>1. ReplicaShape(r)
    BY <1>1 DEF ShapeInv
  <2>2. ASSUME NEW c \in CallsAt(r), call[c] \in {"gateway", "running"}
        PROVE  project /\ indices = Indices /\ loaded[r]
    BY <1>1, <2>1, <2>2 DEF ShapeInv, ReplicaShape, CallShape, CallsAt, Open
  <2> QED
    BY <2>1, <2>2 DEF ReplicaShape, Servable, Stopping, Listening
<1>2. ShapeInv => ServesPrepared
  BY <1>1 DEF ServesPrepared
<1> QED
  BY <1>2, ShapeAlways, PTL

\* A call that is taken and then lost is lost with its process, to a fault or to a signal
\* that nobody catches yet: a replica that stops in order waits for its calls.
THEOREM OrderlyStop == Spec => StopLosesNothing
<1>1. ShapeInv /\ [Next]_vars =>
        [\A c \in Call : call[c] \in {"gateway", "running"} /\ call'[c] = "lost" =>
           \/ faults' > faults
           \/ pc[at[c]] \in {"markReady", "watchSignals"}]_vars
  <2> SUFFICES ASSUME ShapeInv, Next, NEW c \in Call,
                      call[c] \in {"gateway", "running"}, call'[c] = "lost"
               PROVE  faults' > faults \/ pc[at[c]] \in {"markReady", "watchSignals"}
    BY DEF vars, clients
  <2>0. TypeOK /\ CallShape(c) /\ at[c] \in Replica /\ pc[at[c]] \in Servable \cup Stopping
    BY DEF ShapeInv, CallShape, Open
  <2>1. ASSUME NEW r \in Replica, Dies(r) \/ ProjectLost(r)
        PROVE  r = at[c]
    BY <2>0, <2>1 DEF TypeOK, Dies, ProjectLost, EndCalls, CallsAt
  <2>2. ASSUME NEW r \in Replica,
               StartFails(r) \/ ProjectLost(r) \/ Crash(r)
        PROVE  faults' > faults
    BY <2>0, <2>2, FaultAssumption DEF TypeOK, StartFails, ProjectLost, Crash
  <2>3. ASSUME NEW r \in Replica, ProjectConflict(r) \/ SignalUnwatched(r) \/ Exit(r)
        PROVE  pc[at[c]] \in {"markReady", "watchSignals"}
    <3>1. r = at[c]
      BY <2>1, <2>3 DEF ProjectConflict, SignalUnwatched, Exit
    <3> QED
      BY <2>0, <2>3, <3>1
      DEF ProjectConflict, SignalUnwatched, Exit, CallsAt, CallShape, Unwatched, Servable, Stopping
  <2>4. ASSUME NEW r \in Replica, CloseListener(r)
        PROVE  FALSE
    BY <2>0, <2>4 DEF TypeOK, CloseListener, EndCalls, CallsAt
  <2>5. ASSUME NEW d \in Call, MakeCall(d) \/ Serve(d)
        PROVE  FALSE
    BY <2>0, <2>5 DEF TypeOK, MakeCall, Serve, Accept, Forward, Return, EndCalls, Open
  <2>6. ASSUME NEW r \in Replica,
               \/ Start(r) \/ Connect(r) \/ GetProject(r) \/ CreateProject(r) \/ CreateIndex(r)
               \/ LoadServicePermissions(r) \/ StartServers(r) \/ Accepting(r) \/ Ready(r)
               \/ WatchSignals(r) \/ Signal(r) \/ NotReady(r) \/ GracefulStop(r)
        PROVE  FALSE
    BY <2>6
    DEF Start, Connect, GetProject, CreateProject, CreateIndex, LoadServicePermissions,
        StartServers, Accepting, Ready, WatchSignals, Signal, NotReady, GracefulStop, clients
  <2> QED
    BY <2>2, <2>3, <2>4, <2>5, <2>6 DEF Next, Main
<1> QED
  BY <1>1, ShapeAlways, PTL DEF Spec, StopLosesNothing
=============================================================================
