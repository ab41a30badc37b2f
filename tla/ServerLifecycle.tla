-------------------------- MODULE ServerLifecycle --------------------------
(***************************************************************************)
(* A life of the rode server (main.go, server/server.go, server/healthz.go)*)
(* on several replicas that start at once over one Grafeas and one         *)
(* Elasticsearch: the port is bound, the backends are connected, the       *)
(* project and the indices are created, the permissions of the methods are *)
(* loaded, the server goroutines are started, the replica says it is ready *)
(* and waits for a signal; then it drains its calls and exits.             *)
(*                                                                         *)
(* A call that starts up can fail, and a process can die, at most          *)
(* MaxFaults times in all.  Whoever runs the replicas starts one again     *)
(* that ended without being told to stop; that is outside this repository. *)
(*                                                                         *)
(* A gRPC call goes to the server; an HTTP call goes to the gateway, which *)
(* dials its own address and makes a gRPC call of it.  What a call does is *)
(* left out, and so are the keepalive of connections and the debug flag.   *)
(***************************************************************************)
EXTENDS Naturals, Sequences

CONSTANTS
  Replica,     \* the processes
  GrpcCall,    \* calls that can be under way over gRPC
  HttpCall,    \* calls that can be under way through the gateway
  Nowhere,     \* the replica of a call that is not under way
  MaxFaults    \* how many calls of a start can fail, and processes die, in all

Call == GrpcCall \cup HttpCall

ASSUME FaultAssumption == MaxFaults \in Nat
ASSUME CallAssumption == GrpcCall \cap HttpCall = {} /\ Nowhere \notin Replica

VARIABLES
  project,    \* does the project exist in Grafeas?
  indices,    \* the indices that exist in Elasticsearch
  pc,         \* pc[r]: what the main goroutine of r does next
  created,    \* created[r]: how many indices this start of r has seen to
  loaded,     \* loaded[r]: has r loaded the permissions of its methods?
  accepting,  \* accepting[r]: are the server goroutines of r running?
  ready,      \* ready[r]: the flag of the health service
  stopped,    \* stopped[r]: was r told to stop, and ended?
  call,       \* call[c]: where the call is
  at,         \* at[c]: the replica that has it
  faults      \* how many faults there have been

backends == <<project, indices>>
process == <<pc, created, loaded, accepting, ready, stopped>>
clients == <<call, at>>
vars == <<backends, process, clients, faults>>

\* The indices initialize creates, in this order.
IndexKinds ==
  <<"policies", "resources", "policy-groups", "policy-assignments", "evaluations">>
Indices == {IndexKinds[i] : i \in DOMAIN IndexKinds}

Label == {"down", "connect", "getProject", "createProject", "createIndex",
          "loadPermissions", "startServers", "markReady", "watchSignals", "serving",
          "markNotReady", "closeListener", "gracefulStop", "shutdownHttp"}

\* "waiting" is a connection nobody has accepted yet, "gateway" an HTTP call whose
\* gRPC call has not been made yet.
CallState == {"none", "waiting", "gateway", "running", "answered", "refused", "lost"}
Open == {"waiting", "gateway", "running"}

Init ==
  /\ project = FALSE
  /\ indices = {}
  /\ pc = [r \in Replica |-> "down"]
  /\ created = [r \in Replica |-> 0]
  /\ loaded = [r \in Replica |-> FALSE]
  /\ accepting = [r \in Replica |-> FALSE]
  /\ ready = [r \in Replica |-> FALSE]
  /\ stopped = [r \in Replica |-> FALSE]
  /\ call = [c \in Call |-> "none"]
  /\ at = [c \in Call |-> Nowhere]
  /\ faults = 0

Goto(r, from, to) == pc[r] = from /\ pc' = [pc EXCEPT ![r] = to]

CallsAt(r) == {c \in Call : at[c] = r}

EndCalls(S, state) ==
  /\ call' = [c \in Call |-> IF c \in S THEN state ELSE call[c]]
  /\ at' = [c \in Call |-> IF c \in S THEN Nowhere ELSE at[c]]

\* The process is gone with everything it had in memory, and what it was serving
\* with it.
Dies(r) ==
  /\ pc' = [pc EXCEPT ![r] = "down"]
  /\ created' = [created EXCEPT ![r] = 0]
  /\ loaded' = [loaded EXCEPT ![r] = FALSE]
  /\ accepting' = [accepting EXCEPT ![r] = FALSE]
  /\ ready' = [ready EXCEPT ![r] = FALSE]
  /\ EndCalls(CallsAt(r), "lost")
  /\ UNCHANGED backends

----------------------------------------------------------------------------
\* Starting.

\* net.Listen comes first: from here on connections wait instead of being refused.
Start(r) ==
  /\ ~stopped[r]
  /\ Goto(r, "down", "connect")
  /\ UNCHANGED <<backends, created, loaded, accepting, ready, stopped, clients, faults>>

\* The connections to Grafeas and Elasticsearch, and the index manager's Initialize.
Connect(r) ==
  /\ Goto(r, "connect", "getProject")
  /\ UNCHANGED <<backends, created, loaded, accepting, ready, stopped, clients, faults>>

GetProject(r) ==
  /\ Goto(r, "getProject", IF project THEN "createIndex" ELSE "createProject")
  /\ UNCHANGED <<backends, created, loaded, accepting, ready, stopped, clients, faults>>

CreateProject(r) ==
  /\ ~project
  /\ Goto(r, "createProject", "createIndex")
  /\ project' = TRUE
  /\ UNCHANGED <<indices, created, loaded, accepting, ready, stopped, clients, faults>>

\* Another replica created the project since: AlreadyExists is an error like any other,
\* and main ends with logger.Fatal.
ProjectConflict(r) ==
  /\ pc[r] = "createProject" /\ project
  /\ Dies(r)
  /\ UNCHANGED <<stopped, faults>>

\* Mutant: an index that exists is an error.
CreateNewIndex(r) == LET n == created[r] + 1 IN
  /\ pc[r] = "createIndex"
  /\ IF IndexKinds[n] \in indices
     THEN Dies(r)
     ELSE /\ indices' = indices \cup {IndexKinds[n]}
          /\ created' = [created EXCEPT ![r] = n]
          /\ Goto(r, "createIndex",
                  IF n = Len(IndexKinds) THEN "loadPermissions" ELSE "createIndex")
          /\ UNCHANGED <<project, loaded, accepting, ready, clients>>
  /\ UNCHANGED <<stopped, faults>>

\* An index that exists is no error of CreateIndex.
CreateIndex(r) == LET n == created[r] + 1 IN
  /\ Goto(r, "createIndex", IF n = Len(IndexKinds) THEN "loadPermissions" ELSE "createIndex")
  /\ indices' = indices \cup {IndexKinds[n]}
  /\ created' = [created EXCEPT ![r] = n]
  /\ UNCHANGED <<project, loaded, accepting, ready, stopped, clients, faults>>

LoadServicePermissions(r) ==
  /\ Goto(r, "loadPermissions", "startServers")
  /\ loaded' = [loaded EXCEPT ![r] = TRUE]
  /\ UNCHANGED <<backends, created, accepting, ready, stopped, clients, faults>>

\* The goroutines of the three servers are started; nobody waits for them to run.
StartServers(r) ==
  /\ Goto(r, "startServers", "markReady")
  /\ UNCHANGED <<backends, created, loaded, accepting, ready, stopped, clients, faults>>

\* The goroutines get to run.  A server that is told to stop first returns at once.
Accepting(r) ==
  /\ pc[r] \in {"markReady", "watchSignals", "serving", "markNotReady", "closeListener"}
  /\ ~accepting[r]
  /\ accepting' = [accepting EXCEPT ![r] = TRUE]
  /\ UNCHANGED <<backends, pc, created, loaded, ready, stopped, clients, faults>>

Ready(r) ==
  /\ Goto(r, "markReady", "watchSignals")
  /\ ready' = [ready EXCEPT ![r] = TRUE]
  /\ UNCHANGED <<backends, created, loaded, accepting, stopped, clients, faults>>

WatchSignals(r) ==
  /\ Goto(r, "watchSignals", "serving")
  /\ UNCHANGED <<backends, created, loaded, accepting, ready, stopped, clients, faults>>

----------------------------------------------------------------------------
\* Stopping.

\* SIGTERM or SIGINT.  Later ones stay in the channel and are never read.
Signal(r) ==
  /\ Goto(r, "serving", "markNotReady")
  /\ UNCHANGED <<backends, created, loaded, accepting, ready, stopped, clients, faults>>

\* Before signal.Notify a signal ends the process at once.
Unwatched == {"connect", "getProject", "createProject", "createIndex",
              "loadPermissions", "startServers", "markReady", "watchSignals"}

SignalUnwatched(r) ==
  /\ pc[r] \in Unwatched
  /\ Dies(r)
  /\ stopped' = [stopped EXCEPT ![r] = TRUE]
  /\ UNCHANGED faults

\* Mutant: the flag is left as it is.
StaysReady(r) ==
  /\ Goto(r, "markNotReady", "closeListener")
  /\ UNCHANGED <<backends, created, loaded, accepting, ready, stopped, clients, faults>>

NotReady(r) ==
  /\ Goto(r, "markNotReady", "closeListener")
  /\ ready' = [ready EXCEPT ![r] = FALSE]
  /\ UNCHANGED <<backends, created, loaded, accepting, stopped, clients, faults>>

\* GracefulStop begins by closing the listener, which both servers share: what waits
\* on it is refused.
CloseListener(r) ==
  /\ Goto(r, "closeListener", "gracefulStop")
  /\ accepting' = [accepting EXCEPT ![r] = FALSE]
  /\ EndCalls({c \in CallsAt(r) : call[c] = "waiting"}, "refused")
  /\ UNCHANGED <<backends, created, loaded, ready, stopped, faults>>

\* Mutant: Stop instead of GracefulStop.
Stop(r) ==
  /\ Goto(r, "gracefulStop", "shutdownHttp")
  /\ EndCalls({c \in CallsAt(r) : call[c] = "running"}, "lost")
  /\ UNCHANGED <<backends, created, loaded, accepting, ready, stopped, faults>>

\* GracefulStop returns when no call of the gRPC server runs.  It has no deadline.
GracefulStop(r) ==
  /\ \A c \in CallsAt(r) : call[c] # "running"
  /\ Goto(r, "gracefulStop", "shutdownHttp")
  /\ UNCHANGED <<backends, created, loaded, accepting, ready, stopped, clients, faults>>

\* httpServer.Shutdown waits for the HTTP calls, and main returns.
Exit(r) ==
  /\ \A c \in CallsAt(r) : call[c] # "gateway"
  /\ pc[r] = "shutdownHttp"
  /\ Dies(r)
  /\ stopped' = [stopped EXCEPT ![r] = TRUE]
  /\ UNCHANGED faults

----------------------------------------------------------------------------
\* Faults.

\* A call of the start fails, after its effect or before it: main ends with
\* logger.Fatal.
StartFails(r) ==
  /\ faults < MaxFaults
  /\ pc[r] \in {"connect", "getProject", "createProject", "createIndex"}
  /\ Dies(r)
  /\ faults' = faults + 1
  /\ UNCHANGED stopped

\* The project was created, and the answer lost.
ProjectLost(r) ==
  /\ faults < MaxFaults
  /\ pc[r] = "createProject"
  /\ project' = TRUE
  /\ pc' = [pc EXCEPT ![r] = "down"]
  /\ EndCalls(CallsAt(r), "lost")
  /\ faults' = faults + 1
  /\ UNCHANGED <<indices, created, loaded, accepting, ready, stopped>>

Crash(r) ==
  /\ faults < MaxFaults
  /\ pc[r] # "down"
  /\ Dies(r)
  /\ faults' = faults + 1
  /\ UNCHANGED stopped

----------------------------------------------------------------------------
\* Calls.

Listening(r) == pc[r] \notin {"down", "gracefulStop", "shutdownHttp"}

MakeCall(c) == \E r \in Replica :
  /\ call[c] \notin Open
  /\ call' = [call EXCEPT ![c] = IF Listening(r) THEN "waiting" ELSE "refused"]
  /\ at' = [at EXCEPT ![c] = IF Listening(r) THEN r ELSE Nowhere]
  /\ UNCHANGED <<backends, process, faults>>

\* Mutant: only the gRPC server is matched to connections.
AcceptGrpc(c) ==
  /\ c \in GrpcCall
  /\ call[c] = "waiting" /\ accepting[at[c]]
  /\ call' = [call EXCEPT ![c] = "running"]
  /\ UNCHANGED <<backends, process, at, faults>>

\* The connection is accepted by the server its protocol selects.
Accept(c) ==
  /\ call[c] = "waiting" /\ accepting[at[c]]
  /\ call' = [call EXCEPT ![c] = IF c \in GrpcCall THEN "running" ELSE "gateway"]
  /\ UNCHANGED <<backends, process, at, faults>>

\* Mutant: the gateway waits for a server that is ready.
ForwardWaits(c) ==
  /\ call[c] = "gateway" /\ accepting[at[c]]
  /\ call' = [call EXCEPT ![c] = "running"]
  /\ UNCHANGED <<backends, process, at, faults>>

\* The gateway makes the gRPC call of an HTTP call on its connection to the server,
\* which takes no new call once it is stopping: Unavailable.
Forward(c) ==
  /\ call[c] = "gateway"
  /\ IF accepting[at[c]]
     THEN call' = [call EXCEPT ![c] = "running"] /\ UNCHANGED at
     ELSE EndCalls({c}, "refused")
  /\ UNCHANGED <<backends, process, faults>>

\* The handler returns.
Return(c) ==
  /\ call[c] = "running"
  /\ EndCalls({c}, "answered")
  /\ UNCHANGED <<backends, process, faults>>

----------------------------------------------------------------------------

\* What the main goroutine of a replica does of its own.
Main(r) ==
  \/ Connect(r) \/ GetProject(r) \/ CreateProject(r) \/ ProjectConflict(r)
  \/ CreateIndex(r) \/ LoadServicePermissions(r) \/ StartServers(r) \/ Ready(r)
  \/ WatchSignals(r) \/ NotReady(r) \/ CloseListener(r) \/ GracefulStop(r) \/ Exit(r)

Serve(c) == Accept(c) \/ Forward(c) \/ Return(c)

Next ==
  \/ \E r \in Replica :
       \/ Start(r) \/ Main(r) \/ Accepting(r)
       \/ Signal(r) \/ SignalUnwatched(r)
       \/ StartFails(r) \/ ProjectLost(r) \/ Crash(r)
  \/ \E c \in Call : MakeCall(c) \/ Serve(c)

\* A goroutine that can run runs, a call to a backend and a handler return, and a
\* replica that ended by itself is started again.  Signals, faults and clients are
\* under no obligation.
Fairness ==
  /\ \A r \in Replica : WF_vars(Start(r)) /\ WF_vars(Main(r)) /\ WF_vars(Accepting(r))
  /\ \A c \in Call : WF_vars(Serve(c))

Spec == Init /\ [][Next]_vars /\ Fairness

----------------------------------------------------------------------------
(***************************************************************************)
(* Properties.                                                             *)
(***************************************************************************)

\* Every variable has its type.
TypeOK ==
  /\ project \in BOOLEAN
  /\ indices \subseteq Indices
  /\ pc \in [Replica -> Label]
  /\ created \in [Replica -> 0..Len(IndexKinds)]
  /\ {loaded, accepting, ready, stopped} \subseteq [Replica -> BOOLEAN]
  /\ call \in [Call -> CallState]
  /\ at \in [Call -> Replica \cup {Nowhere}]
  /\ faults \in 0..MaxFaults

\* A replica that has taken a call, over gRPC or the gateway, or says it is ready, has
\* the project and every index in place and the permissions loaded, whatever crashed
\* on the way here and whichever replica created what.  (A method whose permissions
\* are not loaded is open to every caller.)  One that says it is ready refuses no call
\* at the door.
ServesPrepared ==
  \A r \in Replica :
    /\ ready[r] \/ (\E c \in CallsAt(r) : call[c] \in {"gateway", "running"}) =>
         project /\ indices = Indices /\ loaded[r]
    /\ ready[r] => Listening(r)

\* A stop loses no call that runs: only a crash does, or a signal in the moment
\* between the start of the servers and signal.Notify.
StopLosesNothing ==
  [][\A c \in Call : call[c] \in {"gateway", "running"} /\ call'[c] = "lost" =>
       \/ faults' > faults
       \/ pc[at[c]] \in {"markReady", "watchSignals"}]_vars

\* A replica that is not told to stop serves in the end, although every replica
\* that creates the project beside another one ends with an error.
EveryReplicaServes ==
  \A r \in Replica : (pc[r] = "down" /\ ~stopped[r]) ~> (pc[r] = "serving" \/ stopped[r])

\* A replica that was told to stop ends, since its calls return and no new one is
\* taken.
SignalEnds == \A r \in Replica : (pc[r] = "markNotReady") ~> (pc[r] = "down")

\* No call is left without an answer for good, those that came before the server
\* was there to take them included: it is answered, refused, or lost with the process.
NoCallHangs == \A c \in Call : (call[c] \in Open) ~> (call[c] \notin Open)
=============================================================================
