------------------------------ MODULE Startup ------------------------------
(***************************************************************************)
(* From the first message of a slave to its last: registration at the      *)
(* master, the two processes of a slave and the semaphore between them,    *)
(* loading, the barrier over all slaves, the terminals with their          *)
(* connections to every storage process, and the end.  The master's three  *)
(* servers (parameters, barrier, reports) are assumed to listen before the *)
(* first slave starts.                                                     *)
(***************************************************************************)
EXTENDS Naturals, FiniteSets

CONSTANTS
  Node,         \* slaves, by the node id the master gives them
  Terminal,     \* terminals of a slave (THREADNUM of them)
  Loader,       \* the thread that loads the data, before the terminals start
  Host,         \* machines
  Placements,   \* the ways to place slaves on machines that are looked at
  Visits        \* Visits[n]: nodes at which the terminals of n run operations

ASSUME StartupAssumption ==
  /\ Node \subseteq Nat /\ IsFiniteSet(Node) /\ Node # {}
  /\ IsFiniteSet(Terminal) /\ Terminal # {} /\ Loader \notin Terminal
  /\ Placements \subseteq [Node -> Host]
  /\ Visits \in [Node -> SUBSET Node]

VARIABLES
  host,         \* host[n]: the machine n runs on
  trans,        \* trans[n]: where main() of slave n is; the transaction process
  storage,      \* storage[n]: where the storage process of n is
  term,         \* term[n][t]: where terminal t of n is
  sem,          \* sem[h]: value of the semaphore "wait_server" of machine h
  registered,   \* slaves whose address the parameter server has
  told,         \* slaves the parameter server has answered
  ready,        \* slaves that have told the message server that they have loaded
  go,           \* slaves the message server has answered
  queued,       \* queued[m]: clients whose connection to m is not yet accepted
  served,       \* served[m]: clients for which m runs a thread in Respond
  closed,       \* closed[m]: clients whose thread at m has ended
  released      \* released[m]: clients that have sent cmd_release to m

vars == <<host, trans, storage, term, sem, registered, told, ready, go,
          queued, served, closed, released>>
masterVars == <<registered, told, ready, go>>
connVars == <<queued, served, closed, released>>

Clients == Node \X (Terminal \cup {Loader})

TransPhases == {"start", "param", "wait_server", "connect", "load", "loaded",
                "wait_nodes", "run", "ended", "exit"}
StoragePhases == {"none", "init", "listen", "accept", "ended"}
TermPhases == {"none", "connect", "run", "ended"}

Init ==
  /\ host \in Placements
  /\ trans = [n \in Node |-> "start"]
  /\ storage = [n \in Node |-> "none"]
  /\ term = [n \in Node |-> [t \in Terminal |-> "none"]]
  /\ sem = [h \in Host |-> 0]
  /\ registered = {} /\ told = {} /\ ready = {} /\ go = {}
  /\ queued = [m \in Node |-> {}]
  /\ served = [m \in Node |-> {}]
  /\ closed = [m \in Node |-> {}]
  /\ released = [m \in Node |-> {}]

-----------------------------------------------------------------------------
(* The master.                                                             *)

\* InitParam, last loop: after every slave has sent its address, each is told
\* its node id, the ports and the addresses of all.
SendParam(n) ==
  /\ registered = Node /\ n \notin told
  /\ told' = told \cup {n}
  /\ UNCHANGED <<host, trans, storage, term, sem, registered, ready, go, connVars>>

\* A message server that answers each slave at once.
SendReadyVariant(n) ==
  /\ n \in ready /\ n \notin go
  /\ go' = go \cup {n}
  /\ UNCHANGED <<host, trans, storage, term, sem, registered, told, ready, connVars>>

\* InitMessage, last loop: after every slave has reported, each is answered.
SendReady(n) ==
  /\ ready = Node /\ n \notin go
  /\ go' = go \cup {n}
  /\ UNCHANGED <<host, trans, storage, term, sem, registered, told, ready, connVars>>

Master == \E n \in Node : SendParam(n) \/ SendReady(n)

-----------------------------------------------------------------------------
(* The first process of a slave, which becomes its transaction process.    *)

\* InitParamClient, and GetParam up to its recv.
Register(n) ==
  /\ trans[n] = "start"
  /\ trans' = [trans EXCEPT ![n] = "param"]
  /\ registered' = registered \cup {n}
  /\ UNCHANGED <<host, storage, term, sem, told, ready, go, connVars>>

\* The rest of GetReady, whose sem_open finds or makes the semaphore of the
\* machine, and the fork of the storage process.
Fork(n) ==
  /\ trans[n] = "param" /\ n \in told
  /\ trans' = [trans EXCEPT ![n] = "wait_server"]
  /\ storage' = [storage EXCEPT ![n] = "init"]
  /\ UNCHANGED <<host, term, sem, masterVars, connVars>>

\* dataLoading without sem_wait.
WaitServerVariant(n) ==
  /\ trans[n] = "wait_server"
  /\ trans' = [trans EXCEPT ![n] = "connect"]
  /\ UNCHANGED <<host, storage, term, sem, masterVars, connVars>>

\* dataLoading up to the thread it creates.
WaitServer(n) ==
  /\ trans[n] = "wait_server" /\ sem[host[n]] > 0
  /\ sem' = [sem EXCEPT ![host[n]] = @ - 1]
  /\ trans' = [trans EXCEPT ![n] = "connect"]
  /\ UNCHANGED <<host, storage, term, masterVars, connVars>>

Listening(m) == storage[m] \in {"listen", "accept"}

\* InitClient: a connection to m, which waits there to be accepted.  When m
\* does not listen the whole process of n exits.
InitClient(m, n, who, phase) ==
  /\ trans' = [trans EXCEPT ![n] = IF Listening(m) THEN phase ELSE "exit"]
  /\ queued' = [queued EXCEPT ![m] = IF Listening(m) THEN @ \cup {<<n, who>>} ELSE @]
  /\ UNCHANGED <<host, storage, sem, masterVars, served, closed, released>>

\* ProcStart of the thread that loads.
ConnectLoader(n) ==
  /\ trans[n] = "connect"
  /\ InitClient(n, n, Loader, "load")
  /\ UNCHANGED term

\* A release on the connection of the next slave.
LoadVariant(n) ==
  /\ trans[n] = "load" /\ <<n, Loader>> \in served[n]
  /\ trans' = [trans EXCEPT ![n] = "loaded"]
  /\ released' = [released EXCEPT ![n] = @ \cup {<<n + 1, Loader>>}]
  /\ UNCHANGED <<host, storage, term, sem, masterVars, queued, served, closed>>

\* LoadData, whose operations the node answers, and DataReleaseConnect.
Load(n) ==
  /\ trans[n] = "load" /\ <<n, Loader>> \in served[n]
  /\ trans' = [trans EXCEPT ![n] = "loaded"]
  /\ released' = [released EXCEPT ![n] = @ \cup {<<n, Loader>>}]
  /\ UNCHANGED <<host, storage, term, sem, masterVars, queued, served, closed>>

\* WaitDataReady up to its recv.
ReportReady(n) ==
  /\ trans[n] = "loaded"
  /\ trans' = [trans EXCEPT ![n] = "wait_nodes"]
  /\ ready' = ready \cup {n}
  /\ UNCHANGED <<host, storage, term, sem, registered, told, go, connVars>>

\* RunTerminals up to its first pthread_join; it starts its terminals one by one,
\* each of them for itself (runTerminal, ProcStart).
RunTerminals(n) ==
  /\ trans[n] = "wait_nodes" /\ n \in go
  /\ trans' = [trans EXCEPT ![n] = "run"]
  /\ term' = [term EXCEPT ![n] = [t \in Terminal |-> "connect"]]
  /\ UNCHANGED <<host, storage, sem, masterVars, connVars>>

\* RunTerminals after the joins: the report, and the end of the process.
EndReport(n) ==
  /\ trans[n] = "run" /\ \A t \in Terminal : term[n][t] = "ended"
  /\ trans' = [trans EXCEPT ![n] = "ended"]
  /\ UNCHANGED <<host, storage, term, sem, masterVars, connVars>>

Slave(n) ==
  \/ Register(n) \/ Fork(n) \/ WaitServer(n) \/ ConnectLoader(n)
  \/ Load(n) \/ ReportReady(n) \/ RunTerminals(n) \/ EndReport(n)

-----------------------------------------------------------------------------
(* A terminal.                                                             *)

\* Nodes that terminal t of n is not yet connected to.
ToConnect(n, t) == {m \in Node : <<n, t>> \notin queued[m] \cup served[m] \cup closed[m]}

\* ProcStart connects to the nodes in the order of their ids.
ConnectTerminal(n, t) ==
  /\ trans[n] = "run" /\ term[n][t] = "connect"
  /\ \E m \in ToConnect(n, t) :
       /\ \A k \in ToConnect(n, t) : m <= k
       /\ InitClient(m, n, t, "run")
  /\ UNCHANGED term

\* pthread_barrier_wait: the terminals of a slave begin together.
PassBarrier(n) ==
  /\ \A t \in Terminal : term[n][t] = "connect" /\ ToConnect(n, t) = {}
  /\ term' = [term EXCEPT ![n] = [t \in Terminal |-> "run"]]
  /\ UNCHANGED <<host, trans, storage, sem, masterVars, connVars>>

\* executeTransactions, whose operations the nodes answer, and ReleaseConnect.
Execute(n, t) ==
  /\ term[n][t] = "run" /\ \A m \in Visits[n] : <<n, t>> \in served[m]
  /\ term' = [term EXCEPT ![n][t] = "ended"]
  /\ released' = [m \in Node |-> released[m] \cup {<<n, t>>}]
  /\ UNCHANGED <<host, trans, storage, sem, masterVars, queued, served, closed>>

-----------------------------------------------------------------------------
(* The storage process of a slave.                                         *)

\* InitStorage, and InitServer up to listen.
Listen(m) ==
  /\ storage[m] = "init"
  /\ storage' = [storage EXCEPT ![m] = "listen"]
  /\ UNCHANGED <<host, trans, term, sem, masterVars, connVars>>

\* sem_post(wait_server)
Post(m) ==
  /\ storage[m] = "listen"
  /\ storage' = [storage EXCEPT ![m] = "accept"]
  /\ sem' = [sem EXCEPT ![host[m]] = @ + 1]
  /\ UNCHANGED <<host, trans, term, masterVars, connVars>>

\* A server that does not count the connection of the loader.
ConnectionsVariant == Cardinality(Node) * Cardinality(Terminal)

\* NODENUM*THREADNUM+1: the terminals of all slaves, and the loader.
Connections == Cardinality(Node) * Cardinality(Terminal) + 1

Accepted(m) == Cardinality(served[m] \cup closed[m])

\* accept, and the thread that runs Respond.  Connections that wait at the same
\* time are taken in any order.
Accept(m) ==
  /\ storage[m] = "accept" /\ Accepted(m) < Connections
  /\ \E c \in queued[m] :
       /\ queued' = [queued EXCEPT ![m] = @ \ {c}]
       /\ served' = [served EXCEPT ![m] = @ \cup {c}]
  /\ UNCHANGED <<host, trans, storage, term, sem, masterVars, closed, released>>

\* Respond ends when it receives cmd_release.
EndRespond(m) ==
  /\ \E c \in served[m] \cap released[m] :
       /\ served' = [served EXCEPT ![m] = @ \ {c}]
       /\ closed' = [closed EXCEPT ![m] = @ \cup {c}]
  /\ UNCHANGED <<host, trans, storage, term, sem, masterVars, queued, released>>

\* The process ends with its accept loop, whatever its threads do.
ExitVariant(m) ==
  /\ storage[m] = "accept" /\ Accepted(m) = Connections
  /\ storage' = [storage EXCEPT ![m] = "ended"]
  /\ UNCHANGED <<host, trans, term, sem, masterVars, connVars>>

\* The joins of InitServer, and StorageExitSys.
Exit(m) ==
  /\ storage[m] = "accept" /\ Accepted(m) = Connections /\ served[m] = {}
  /\ storage' = [storage EXCEPT ![m] = "ended"]
  /\ UNCHANGED <<host, trans, term, sem, masterVars, connVars>>

Storage(m) == Listen(m) \/ Post(m) \/ Accept(m) \/ EndRespond(m) \/ Exit(m)

-----------------------------------------------------------------------------
AllEnded == \A n \in Node : trans[n] = "ended" /\ storage[n] = "ended"

\* The end: of all processes, or of one that could not connect.
Finished ==
  /\ AllEnded \/ \E n \in Node : trans[n] = "exit"
  /\ UNCHANGED vars

Next ==
  \/ Master
  \/ \E n \in Node : \/ Slave(n) \/ Storage(n) \/ PassBarrier(n)
                     \/ \E t \in Terminal : ConnectTerminal(n, t) \/ Execute(n, t)
  \/ Finished

Spec == Init /\ [][Next]_vars

\* Every process and every thread is scheduled.
Fairness ==
  /\ WF_vars(Master)
  /\ \A n \in Node :
       /\ WF_vars(Slave(n)) /\ WF_vars(Storage(n)) /\ WF_vars(PassBarrier(n))
       /\ \A t \in Terminal : WF_vars(ConnectTerminal(n, t) \/ Execute(n, t))

FairSpec == Spec /\ Fairness

-----------------------------------------------------------------------------
TypeOK ==
  /\ host \in Placements
  /\ trans \in [Node -> TransPhases]
  /\ storage \in [Node -> StoragePhases]
  /\ term \in [Node -> [Terminal -> TermPhases]]
  /\ sem \in [Host -> Nat]
  /\ registered \subseteq Node /\ told \subseteq Node
  /\ ready \subseteq Node /\ go \subseteq Node
  /\ queued \in [Node -> SUBSET Clients] /\ served \in [Node -> SUBSET Clients]
  /\ closed \in [Node -> SUBSET Clients] /\ released \in [Node -> SUBSET Clients]

\* The loader of m has done its work and released its connection.
Loaded(m) == <<m, Loader>> \in released[m]

\* No terminal of any slave is started before every slave has loaded its data,
\* even when one has exited: "wait other slave nodes until all of them have loaded
\* data" (slave/main.c:56).
RunAfterLoading ==
  \A n \in Node, t \in Terminal : term[n][t] # "none" => \A m \in Node : Loaded(m)

Alone(n) == \A m \in Node \ {n} : host[m] # host[n]

\* A slave that is alone on its machine is never refused a connection: neither its
\* loader nor, though other machines may be slow, one of its terminals (InitClient).
AloneIsNotRefused == \A n \in Node : Alone(n) => trans[n] # "exit"

\* While a client has a connection that it has not released, the storage process at
\* its other end lives (InitServer joins the threads of Respond before it returns).
StorageOutlivesClients ==
  \A m \in Node :
    storage[m] = "ended" =>
      /\ queued[m] = {}
      /\ \A n \in Node, t \in Terminal : <<n, t>> \in released[m]

\* Slaves on machines of their own all come to their end: no process waits for ever
\* for the semaphore, the barrier, a connection or the release of one.
EverythingEnds == (\A n \in Node : Alone(n)) => <>AllEnded

\* The transaction process goes on only when its own server listens: "force the
\* transaction process waiting for the completion of the server's initialization"
\* (socket.c:263).
ServerBeforeLoading == \A n \in Node : trans[n] = "connect" => Listening(n)
=============================================================================
