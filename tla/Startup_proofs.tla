--------------------------- MODULE Startup_proofs ---------------------------
(* Proofs about Startup, for any number of slaves and terminals and any     *)
(* placement of slaves on machines.                                         *)
EXTENDS Startup, FiniteSetTheorems, TLAPS

\* A slave reports to the message server after it has loaded, and is answered
\* only when all have reported; its terminals are started after that.
Ordered ==
  /\ \A n \in Node : trans[n] = "loaded" => Loaded(n)
  /\ \A n \in ready : Loaded(n)
  /\ go # {} => ready = Node
  /\ \A n \in Node, t \in Terminal : term[n][t] # "none" => n \in go

\* The inductive invariant.
OrderInv == TypeOK /\ Ordered

LEMMA InitOrder == ASSUME Init PROVE OrderInv
BY StartupAssumption DEF StartupAssumption, Init, OrderInv, TypeOK, Ordered, Clients,
                         TransPhases, StoragePhases, TermPhases

\* The master's answers.
LEMMA MasterOrder ==
  ASSUME OrderInv, NEW n \in Node, SendParam(n) \/ SendReady(n)
  PROVE  OrderInv'
<1>1. CASE SendParam(n)
  BY <1>1 DEF SendParam, OrderInv, TypeOK, Ordered, Loaded, connVars
<1>2. CASE SendReady(n)
  BY <1>2 DEF SendReady, OrderInv, TypeOK, Ordered, Loaded, connVars
<1> QED BY <1>1, <1>2

\* A connection touches none of the facts of Ordered but trans, and leaves it out
\* of the phase "loaded".
LEMMA InitClientOrder ==
  ASSUME OrderInv, NEW m \in Node, NEW n \in Node, NEW who \in Terminal \cup {Loader},
         NEW phase \in {"load", "run"},
         InitClient(m, n, who, phase), term' = term
  PROVE  OrderInv'
<1>1. TypeOK'
  <2>1. <<n, who>> \in Clients  BY DEF Clients
  <2>2. trans' \in [Node -> TransPhases]
    BY DEF OrderInv, TypeOK, InitClient, TransPhases
  <2>3. queued' \in [Node -> SUBSET Clients]
    BY <2>1 DEF OrderInv, TypeOK, InitClient
  <2> QED BY <2>2, <2>3 DEF OrderInv, TypeOK, InitClient, masterVars
<1>2. \A k \in Node : trans'[k] = "loaded" => trans[k] = "loaded"
  BY DEF OrderInv, TypeOK, InitClient, TransPhases
<1>3. Ordered'
  BY <1>2 DEF OrderInv, Ordered, Loaded, InitClient, masterVars
<1> QED BY <1>1, <1>3 DEF OrderInv

LEMMA SlaveOrder ==
  ASSUME OrderInv, NEW n \in Node, Slave(n)
  PROVE  OrderInv'
<1>1. CASE Register(n)
  BY <1>1 DEF Register, OrderInv, TypeOK, Ordered, Loaded, connVars, TransPhases
<1>2. CASE Fork(n)
  BY <1>2 DEF Fork, OrderInv, TypeOK, Ordered, Loaded, connVars, masterVars, TransPhases, StoragePhases
<1>3. CASE WaitServer(n)
  <2>1. sem' \in [Host -> Nat]
    <3>1. host[n] \in Host  BY StartupAssumption DEF StartupAssumption, OrderInv, TypeOK
    <3>2. sem[host[n]] - 1 \in Nat  BY <1>3, <3>1 DEF WaitServer, OrderInv, TypeOK
    <3> QED BY <1>3, <3>1, <3>2 DEF WaitServer, OrderInv, TypeOK
  <2>2. trans' \in [Node -> TransPhases]
    BY <1>3 DEF WaitServer, OrderInv, TypeOK, TransPhases
  <2>3. TypeOK'
    BY <1>3, <2>1, <2>2 DEF WaitServer, OrderInv, TypeOK, connVars, masterVars
  <2>4. Ordered'
    BY <1>3 DEF WaitServer, OrderInv, TypeOK, Ordered, Loaded, connVars, masterVars
  <2> QED BY <2>3, <2>4 DEF OrderInv
<1>4. CASE ConnectLoader(n)
  BY <1>4, InitClientOrder DEF ConnectLoader
<1>5. CASE Load(n)
  <2>1. <<n, Loader>> \in Clients  BY DEF Clients
  <2>2. \A m \in Node : released[m] \subseteq released'[m]
    BY <1>5 DEF Load, OrderInv, TypeOK
  <2>3. Loaded(n)'
    BY <1>5 DEF Load, OrderInv, TypeOK, Loaded
  <2>4. TypeOK'
    BY <1>5, <2>1 DEF Load, OrderInv, TypeOK, masterVars, TransPhases
  <2>5. Ordered'
    BY <1>5, <2>2, <2>3 DEF Load, OrderInv, TypeOK, Ordered, Loaded, masterVars
  <2> QED BY <2>4, <2>5 DEF OrderInv
<1>6. CASE ReportReady(n)
  BY <1>6 DEF ReportReady, OrderInv, TypeOK, Ordered, Loaded, connVars, TransPhases
<1>7. CASE RunTerminals(n)
  BY <1>7 DEF RunTerminals, OrderInv, TypeOK, Ordered, Loaded, connVars, masterVars, TransPhases, TermPhases
<1>8. CASE EndReport(n)
  BY <1>8 DEF EndReport, OrderInv, TypeOK, Ordered, Loaded, connVars, masterVars, TransPhases
<1> QED BY <1>1, <1>2, <1>3, <1>4, <1>5, <1>6, <1>7, <1>8 DEF Slave

\* A terminal that goes on was started before.
LEMMA TerminalOrder ==
  ASSUME OrderInv, NEW n \in Node, NEW t \in Terminal,
         ConnectTerminal(n, t) \/ PassBarrier(n) \/ Execute(n, t)
  PROVE  OrderInv'
<1>1. CASE ConnectTerminal(n, t)
  <2>1. PICK m \in Node : InitClient(m, n, t, "run")
    BY <1>1 DEF ConnectTerminal, ToConnect
  <2> QED BY <1>1, <2>1, InitClientOrder DEF ConnectTerminal
<1>2. CASE PassBarrier(n)
  <2>1. \A k \in Node, u \in Terminal : term'[k][u] # "none" => term[k][u] # "none"
    BY <1>2 DEF PassBarrier, OrderInv, TypeOK, TermPhases
  <2>2. TypeOK'
    BY <1>2 DEF PassBarrier, OrderInv, TypeOK, TermPhases, connVars, masterVars
  <2>3. Ordered'
    BY <1>2, <2>1 DEF PassBarrier, OrderInv, Ordered, Loaded, connVars, masterVars
  <2> QED BY <2>2, <2>3 DEF OrderInv
<1>3. CASE Execute(n, t)
  <2>1. \A k \in Node, u \in Terminal : term'[k][u] # "none" => term[k][u] # "none"
    BY <1>3 DEF Execute, OrderInv, TypeOK, TermPhases
  <2>2. <<n, t>> \in Clients  BY DEF Clients
  <2>3. \A m \in Node : released[m] \subseteq released'[m]
    BY <1>3 DEF Execute
  <2>4. term' \in [Node -> [Terminal -> TermPhases]]
    BY <1>3 DEF Execute, OrderInv, TypeOK, TermPhases
  <2>5. TypeOK'
    BY <1>3, <2>2, <2>4 DEF Execute, OrderInv, TypeOK, masterVars
  <2>6. Ordered'
    BY <1>3, <2>1, <2>3 DEF Execute, OrderInv, TypeOK, Ordered, Loaded, masterVars
  <2> QED BY <2>5, <2>6 DEF OrderInv
<1> QED BY <1>1, <1>2, <1>3

LEMMA StorageOrder ==
  ASSUME OrderInv, NEW m \in Node, Storage(m)
  PROVE  OrderInv'
<1>1. CASE Listen(m)
  BY <1>1 DEF Listen, OrderInv, TypeOK, Ordered, Loaded, connVars, masterVars, StoragePhases
<1>2. CASE Post(m)
  <2>1. host[m] \in Host  BY StartupAssumption DEF StartupAssumption, OrderInv, TypeOK
  <2>2. TypeOK'
    BY <1>2, <2>1 DEF Post, OrderInv, TypeOK, connVars, masterVars, StoragePhases
  <2>3. Ordered'
    BY <1>2 DEF Post, OrderInv, Ordered, Loaded, connVars, masterVars
  <2> QED BY <2>2, <2>3 DEF OrderInv
<1>3. CASE Accept(m)
  <2>1. TypeOK'
    BY <1>3 DEF Accept, OrderInv, TypeOK, masterVars
  <2>2. Ordered'
    BY <1>3 DEF Accept, OrderInv, Ordered, Loaded, masterVars
  <2> QED BY <2>1, <2>2 DEF OrderInv
<1>4. CASE EndRespond(m)
  <2>1. TypeOK'
    BY <1>4 DEF EndRespond, OrderInv, TypeOK, masterVars
  <2>2. Ordered'
    BY <1>4 DEF EndRespond, OrderInv, Ordered, Loaded, masterVars
  <2> QED BY <2>1, <2>2 DEF OrderInv
<1>5. CASE Exit(m)
  BY <1>5 DEF Exit, OrderInv, TypeOK, Ordered, Loaded, connVars, masterVars, StoragePhases
<1> QED BY <1>1, <1>2, <1>3, <1>4, <1>5 DEF Storage

\* Every reachable state has OrderInv.
THEOREM AlwaysOrdered == Spec => []OrderInv
<1>1. Init => OrderInv  BY InitOrder
<1>2. OrderInv /\ [Next]_vars => OrderInv'
  <2> SUFFICES ASSUME OrderInv, [Next]_vars PROVE OrderInv'
    OBVIOUS
  <2>1. CASE Master  BY <2>1, MasterOrder DEF Master
  <2>2. ASSUME NEW n \in Node, Slave(n) PROVE OrderInv'  BY <2>2, SlaveOrder
  <2>3. ASSUME NEW n \in Node, Storage(n) PROVE OrderInv'  BY <2>3, StorageOrder
  <2>4. ASSUME NEW n \in Node, NEW t \in Terminal,
               ConnectTerminal(n, t) \/ PassBarrier(n) \/ Execute(n, t)
        PROVE  OrderInv'
    BY <2>4, TerminalOrder
  <2>5. PICK t \in Terminal : TRUE  BY StartupAssumption DEF StartupAssumption
  <2>6. CASE UNCHANGED vars
    BY <2>6 DEF vars, masterVars, connVars, OrderInv, TypeOK, Ordered, Loaded
  <2>7. CASE Finished  BY <2>6, <2>7 DEF Finished
  <2> QED BY <2>1, <2>2, <2>3, <2>4, <2>5, <2>6, <2>7 DEF Next
<1> QED BY <1>1, <1>2, PTL DEF Spec

\* Type correctness.
THEOREM StartupTypeCorrect == Spec => []TypeOK
<1>1. OrderInv => TypeOK  BY DEF OrderInv
<1> QED BY <1>1, AlwaysOrdered, PTL

\* No terminal is started before every slave has loaded its data (slave/main.c:56).
THEOREM TerminalsRunAfterLoading ==
  Spec => []RunAfterLoading
<1>1. OrderInv => RunAfterLoading
  BY DEF OrderInv, Ordered, RunAfterLoading
<1> QED BY <1>1, AlwaysOrdered, PTL

-----------------------------------------------------------------------------
(* Connections.                                                            *)

\* The clients that a storage process waits for, and those that have come.
Expected(m) == (Node \X Terminal) \cup {<<m, Loader>>}
Connected(m) == queued[m] \cup served[m] \cup closed[m]

BeforeFork == {"start", "param"}
AfterConnect == {"load", "loaded", "wait_nodes", "run", "ended", "exit"}
Accepting == {"accept", "ended"}

\* Only clients that m waits for connect to m, each of them once; m ends when all have
\* gone.  Its loader connects when trans[m] is "connect", and is the first that m serves.
CountedAt(m) ==
  /\ Connected(m) \subseteq Expected(m)
  /\ queued[m] \cap (served[m] \cup closed[m]) = {}
  /\ closed[m] \subseteq released[m]
  /\ <<m, Loader>> \in Connected(m) => trans[m] \in AfterConnect
  /\ served[m] \cup closed[m] # {} \/ Loaded(m) => storage[m] \in Accepting
  /\ storage[m] = "ended" => closed[m] = Expected(m)
  /\ trans[m] \in BeforeFork => storage[m] = "none"

\* The semaphore of a machine with one slave is posted by that slave's server.
OwnServerAt(n) ==
  Alone(n) =>
    /\ sem[host[n]] > 0 \/ trans[n] \in AfterConnect \cup {"connect"} => storage[n] \in Accepting
    /\ trans[n] # "exit"

ConnInv == \A m \in Node : CountedAt(m) /\ OwnServerAt(m)

\* InitServer accepts as many connections as clients are expected.
LEMMA ExpectedAreCounted ==
  ASSUME NEW m \in Node
  PROVE  IsFiniteSet(Expected(m)) /\ Cardinality(Expected(m)) = Connections
<1>1. /\ IsFiniteSet(Node \X Terminal)
      /\ Cardinality(Node \X Terminal) = Cardinality(Node) * Cardinality(Terminal)
  BY StartupAssumption, FS_Product DEF StartupAssumption
<1>2. <<m, Loader>> \notin Node \X Terminal
  BY StartupAssumption DEF StartupAssumption
<1>. QED
  BY <1>1, <1>2, FS_AddElement DEF Expected, Connections

LEMMA InitConnections == Init => ConnInv
<1>. SUFFICES ASSUME Init, NEW m \in Node
              PROVE  CountedAt(m) /\ OwnServerAt(m)
  BY DEF ConnInv
<1>1. sem[host[m]] = 0
  <2>1. host[m] \in Host
    BY StartupAssumption DEF Init, StartupAssumption
  <2>. QED
    BY <2>1 DEF Init
<1>2. queued[m] = {} /\ served[m] = {} /\ closed[m] = {} /\ released[m] = {}
      /\ trans[m] = "start" /\ storage[m] = "none"
  BY DEF Init
<1>3. CountedAt(m)
  BY <1>2 DEF CountedAt, Connected, Loaded, Accepting, AfterConnect
<1>4. OwnServerAt(m)
  BY <1>1, <1>2 DEF OwnServerAt, AfterConnect
<1>. QED
  BY <1>3, <1>4

\* Steps that only take slaves from phase to phase, before or after their loader connects.
LEMMA PhaseConnections ==
  ASSUME OrderInv, ConnInv, UNCHANGED <<host, storage, sem, queued, served, closed, released>>,
         \A k \in Node :
           \/ trans'[k] = trans[k]
           \/ trans[k] = "start" /\ trans'[k] = "param"
           \/ /\ trans[k] \in AfterConnect /\ trans'[k] \in AfterConnect
              /\ trans'[k] # "exit"
  PROVE  ConnInv'
<1>. SUFFICES ASSUME NEW m \in Node
              PROVE  CountedAt(m)' /\ OwnServerAt(m)'
  BY DEF ConnInv
<1>1. CountedAt(m) /\ OwnServerAt(m)
  BY DEF ConnInv
<1>2. /\ trans[m] \in AfterConnect => trans'[m] \in AfterConnect
      /\ trans'[m] \in BeforeFork => trans[m] \in BeforeFork
      /\ trans'[m] \in AfterConnect \cup {"connect"} => trans[m] \in AfterConnect \cup {"connect"}
      /\ trans'[m] = "exit" => trans[m] = "exit"
  BY DEF AfterConnect, BeforeFork
<1>3. CountedAt(m)'
  BY <1>1, <1>2 DEF CountedAt, Connected, Expected, Loaded
<1>4. OwnServerAt(m)'
  BY <1>1, <1>2 DEF OwnServerAt, Alone
<1>. QED
  BY <1>3, <1>4

\* A terminal is not refused: every storage process has served its loader by then, and
\* none ends before the terminal has come and gone.
LEMMA TerminalFindsServer ==
  ASSUME OrderInv, ConnInv, NEW n \in Node, NEW t \in Terminal, NEW m \in ToConnect(n, t),
         term[n][t] # "none"
  PROVE  storage[m] = "accept"
<1>1. m \in Node /\ <<n, t>> \notin closed[m] /\ <<n, t>> \in Expected(m)
  BY DEF ToConnect, Expected
<1>2. Loaded(m)
  BY <1>1 DEF OrderInv, Ordered
<1>3. CountedAt(m)
  BY <1>1 DEF ConnInv
<1>. QED
  BY <1>1, <1>2, <1>3 DEF CountedAt, Accepting

\* A connection to a server that listens.
LEMMA ClientConnects ==
  ASSUME OrderInv, ConnInv, NEW m \in Node, NEW n \in Node, NEW who \in Terminal \cup {Loader},
         NEW phase \in {"load", "run"},
         InitClient(m, n, who, phase), storage[m] \in {"listen", "accept"},
         <<n, who>> \in Expected(m), <<n, who>> \notin Connected(m),
         trans[n] \in AfterConnect \cup {"connect"}
  PROVE  ConnInv'
<1>. USE DEF InitClient
<1>1. /\ trans' = [trans EXCEPT ![n] = phase]
      /\ queued' = [queued EXCEPT ![m] = @ \cup {<<n, who>>}]
      /\ UNCHANGED <<host, storage, sem, served, closed, released>>
      /\ trans \in [Node -> TransPhases] /\ queued \in [Node -> SUBSET Clients]
  BY DEF Listening, OrderInv, TypeOK
<1>2. \A k \in Node : trans'[k] = IF k = n THEN phase ELSE trans[k]
  BY <1>1
<1>3. ASSUME NEW k \in Node
      PROVE  CountedAt(k)' /\ OwnServerAt(k)'
  <2>1. CountedAt(k) /\ OwnServerAt(k)
    BY DEF ConnInv
  <2>2. /\ trans[k] \in AfterConnect => trans'[k] \in AfterConnect
        /\ trans'[k] \in BeforeFork => trans[k] \in BeforeFork
        /\ trans'[k] \in AfterConnect \cup {"connect"} => trans[k] \in AfterConnect \cup {"connect"}
        /\ trans'[k] = "exit" => trans[k] = "exit"
    BY <1>2 DEF AfterConnect, BeforeFork
  <2>3. OwnServerAt(k)'
    BY <1>1, <2>1, <2>2 DEF OwnServerAt, Alone
  <2>4. CASE k = m
    <3>1. queued'[k] = queued[k] \cup {<<n, who>>}
      BY <1>1, <2>4
    <3>2. Connected(k)' = Connected(k) \cup {<<n, who>>}
      BY <1>1, <3>1 DEF Connected
    <3>3. <<k, Loader>> = <<n, who>> => trans'[k] \in AfterConnect
      BY <1>2 DEF AfterConnect
    <3>4. Connected(k)' \subseteq Expected(k)
      BY <2>1, <2>4, <3>2 DEF CountedAt
    <3>5. (queued[k] \cap (served[k] \cup closed[k]) = {})'
      BY <1>1, <2>1, <2>4, <3>1 DEF CountedAt, Connected
    <3>6. (<<k, Loader>> \in Connected(k))' => trans'[k] \in AfterConnect
      BY <2>1, <2>2, <3>2, <3>3 DEF CountedAt
    <3>7. CountedAt(k)'
      BY <1>1, <2>1, <2>2, <3>4, <3>5, <3>6 DEF CountedAt, Expected, Loaded
    <3>. QED
      BY <2>3, <3>7
  <2>5. CASE k # m
    <3>1. queued'[k] = queued[k]
      BY <1>1, <2>5
    <3>2. Connected(k)' = Connected(k)
      BY <1>1, <3>1 DEF Connected
    <3>3. CountedAt(k)'
      BY <1>1, <2>1, <2>2, <3>1, <3>2 DEF CountedAt, Expected, Loaded
    <3>. QED
      BY <2>3, <3>3
  <2>. QED
    BY <2>4, <2>5
<1>. QED
  BY <1>3 DEF ConnInv

\* A slave from the fork to the end of the loading.
LEMMA LoadingConnections ==
  ASSUME OrderInv, ConnInv, NEW n \in Node, Fork(n) \/ WaitServer(n) \/ ConnectLoader(n) \/ Load(n)
  PROVE  ConnInv'
<1>1. /\ trans \in [Node -> TransPhases] /\ storage \in [Node -> StoragePhases]
      /\ sem \in [Host -> Nat] /\ host \in [Node -> Host]
      /\ released \in [Node -> SUBSET Clients] /\ queued \in [Node -> SUBSET Clients]
  BY StartupAssumption DEF OrderInv, TypeOK, StartupAssumption
<1>2. \A k \in Node : CountedAt(k) /\ OwnServerAt(k)
  BY DEF ConnInv
<1>3. CASE Fork(n)
  <2>1. /\ trans' = [trans EXCEPT ![n] = "wait_server"]
        /\ storage' = [storage EXCEPT ![n] = "init"] /\ trans[n] = "param"
        /\ UNCHANGED <<host, sem, queued, served, closed, released>>
    BY <1>3 DEF Fork, connVars
  <2>2. ASSUME NEW k \in Node, k # n
        PROVE  CountedAt(k)' /\ OwnServerAt(k)'
    <3>1. trans'[k] = trans[k] /\ storage'[k] = storage[k]
      BY <1>1, <2>1, <2>2
    <3>. QED
      BY <1>2, <2>1, <3>1 DEF CountedAt, OwnServerAt, Connected, Expected, Loaded, Alone
  <2>3. trans'[n] = "wait_server" /\ storage'[n] = "init" /\ storage[n] = "none"
    BY <1>1, <1>2, <2>1 DEF CountedAt, BeforeFork
  <2>4. CountedAt(n)'
    <3>1. served[n] \cup closed[n] = {} /\ ~Loaded(n)
      BY <1>2, <2>3 DEF CountedAt, Accepting
    <3>2. <<n, Loader>> \notin Connected(n)
      BY <1>2, <2>1 DEF CountedAt, AfterConnect
    <3>. QED
      BY <1>2, <2>1, <2>3, <3>1, <3>2 DEF CountedAt, Connected, Expected, Loaded, BeforeFork
  <2>5. OwnServerAt(n)'
    BY <1>2, <2>1, <2>3 DEF OwnServerAt, Alone, Accepting, AfterConnect
  <2>. QED
    BY <2>2, <2>4, <2>5 DEF ConnInv
<1>4. CASE WaitServer(n)
  <2>1. /\ trans' = [trans EXCEPT ![n] = "connect"]
        /\ sem' = [sem EXCEPT ![host[n]] = @ - 1] /\ trans[n] = "wait_server" /\ sem[host[n]] > 0
        /\ UNCHANGED <<host, storage, queued, served, closed, released>>
    BY <1>4 DEF WaitServer, connVars
  <2>2. \A h \in Host : sem'[h] > 0 => sem[h] > 0
    BY <1>1, <2>1
  <2>3. trans'[n] = "connect" /\ \A k \in Node : k # n => trans'[k] = trans[k]
    BY <1>1, <2>1
  <2>4. <<n, Loader>> \notin Connected(n)
    BY <1>2, <2>1 DEF CountedAt, AfterConnect
  <2>5. ASSUME NEW k \in Node
        PROVE  CountedAt(k)'
    <3>1. trans'[k] \in BeforeFork => trans[k] \in BeforeFork
      BY <2>3 DEF BeforeFork
    <3>2. <<k, Loader>> \in Connected(k) => trans'[k] \in AfterConnect
      BY <1>2, <2>3, <2>4 DEF CountedAt
    <3>. QED
      BY <1>2, <2>1, <3>1, <3>2 DEF CountedAt, Connected, Expected, Loaded
  <2>6. ASSUME NEW k \in Node
        PROVE  OwnServerAt(k)'
    <3>1. host[k] \in Host
      BY <1>1
    <3>2. CASE k = n
      BY <1>2, <2>1, <2>3, <3>2 DEF OwnServerAt, Alone
    <3>3. CASE k # n
      <4>1. trans'[k] = trans[k] /\ (sem'[host[k]] > 0 => sem[host[k]] > 0)
        BY <2>2, <2>3, <3>1, <3>3
      <4>. QED
        BY <1>2, <2>1, <4>1 DEF OwnServerAt, Alone
    <3>. QED
      BY <3>2, <3>3
  <2>. QED
    BY <2>5, <2>6 DEF ConnInv
<1>5. CASE ConnectLoader(n)
  <2>1. InitClient(n, n, Loader, "load") /\ trans[n] = "connect"
    BY <1>5 DEF ConnectLoader
  <2>2. <<n, Loader>> \notin Connected(n) /\ <<n, Loader>> \in Expected(n)
    BY <1>2, <2>1 DEF CountedAt, AfterConnect, Expected
  <2>3. storage[n] # "ended"
    BY <1>2, <2>2 DEF CountedAt, Connected
  <2>4. CASE Listening(n)
    <3>1. storage[n] \in {"listen", "accept"}
      BY <2>4 DEF Listening
    <3>. QED
      BY <2>1, <2>2, <3>1, ClientConnects
  <2>5. CASE ~Listening(n)
    <3>1. /\ trans' = [trans EXCEPT ![n] = "exit"] /\ queued' = queued
          /\ UNCHANGED <<host, storage, sem, served, closed, released>>
      BY <1>1, <2>1, <2>5 DEF InitClient
    <3>2. ~Alone(n)
      <4>1. storage[n] \notin Accepting
        BY <2>3, <2>5 DEF Listening, Accepting
      <4>. QED
        BY <1>2, <2>1, <4>1 DEF OwnServerAt
    <3>3. trans'[n] = "exit" /\ \A k \in Node : k # n => trans'[k] = trans[k]
      BY <1>1, <3>1
    <3>4. ASSUME NEW k \in Node
          PROVE  CountedAt(k)'
      <4>1. /\ trans'[k] \in BeforeFork => trans[k] \in BeforeFork
            /\ trans[k] \in AfterConnect => trans'[k] \in AfterConnect
        BY <3>3 DEF BeforeFork, AfterConnect
      <4>. QED
        BY <1>2, <3>1, <4>1 DEF CountedAt, Connected, Expected, Loaded
    <3>5. ASSUME NEW k \in Node
          PROVE  OwnServerAt(k)'
      <4>1. CASE k = n
        BY <3>1, <3>2, <4>1 DEF OwnServerAt, Alone
      <4>2. CASE k # n
        BY <1>2, <3>1, <3>3, <4>2 DEF OwnServerAt, Alone
      <4>. QED
        BY <4>1, <4>2
    <3>. QED
      BY <3>4, <3>5 DEF ConnInv
  <2>. QED
    BY <2>4, <2>5
<1>6. CASE Load(n)
  <2>1. /\ trans' = [trans EXCEPT ![n] = "loaded"] /\ trans[n] = "load"
        /\ released' = [released EXCEPT ![n] = @ \cup {<<n, Loader>>}]
        /\ <<n, Loader>> \in served[n]
        /\ UNCHANGED <<host, storage, sem, queued, served, closed>>
    BY <1>6 DEF Load
  <2>2. trans'[n] = "loaded" /\ \A k \in Node : k # n => trans'[k] = trans[k]
    BY <1>1, <2>1
  <2>3. ASSUME NEW k \in Node
        PROVE  CountedAt(k)' /\ OwnServerAt(k)'
    <3>1. /\ trans[k] \in AfterConnect => trans'[k] \in AfterConnect
          /\ trans'[k] \in BeforeFork => trans[k] \in BeforeFork
          /\ trans'[k] \in AfterConnect \cup {"connect"} => trans[k] \in AfterConnect \cup {"connect"}
          /\ trans'[k] = "exit" => trans[k] = "exit"
      BY <2>1, <2>2 DEF BeforeFork, AfterConnect
    <3>2. released[k] \subseteq released'[k]
      BY <1>1, <2>1
    <3>3. Loaded(k)' => Loaded(k) \/ served[k] # {}
      BY <1>1, <2>1 DEF Loaded
    <3>4. CountedAt(k)'
      BY <1>2, <2>1, <3>1, <3>2, <3>3 DEF CountedAt, Connected, Expected
    <3>5. OwnServerAt(k)'
      BY <1>2, <2>1, <3>1 DEF OwnServerAt, Alone
    <3>. QED
      BY <3>4, <3>5
  <2>. QED
    BY <2>3 DEF ConnInv
<1>. QED
  BY <1>3, <1>4, <1>5, <1>6

\* The terminals.
LEMMA TerminalConnections ==
  ASSUME OrderInv, ConnInv, NEW n \in Node, NEW t \in Terminal, ConnectTerminal(n, t) \/ Execute(n, t)
  PROVE  ConnInv'
<1>1. CASE ConnectTerminal(n, t)
  <2>1. PICK m \in ToConnect(n, t) : InitClient(m, n, t, "run")
    BY <1>1 DEF ConnectTerminal
  <2>2. trans[n] = "run" /\ term[n][t] # "none"
    BY <1>1 DEF ConnectTerminal
  <2>3. storage[m] = "accept"
    BY <2>2, TerminalFindsServer
  <2>4. m \in Node /\ <<n, t>> \in Expected(m) /\ <<n, t>> \notin Connected(m)
    BY DEF ToConnect, Expected, Connected
  <2>. QED
    BY <2>1, <2>2, <2>3, <2>4, ClientConnects DEF AfterConnect
<1>2. CASE Execute(n, t)
  <2>1. /\ released' = [m \in Node |-> released[m] \cup {<<n, t>>}]
        /\ UNCHANGED <<host, trans, storage, sem, queued, served, closed>>
    BY <1>2 DEF Execute
  <2>2. ASSUME NEW k \in Node
        PROVE  CountedAt(k)' /\ OwnServerAt(k)'
    <3>1. released[k] \subseteq released'[k]
      BY <2>1
    <3>2. Loaded(k)' => Loaded(k)
      BY <2>1, StartupAssumption DEF Loaded, StartupAssumption
    <3>3. CountedAt(k) /\ OwnServerAt(k)
      BY DEF ConnInv
    <3>. QED
      BY <2>1, <3>1, <3>2, <3>3 DEF CountedAt, OwnServerAt, Connected, Expected, Alone
  <2>. QED
    BY <2>2 DEF ConnInv
<1>. QED
  BY <1>1, <1>2

\* The storage process.
LEMMA StorageConnections ==
  ASSUME OrderInv, ConnInv, NEW m \in Node, Storage(m)
  PROVE  ConnInv'
<1>1. /\ storage \in [Node -> StoragePhases] /\ sem \in [Host -> Nat] /\ host \in [Node -> Host]
      /\ queued \in [Node -> SUBSET Clients] /\ served \in [Node -> SUBSET Clients]
      /\ closed \in [Node -> SUBSET Clients] /\ released \in [Node -> SUBSET Clients]
  BY StartupAssumption DEF OrderInv, TypeOK, StartupAssumption
<1>2. \A k \in Node : CountedAt(k) /\ OwnServerAt(k)
  BY DEF ConnInv
<1>3. CASE Listen(m)
  <2>1. /\ storage' = [storage EXCEPT ![m] = "listen"] /\ storage[m] = "init"
        /\ UNCHANGED <<host, trans, sem, queued, served, closed, released>>
    BY <1>3 DEF Listen, connVars
  <2>2. storage'[m] = "listen" /\ \A k \in Node : k # m => storage'[k] = storage[k]
    BY <1>1, <2>1
  <2>3. CountedAt(m)' /\ OwnServerAt(m)'
    BY <1>2, <2>1, <2>2 DEF CountedAt, OwnServerAt, Connected, Expected, Loaded, Alone, Accepting
  <2>4. ASSUME NEW k \in Node, k # m
        PROVE  CountedAt(k)' /\ OwnServerAt(k)'
    BY <1>2, <2>1, <2>2, <2>4 DEF CountedAt, OwnServerAt, Connected, Expected, Loaded, Alone
  <2>. QED
    BY <2>3, <2>4 DEF ConnInv
<1>4. CASE Post(m)
  <2>1. /\ storage' = [storage EXCEPT ![m] = "accept"] /\ storage[m] = "listen"
        /\ sem' = [sem EXCEPT ![host[m]] = @ + 1]
        /\ UNCHANGED <<host, trans, queued, served, closed, released>>
    BY <1>4 DEF Post, connVars
  <2>2. storage'[m] = "accept" /\ \A k \in Node : k # m => storage'[k] = storage[k]
    BY <1>1, <2>1
  <2>3. CountedAt(m)' /\ OwnServerAt(m)'
    BY <1>2, <2>1, <2>2 DEF CountedAt, OwnServerAt, Connected, Expected, Loaded, Alone, Accepting
  <2>4. ASSUME NEW k \in Node, k # m
        PROVE  CountedAt(k)' /\ OwnServerAt(k)'
    <3>1. Alone(k) => sem'[host[k]] = sem[host[k]]
      <4>1. Alone(k) => host[m] # host[k]
        BY <2>4 DEF Alone
      <4>. QED
        BY <1>1, <2>1, <4>1
    <3>2. OwnServerAt(k)'
      BY <1>2, <2>1, <2>2, <2>4, <3>1 DEF OwnServerAt, Alone
    <3>3. CountedAt(k)'
      BY <1>2, <2>1, <2>2, <2>4 DEF CountedAt, Connected, Expected, Loaded
    <3>. QED
      BY <3>2, <3>3
  <2>. QED
    BY <2>3, <2>4 DEF ConnInv
<1>5. CASE Accept(m)
  <2>1. PICK c \in queued[m] :
          /\ queued' = [queued EXCEPT ![m] = @ \ {c}]
          /\ served' = [served EXCEPT ![m] = @ \cup {c}]
    BY <1>5 DEF Accept
  <2>2. storage[m] = "accept" /\ UNCHANGED <<host, trans, storage, sem, closed, released>>
    BY <1>5 DEF Accept
  <2>3. queued'[m] = queued[m] \ {c} /\ served'[m] = served[m] \cup {c}
        /\ \A k \in Node : k # m => queued'[k] = queued[k] /\ served'[k] = served[k]
    BY <1>1, <2>1
  <2>4. CountedAt(m)'
    <3>1. Connected(m)' = Connected(m)
      BY <2>2, <2>3 DEF Connected
    <3>2. (queued[m] \cap (served[m] \cup closed[m]) = {})'
      BY <1>2, <2>2, <2>3 DEF CountedAt
    <3>. QED
      BY <1>2, <2>2, <3>1, <3>2 DEF CountedAt, Expected, Loaded, Accepting
  <2>5. ASSUME NEW k \in Node, k # m
        PROVE  CountedAt(k)'
    BY <1>2, <2>2, <2>3, <2>5 DEF CountedAt, Connected, Expected, Loaded
  <2>6. ASSUME NEW k \in Node
        PROVE  OwnServerAt(k)'
    BY <1>2, <2>2 DEF OwnServerAt, Alone
  <2>. QED
    BY <2>4, <2>5, <2>6 DEF ConnInv
<1>6. CASE EndRespond(m)
  <2>1. PICK c \in served[m] \cap released[m] :
          /\ served' = [served EXCEPT ![m] = @ \ {c}]
          /\ closed' = [closed EXCEPT ![m] = @ \cup {c}]
    BY <1>6 DEF EndRespond
  <2>2. UNCHANGED <<host, trans, storage, sem, queued, released>>
    BY <1>6 DEF EndRespond
  <2>3. served'[m] = served[m] \ {c} /\ closed'[m] = closed[m] \cup {c}
        /\ \A k \in Node : k # m => served'[k] = served[k] /\ closed'[k] = closed[k]
    BY <1>1, <2>1
  <2>4. CountedAt(m)'
    <3>1. Connected(m)' = Connected(m) /\ (served[m] \cup closed[m])' = served[m] \cup closed[m]
      BY <2>2, <2>3 DEF Connected
    <3>2. closed'[m] \subseteq released[m]
      BY <1>2, <2>3 DEF CountedAt
    <3>3. c \in Expected(m)
      BY <1>2 DEF CountedAt, Connected
    <3>4. storage[m] = "ended" => closed'[m] = Expected(m)
      BY <1>2, <2>3, <3>3 DEF CountedAt
    <3>. QED
      BY <1>2, <2>2, <3>1, <3>2, <3>4 DEF CountedAt, Expected, Loaded
  <2>5. ASSUME NEW k \in Node, k # m
        PROVE  CountedAt(k)'
    BY <1>2, <2>2, <2>3, <2>5 DEF CountedAt, Connected, Expected, Loaded
  <2>6. ASSUME NEW k \in Node
        PROVE  OwnServerAt(k)'
    BY <1>2, <2>2 DEF OwnServerAt, Alone
  <2>. QED
    BY <2>4, <2>5, <2>6 DEF ConnInv
<1>7. CASE Exit(m)
  <2>1. /\ storage' = [storage EXCEPT ![m] = "ended"] /\ storage[m] = "accept"
        /\ Accepted(m) = Connections /\ served[m] = {}
        /\ UNCHANGED <<host, trans, sem, queued, served, closed, released>>
    BY <1>7 DEF Exit, connVars
  <2>2. storage'[m] = "ended" /\ \A k \in Node : k # m => storage'[k] = storage[k]
    BY <1>1, <2>1
  <2>3. closed[m] = Expected(m)
    <3>1. closed[m] \in SUBSET Expected(m)
      BY <1>2 DEF CountedAt, Connected
    <3>2. Cardinality(closed[m]) = Connections
      <4>1. served[m] \cup closed[m] = closed[m]
        BY <2>1
      <4>. QED
        BY <2>1, <4>1 DEF Accepted
    <3>. QED
      BY <3>1, <3>2, ExpectedAreCounted, FS_Subset
  <2>4. trans[m] \notin BeforeFork
    BY <1>2, <2>1 DEF CountedAt
  <2>5. CountedAt(m)' /\ OwnServerAt(m)'
    BY <1>2, <2>1, <2>2, <2>3, <2>4 DEF CountedAt, OwnServerAt, Connected, Expected, Loaded, Alone,
                                        Accepting
  <2>6. ASSUME NEW k \in Node, k # m
        PROVE  CountedAt(k)' /\ OwnServerAt(k)'
    BY <1>2, <2>1, <2>2, <2>6 DEF CountedAt, OwnServerAt, Connected, Expected, Loaded, Alone
  <2>. QED
    BY <2>5, <2>6 DEF ConnInv
<1>. QED
  BY <1>3, <1>4, <1>5, <1>6, <1>7 DEF Storage

LEMMA NextConnections == OrderInv /\ ConnInv /\ [Next]_vars => ConnInv'
<1>. SUFFICES ASSUME OrderInv, ConnInv, [Next]_vars
              PROVE  ConnInv'
  OBVIOUS
<1>1. ASSUME NEW n \in Node, Storage(n)
      PROVE  ConnInv'
  BY <1>1, StorageConnections
<1>2. ASSUME NEW n \in Node, Fork(n) \/ WaitServer(n) \/ ConnectLoader(n) \/ Load(n)
      PROVE  ConnInv'
  BY <1>2, LoadingConnections
<1>3. ASSUME NEW n \in Node, NEW t \in Terminal, ConnectTerminal(n, t) \/ Execute(n, t)
      PROVE  ConnInv'
  BY <1>3, TerminalConnections
<1>4. CASE UNCHANGED <<host, trans, storage, sem, queued, served, closed, released>>
  BY <1>4, PhaseConnections
<1>5. CASE Master
  BY <1>4, <1>5 DEF Master, SendParam, SendReady, connVars
<1>6. ASSUME NEW n \in Node, Register(n) \/ ReportReady(n) \/ RunTerminals(n) \/ EndReport(n)
      PROVE  ConnInv'
  <2>1. UNCHANGED <<host, storage, sem, queued, served, closed, released>>
    BY <1>6 DEF Register, ReportReady, RunTerminals, EndReport, connVars
  <2>2. trans \in [Node -> TransPhases]
    BY DEF OrderInv, TypeOK
  <2>3. ASSUME NEW k \in Node
        PROVE  \/ trans'[k] = trans[k]
               \/ trans[k] = "start" /\ trans'[k] = "param"
               \/ /\ trans[k] \in AfterConnect /\ trans'[k] \in AfterConnect
                  /\ trans'[k] # "exit"
    BY <1>6, <2>2 DEF Register, ReportReady, RunTerminals, EndReport, AfterConnect
  <2>. QED
    BY <2>1, <2>3, PhaseConnections
<1>7. ASSUME NEW n \in Node, PassBarrier(n)
      PROVE  ConnInv'
  BY <1>4, <1>7 DEF PassBarrier, connVars
<1>8. CASE Finished \/ UNCHANGED vars
  BY <1>4, <1>8 DEF Finished, vars, connVars
<1>. QED
  BY <1>1, <1>2, <1>3, <1>5, <1>6, <1>7, <1>8 DEF Next, Slave

LEMMA AlwaysConnected == Spec => []ConnInv
<1>. QED
  BY InitConnections, NextConnections, AlwaysOrdered, PTL DEF Spec

\* A slave that is alone on its machine is never refused a connection (InitClient).
THEOREM AloneIsNeverRefused == Spec => []AloneIsNotRefused
<1>1. ConnInv => AloneIsNotRefused
  BY DEF ConnInv, OwnServerAt, AloneIsNotRefused
<1>. QED
  BY <1>1, AlwaysConnected, PTL

\* A storage process lives as long as a client has a connection to it that it has not
\* released, and ends only when all clients have come (InitServer).
THEOREM StorageAlwaysOutlivesClients == Spec => []StorageOutlivesClients
<1>1. ConnInv => StorageOutlivesClients
  <2>. SUFFICES ASSUME ConnInv, NEW m \in Node, storage[m] = "ended"
                PROVE  /\ queued[m] = {}
                       /\ \A n \in Node, t \in Terminal : <<n, t>> \in released[m]
    BY DEF StorageOutlivesClients
  <2>1. closed[m] = Expected(m) /\ closed[m] \subseteq released[m]
        /\ queued[m] \cap closed[m] = {} /\ queued[m] \subseteq Expected(m)
    BY DEF ConnInv, CountedAt, Connected
  <2>2. \A n \in Node, t \in Terminal : <<n, t>> \in Expected(m)
    BY DEF Expected
  <2>. QED
    BY <2>1, <2>2
<1>. QED
  BY <1>1, AlwaysConnected, PTL
=============================================================================
