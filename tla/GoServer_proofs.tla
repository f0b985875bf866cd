--------------------------- MODULE GoServer_proofs ---------------------------
(***************************************************************************)
(* Proofs about GoServer, for any number of connections, any requests, any *)
(* environment and however signals, time and clients fall.                 *)
(***************************************************************************)
EXTENDS GoServer, TLAPS

-----------------------------------------------------------------------------
(***************************************************************************)
(* The inductive invariant                                                 *)
(***************************************************************************)
\* main opens the database before anything is served and closes it last.
DbInv ==
    /\ db = "none" <=> main \in {"load", "initdb"}
    /\ db = "closed" <=> main = "return"
    /\ exit = "clean" => main = "return"

\* The goroutine listens only between its start and the shutdown, and before it
\* there are no connections.
ListenerInv ==
    /\ main \in {"load", "initdb", "spawn"} => listener = "none"
    /\ ShuttingDown => listener # "listening"
    /\ \A c \in Conns : conn[c] # "none" => main \notin {"load", "initdb", "spawn"}

\* When Shutdown has returned, only websockets are left.
DrainedInv ==
    main \in {"close", "return"} => \A c \in Conns : conn[c] \in {"none", "socket", "closed"}

IInv == TypeOK /\ DbInv /\ ListenerInv /\ DrainedInv /\ HandlersHaveTheDb

-----------------------------------------------------------------------------
(***************************************************************************)
(* Types                                                                   *)
(***************************************************************************)
\* LoadConfig makes a configuration with a port that is a number, whatever the
\* environment holds.
LEMMA LoadConfigType ==
    ASSUME NEW e
    PROVE  DOMAIN LoadConfig(e) = {"port", "key", "url"} /\ LoadConfig(e).port \in Int
BY DEF LoadConfig, DefaultPort

\* Every variable keeps its type.
LEMMA TypeStep ==
    ASSUME TypeOK, [Next]_vars
    PROVE  TypeOK'
<1> USE DEF TypeOK, connVars, procVars
<1>1. CASE UNCHANGED vars
  BY <1>1 DEF vars
<1>2. CASE Load
  <2>1. DOMAIN cfg' = {"port", "key", "url"} /\ cfg'.port \in Int
    BY <1>2, LoadConfigType DEF Load
  <2> QED
    BY <1>2, <2>1 DEF Load
<1>3. CASE InitDB \/ Spawn \/ Notify
  <2>1. UNCHANGED <<env, cfg, quit, expired, connVars>>
    BY <1>3 DEF InitDB, Spawn, Notify
  <2>2. CASE InitDB
    BY <2>1, <2>2 DEF InitDB
  <2>3. CASE Spawn
    BY <2>1, <2>3 DEF Spawn
  <2>4. CASE Notify
    BY <2>1, <2>4 DEF Notify
  <2> QED
    BY <1>3, <2>2, <2>3, <2>4
<1>4. CASE BeginShutdown \/ ForcedShutdown \/ CloseDb \/ Return
  <2>1. UNCHANGED <<env, cfg, notified, expired, connVars>>
    BY <1>4 DEF BeginShutdown, ForcedShutdown, CloseDb, Return
  <2>2. CASE BeginShutdown
    BY <2>1, <2>2 DEF BeginShutdown
  <2>3. CASE ForcedShutdown
    BY <2>1, <2>3 DEF ForcedShutdown
  <2>4. CASE CloseDb
    BY <2>1, <2>4 DEF CloseDb
  <2>5. CASE Return
    BY <2>1, <2>5 DEF Return
  <2> QED
    BY <1>4, <2>2, <2>3, <2>4, <2>5
<1>5. CASE Expire
  BY <1>5 DEF Expire
<1>6. CASE Signal
  <2>1. UNCHANGED <<env, cfg, main, listener, db, notified, expired, connVars>>
    BY <1>6 DEF Signal
  <2>2. quit' \in BOOLEAN
    BY <1>6 DEF Signal
  <2>3. exit' \in {"running", "fatal", "killed", "forced", "clean"}
    BY <1>6 DEF Signal
  <2> QED
    BY <2>1, <2>2, <2>3
<1>7. CASE Poll
  BY <1>7 DEF Poll, IdleClosed
<1>8. CASE Listen
  BY <1>8 DEF Listen
<1>9. ASSUME NEW c \in Conns, Accept(c) \/ Age(c) \/ Receive(c) \/ Reply(c) \/ Disconnect(c)
      PROVE  TypeOK'
  BY <1>9 DEF Accept, Age, Receive, Reply, Disconnect, Replied
<1>10. ASSUME NEW c \in Conns, AuthMiddleware(c)
      PROVE  TypeOK'
  BY <1>10 DEF AuthMiddleware, Replied
<1>11. ASSUME NEW c \in Conns, Statement(c)
      PROVE  TypeOK'
  BY <1>11 DEF Statement
<1>12. CASE Ended
  BY <1>12 DEF Ended, vars
<1> QED
  BY <1>1, <1>2, <1>3, <1>4, <1>5, <1>6, <1>7, <1>8, <1>9, <1>10,
     <1>11, <1>12 DEF Next, MainStep, ConnStep

-----------------------------------------------------------------------------
(***************************************************************************)
(* Start and shutdown                                                      *)
(***************************************************************************)
\* A step on a connection changes neither main nor what it holds.
LEMMA ConnFrame ==
    ASSUME NEW c \in Conns, ConnStep(c)
    PROVE  UNCHANGED procVars
BY DEF ConnStep, Accept, Age, Receive, AuthMiddleware, Statement, Reply, Disconnect

\* A step on a connection leaves the others alone.  It is accepted only by a
\* listener that is up, and nothing happens on it once it is closed.
LEMMA ConnMoves ==
    ASSUME TypeOK, NEW c \in Conns, ConnStep(c)
    PROVE  /\ \A d \in Conns : d # c => conn'[d] = conn[d]
           /\ conn[c] = "none" => listener = "listening" /\ conn'[c] = "new"
           /\ conn[c] = "socket" => conn'[c] \in {"socket", "closed"}
           /\ conn[c] # "closed"
           /\ Running
<1> USE DEF TypeOK
<1>1. CASE Accept(c) \/ Age(c) \/ Receive(c) \/ Reply(c) \/ Disconnect(c)
  BY <1>1 DEF Accept, Age, Receive, Reply, Disconnect
<1>2. CASE AuthMiddleware(c)
  BY <1>2 DEF AuthMiddleware
<1>3. CASE Statement(c)
  BY <1>3 DEF Statement
<1> QED
  BY <1>1, <1>2, <1>3 DEF ConnStep

\* What the other steps do to the connections: Poll closes the idle ones.
LEMMA OtherMoves ==
    ASSUME [Next]_vars, ~\E c \in Conns : ConnStep(c)
    PROVE  /\ conn' = conn \/ Poll
           /\ UNCHANGED <<request, met>>
BY DEF Next, MainStep, Load, InitDB, Spawn, Notify, BeginShutdown, Poll, ForcedShutdown,
   CloseDb, Return, Expire, Signal, Listen, Ended, vars, connVars

\* The database is opened and closed by main only.
LEMMA DbStep ==
    ASSUME TypeOK, DbInv, [Next]_vars
    PROVE  DbInv'
<1> USE DEF DbInv, TypeOK
<1>1. CASE UNCHANGED procVars
  BY <1>1 DEF procVars
<1>2. CASE MainStep
  BY <1>2 DEF MainStep, Load, InitDB, Spawn, Notify, BeginShutdown, Poll, ForcedShutdown,
     CloseDb, Return, Running
<1>3. CASE Expire \/ Signal \/ Listen
  BY <1>3 DEF Expire, Signal, Listen, Running
<1>4. Ended \/ UNCHANGED vars => UNCHANGED procVars
  BY DEF Ended, vars
<1> QED
  BY <1>1, <1>2, <1>3, <1>4, ConnFrame DEF Next

\* The listener does not outlive the beginning of the shutdown.
LEMMA ListenerStep ==
    ASSUME TypeOK, ListenerInv, [Next]_vars
    PROVE  ListenerInv'
<1> USE DEF TypeOK, ListenerInv, ShuttingDown
<1>1. CASE UNCHANGED <<main, listener, conn>>
  BY <1>1
<1>2. CASE Load \/ InitDB \/ Spawn \/ Notify \/ BeginShutdown \/ ForcedShutdown \/ CloseDb \/ Return
  BY <1>2 DEF Load, InitDB, Spawn, Notify, BeginShutdown, ForcedShutdown, CloseDb, Return, connVars
<1>3. CASE Poll
  BY <1>3 DEF Poll, IdleClosed
<1>4. CASE Expire \/ Signal \/ Listen
  BY <1>4 DEF Expire, Signal, Listen, connVars
<1>5. ASSUME NEW c \in Conns, ConnStep(c)
      PROVE  ListenerInv'
  <2>1. main' = main /\ listener' = listener
    BY <1>5, ConnFrame DEF procVars
  <2> QED
    BY <1>5, <2>1, ConnMoves
<1>6. Ended \/ UNCHANGED vars => UNCHANGED <<main, listener, conn>>
  BY DEF Ended, vars, procVars, connVars
<1> QED
  BY <1>1, <1>2, <1>3, <1>4, <1>5, <1>6 DEF Next, MainStep

\* Nothing but websockets remains when Shutdown has returned.
LEMMA DrainedStep ==
    ASSUME TypeOK, ListenerInv, DrainedInv, [Next]_vars
    PROVE  DrainedInv'
<1> USE DEF TypeOK, DrainedInv
<1>1. CASE UNCHANGED <<main, conn>>
  BY <1>1
<1>2. CASE Load \/ InitDB \/ Spawn \/ Notify \/ BeginShutdown \/ ForcedShutdown \/ CloseDb \/ Return
  BY <1>2 DEF Load, InitDB, Spawn, Notify, BeginShutdown, ForcedShutdown, CloseDb, Return, connVars
<1>3. CASE Poll
  BY <1>3 DEF Poll, IdleClosed, Busy
<1>4. CASE Expire \/ Signal \/ Listen
  BY <1>4 DEF Expire, Signal, Listen, connVars
<1>5. ASSUME NEW c \in Conns, ConnStep(c)
      PROVE  DrainedInv'
  <2>1. main' = main
    BY <1>5, ConnFrame DEF procVars
  <2>2. main \in {"close", "return"} => listener # "listening"
    BY DEF ListenerInv, ShuttingDown
  <2> QED
    BY <1>5, <2>1, <2>2, ConnMoves
<1>6. Ended \/ UNCHANGED vars => UNCHANGED <<main, conn>>
  BY DEF Ended, vars, procVars, connVars
<1> QED
  BY <1>1, <1>2, <1>3, <1>4, <1>5, <1>6 DEF Next, MainStep

\* A statement that finds no database was sent over a websocket, and after the
\* database was closed: while a handler runs Shutdown does not return, and before
\* the database is open nothing listens.
LEMMA HandlersStep ==
    ASSUME TypeOK, DbInv, ListenerInv, DrainedInv, HandlersHaveTheDb, [Next]_vars
    PROVE  HandlersHaveTheDb'
<1>1. db = "closed" => db' = "closed"
  <2>1. CASE UNCHANGED procVars
    BY <2>1 DEF procVars
  <2>2. CASE MainStep \/ Expire \/ Signal \/ Listen
    BY <2>2 DEF DbInv, MainStep, Load, InitDB, Spawn, Notify, BeginShutdown, Poll, ForcedShutdown,
       CloseDb, Return, Expire, Signal, Listen
  <2>3. Ended \/ UNCHANGED vars => UNCHANGED procVars
    BY DEF Ended, vars
  <2> QED
    BY <2>1, <2>2, <2>3, ConnFrame DEF Next
<1>2. CASE met' = met
  BY <1>1, <1>2 DEF HandlersHaveTheDb
<1>3. ASSUME NEW c \in Conns, Statement(c), db # "open"
      PROVE  HandlersHaveTheDb'
  <2>1. conn[c] \in {"handling", "socket"} /\ met' = met \cup {<<c, conn[c]>>}
    BY <1>3 DEF Statement
  <2>2. db = "closed" /\ conn[c] = "socket"
    BY <1>3, <2>1 DEF TypeOK, DbInv, ListenerInv, DrainedInv
  <2> QED
    BY <1>1, <2>1, <2>2 DEF HandlersHaveTheDb
<1>4. ASSUME NEW c \in Conns, ConnStep(c), met' # met
      PROVE  Statement(c) /\ db # "open"
  BY <1>4 DEF ConnStep, Accept, Age, Receive, AuthMiddleware, Statement, Reply, Disconnect
<1> QED
  BY <1>2, <1>3, <1>4, OtherMoves

-----------------------------------------------------------------------------
(***************************************************************************)
(* The theorems                                                            *)
(***************************************************************************)
\* The initial states satisfy the invariant, and every step keeps it.
THEOREM Invariant == Spec => []IInv
<1>1. Init => IInv
  BY DEF Init, IInv, TypeOK, DbInv, ListenerInv, DrainedInv, HandlersHaveTheDb, ShuttingDown
<1>2. IInv /\ [Next]_vars => IInv'
  BY TypeStep, DbStep, ListenerStep, DrainedStep, HandlersStep DEF IInv
<1> QED
  BY <1>1, <1>2, PTL DEF Spec

\* Every variable has its type; among others, the port is a number whatever
\* APP_PORT holds.
THEOREM TypeCorrect == Spec => []TypeOK
<1>1. IInv => TypeOK
  BY DEF IInv
<1> QED
  BY <1>1, Invariant, PTL

\* A process that says it exited cleanly has answered what it had received.
THEOREM CleanExit == Spec => []CleanExitDrains
<1>1. IInv => CleanExitDrains
  BY DEF IInv, DbInv, DrainedInv, CleanExitDrains, Busy
<1> QED
  BY <1>1, Invariant, PTL

\* A handler never finds the database closed or not yet open.
THEOREM HandlersServed == Spec => []HandlersHaveTheDb
<1>1. IInv => HandlersHaveTheDb
  BY DEF IInv
<1> QED
  BY <1>1, Invariant, PTL

\* No connection is accepted once the shutdown has begun, and no request received
\* once Shutdown has returned.
THEOREM NothingNew == Spec => NothingNewInShutdown
<1> DEFINE Quiet == ShuttingDown => \A c \in Conns :
                        /\ conn[c] = "none" => conn'[c] = "none"
                        /\ main # "drain" /\ conn'[c] = "admit" => conn[c] = "admit"
<1>1. IInv /\ [Next]_vars => [Quiet]_vars
  <2> SUFFICES ASSUME IInv, [Next]_vars, ShuttingDown, NEW c \in Conns
               PROVE  /\ conn[c] = "none" => conn'[c] = "none"
                      /\ main # "drain" /\ conn'[c] = "admit" => conn[c] = "admit"
    OBVIOUS
  <2>1. listener # "listening"
    BY DEF IInv, ListenerInv
  <2>2. main # "drain" => conn[c] \in {"none", "socket", "closed"}
    BY DEF IInv, DrainedInv, ShuttingDown
  <2>3. CASE conn' = conn
    BY <2>3
  <2>4. CASE Poll
    BY <2>4 DEF Poll, IdleClosed, IInv, TypeOK
  <2>5. ASSUME NEW d \in Conns, ConnStep(d)
        PROVE  /\ conn[c] = "none" => conn'[c] = "none"
               /\ main # "drain" /\ conn'[c] = "admit" => conn[c] = "admit"
    BY <2>1, <2>2, <2>5, ConnMoves DEF IInv
  <2> QED
    BY <2>3, <2>4, <2>5, OtherMoves
<1> QED
  BY <1>1, Invariant, PTL DEF Spec, NothingNewInShutdown
=============================================================================
