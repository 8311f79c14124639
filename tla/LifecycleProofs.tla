--------------------------- MODULE LifecycleProofs ---------------------------
(***************************************************************************)
(* Proofs about Lifecycle for any number of attempts to log in.  The       *)
(* argument: the threads are started in an order and the run thread waits  *)
(* for the init thread, which has met a login, two media servers and its   *)
(* services when it ends well; an account that is asked for while there is *)
(* none, and none on its way, stays the only one; and once exit_handler    *)
(* has run with no login to be expected, nobody asks for one.              *)
(***************************************************************************)
EXTENDS Lifecycle, TLAPS

\* TypeOK in three parts.
Places ==
  /\ main \in {"config", "initFL", "makeStatus", "initStatus", "makeAI", "initP2P",
              "initMessaging", "loadConsensus", "initConsensus", "initKG", "register",
              "start", "wait", "loop", "joinThreads", "joinRun", "exited", "dead",
              "killed"}
  /\ init \in {"new", "poll", "login", "create", "services", "done", "failed"}
  /\ run \in ClientThread \cup {"new", "messaging", "consensus", "kg", "embeddings", "save",
                             "loop", "dead"}

Numbers ==
  mediaPort \in Nat /\ accounts \in Nat /\ creating \in Nat /\ logins \in Nat
    /\ servers \in Nat /\ tries \in Nat

Flags ==
  /\ handler \in [Sig -> {"default", "exit"}]
  /\ threads \subseteq ClientThread
  /\ ended \subseteq {"fl", "ai"}
  /\ event \in BOOLEAN /\ psi \in BOOLEAN /\ loggedIn \in BOOLEAN
  /\ overlap \in BOOLEAN /\ straggler \in BOOLEAN /\ exiting \in BOOLEAN
  /\ greeted \in BOOLEAN

LEMMA TypeParts == TypeOK <=> Places /\ Numbers /\ Flags
BY DEF TypeOK, Places, Numbers, Flags

\* Where the main thread is until it starts the run thread.
Preparing ==
  {"config", "initFL", "makeStatus", "initStatus", "makeAI", "initP2P", "initMessaging",
   "loadConsensus", "initConsensus", "initKG", "register", "start", "wait"}

\* How far the init thread is, and what it has met on the way.
InitProgress ==
  /\ main \in Preparing => run = "new" /\ (init = "new" \/ main = "wait")
  /\ run # "new" => init \in {"done", "failed"}
  /\ init \in {"services", "done"} => event /\ mediaPort >= 2
  /\ psi => init = "done"

\* Without an overlap there is one account at most, or one on its way.
OneAccount ==
  \/ overlap
  \/ accounts = 0 /\ creating = 0
  \/ accounts = 0 /\ creating = 1 /\ init # "create"
  \/ accounts = 1 /\ creating = 0 /\ init # "create"

\* exit_handler does not come back to what the main thread was at.
MainProgress ==
  exiting => main \in {"joinThreads", "joinRun", "exited", "dead", "killed"}

\* exit_handler found no login to be expected: it stays so.
NoLoginAfterExit ==
  exiting /\ ~ straggler => ~ LoginExpected /\ ~ loggedIn

IInv ==
  /\ TypeOK
  /\ InitProgress
  /\ OneAccount
  /\ MainProgress
  /\ NoLoginAfterExit
  /\ GreetNeedsServices
-----------------------------------------------------------------------------
LEMMA InitIInv == Init => IInv
<1>. SUFFICES ASSUME Init PROVE IInv
  OBVIOUS
<1>. USE DEF Init
<1>1. TypeOK
  <2>1. Places
    BY DEF Places
  <2>2. Numbers
    BY DEF Numbers
  <2>3. Flags
    BY DEF Flags
  <2>. QED
    BY <2>1, <2>2, <2>3, TypeParts
<1>2. InitProgress /\ OneAccount /\ MainProgress /\ NoLoginAfterExit /\ GreetNeedsServices
  BY DEF InitProgress, OneAccount, MainProgress, NoLoginAfterExit, GreetNeedsServices
<1>. QED
  BY <1>1, <1>2 DEF IInv

\* Every thread stays at a place of its own.
LEMMA PlacesStep ==
  ASSUME Places, Next
  PROVE  Places'
<1>. USE DEF Places, ClientThread
<1>1. CASE InitClients
  BY <1>1 DEF InitClients, ReadRestaurantConfig, InitFL, MakeStatus, InitStatus,
  MakeAI, InitP2P, InitMessaging, LoadConsensus, InitConsensus, InitKG, Reads,
  Makes, mainVars, threadVars, nodeVars, exitVars
<1>2. CASE RegisterExitHandler
  BY <1>2 DEF RegisterExitHandler, mainVars, threadVars, nodeVars, exitVars
<1>3. CASE Start
  BY <1>3 DEF Start, mainVars, threadVars, nodeVars, exitVars
<1>4. CASE StartRun
  BY <1>4 DEF StartRun, mainVars, threadVars, nodeVars, exitVars
<1>5. CASE JoinThreads
  BY <1>5 DEF JoinThreads, mainVars, threadVars, nodeVars, exitVars
<1>6. CASE JoinRun
  BY <1>6 DEF JoinRun, mainVars, threadVars, nodeVars, exitVars
<1>7. CASE AttemptInit
  BY <1>7 DEF AttemptInit, mainVars, threadVars, nodeVars, exitVars
<1>8. CASE AttemptInitFails
  BY <1>8 DEF AttemptInitFails, mainVars, threadVars, nodeVars, exitVars
<1>9. CASE AttemptLogin
  BY <1>9 DEF AttemptLogin, mainVars, threadVars, nodeVars, exitVars
<1>10. CASE CreateAccountAndLogin
  BY <1>10 DEF CreateAccountAndLogin, mainVars, threadVars, nodeVars, exitVars
<1>11. CASE EnableServices
  BY <1>11 DEF EnableServices, mainVars, threadVars, nodeVars, exitVars
<1>12. CASE InitServices
  BY <1>12 DEF InitServices, mainVars, threadVars, nodeVars, exitVars
<1>13. CASE FinishCreation
  BY <1>13 DEF FinishCreation, mainVars, threadVars, nodeVars, exitVars
<1>14. CASE FinishLogin
  BY <1>14 DEF FinishLogin, mainVars, threadVars, nodeVars, exitVars
<1>15. CASE MediaServerStarted
  BY <1>15 DEF MediaServerStarted, mainVars, threadVars, nodeVars, exitVars
<1>16. CASE StartClients
  BY <1>16 DEF StartClients, StartFL, StartStatus, StartAI, StartMessaging,
  StartConsensus, StartP2P, StartKG, CreateEmbeddings, InitEmbeddings,
  StartThread, Proceeds, Fails, mainVars, threadVars, nodeVars, exitVars
<1>17. CASE AddCustomer
  BY <1>17 DEF AddCustomer, mainVars, threadVars, nodeVars, exitVars
<1>18. CASE ThreadEnds
  BY <1>18 DEF ThreadEnds, mainVars, threadVars, nodeVars, exitVars
<1>19. ASSUME NEW s \in Sig, ExitHandler(s)
      PROVE  Places'
  BY <1>19 DEF ExitHandler, StopStatus, mainVars, threadVars, nodeVars, exitVars
<1>20. ASSUME NEW s \in Sig, DefaultHandler(s)
      PROVE  Places'
  BY <1>20 DEF DefaultHandler, mainVars, threadVars, nodeVars, exitVars
<1>. QED
  BY <1>1, <1>2, <1>3, <1>4, <1>5, <1>6, <1>7, <1>8, <1>9, <1>10, <1>11, <1>12,
  <1>13, <1>14, <1>15, <1>16, <1>17, <1>18, <1>19, <1>20 DEF Next, Main,
  InitExecute, StatusGo, Signals

\* What is counted stays a number.
LEMMA NumbersStep ==
  ASSUME Numbers, Next
  PROVE  Numbers'
<1>. USE DEF Numbers
<1>1. CASE InitClients
  BY <1>1 DEF InitClients, ReadRestaurantConfig, InitFL, MakeStatus, InitStatus,
  MakeAI, InitP2P, InitMessaging, LoadConsensus, InitConsensus, InitKG, Reads,
  Makes, mainVars, threadVars, nodeVars, exitVars
<1>2. CASE RegisterExitHandler
  BY <1>2 DEF RegisterExitHandler, mainVars, threadVars, nodeVars, exitVars
<1>3. CASE Start
  BY <1>3 DEF Start, mainVars, threadVars, nodeVars, exitVars
<1>4. CASE StartRun
  BY <1>4 DEF StartRun, mainVars, threadVars, nodeVars, exitVars
<1>5. CASE JoinThreads
  BY <1>5 DEF JoinThreads, mainVars, threadVars, nodeVars, exitVars
<1>6. CASE JoinRun
  BY <1>6 DEF JoinRun, mainVars, threadVars, nodeVars, exitVars
<1>7. CASE AttemptInit
  BY <1>7 DEF AttemptInit, mainVars, threadVars, nodeVars, exitVars
<1>8. CASE AttemptInitFails
  BY <1>8 DEF AttemptInitFails, mainVars, threadVars, nodeVars, exitVars
<1>9. CASE AttemptLogin
  BY <1>9 DEF AttemptLogin, mainVars, threadVars, nodeVars, exitVars
<1>10. CASE CreateAccountAndLogin
  BY <1>10 DEF CreateAccountAndLogin, mainVars, threadVars, nodeVars, exitVars
<1>11. CASE EnableServices
  BY <1>11 DEF EnableServices, mainVars, threadVars, nodeVars, exitVars
<1>12. CASE InitServices
  BY <1>12 DEF InitServices, mainVars, threadVars, nodeVars, exitVars
<1>13. CASE FinishCreation
  BY <1>13 DEF FinishCreation, mainVars, threadVars, nodeVars, exitVars
<1>14. CASE FinishLogin
  BY <1>14 DEF FinishLogin, mainVars, threadVars, nodeVars, exitVars
<1>15. CASE MediaServerStarted
  BY <1>15 DEF MediaServerStarted, mainVars, threadVars, nodeVars, exitVars
<1>16. CASE StartClients
  BY <1>16 DEF StartClients, StartFL, StartStatus, StartAI, StartMessaging,
  StartConsensus, StartP2P, StartKG, CreateEmbeddings, InitEmbeddings,
  StartThread, Proceeds, Fails, mainVars, threadVars, nodeVars, exitVars
<1>17. CASE AddCustomer
  BY <1>17 DEF AddCustomer, mainVars, threadVars, nodeVars, exitVars
<1>18. CASE ThreadEnds
  BY <1>18 DEF ThreadEnds, mainVars, threadVars, nodeVars, exitVars
<1>19. ASSUME NEW s \in Sig, ExitHandler(s)
      PROVE  Numbers'
  BY <1>19 DEF ExitHandler, StopStatus, mainVars, threadVars, nodeVars, exitVars
<1>20. ASSUME NEW s \in Sig, DefaultHandler(s)
      PROVE  Numbers'
  BY <1>20 DEF DefaultHandler, mainVars, threadVars, nodeVars, exitVars
<1>. QED
  BY <1>1, <1>2, <1>3, <1>4, <1>5, <1>6, <1>7, <1>8, <1>9, <1>10, <1>11, <1>12,
  <1>13, <1>14, <1>15, <1>16, <1>17, <1>18, <1>19, <1>20 DEF Next, Main,
  InitExecute, StatusGo, Signals

\* The rest of the types.
LEMMA FlagsStep ==
  ASSUME Flags, Places, Next
  PROVE  Flags'
<1>. USE DEF Flags, Places, ClientThread
<1>1. CASE InitClients
  BY <1>1 DEF InitClients, ReadRestaurantConfig, InitFL, MakeStatus, InitStatus,
  MakeAI, InitP2P, InitMessaging, LoadConsensus, InitConsensus, InitKG, Reads,
  Makes, mainVars, threadVars, nodeVars, exitVars
<1>2. CASE RegisterExitHandler
  BY <1>2 DEF RegisterExitHandler, mainVars, threadVars, nodeVars, exitVars
<1>3. CASE Start
  BY <1>3 DEF Start, mainVars, threadVars, nodeVars, exitVars
<1>4. CASE StartRun
  BY <1>4 DEF StartRun, mainVars, threadVars, nodeVars, exitVars
<1>5. CASE JoinThreads
  BY <1>5 DEF JoinThreads, mainVars, threadVars, nodeVars, exitVars
<1>6. CASE JoinRun
  BY <1>6 DEF JoinRun, mainVars, threadVars, nodeVars, exitVars
<1>7. CASE AttemptInit
  BY <1>7 DEF AttemptInit, mainVars, threadVars, nodeVars, exitVars
<1>8. CASE AttemptInitFails
  BY <1>8 DEF AttemptInitFails, mainVars, threadVars, nodeVars, exitVars
<1>9. CASE AttemptLogin
  BY <1>9 DEF AttemptLogin, mainVars, threadVars, nodeVars, exitVars
<1>10. CASE CreateAccountAndLogin
  BY <1>10 DEF CreateAccountAndLogin, mainVars, threadVars, nodeVars, exitVars
<1>11. CASE EnableServices
  BY <1>11 DEF EnableServices, mainVars, threadVars, nodeVars, exitVars
<1>12. CASE InitServices
  BY <1>12 DEF InitServices, mainVars, threadVars, nodeVars, exitVars
<1>13. CASE FinishCreation
  BY <1>13 DEF FinishCreation, mainVars, threadVars, nodeVars, exitVars
<1>14. CASE FinishLogin
  BY <1>14 DEF FinishLogin, mainVars, threadVars, nodeVars, exitVars
<1>15. CASE MediaServerStarted
  BY <1>15 DEF MediaServerStarted, mainVars, threadVars, nodeVars, exitVars
<1>16. CASE StartClients
  BY <1>16 DEF StartClients, StartFL, StartStatus, StartAI, StartMessaging,
  StartConsensus, StartP2P, StartKG, CreateEmbeddings, InitEmbeddings,
  StartThread, Proceeds, Fails, mainVars, threadVars, nodeVars, exitVars
<1>17. CASE AddCustomer
  BY <1>17 DEF AddCustomer, mainVars, threadVars, nodeVars, exitVars
<1>18. CASE ThreadEnds
  BY <1>18 DEF ThreadEnds, mainVars, threadVars, nodeVars, exitVars
<1>19. ASSUME NEW s \in Sig, ExitHandler(s)
      PROVE  Flags'
  <2>1. straggler' \in BOOLEAN
    BY <1>19, Zenon DEF ExitHandler, LoginExpected
  <2>. QED
    BY <1>19, <2>1 DEF ExitHandler, StopStatus, mainVars, threadVars, nodeVars
<1>20. ASSUME NEW s \in Sig, DefaultHandler(s)
      PROVE  Flags'
  BY <1>20 DEF DefaultHandler, mainVars, threadVars, nodeVars, exitVars
<1>. QED
  BY <1>1, <1>2, <1>3, <1>4, <1>5, <1>6, <1>7, <1>8, <1>9, <1>10, <1>11, <1>12,
  <1>13, <1>14, <1>15, <1>16, <1>17, <1>18, <1>19, <1>20 DEF Next, Main,
  InitExecute, StatusGo, Signals

\* The services that a greeting needs are never taken back.
LEMMA ProgressStep ==
  ASSUME Numbers, InitProgress, GreetNeedsServices, Next
  PROVE  InitProgress' /\ GreetNeedsServices'
<1>. USE DEF Numbers, InitProgress, GreetNeedsServices, Preparing
<1>1. CASE InitClients
  BY <1>1 DEF InitClients, ReadRestaurantConfig, InitFL, MakeStatus, InitStatus,
  MakeAI, InitP2P, InitMessaging, LoadConsensus, InitConsensus, InitKG, Reads,
  Makes, mainVars, threadVars, nodeVars, exitVars
<1>2. CASE RegisterExitHandler
  BY <1>2 DEF RegisterExitHandler, mainVars, threadVars, nodeVars, exitVars
<1>3. CASE Start
  BY <1>3 DEF Start, mainVars, threadVars, nodeVars, exitVars
<1>4. CASE StartRun
  BY <1>4 DEF StartRun, mainVars, threadVars, nodeVars, exitVars
<1>5. CASE JoinThreads
  BY <1>5 DEF JoinThreads, mainVars, threadVars, nodeVars, exitVars
<1>6. CASE JoinRun
  BY <1>6 DEF JoinRun, mainVars, threadVars, nodeVars, exitVars
<1>7. CASE AttemptInit
  BY <1>7 DEF AttemptInit, mainVars, threadVars, nodeVars, exitVars
<1>8. CASE AttemptInitFails
  BY <1>8 DEF AttemptInitFails, mainVars, threadVars, nodeVars, exitVars
<1>9. CASE AttemptLogin
  BY <1>9 DEF AttemptLogin, mainVars, threadVars, nodeVars, exitVars
<1>10. CASE CreateAccountAndLogin
  BY <1>10 DEF CreateAccountAndLogin, mainVars, threadVars, nodeVars, exitVars
<1>11. CASE EnableServices
  BY <1>11 DEF EnableServices, mainVars, threadVars, nodeVars, exitVars
<1>12. CASE InitServices
  BY <1>12 DEF InitServices, mainVars, threadVars, nodeVars, exitVars
<1>13. CASE FinishCreation
  BY <1>13 DEF FinishCreation, mainVars, threadVars, nodeVars, exitVars
<1>14. CASE FinishLogin
  BY <1>14 DEF FinishLogin, mainVars, threadVars, nodeVars, exitVars
<1>15. CASE MediaServerStarted
  BY <1>15 DEF MediaServerStarted, mainVars, threadVars, nodeVars, exitVars
<1>16. CASE StartClients
  BY <1>16 DEF StartClients, StartFL, StartStatus, StartAI, StartMessaging,
  StartConsensus, StartP2P, StartKG, CreateEmbeddings, InitEmbeddings,
  StartThread, Proceeds, Fails, mainVars, threadVars, nodeVars, exitVars
<1>17. CASE AddCustomer
  BY <1>17 DEF AddCustomer, mainVars, threadVars, nodeVars, exitVars
<1>18. CASE ThreadEnds
  BY <1>18 DEF ThreadEnds, mainVars, threadVars, nodeVars, exitVars
<1>19. ASSUME NEW s \in Sig, ExitHandler(s)
      PROVE  InitProgress' /\ GreetNeedsServices'
  BY <1>19 DEF ExitHandler, StopStatus, mainVars, threadVars, nodeVars, exitVars
<1>20. ASSUME NEW s \in Sig, DefaultHandler(s)
      PROVE  InitProgress' /\ GreetNeedsServices'
  BY <1>20 DEF DefaultHandler, mainVars, threadVars, nodeVars, exitVars
<1>. QED
  BY <1>1, <1>2, <1>3, <1>4, <1>5, <1>6, <1>7, <1>8, <1>9, <1>10, <1>11, <1>12,
  <1>13, <1>14, <1>15, <1>16, <1>17, <1>18, <1>19, <1>20 DEF Next, Main,
  InitExecute, StatusGo, Signals

\* A creation asked for while there is nothing is the only one.
LEMMA AccountStep ==
  ASSUME Numbers, OneAccount, Next
  PROVE  OneAccount'
<1>. USE DEF Numbers, OneAccount
<1>1. CASE InitClients
  BY <1>1 DEF InitClients, ReadRestaurantConfig, InitFL, MakeStatus, InitStatus,
  MakeAI, InitP2P, InitMessaging, LoadConsensus, InitConsensus, InitKG, Reads,
  Makes, mainVars, threadVars, nodeVars, exitVars
<1>2. CASE RegisterExitHandler
  BY <1>2 DEF RegisterExitHandler, mainVars, threadVars, nodeVars, exitVars
<1>3. CASE Start
  BY <1>3 DEF Start, mainVars, threadVars, nodeVars, exitVars
<1>4. CASE StartRun
  BY <1>4 DEF StartRun, mainVars, threadVars, nodeVars, exitVars
<1>5. CASE JoinThreads
  BY <1>5 DEF JoinThreads, mainVars, threadVars, nodeVars, exitVars
<1>6. CASE JoinRun
  BY <1>6 DEF JoinRun, mainVars, threadVars, nodeVars, exitVars
<1>7. CASE AttemptInit
  <2>1. UNCHANGED <<accounts, creating>>
    BY <1>7 DEF AttemptInit, nodeVars
  <2>2. overlap \/ (accounts = 0 /\ creating > 0) => overlap'
    BY <1>7, Zenon DEF AttemptInit
  <2>3. accounts > 0 => init' = "login"
    BY <1>7 DEF AttemptInit
  <2>. QED
    BY <2>1, <2>2, <2>3
<1>8. CASE AttemptInitFails
  BY <1>8 DEF AttemptInitFails, mainVars, threadVars, nodeVars, exitVars
<1>9. CASE AttemptLogin
  BY <1>9 DEF AttemptLogin, mainVars, threadVars, nodeVars, exitVars
<1>10. CASE CreateAccountAndLogin
  BY <1>10 DEF CreateAccountAndLogin, mainVars, threadVars, nodeVars, exitVars
<1>11. CASE EnableServices
  BY <1>11 DEF EnableServices, mainVars, threadVars, nodeVars, exitVars
<1>12. CASE InitServices
  BY <1>12 DEF InitServices, mainVars, threadVars, nodeVars, exitVars
<1>13. CASE FinishCreation
  BY <1>13 DEF FinishCreation, mainVars, threadVars, nodeVars, exitVars
<1>14. CASE FinishLogin
  BY <1>14 DEF FinishLogin, mainVars, threadVars, nodeVars, exitVars
<1>15. CASE MediaServerStarted
  BY <1>15 DEF MediaServerStarted, mainVars, threadVars, nodeVars, exitVars
<1>16. CASE StartClients
  BY <1>16 DEF StartClients, StartFL, StartStatus, StartAI, StartMessaging,
  StartConsensus, StartP2P, StartKG, CreateEmbeddings, InitEmbeddings,
  StartThread, Proceeds, Fails, mainVars, threadVars, nodeVars, exitVars
<1>17. CASE AddCustomer
  BY <1>17 DEF AddCustomer, mainVars, threadVars, nodeVars, exitVars
<1>18. CASE ThreadEnds
  BY <1>18 DEF ThreadEnds, mainVars, threadVars, nodeVars, exitVars
<1>19. ASSUME NEW s \in Sig, ExitHandler(s)
      PROVE  OneAccount'
  BY <1>19 DEF ExitHandler, StopStatus, mainVars, threadVars, nodeVars, exitVars
<1>20. ASSUME NEW s \in Sig, DefaultHandler(s)
      PROVE  OneAccount'
  BY <1>20 DEF DefaultHandler, mainVars, threadVars, nodeVars, exitVars
<1>. QED
  BY <1>1, <1>2, <1>3, <1>4, <1>5, <1>6, <1>7, <1>8, <1>9, <1>10, <1>11, <1>12,
  <1>13, <1>14, <1>15, <1>16, <1>17, <1>18, <1>19, <1>20 DEF Next, Main,
  InitExecute, StatusGo, Signals

\* After an exit with no login to be expected none is asked for.
LEMMA ExitStep ==
  ASSUME Numbers, InitProgress, MainProgress, NoLoginAfterExit, Next
  PROVE  MainProgress' /\ NoLoginAfterExit'
<1>. USE DEF Numbers, InitProgress, MainProgress, NoLoginAfterExit, LoginExpected
<1>1. CASE InitClients
  BY <1>1 DEF InitClients, ReadRestaurantConfig, InitFL, MakeStatus, InitStatus,
  MakeAI, InitP2P, InitMessaging, LoadConsensus, InitConsensus, InitKG, Reads,
  Makes, mainVars, threadVars, nodeVars, exitVars
<1>2. CASE RegisterExitHandler
  BY <1>2 DEF RegisterExitHandler, mainVars, threadVars, nodeVars, exitVars
<1>3. CASE Start
  BY <1>3 DEF Start, mainVars, threadVars, nodeVars, exitVars
<1>4. CASE StartRun
  BY <1>4 DEF StartRun, mainVars, threadVars, nodeVars, exitVars
<1>5. CASE JoinThreads
  BY <1>5 DEF JoinThreads, mainVars, threadVars, nodeVars, exitVars
<1>6. CASE JoinRun
  BY <1>6 DEF JoinRun, mainVars, threadVars, nodeVars, exitVars
<1>7. CASE AttemptInit
  BY <1>7 DEF AttemptInit, mainVars, threadVars, nodeVars, exitVars
<1>8. CASE AttemptInitFails
  BY <1>8 DEF AttemptInitFails, mainVars, threadVars, nodeVars, exitVars
<1>9. CASE AttemptLogin
  BY <1>9 DEF AttemptLogin, mainVars, threadVars, nodeVars, exitVars
<1>10. CASE CreateAccountAndLogin
  BY <1>10 DEF CreateAccountAndLogin, mainVars, threadVars, nodeVars, exitVars
<1>11. CASE EnableServices
  BY <1>11 DEF EnableServices, mainVars, threadVars, nodeVars, exitVars
<1>12. CASE InitServices
  BY <1>12 DEF InitServices, mainVars, threadVars, nodeVars, exitVars
<1>13. CASE FinishCreation
  BY <1>13 DEF FinishCreation, mainVars, threadVars, nodeVars, exitVars
<1>14. CASE FinishLogin
  BY <1>14 DEF FinishLogin, mainVars, threadVars, nodeVars, exitVars
<1>15. CASE MediaServerStarted
  BY <1>15 DEF MediaServerStarted, mainVars, threadVars, nodeVars, exitVars
<1>16. CASE StartClients
  BY <1>16 DEF StartClients, StartFL, StartStatus, StartAI, StartMessaging,
  StartConsensus, StartP2P, StartKG, CreateEmbeddings, InitEmbeddings,
  StartThread, Proceeds, Fails, mainVars, threadVars, nodeVars, exitVars
<1>17. CASE AddCustomer
  BY <1>17 DEF AddCustomer, mainVars, threadVars, nodeVars, exitVars
<1>18. CASE ThreadEnds
  BY <1>18 DEF ThreadEnds, mainVars, threadVars, nodeVars, exitVars
<1>19. ASSUME NEW s \in Sig, ExitHandler(s)
      PROVE  MainProgress' /\ NoLoginAfterExit'
  BY <1>19 DEF ExitHandler, StopStatus, mainVars, threadVars, nodeVars, exitVars
<1>20. ASSUME NEW s \in Sig, DefaultHandler(s)
      PROVE  MainProgress' /\ NoLoginAfterExit'
  BY <1>20 DEF DefaultHandler, mainVars, threadVars, nodeVars, exitVars
<1>. QED
  BY <1>1, <1>2, <1>3, <1>4, <1>5, <1>6, <1>7, <1>8, <1>9, <1>10, <1>11, <1>12,
  <1>13, <1>14, <1>15, <1>16, <1>17, <1>18, <1>19, <1>20 DEF Next, Main,
  InitExecute, StatusGo, Signals

-----------------------------------------------------------------------------
LEMMA NextIInv == IInv /\ [Next]_vars => IInv'
<1>. SUFFICES ASSUME IInv, [Next]_vars PROVE IInv'
  OBVIOUS
<1>1. CASE Next
  <2>1. Places /\ Numbers /\ Flags
    BY TypeParts DEF IInv
  <2>2. Places' /\ Numbers' /\ Flags'
    BY <1>1, <2>1, PlacesStep, NumbersStep, FlagsStep
  <2>3. TypeOK'
    BY <2>2 DEF TypeOK, Places, Numbers, Flags
  <2>4. InitProgress' /\ GreetNeedsServices'
    BY <1>1, <2>1, ProgressStep DEF IInv
  <2>5. OneAccount'
    BY <1>1, <2>1, AccountStep DEF IInv
  <2>6. MainProgress' /\ NoLoginAfterExit'
    BY <1>1, <2>1, ExitStep DEF IInv
  <2>. QED
    BY <2>3, <2>4, <2>5, <2>6 DEF IInv
<1>2. CASE UNCHANGED vars
  BY <1>2 DEF vars, mainVars, threadVars, nodeVars, exitVars, IInv, TypeOK,
              InitProgress, OneAccount, MainProgress, NoLoginAfterExit,
              LoginExpected, GreetNeedsServices
<1>. QED
  BY <1>1, <1>2

LEMMA Inductive == Spec => []IInv
<1>. QED
  BY InitIInv, NextIInv, PTL DEF Spec

\* The threads and what status-go reports have their types.
THEOREM TypeCorrect == Spec => []TypeOK
<1>1. IInv => TypeOK
  BY DEF IInv
<1>. QED
  BY <1>1, Inductive, PTL

\* The retries of init_execute make a second account only if one was asked for
\* while another was being created.
THEOREM OneAccountPerName == Spec => []DuplicateNeedsOverlap
<1>1. IInv => DuplicateNeedsOverlap
  BY DEF IInv, OneAccount, DuplicateNeedsOverlap
<1>. QED
  BY <1>1, Inductive, PTL

\* The run thread goes without a login only after the init thread failed.
THEOREM RunAfterLogin == Spec => []RunNeedsLogin
<1>1. IInv => RunNeedsLogin
  BY DEF IInv, InitProgress, RunNeedsLogin
<1>. QED
  BY <1>1, Inductive, PTL

\* A greeted customer came to a restaurant with all its services.
THEOREM GreetAfterServices == Spec => []GreetNeedsServices
<1>1. IInv => GreetNeedsServices
  BY DEF IInv
<1>. QED
  BY <1>1, Inductive, PTL

\* Customers are served and greeted by a client that is up.
THEOREM ServedUp == Spec => []ServedWhenUp
<1>1. IInv => ServedWhenUp
  BY DEF IInv, InitProgress, RunNeedsLogin, ServedWhenUp
<1>. QED
  BY <1>1, Inductive, PTL

\* No unexpected login follows the logout of exit_handler, whatever status-go
\* answers after it.
THEOREM ExitLogsOut == Spec => []LoginAfterExitWasExpected
<1>1. IInv => LoginAfterExitWasExpected
  BY DEF IInv, NoLoginAfterExit, LoginAfterExitWasExpected
<1>. QED
  BY <1>1, Inductive, PTL
=============================================================================
