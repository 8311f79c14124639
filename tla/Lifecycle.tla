------------------------------ MODULE Lifecycle ------------------------------
(***************************************************************************)
(* The life of the client process (client.py): the main thread, which      *)
(* starts the others and takes the signals that end the process, the init  *)
(* thread, which logs in to status-go and tries again until it is told so, *)
(* and the run thread, which starts the clients and serves customers.      *)
(* status-go answers asynchronously, through on_status_cb.                 *)
(***************************************************************************)
EXTENDS Integers, FiniteSets

CONSTANTS
  MaxTries  \* bound: calls of attempt_init

ASSUME TriesAssumption == MaxTries \in Nat

Sig == {"INT", "TERM"}

\* Threads in client_threads, in the order of start_clients.
ClientThread == {"fl", "status", "ai", "p2p"}

VARIABLES
  main,      \* where the main thread is
  handler,   \* per signal, its handler: the default one or exit_handler
  init,      \* where the init thread is
  run,       \* where the run thread is
  threads,   \* client_threads
  ended,     \* client threads that have returned or died
  event,     \* init_nodelogin_event
  mediaPort, \* length of media_port
  psi,       \* psi_client has been made
  accounts,  \* status-go: accounts with the restaurant's name
  creating,  \* status-go: accounts being created
  logins,    \* status-go: logins under way
  servers,   \* status-go: media servers it has not reported yet
  loggedIn,  \* status-go: logged in
  tries,     \* calls of attempt_init
  overlap,   \* an account was asked for while another was being created
  straggler, \* a login was to be expected when exit_handler logged out
  exiting,   \* exit_handler has run
  greeted    \* a customer was greeted

mainVars   == <<main, handler>>
threadVars == <<threads, ended>>
nodeVars   == <<accounts, creating, logins, servers, loggedIn>>
exitVars   == <<straggler, exiting>>
vars == <<mainVars, init, run, threadVars, event, mediaPort, psi, nodeVars, tries,
          overlap, exitVars, greeted>>

Init ==
  /\ main = "config"
  /\ handler = [s \in Sig |-> "default"]
  /\ init = "new" /\ run = "new"
  /\ threads = {} /\ ended = {}
  /\ event = FALSE /\ mediaPort = 0 /\ psi = FALSE
  /\ accounts \in {0, 1} /\ creating = 0 /\ logins = 0
  /\ servers = 0 /\ loggedIn = FALSE
  /\ tries = 0 /\ overlap = FALSE
  /\ straggler = FALSE /\ exiting = FALSE
  /\ greeted = FALSE

-----------------------------------------------------------------------------
(* The main thread.                                                        *)

\* A step of init_clients: an error ends the main thread, and the process.
Makes(at, next) ==
  /\ main = at
  /\ main' \in {next, "dead"}
  /\ UNCHANGED <<handler, init, run, threadVars, event, mediaPort, psi, accounts,
                 creating, logins, loggedIn, tries, overlap, exitVars, greeted>>

\* A client reads its options; a section, a variable of the environment or
\* the node key that is not there is an error.
Reads(at, next) == Makes(at, next) /\ UNCHANGED servers

ReadRestaurantConfig == Reads("config", "initFL")
InitFL == Reads("initFL", "makeStatus")
MakeStatus == Reads("makeStatus", "initStatus")

\* The backend is started, then InitializeApplication, which starts a first
\* media server.
InitStatus ==
  /\ Makes("initStatus", "makeAI")
  /\ servers' = IF main' = "dead" THEN servers ELSE servers + 1

\* The AI client only fills its fields.
MakeAI == Makes("makeAI", "initP2P") /\ main' = "initP2P" /\ UNCHANGED servers

InitP2P == Reads("initP2P", "initMessaging")

\* The libraries of the messaging and the consensus node are loaded, and the
\* nodes made.
InitMessaging == Makes("initMessaging", "loadConsensus") /\ UNCHANGED servers
LoadConsensus == Makes("loadConsensus", "initConsensus") /\ UNCHANGED servers
InitConsensus == Makes("initConsensus", "initKG") /\ UNCHANGED servers

\* redis is started, and the graph database connects to it.
InitKG == Makes("initKG", "register") /\ UNCHANGED servers

InitClients ==
  ReadRestaurantConfig \/ InitFL \/ MakeStatus \/ InitStatus \/ MakeAI \/ InitP2P
    \/ InitMessaging \/ LoadConsensus \/ InitConsensus \/ InitKG

RegisterExitHandler ==
  /\ main = "register"
  /\ main' = "start"
  /\ handler' = [s \in Sig |-> "exit"]
  /\ UNCHANGED <<init, run, threadVars, event, mediaPort, psi, nodeVars, tries, overlap,
                 exitVars, greeted>>

\* start makes both threads and starts the first.
Start ==
  /\ main = "start"
  /\ main' = "wait"
  /\ init' = "poll"
  /\ UNCHANGED <<handler, run, threadVars, event, mediaPort, psi, nodeVars, tries,
                 overlap, exitVars, greeted>>

\* main waits until the init thread is not alive, however it ended.
StartRun ==
  /\ main = "wait"
  /\ init \in {"done", "failed"}
  /\ main' = "loop"
  /\ run' = "fl"
  /\ UNCHANGED <<handler, init, threadVars, event, mediaPort, psi, nodeVars, tries,
                 overlap, exitVars, greeted>>

-----------------------------------------------------------------------------
(* The init thread.                                                        *)

\* Variant: no account is found by its name.
AttemptInitUnnamed ==
  /\ init = "poll"
  /\ ~ event
  /\ tries < MaxTries
  /\ tries' = tries + 1
  /\ init' = "create"
  /\ overlap' = (overlap \/ (accounts = 0 /\ creating > 0))
  /\ UNCHANGED <<mainVars, run, threadVars, event, mediaPort, psi, nodeVars, exitVars,
                 greeted>>

\* Variant: the event is not looked at.
AttemptInitAgain ==
  /\ init = "poll"
  /\ tries < MaxTries
  /\ tries' = tries + 1
  /\ init' = IF accounts > 0 THEN "login" ELSE "create"
  /\ overlap' = (overlap \/ (accounts = 0 /\ creating > 0))
  /\ UNCHANGED <<mainVars, run, threadVars, event, mediaPort, psi, nodeVars, exitVars,
                 greeted>>

\* An account of the restaurant's name is logged in to; without one, it is
\* created.
AttemptInit ==
  /\ init = "poll"
  /\ ~ event
  /\ tries < MaxTries
  /\ tries' = tries + 1
  /\ init' = IF accounts > 0 THEN "login" ELSE "create"
  /\ overlap' = (overlap \/ (accounts = 0 /\ creating > 0))
  /\ UNCHANGED <<mainVars, run, threadVars, event, mediaPort, psi, nodeVars, exitVars,
                 greeted>>

\* An answer of GetAccounts that is no list of accounts, and neither of the two
\* texts getAccounts knows, is an exception that ends the thread.
AttemptInitFails ==
  /\ init = "poll"
  /\ ~ event
  /\ init' = "failed"
  /\ UNCHANGED <<mainVars, run, threadVars, event, mediaPort, psi, nodeVars, tries,
                 overlap, exitVars, greeted>>

AttemptLogin ==
  /\ init = "login"
  /\ logins' = logins + 1
  /\ servers' = servers + 1
  /\ init' = "poll"
  /\ UNCHANGED <<mainVars, run, threadVars, event, mediaPort, psi, accounts, creating,
                 loggedIn, tries, overlap, exitVars, greeted>>

CreateAccountAndLogin ==
  /\ init = "create"
  /\ creating' = creating + 1
  /\ init' = "poll"
  /\ UNCHANGED <<mainVars, run, threadVars, event, mediaPort, psi, accounts, logins,
                 servers, loggedIn, tries, overlap, exitVars, greeted>>

\* Variant: without a second media server the thread waits for it.
EnableServicesOrWait ==
  /\ init = "poll"
  /\ event
  /\ mediaPort >= 2
  /\ init' \in {"services", "failed"}
  /\ UNCHANGED <<mainVars, run, threadVars, event, mediaPort, psi, nodeVars, tries,
                 overlap, exitVars, greeted>>

\* Variant: an error is logged only.
EnableServicesAnyway ==
  /\ init = "poll"
  /\ event
  /\ init' = "services"
  /\ UNCHANGED <<mainVars, run, threadVars, event, mediaPort, psi, nodeVars, tries,
                 overlap, exitVars, greeted>>

\* The QR code comes from the second media server: if only one has reported,
\* or the request fails, the error ends the thread.
EnableServices ==
  /\ init = "poll"
  /\ event
  /\ \/ mediaPort >= 2 /\ init' = "services"
     \/ init' = "failed"
  /\ UNCHANGED <<mainVars, run, threadVars, event, mediaPort, psi, nodeVars, tries,
                 overlap, exitVars, greeted>>

InitServices ==
  /\ init = "services"
  /\ psi' = TRUE
  /\ init' = "done"
  /\ UNCHANGED <<mainVars, run, threadVars, event, mediaPort, nodeVars, tries, overlap,
                 exitVars, greeted>>

-----------------------------------------------------------------------------
(* status-go.                                                              *)

\* An account is saved and then logged in to; a creation may also fail.
FinishCreation ==
  /\ creating > 0
  /\ creating' = creating - 1
  /\ \/ /\ accounts' = accounts + 1
        /\ logins' = logins + 1
        /\ servers' = servers + 1
     \/ UNCHANGED <<accounts, logins, servers>>
  /\ UNCHANGED <<mainVars, init, run, threadVars, event, mediaPort, psi, loggedIn,
                 tries, overlap, exitVars, greeted>>

\* on_status_cb takes node.login; without settings, the login has failed.
FinishLogin ==
  /\ logins > 0
  /\ logins' = logins - 1
  /\ \/ loggedIn' = TRUE /\ event' = TRUE
     \/ UNCHANGED <<loggedIn, event>>
  /\ UNCHANGED <<mainVars, init, run, threadVars, mediaPort, psi, accounts, creating,
                 servers, tries, overlap, exitVars, greeted>>

\* on_status_cb takes mediaserver.started.
MediaServerStarted ==
  /\ servers > 0
  /\ servers' = servers - 1
  /\ mediaPort' = mediaPort + 1
  /\ UNCHANGED <<mainVars, init, run, threadVars, event, psi, accounts, creating,
                 logins, loggedIn, tries, overlap, exitVars, greeted>>

-----------------------------------------------------------------------------
(* The run thread: start_clients, then customers.                          *)

\* Variant: start does not return its thread.
StartThreadAppendNone(t, next) ==
  /\ run = t
  /\ threads' = threads \cup {"None"}
  /\ run' = next
  /\ UNCHANGED <<mainVars, init, ended, event, mediaPort, psi, nodeVars, tries, overlap,
                 exitVars, greeted>>

\* A client thread is started and kept.
StartThread(t, next) ==
  /\ run = t
  /\ threads' = threads \cup {t}
  /\ run' = next
  /\ UNCHANGED <<mainVars, init, ended, event, mediaPort, psi, nodeVars, tries, overlap,
                 exitVars, greeted>>

\* An exception of the messaging or consensus client, of the graph database or
\* of the embeddings ends the thread; nobody looks whether it is alive.
Fails(at) ==
  /\ run = at
  /\ run' = "dead"
  /\ UNCHANGED <<mainVars, init, threadVars, event, mediaPort, psi, nodeVars, tries,
                 overlap, exitVars, greeted>>

Proceeds(at, next) ==
  /\ run = at
  /\ run' = next
  /\ UNCHANGED <<mainVars, init, threadVars, event, mediaPort, psi, nodeVars, tries,
                 overlap, exitVars, greeted>>

StartFL == StartThread("fl", "status")
StartStatus == StartThread("status", "ai")
StartAI == StartThread("ai", "messaging")
StartMessaging == Proceeds("messaging", "consensus") \/ Fails("messaging")
StartConsensus == Proceeds("consensus", "p2p") \/ Fails("consensus")
StartP2P == StartThread("p2p", "kg")
StartKG == Proceeds("kg", "embeddings") \/ Fails("kg")

\* The descriptions of past customers are embedded, and the result is kept in
\* files.
CreateEmbeddings == Proceeds("embeddings", "save") \/ Fails("embeddings")
InitEmbeddings == Proceeds("save", "loop") \/ Fails("save")

StartClients ==
  StartFL \/ StartStatus \/ StartAI \/ StartMessaging \/ StartConsensus \/ StartP2P
    \/ StartKG \/ CreateEmbeddings \/ InitEmbeddings

\* Without a psi_client, or an answer of the neighbour, the thread dies of the
\* first customer.
AddCustomer ==
  /\ run = "loop"
  /\ \/ psi /\ greeted' = TRUE /\ UNCHANGED run
     \/ run' = "dead" /\ UNCHANGED greeted
  /\ UNCHANGED <<mainVars, init, threadVars, event, mediaPort, psi, nodeVars, tries,
                 overlap, exitVars>>

\* The Flower node returns, or a key ends the AI thread; the others loop.
ThreadEnds ==
  /\ \E t \in threads \cap {"fl", "ai"} : ended' = ended \cup {t}
  /\ UNCHANGED <<mainVars, init, run, threads, event, mediaPort, psi, nodeVars, tries,
                 overlap, exitVars, greeted>>

-----------------------------------------------------------------------------
(* Signals, all taken by the main thread.                                  *)

Alive == main \notin {"dead", "killed", "exited"}

\* A login may still come, or be asked for.
LoginExpected ==
  \/ creating > 0
  \/ logins > 0
  \/ init \in {"login", "create"}
  \/ init = "poll" /\ ~ event

\* It logs out; the backend is a process of its own.
StopStatus == loggedIn' = FALSE

\* exit_handler gives the signal its default handler back, stops the clients,
\* which logs out of status-go, and joins.
ExitHandler(s) ==
  /\ Alive
  /\ handler[s] = "exit"
  /\ handler' = [handler EXCEPT ![s] = "default"]
  /\ StopStatus
  /\ straggler' = LoginExpected
  /\ exiting' = TRUE
  /\ main' = "joinThreads"
  /\ UNCHANGED <<init, run, threadVars, event, mediaPort, psi, accounts, creating,
                 logins, servers, tries, overlap, greeted>>

JoinThreads ==
  /\ main = "joinThreads"
  /\ threads \subseteq ended
  /\ main' = "joinRun"
  /\ UNCHANGED <<handler, init, run, threadVars, event, mediaPort, psi, nodeVars, tries,
                 overlap, exitVars, greeted>>

\* There is no run thread before start; one that was not started cannot be
\* joined, and the error ends the main thread.
JoinRun ==
  /\ main = "joinRun"
  /\ \/ init = "new" /\ main' = "exited"
     \/ init # "new" /\ run = "new" /\ main' = "dead"
     \/ run = "dead" /\ main' = "exited"
  /\ UNCHANGED <<handler, init, run, threadVars, event, mediaPort, psi, nodeVars, tries,
                 overlap, exitVars, greeted>>

\* By default SIGTERM ends the process, and SIGINT the main thread.
DefaultHandler(s) ==
  /\ Alive
  /\ handler[s] = "default"
  /\ main' = IF s = "TERM" THEN "killed" ELSE "dead"
  /\ UNCHANGED <<handler, init, run, threadVars, event, mediaPort, psi, nodeVars, tries,
                 overlap, exitVars, greeted>>

-----------------------------------------------------------------------------
Main ==
  InitClients \/ RegisterExitHandler \/ Start \/ StartRun \/ JoinThreads \/ JoinRun
InitExecute == AttemptInit \/ AttemptInitFails \/ AttemptLogin \/ CreateAccountAndLogin
                 \/ EnableServices \/ InitServices
StatusGo == FinishCreation \/ FinishLogin \/ MediaServerStarted
Signals == \E s \in Sig : ExitHandler(s) \/ DefaultHandler(s)

\* The process is gone when it is killed, or its main thread ends on its own.
Running == main # "killed" /\ (main \in {"dead", "exited"} => init # "new")

Next ==
  /\ Running
  /\ \/ Main
     \/ InitExecute
     \/ StatusGo
     \/ StartClients
     \/ AddCustomer
     \/ ThreadEnds
     \/ Signals

Spec == Init /\ [][Next]_vars

\* The threads run; what status-go answers, and when, is left open.
Fairness ==
  /\ WF_vars(Running /\ Main)
  /\ WF_vars(Running /\ InitExecute)
  /\ WF_vars(Running /\ StartClients)

FairSpec == Spec /\ Fairness
-----------------------------------------------------------------------------
TypeOK ==
  /\ main \in {"config", "initFL", "makeStatus", "initStatus", "makeAI", "initP2P",
              "initMessaging", "loadConsensus", "initConsensus", "initKG", "register",
              "start", "wait", "loop", "joinThreads", "joinRun", "exited", "dead",
              "killed"}
  /\ handler \in [Sig -> {"default", "exit"}]
  /\ init \in {"new", "poll", "login", "create", "services", "done", "failed"}
  /\ run \in ClientThread \cup {"new", "messaging", "consensus", "kg", "embeddings", "save",
                             "loop", "dead"}
  /\ threads \subseteq ClientThread
  /\ ended \subseteq {"fl", "ai"}
  /\ event \in BOOLEAN
  /\ mediaPort \in Nat
  /\ psi \in BOOLEAN
  /\ accounts \in Nat
  /\ creating \in Nat
  /\ logins \in Nat
  /\ servers \in Nat
  /\ loggedIn \in BOOLEAN
  /\ tries \in Nat
  /\ overlap \in BOOLEAN
  /\ straggler \in BOOLEAN
  /\ exiting \in BOOLEAN
  /\ greeted \in BOOLEAN

\* The retries of init_execute make a second account only if they ask for one
\* while the first is still being created.
DuplicateNeedsOverlap == accounts > 1 => overlap

\* Customers are served without a login only after the init thread has died
\* before it.
RunNeedsLogin == run # "new" /\ ~ event => init = "failed"

\* A greeted customer came to a restaurant that was logged in, had both media
\* servers to make its code from, and could ask its neighbour.
GreetNeedsServices == greeted => event /\ mediaPort >= 2 /\ psi

\* Both together: whoever is served, and whoever is greeted, came after what
\* the start of the client is for.
ServedWhenUp == RunNeedsLogin /\ GreetNeedsServices

\* After exit_handler has logged out, the node is logged in again only by a
\* login that was to be expected then, for the init thread is not stopped.
LoginAfterExitWasExpected == exiting /\ loggedIn => straggler

\* Once the login is reported, the run thread comes to serve customers or dies
\* on the way, unless the process is told to end.
LoginIsServed ==
  event ~> run \in {"loop", "dead"} \/ exiting \/ main \in {"dead", "killed"}
=============================================================================
