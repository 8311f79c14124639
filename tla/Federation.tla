------------------------------ MODULE Federation ------------------------------
(***************************************************************************)
(* The federated training: the server's rounds (server.py,                 *)
(* fl/server_app.py), the client app every restaurant runs for a message   *)
(* of the server (fl/client_app.py, fl/task.py, ml/swg_ml_local.py), and   *)
(* the local graph it makes of the city-wide one (SWGDataset) and of three *)
(* files no part of the program writes.  The files of EmbeddingOps         *)
(* (Embeddings) are those of the same process: it is started and stopped   *)
(* with the app, and there is nothing else they share.                     *)
(*                                                                         *)
(* Weights are represented by where they come from: the version of the     *)
(* global parameters they started as, and the epochs of training since.    *)
(* Flower is external: FedAvg asks two restaurants at least, which here is *)
(* all of them, waits for all answers, and averages those that are no      *)
(* failures.                                                               *)
(***************************************************************************)
EXTENDS Embeddings, SWGDataset

CONSTANTS
  Table,    \* the restaurant tables the city-wide graph may be made of
  Trainer,  \* what may be in the directories swg_db_local.py names
  Imports,  \* whether fl.task can be imported: FALSE as swg_db_local.py stands
  Rounds,   \* num-server-rounds
  Epochs,   \* what RestaurantClient calls train and test with, 12
  Batches,  \* the batches of a loader
  None,     \* no message, no weights, no answer
  Failed    \* the answer of an app that raised an exception

ASSUME FederationAssumption ==
  /\ Restaurant \subseteq Nat
  /\ Rounds \in Nat \ {0} /\ Epochs \in Nat \ {0, 1} /\ Batches \in Nat \ {0}

\* The rows of a table are numbered from 0, and the areas are.
ASSUME TableAssumption ==
  \A t \in Table :
    /\ IsFiniteSet(DOMAIN t)
    /\ t \in [0..(Cardinality(DOMAIN t) - 1) -> [area : Nat, mughlai : BOOLEAN]]

\* The rows with features in the customers' and in the restaurants' file, and
\* the entries of the adjacency, by restaurant and customer.
ASSUME TrainerAssumption ==
  /\ Imports \subseteq BOOLEAN
  /\ Trainer \subseteq [customers : (SUBSET Nat) \cup {Missing},
                       restaurants : (SUBSET Nat) \cup {Missing},
                       adjacency : (SUBSET (Nat \X Nat)) \cup {Missing}]

VARIABLES
  table,    \* the table behind data.pt
  trainer,  \* trainer[r]: the three files on the machine of r
  imports,  \* whether fl.task can be imported
  round,    \* rounds ended
  stage,    \* "waiting", "fit", "fitted", "evaluate" or "done"
  version,  \* of the global parameters: the times they were averaged
  asked,    \* asked[r]: the message r works on, or None
  answer,   \* answer[r]: the weights r answered with, Failed or None
  pc,       \* pc[r]: where the client app of r is
  epoch,    \* epoch[r]: epochs run
  net,      \* net[r]: the weights of its model
  saved     \* saved[r]: those in swg_state_local_<r>.pth

given == <<table, trainer, imports>>
serverVars == <<given, round, stage, version>>
clientVars == <<asked, answer, pc, epoch, net, saved>>
vars == <<storeVars, serverVars, clientVars>>

\* Fresh weights, which get_model makes, have version -1.
Weights == [base : Int, epochs : Nat]
Fresh == [base |-> -1, epochs |-> 0]
Global(v) == [base |-> v, epochs |-> 0]

Init ==
  /\ StoreInit
  /\ table \in Table
  /\ trainer \in [Restaurant -> Trainer]
  /\ imports \in Imports
  /\ round = 0 /\ stage = "waiting" /\ version = 0
  /\ asked = [r \in Restaurant |-> None]
  /\ answer = [r \in Restaurant |-> None]
  /\ pc = [r \in Restaurant |-> "idle"]
  /\ epoch = [r \in Restaurant |-> 0]
  /\ net = [r \in Restaurant |-> None]
  /\ saved = [r \in Restaurant |-> None]

-----------------------------------------------------------------------------
(* The server.                                                             *)

Up(r) == at[r] # "down"

\* The strategy sends one message, with the global parameters, to everyone.
Send(type) ==
  /\ \A r \in Restaurant : Up(r)
  /\ asked' = [r \in Restaurant |-> [type |-> type, version |-> version]]
  /\ answer' = [r \in Restaurant |-> None]
  /\ UNCHANGED <<storeVars, given, round, version, pc, epoch, net, saved>>

ConfigureFit == stage = "waiting" /\ stage' = "fit" /\ Send("fit")
ConfigureEvaluate ==
  stage = "fitted" /\ stage' = "evaluate" /\ Send("evaluate")

Answered == \A r \in Restaurant : answer[r] # None
Results == {r \in Restaurant : answer[r] \notin {None, Failed}}

\* The results are averaged if there are any; the failures are accepted.
AggregateFit ==
  /\ stage = "fit" /\ Answered
  /\ version' = IF Results = {} THEN version ELSE version + 1
  /\ stage' = "fitted"
  /\ UNCHANGED <<storeVars, given, round, clientVars>>

\* Variant: a round more.
AggregateEvaluateLater ==
  /\ stage = "evaluate" /\ Answered
  /\ round' = round + 1
  /\ stage' = IF round < Rounds THEN "waiting" ELSE "done"
  /\ UNCHANGED <<storeVars, given, version, clientVars>>

AggregateEvaluate ==
  /\ stage = "evaluate" /\ Answered
  /\ round' = round + 1
  /\ stage' = IF round + 1 < Rounds THEN "waiting" ELSE "done"
  /\ UNCHANGED <<storeVars, given, version, clientVars>>

-----------------------------------------------------------------------------
(* The client app of restaurant r, started anew for every message.         *)

\* The app ends: with an answer, or with an exception Flower reports.
Ended(r, result) ==
  /\ asked' = [asked EXCEPT ![r] = None]
  /\ answer' = [answer EXCEPT ![r] = result]
  /\ pc' = [pc EXCEPT ![r] = "idle"]
  /\ epoch' = [epoch EXCEPT ![r] = 0]
  /\ net' = [net EXCEPT ![r] = None]
\* Variant: a failure is not reported.
FailSilently(r) == Ended(r, None) /\ UNCHANGED saved
Fail(r) == Ended(r, Failed) /\ UNCHANGED saved

\* One step of the app: on to the next one, or it fails.
AppStep(r, from) == Up(r) /\ pc[r] = from /\ UNCHANGED <<storeVars, serverVars>>
GoOn(r, to) ==
  pc' = [pc EXCEPT ![r] = to] /\ UNCHANGED <<asked, answer, epoch, saved>>

\* What SWGDatasetLocal.process needs of the files: all three; not one customer
\* alone, which gives a tensor without a dimension; one neighbour exactly, which
\* must be in the table; and a customer in its row of the adjacency.
Loads(files) ==
  /\ Missing \notin {files.customers, files.restaurants, files.adjacency}
  /\ Cardinality(files.customers) # 1
  /\ \E n \in DOMAIN table :
       /\ files.restaurants = {n}
       /\ \E e \in files.adjacency : e[1] = n

\* client_fn and load_data: the graph is made again for every message; there
\* must be an edge of the partition's number, and files to load.  Then come the
\* split, the loaders and a fresh model.
ClientFn(r) ==
  /\ AppStep(r, "idle")
  /\ asked[r] # None
  /\ IF imports /\ HasPartition(Process(table), r) /\ Loads(trainer[r])
     THEN GoOn(r, "loaded") /\ net' = [net EXCEPT ![r] = Fresh]
     ELSE Fail(r)

\* Variant: training goes on from the restaurant's own state file.
SetParamsSaved(r) ==
  /\ AppStep(r, "loaded")
  /\ net' = [net EXCEPT ![r] = IF saved[r] # None /\ asked[r].type = "fit"
                              THEN saved[r] ELSE Global(asked[r].version)]
  /\ GoOn(r, asked[r].type)

\* set_params, at the start of fit and of evaluate.
SetParams(r) ==
  /\ AppStep(r, "loaded")
  /\ net' = [net EXCEPT ![r] = Global(asked[r].version)]
  /\ GoOn(r, asked[r].type)

\* What becomes of the batches of a loader in an epoch: a RuntimeError of the
\* model skips a batch, anything else ends the app, and so does the division
\* when all batches were skipped.
Outcomes == [1..Batches -> {"done", "skipped", "raised"}]
Completes(outcome) ==
  /\ \A b \in 1..Batches : outcome[b] # "raised"
  /\ \E b \in 1..Batches : outcome[b] = "done"
Epoch(r, type, weights) ==
  /\ AppStep(r, type)
  /\ epoch[r] + 1 < Epochs
  /\ \E outcome \in Outcomes :
       IF Completes(outcome)
       THEN /\ epoch' = [epoch EXCEPT ![r] = @ + 1]
            /\ net' = [net EXCEPT ![r] = weights]
            /\ UNCHANGED <<asked, answer, pc, saved>>
       ELSE Fail(r)

TrainLocal(r) == Epoch(r, "fit", [net[r] EXCEPT !.epochs = @ + 1])
TestLocal(r) == Epoch(r, "evaluate", net[r])

\* After the last of range(1, epochs), fit saves the weights and returns them.
Fit(r) ==
  /\ AppStep(r, "fit")
  /\ epoch[r] + 1 = Epochs
  /\ saved' = [saved EXCEPT ![r] = net[r]]
  /\ Ended(r, net[r])
Evaluate(r) ==
  /\ AppStep(r, "evaluate")
  /\ epoch[r] + 1 = Epochs
  /\ Ended(r, net[r])
  /\ UNCHANGED saved

AppNext(r) ==
  \/ ClientFn(r) \/ SetParams(r) \/ TrainLocal(r) \/ TestLocal(r)
  \/ Fit(r) \/ Evaluate(r)

\* The app ends with the process it was started from; a message on the way is
\* reported as a failure.
Crash(r) ==
  /\ StoreCrash(r)
  /\ IF asked[r] = None THEN UNCHANGED clientVars ELSE Fail(r)
  /\ UNCHANGED serverVars

Store(r) == StoreStep(r) /\ UNCHANGED <<serverVars, clientVars>>

ServerNext ==
  ConfigureFit \/ AggregateFit \/ ConfigureEvaluate \/ AggregateEvaluate

Next ==
  \/ ServerNext
  \/ \E r \in Restaurant : Store(r) \/ AppNext(r) \/ Crash(r)

Spec == Init /\ [][Next]_vars

\* Flower drives the rounds and does not let all apps rest that can go on, and
\* the operator starts a stopped client again.
FairSpec ==
  /\ Spec
  /\ WF_vars(ServerNext)
  /\ WF_vars(\E r \in Restaurant : AppNext(r))
  /\ \A r \in Active : WF_vars(Start(r) /\ UNCHANGED <<serverVars, clientVars>>)

-----------------------------------------------------------------------------
TypeOK ==
  /\ StoreTypeOK
  /\ table \in Table /\ trainer \in [Restaurant -> Trainer] /\ imports \in BOOLEAN
  /\ round \in 0..Rounds
  /\ stage \in {"waiting", "fit", "fitted", "evaluate", "done"}
  /\ version \in Nat
  /\ asked \in [Restaurant -> [type : {"fit", "evaluate"}, version : Nat] \cup {None}]
  /\ answer \in [Restaurant -> Weights \cup {Failed, None}]
  /\ pc \in [Restaurant -> {"idle", "loaded", "fit", "evaluate"}]
  /\ epoch \in [Restaurant -> Nat]
  /\ net \in [Restaurant -> Weights \cup {None}]
  /\ saved \in [Restaurant -> Weights \cup {None}]

\* Every result the server averages in a round was trained for all epochs
\* from the parameters it sent in this round, and the state file of the
\* restaurant, which the predictions are made with, holds the same weights;
\* what is evaluated are the averaged parameters as they are.  Whatever
\* failed, was stopped and started again in between.
ResultsFromGlobal ==
  \A r \in Restaurant : answer[r] \notin {None, Failed} =>
    /\ stage = "fit" =>
         /\ answer[r] = [base |-> version, epochs |-> Epochs - 1]
         /\ saved[r] = answer[r]
    /\ stage = "evaluate" => answer[r] = Global(version)

\* The local graph the app of r works on: all customers with features, and the
\* first customer of the neighbour's row.
Graph(r) ==
  LET files == trainer[r]
      neighbor == CHOOSE n \in files.restaurants : TRUE
      row == {e[2] : e \in {a \in files.adjacency : a[1] = neighbor}}
  IN  LocalGraph(Process(table), r, files.customers, neighbor,
                 CHOOSE c \in row : \A d \in row : c <= d)
HasGraph(r) == pc[r] \in {"loaded", "fit", "evaluate"}

\* README.md: "The subgraph should contain the restaurant node under subject
\* and also the neighbouring restaurant nodes (same area)."
SubgraphIsNeighborhood ==
  \A r \in Restaurant : HasGraph(r) => IsNeighborhood(table, r, Graph(r))

\* It does when the table is aligned: then the p-th edge is that of
\* restaurant p, the edges back are picked by the right positions, and every
\* attribute stays beside its edge.
AlignedSubgraphIsNeighborhood ==
  \A r \in Restaurant : HasGraph(r) /\ Aligned(table, r) =>
    IsNeighborhood(table, r, Graph(r)) /\ AttrsFollowEdges(Graph(r))

\* The rounds come to an end, whichever restaurants fail in them, at whichever
\* step, and whatever is missing of what they load: a failure is an answer.
RoundsEnd == <>(stage = "done")
=============================================================================
