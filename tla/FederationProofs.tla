--------------------------- MODULE FederationProofs ---------------------------
(***************************************************************************)
(* Proofs about Embeddings and Federation for any number of restaurants,   *)
(* rows, rounds, epochs and starts.  The argument for the files: every     *)
(* write of a start or of a save leaves one more file in the state of this *)
(* run, and a start has replaced or removed all of them before it serves.  *)
(* The argument for the rounds: a message is worked on only in the stage   *)
(* it was sent in, so the version it carries is the server's.              *)
(* The argument for the local graph: the edges are the rows with features, *)
(* listed in the same order in both directions when the table is aligned.  *)
(***************************************************************************)
EXTENDS Federation, DataProofs

-----------------------------------------------------------------------------
(* The files.                                                              *)

\* A tensor of run n.
OfRun(tensor, n) == tensor \in [Row -> {0, n}]

\* What the files of r are, by the place its threads are at.
StartedAt(r) == at[r] # "down" => run[r] # 0
TensorsAt(r) ==
  /\ at[r] \notin {"down", "started", "failed"} => OfRun(disk[r].customers, run[r])
  /\ at[r] \in {"restaurants", "removing"} \cup Serving
       => disk[r].restaurants \in {0, run[r]}
  /\ at[r] = "restaurant" => disk[r].restaurants = run[r]
FeaturesAt(r) ==
  /\ at[r] = "removing" => disk[r].features_customers = Missing
  /\ at[r] \in Serving =>
       /\ disk[r].features_customers = Missing
            \/ OfRun(disk[r].features_customers, run[r])
       /\ disk[r].features_restaurants \in {Missing, run[r]}
       /\ at[r] # "customer" =>
            disk[r].features_customers \in {Missing, disk[r].customers}
       /\ at[r] # "restaurant" =>
            disk[r].features_restaurants \in {Missing, disk[r].restaurants}
StoreAt(r) == StartedAt(r) /\ TensorsAt(r) /\ FeaturesAt(r)

StoreIInv == StoreTypeOK /\ \A r \in Restaurant : StoreAt(r)

LEMMA InitStore == StoreInit => StoreIInv
<1>. SUFFICES ASSUME StoreInit PROVE StoreIInv
  OBVIOUS
<1>1. Runs = 0..MaxRuns /\ 0 \in Runs /\ 1 \in Runs
  BY EmbeddingsAssumption DEF Runs
<1>2. NoFiles \in Files
  BY DEF NoFiles, Files
<1>3. StartedFiles \in Files
  <2>1. [c \in Row |-> 1] \in Tensor
    BY <1>1 DEF Tensor
  <2>. QED
    BY <1>1, <2>1 DEF StartedFiles, NoFiles, Files
<1>4. StoreTypeOK
  BY <1>1, <1>2, <1>3 DEF StoreInit, StoreTypeOK, Serving
<1>5. ASSUME NEW r \in Restaurant PROVE StoreAt(r)
  <2>1. CASE r \in Active
    BY <2>1 DEF StoreInit, StoreAt, StartedAt, TensorsAt, FeaturesAt, Serving
  <2>2. CASE r \notin Active
    <3>1. at[r] = "serving" /\ run[r] = 1 /\ disk[r] = StartedFiles
      BY <2>2 DEF StoreInit
    <3>2. OfRun([c \in Row |-> 1], 1)
      BY DEF OfRun
    <3>. QED
      BY <3>1, <3>2
      DEF StoreAt, StartedAt, TensorsAt, FeaturesAt, StartedFiles, NoFiles
  <2>. QED
    BY <2>1, <2>2
<1>. QED
  BY <1>4, <1>5 DEF StoreIInv

\* A write of r leaves the others' files alone, and is right if it leaves its
\* own ones right.
LEMMA OneWrite ==
  ASSUME StoreIInv, NEW r \in Restaurant, NEW from, NEW files \in Files,
         NEW to \in Serving \cup {"started", "failed", "customers",
                                  "restaurants", "removing"},
         Write(r, from, to, files)
  PROVE  /\ StoreTypeOK'
         /\ at[r] = from /\ at'[r] = to /\ disk'[r] = files /\ run'[r] = run[r]
         /\ StoreAt(r)' => StoreIInv'
<1>1. StoreTypeOK'
  BY DEF Write, StoreIInv, StoreTypeOK
<1>2. at[r] = from /\ at'[r] = to /\ disk'[r] = files /\ run'[r] = run[r]
  BY DEF Write, StoreIInv, StoreTypeOK
<1>3. ASSUME NEW q \in Restaurant, q # r PROVE StoreAt(q)'
  <2>1. at'[q] = at[q] /\ disk'[q] = disk[q] /\ run'[q] = run[q]
    BY <1>3 DEF Write, StoreIInv, StoreTypeOK
  <2>2. StoreAt(q)
    BY DEF StoreIInv
  <2>. QED
    BY <2>1, <2>2 DEF StoreAt, StartedAt, TensorsAt, FeaturesAt
<1>. QED
  BY <1>1, <1>2, <1>3 DEF StoreIInv

LEMMA OfRunIsTensor ==
  ASSUME NEW n \in Runs, NEW tensor, OfRun(tensor, n)
  PROVE  tensor \in Tensor
<1>1. 0 \in Runs
  BY EmbeddingsAssumption DEF Runs
<1>. QED
  BY <1>1 DEF OfRun, Tensor

LEMMA StartStore ==
  ASSUME StoreIInv, NEW r \in Restaurant, Start(r) \/ StoreCrash(r)
  PROVE  StoreIInv'
<1>1. run[r] \in 0..MaxRuns /\ MaxRuns \in Nat
  BY EmbeddingsAssumption DEF StoreIInv, StoreTypeOK, Runs
<1>2. CASE Start(r)
  <2>1. run[r] + 1 \in Runs /\ run[r] + 1 # 0
    BY <1>1, <1>2 DEF Start, Runs
  <2>2. StoreTypeOK'
    BY <1>2, <2>1 DEF Start, StoreIInv, StoreTypeOK
  <2>3. run'[r] # 0 /\ at'[r] = "started"
    BY <1>2, <2>1 DEF Start, StoreIInv, StoreTypeOK
  <2>4. StoreAt(r)'
    BY <2>3 DEF StoreAt, StartedAt, TensorsAt, FeaturesAt, Serving
  <2>5. ASSUME NEW q \in Restaurant, q # r PROVE StoreAt(q)'
    <3>1. at'[q] = at[q] /\ disk'[q] = disk[q] /\ run'[q] = run[q] /\ StoreAt(q)
      BY <1>2, <2>5 DEF Start, StoreIInv, StoreTypeOK
    <3>. QED
      BY <3>1 DEF StoreAt, StartedAt, TensorsAt, FeaturesAt
  <2>. QED
    BY <2>2, <2>4, <2>5 DEF StoreIInv
<1>3. CASE StoreCrash(r)
  <2>1. StoreTypeOK' /\ at'[r] = "down"
    BY <1>3 DEF StoreCrash, StoreIInv, StoreTypeOK
  <2>2. StoreAt(r)'
    BY <2>1 DEF StoreAt, StartedAt, TensorsAt, FeaturesAt, Serving
  <2>3. ASSUME NEW q \in Restaurant, q # r PROVE StoreAt(q)'
    <3>1. at'[q] = at[q] /\ disk'[q] = disk[q] /\ run'[q] = run[q] /\ StoreAt(q)
      BY <1>3, <2>3 DEF StoreCrash, StoreIInv, StoreTypeOK
    <3>. QED
      BY <3>1 DEF StoreAt, StartedAt, TensorsAt, FeaturesAt
  <2>. QED
    BY <2>1, <2>2, <2>3 DEF StoreIInv
<1>. QED
  BY <1>2, <1>3

\* What is known of the files of r wherever its threads are.
LEMMA FilesOf ==
  ASSUME StoreIInv, NEW r \in Restaurant
  PROVE  /\ disk[r] \in Files /\ run[r] \in Runs /\ 0 \in Runs /\ StoreAt(r)
         /\ disk[r].neighbor_rest_cust \in (SUBSET Row) \cup {Missing}
<1>1. disk[r] \in Files /\ run[r] \in Runs /\ 0 \in Runs /\ StoreAt(r)
  BY EmbeddingsAssumption DEF StoreIInv, StoreTypeOK, Runs
<1>. QED
  BY <1>1 DEF Files

\* The writes of a start.
LEMMA InitEmbeddingsStore ==
  ASSUME StoreIInv, NEW r \in Restaurant,
         \/ CreateFails(r) \/ InitCustomers(r) \/ InitRestaurants(r)
         \/ RemoveCustomerFeatures(r) \/ RemoveRestaurantFeatures(r)
  PROVE  StoreIInv'
<1>1. /\ disk[r] \in Files /\ run[r] \in Runs /\ 0 \in Runs /\ StoreAt(r)
  BY FilesOf
<1>2. CASE CreateFails(r)
  <2>1. Write(r, "started", "failed", disk[r])
    BY <1>2 DEF CreateFails
  <2>2. at[r] = "started" /\ at'[r] = "failed" /\ run'[r] = run[r] /\ (StoreAt(r)' => StoreIInv')
    BY <1>1, <2>1, OneWrite
  <2>. QED
    BY <1>1, <2>2 DEF StoreAt, StartedAt, TensorsAt, FeaturesAt, Serving
<1>3. CASE InitCustomers(r)
  <2>1. PICK ids \in SUBSET Row :
          /\ Cardinality(ids) = Seeds
          /\ Write(r, "started", "customers",
                   [disk[r] EXCEPT !.customers =
                      [c \in Row |-> IF c \in ids THEN run[r] ELSE 0]])
    BY <1>3 DEF InitCustomers
  <2>. DEFINE tensor == [c \in Row |-> IF c \in ids THEN run[r] ELSE 0]
              files == [disk[r] EXCEPT !.customers = tensor]
  <2>2. at[r] = "started" /\ run[r] # 0
    BY <1>1, <2>1 DEF Write, StoreAt, StartedAt
  <2>3. OfRun(tensor, run[r]) /\ tensor \in Tensor
    <3>1. OfRun(tensor, run[r])
      BY DEF OfRun
    <3>. QED
      BY <1>1, <3>1, OfRunIsTensor
  <2>4. files \in Files /\ files.customers = tensor
    BY <1>1, <2>3 DEF Files
  <2>5. /\ at'[r] = "customers" /\ disk'[r] = files /\ run'[r] = run[r]
        /\ StoreAt(r)' => StoreIInv'
    BY <2>1, <2>4, OneWrite
  <2>. HIDE DEF files, tensor
  <2>. QED
    BY <2>2, <2>3, <2>4, <2>5
    DEF StoreAt, StartedAt, TensorsAt, FeaturesAt, Serving
<1>4. CASE InitRestaurants(r)
  <2>. DEFINE files == [disk[r] EXCEPT !.restaurants = 0]
  <2>1. Write(r, "customers", "restaurants", files)
    BY <1>4 DEF InitRestaurants
  <2>2. files \in Files /\ files.restaurants = 0 /\ files.customers = disk[r].customers
    BY <1>1 DEF Files
  <2>3. /\ at[r] = "customers" /\ at'[r] = "restaurants" /\ disk'[r] = files
        /\ run'[r] = run[r] /\ (StoreAt(r)' => StoreIInv')
    BY <2>1, <2>2, OneWrite
  <2>. HIDE DEF files
  <2>. QED
    BY <1>1, <2>2, <2>3
    DEF StoreAt, StartedAt, TensorsAt, FeaturesAt, Serving
<1>5. CASE RemoveCustomerFeatures(r)
  <2>. DEFINE files == [disk[r] EXCEPT !.features_customers = Missing]
  <2>1. Write(r, "restaurants", "removing", files)
    BY <1>5 DEF RemoveCustomerFeatures
  <2>2. /\ files \in Files /\ files.features_customers = Missing
        /\ files.customers = disk[r].customers /\ files.restaurants = disk[r].restaurants
    BY <1>1 DEF Files
  <2>3. /\ at[r] = "restaurants" /\ at'[r] = "removing" /\ disk'[r] = files
        /\ run'[r] = run[r] /\ (StoreAt(r)' => StoreIInv')
    BY <2>1, <2>2, OneWrite
  <2>. HIDE DEF files
  <2>. QED
    BY <1>1, <2>2, <2>3
    DEF StoreAt, StartedAt, TensorsAt, FeaturesAt, Serving
<1>6. CASE RemoveRestaurantFeatures(r)
  <2>. DEFINE files == [disk[r] EXCEPT !.features_restaurants = Missing]
  <2>1. Write(r, "removing", "serving", files)
    BY <1>6 DEF RemoveRestaurantFeatures
  <2>2. /\ files \in Files /\ files.features_restaurants = Missing
        /\ files.features_customers = disk[r].features_customers
        /\ files.customers = disk[r].customers /\ files.restaurants = disk[r].restaurants
    BY <1>1 DEF Files
  <2>3. /\ at[r] = "removing" /\ at'[r] = "serving" /\ disk'[r] = files
        /\ run'[r] = run[r] /\ (StoreAt(r)' => StoreIInv')
    BY <2>1, <2>2, OneWrite DEF Serving
  <2>. HIDE DEF files
  <2>. QED
    BY <1>1, <2>2, <2>3
    DEF StoreAt, StartedAt, TensorsAt, FeaturesAt, Serving
<1>. QED
  BY <1>2, <1>3, <1>4, <1>5, <1>6

\* The writes of the two saves.
LEMMA SaveStore ==
  ASSUME StoreIInv, NEW r \in Restaurant,
         \/ SaveCustomer(r) \/ SaveCustomerFeatures(r)
         \/ SaveRestaurant(r) \/ SaveRestaurantFeatures(r) \/ SaveAdjacency(r)
  PROVE  StoreIInv'
<1>1. /\ disk[r] \in Files /\ run[r] \in Runs /\ 0 \in Runs /\ StoreAt(r)
  BY FilesOf
<1>2. at[r] \in Serving => OfRun(disk[r].customers, run[r]) /\ run[r] # 0
  BY <1>1 DEF StoreAt, StartedAt, TensorsAt, Serving
<1>3. CASE SaveCustomer(r)
  <2>1. PICK c \in Row :
          Write(r, "serving", "customer",
                [disk[r] EXCEPT !.customers = [@ EXCEPT ![c] = run[r]]])
    BY <1>3 DEF SaveCustomer
  <2>. DEFINE tensor == [disk[r].customers EXCEPT ![c] = run[r]]
              files == [disk[r] EXCEPT !.customers = tensor]
  <2>2. at[r] = "serving"
    BY <2>1 DEF Write
  <2>3. OfRun(tensor, run[r]) /\ tensor \in Tensor
    <3>1. OfRun(tensor, run[r])
      BY <1>2, <2>2 DEF OfRun, Serving
    <3>. QED
      BY <1>1, <3>1, OfRunIsTensor
  <2>4. /\ files \in Files /\ files.customers = tensor
        /\ files.restaurants = disk[r].restaurants
        /\ files.features_customers = disk[r].features_customers
        /\ files.features_restaurants = disk[r].features_restaurants
        /\ files.neighbor_rest_cust = disk[r].neighbor_rest_cust
    BY <1>1, <2>3 DEF Files
  <2>5. /\ at'[r] = "customer" /\ disk'[r] = files /\ run'[r] = run[r]
        /\ StoreAt(r)' => StoreIInv'
    <3>1. Write(r, "serving", "customer", files)
      BY <2>1
    <3>. QED
      BY <2>4, <3>1, OneWrite DEF Serving
  <2>. HIDE DEF files, tensor
  <2>. QED
    BY <1>1, <2>2, <2>3, <2>4, <2>5
    DEF StoreAt, StartedAt, TensorsAt, FeaturesAt, Serving
<1>4. CASE SaveCustomerFeatures(r)
  <2>. DEFINE files == [disk[r] EXCEPT !.features_customers = disk[r].customers]
  <2>1. Write(r, "customer", "serving", files)
    BY <1>4 DEF SaveCustomerFeatures
  <2>2. at[r] = "customer" /\ disk[r].customers \in Tensor
    BY <1>1, <1>2, <2>1, OfRunIsTensor DEF Write, Serving
  <2>3. /\ files \in Files /\ files.features_customers = disk[r].customers
        /\ files.customers = disk[r].customers
        /\ files.restaurants = disk[r].restaurants
        /\ files.features_restaurants = disk[r].features_restaurants
        /\ files.neighbor_rest_cust = disk[r].neighbor_rest_cust
    BY <1>1, <2>2 DEF Files
  <2>4. /\ at'[r] = "serving" /\ disk'[r] = files /\ run'[r] = run[r]
        /\ StoreAt(r)' => StoreIInv'
    BY <2>1, <2>3, OneWrite DEF Serving
  <2>. HIDE DEF files
  <2>. QED
    BY <1>1, <2>2, <2>3, <2>4
    DEF StoreAt, StartedAt, TensorsAt, FeaturesAt, Serving
<1>5. CASE SaveRestaurant(r)
  <2>. DEFINE files == [disk[r] EXCEPT !.restaurants = run[r]]
  <2>1. Write(r, "serving", "restaurant", files)
    BY <1>5 DEF SaveRestaurant
  <2>2. /\ files \in Files /\ files.restaurants = run[r]
        /\ files.customers = disk[r].customers
        /\ files.features_customers = disk[r].features_customers
        /\ files.features_restaurants = disk[r].features_restaurants
        /\ files.neighbor_rest_cust = disk[r].neighbor_rest_cust
    BY <1>1 DEF Files
  <2>3. /\ at[r] = "serving" /\ at'[r] = "restaurant" /\ disk'[r] = files
        /\ run'[r] = run[r] /\ (StoreAt(r)' => StoreIInv')
    BY <2>1, <2>2, OneWrite DEF Serving
  <2>. HIDE DEF files
  <2>. QED
    BY <1>1, <2>2, <2>3
    DEF StoreAt, StartedAt, TensorsAt, FeaturesAt, Serving
<1>6. CASE SaveRestaurantFeatures(r)
  <2>. DEFINE files == [disk[r] EXCEPT !.features_restaurants = disk[r].restaurants]
  <2>1. Write(r, "restaurant", "adjacency", files)
    BY <1>6 DEF SaveRestaurantFeatures
  <2>2. at[r] = "restaurant" /\ disk[r].restaurants = run[r]
    BY <1>1, <2>1 DEF Write, StoreAt, TensorsAt
  <2>3. /\ files \in Files /\ files.features_restaurants = disk[r].restaurants
        /\ files.customers = disk[r].customers
        /\ files.restaurants = disk[r].restaurants
        /\ files.features_customers = disk[r].features_customers
        /\ files.neighbor_rest_cust = disk[r].neighbor_rest_cust
    BY <1>1, <2>2 DEF Files
  <2>4. /\ at'[r] = "adjacency" /\ disk'[r] = files /\ run'[r] = run[r]
        /\ StoreAt(r)' => StoreIInv'
    BY <2>1, <2>3, OneWrite DEF Serving
  <2>. HIDE DEF files
  <2>. QED
    BY <1>1, <2>2, <2>3, <2>4
    DEF StoreAt, StartedAt, TensorsAt, FeaturesAt, Serving
<1>7. CASE SaveAdjacency(r)
  <2>. DEFINE files == [disk[r] EXCEPT !.neighbor_rest_cust = DOMAIN disk[r].customers]
  <2>1. Write(r, "adjacency", "serving", files)
    BY <1>7 DEF SaveAdjacency
  <2>2. at[r] = "adjacency" /\ DOMAIN disk[r].customers = Row
    BY <1>2, <2>1 DEF Write, Serving, OfRun
  <2>3. /\ files \in Files /\ files.neighbor_rest_cust = Row
        /\ files.customers = disk[r].customers
        /\ files.restaurants = disk[r].restaurants
        /\ files.features_customers = disk[r].features_customers
        /\ files.features_restaurants = disk[r].features_restaurants
    BY <1>1, <2>2 DEF Files
  <2>4. /\ at'[r] = "serving" /\ disk'[r] = files /\ run'[r] = run[r]
        /\ StoreAt(r)' => StoreIInv'
    BY <2>1, <2>3, OneWrite DEF Serving
  <2>. HIDE DEF files
  <2>. QED
    BY <1>1, <2>2, <2>3, <2>4
    DEF StoreAt, StartedAt, TensorsAt, FeaturesAt, Serving
<1>. QED
  BY <1>3, <1>4, <1>5, <1>6, <1>7

LEMMA NextStore ==
  ASSUME StoreIInv, [Next]_vars
  PROVE  StoreIInv'
<1>1. CASE UNCHANGED storeVars
  BY <1>1
  DEF storeVars, StoreIInv, StoreTypeOK, StoreAt, StartedAt, TensorsAt, FeaturesAt
<1>2. ASSUME NEW r \in Restaurant, StoreStep(r) \/ StoreCrash(r)
      PROVE  StoreIInv'
  BY <1>2, StartStore, InitEmbeddingsStore, SaveStore DEF StoreStep
<1>3. ASSUME NEW r \in Restaurant, AppNext(r)
      PROVE  UNCHANGED storeVars
  BY <1>3
  DEF AppNext, ClientFn, SetParams,
      TrainLocal, TestLocal, Epoch, Fit, Evaluate, AppStep
<1>4. ASSUME ServerNext PROVE UNCHANGED storeVars
  BY <1>4
  DEF ServerNext, ConfigureFit, AggregateFit, ConfigureEvaluate, AggregateEvaluate, Send
<1>. QED
  BY <1>1, <1>2, <1>3, <1>4 DEF Next, vars, Store, Crash

\* The files of a client that serves are those of its run.
THEOREM StoreIsOfThisRun == Spec => []ReadyStoreIsOfThisRun
<1>1. Init => StoreIInv
  BY InitStore DEF Init
<1>2. StoreIInv => ReadyStoreIsOfThisRun
  <2>. SUFFICES ASSUME StoreIInv, NEW r \in Restaurant, at[r] \in Serving
                PROVE  LET d == disk[r] IN
                       /\ \A c \in Row : d.customers[c] \in {0, run[r]}
                       /\ d.restaurants \in {0, run[r]}
                       /\ d.features_customers # Missing =>
                            \A c \in Row : d.features_customers[c] \in {0, run[r]}
                       /\ d.features_restaurants \in {Missing, 0, run[r]}
                       /\ at[r] = "serving" =>
                            /\ d.features_customers \in {Missing, d.customers}
                            /\ d.features_restaurants \in {Missing, d.restaurants}
    BY DEF ReadyStoreIsOfThisRun
  <2>1. StoreAt(r) /\ OfRun(disk[r].customers, run[r])
    BY DEF StoreIInv, StoreAt, TensorsAt, Serving
  <2>. QED
    BY <2>1 DEF StoreAt, TensorsAt, FeaturesAt, OfRun
<1>. QED
  BY <1>1, <1>2, NextStore, PTL DEF Spec

-----------------------------------------------------------------------------
(* The rounds.                                                             *)

\* A message is worked on in the stage, and with the parameters, it was sent
\* for, and by a restaurant that has not answered it yet.
MessageAt(r) ==
  asked[r] # None =>
    /\ stage \in {"fit", "evaluate"}
    /\ asked[r] = [type |-> stage, version |-> version]
    /\ answer[r] = None

\* How far the app has come with the weights it was sent.
AppAt(r) ==
  /\ pc[r] # "idle" => asked[r] # None
  /\ pc[r] \in {"fit", "evaluate"} => asked[r].type = pc[r]
  /\ pc[r] = "fit" => net[r] = [base |-> version, epochs |-> epoch[r]]
  /\ pc[r] = "evaluate" => net[r] = Global(version)
  /\ pc[r] \notin {"fit", "evaluate"} => epoch[r] = 0

ResultAt(r) ==
  answer[r] \notin {None, Failed} =>
    /\ stage = "fit" =>
         /\ answer[r] = [base |-> version, epochs |-> Epochs - 1]
         /\ saved[r] = answer[r]
    /\ stage = "evaluate" => answer[r] = Global(version)

RoundAt(r) == MessageAt(r) /\ AppAt(r) /\ ResultAt(r)

Places == {"idle", "loaded", "fit", "evaluate"}
ServerTypeOK ==
  /\ table \in Table /\ trainer \in [Restaurant -> Trainer] /\ imports \in BOOLEAN
  /\ round \in 0..Rounds
  /\ stage \in {"waiting", "fit", "fitted", "evaluate", "done"}
  /\ version \in Nat
  /\ stage # "done" => round < Rounds
ClientTypeOK ==
  /\ asked \in [Restaurant -> [type : {"fit", "evaluate"}, version : Nat] \cup {None}]
  /\ answer \in [Restaurant -> Weights \cup {Failed, None}]
  /\ pc \in [Restaurant -> Places]
  /\ epoch \in [Restaurant -> Nat]
  /\ net \in [Restaurant -> Weights \cup {None}]
  /\ saved \in [Restaurant -> Weights \cup {None}]

RoundIInv ==
  /\ StoreIInv /\ ServerTypeOK /\ ClientTypeOK
  /\ \A r \in Restaurant : RoundAt(r)

LEMMA InitRound == Init => RoundIInv
<1>. SUFFICES ASSUME Init PROVE RoundIInv
  OBVIOUS
<1>1. StoreIInv
  BY InitStore DEF Init
<1>2. ServerTypeOK
  BY FederationAssumption, TrainerAssumption DEF Init, ServerTypeOK
<1>3. ClientTypeOK
  BY DEF Init, ClientTypeOK, Places
<1>4. ASSUME NEW r \in Restaurant PROVE RoundAt(r)
  BY DEF Init, RoundAt, MessageAt, AppAt, ResultAt
<1>. QED
  BY <1>1, <1>2, <1>3, <1>4 DEF RoundIInv

\* A step of the app of r leaves the others' messages, answers and weights
\* alone, and the server's stage and version.
LEMMA OneApp ==
  ASSUME RoundIInv, NEW r \in Restaurant, UNCHANGED serverVars, StoreIInv',
         ClientTypeOK', RoundAt(r)',
         \A q \in Restaurant \ {r} :
           /\ asked'[q] = asked[q] /\ answer'[q] = answer[q] /\ pc'[q] = pc[q]
           /\ epoch'[q] = epoch[q] /\ net'[q] = net[q] /\ saved'[q] = saved[q]
  PROVE  RoundIInv'
<1>1. ServerTypeOK'
  BY DEF RoundIInv, ServerTypeOK, serverVars, given
<1>2. ASSUME NEW q \in Restaurant, q # r PROVE RoundAt(q)'
  BY <1>2 DEF RoundIInv, RoundAt, MessageAt, AppAt, ResultAt, serverVars
<1>. QED
  BY <1>1, <1>2 DEF RoundIInv

\* An app that fails.
LEMMA FailRound ==
  ASSUME RoundIInv, NEW r \in Restaurant, UNCHANGED serverVars, StoreIInv', Fail(r)
  PROVE  RoundIInv'
<1>1. ClientTypeOK'
  BY DEF RoundIInv, ClientTypeOK, Fail, Ended, Places
<1>2. asked'[r] = None /\ answer'[r] = Failed /\ pc'[r] = "idle" /\ epoch'[r] = 0
  BY DEF RoundIInv, ClientTypeOK, Fail, Ended
<1>3. RoundAt(r)'
  BY <1>2 DEF RoundAt, MessageAt, AppAt, ResultAt
<1>4. \A q \in Restaurant \ {r} :
        /\ asked'[q] = asked[q] /\ answer'[q] = answer[q] /\ pc'[q] = pc[q]
        /\ epoch'[q] = epoch[q] /\ net'[q] = net[q] /\ saved'[q] = saved[q]
  BY DEF RoundIInv, ClientTypeOK, Fail, Ended
<1>. QED
  BY <1>1, <1>3, <1>4, OneApp

\* An app that loads its graph, or fails to.
LEMMA ClientFnRound ==
  ASSUME RoundIInv, NEW r \in Restaurant, StoreIInv', ClientFn(r)
  PROVE  RoundIInv'
<1>1. UNCHANGED serverVars /\ pc[r] = "idle" /\ asked[r] # None
  BY DEF ClientFn, AppStep
<1>. SUFFICES ASSUME ~ Fail(r) PROVE RoundIInv'
  BY <1>1, FailRound
<1>2. GoOn(r, "loaded") /\ net' = [net EXCEPT ![r] = Fresh]
  BY DEF ClientFn
<1>3. ClientTypeOK'
  <2>1. Fresh \in Weights
    BY DEF Fresh, Weights
  <2>2. net' \in [Restaurant -> Weights \cup {None}]
    BY <1>2, <2>1 DEF RoundIInv, ClientTypeOK
  <2>3. pc' \in [Restaurant -> Places]
    BY <1>2 DEF RoundIInv, ClientTypeOK, GoOn, Places
  <2>. QED
    BY <1>2, <2>2, <2>3 DEF RoundIInv, ClientTypeOK, GoOn
<1>4. /\ asked'[r] = asked[r] /\ answer'[r] = answer[r] /\ pc'[r] = "loaded"
      /\ epoch'[r] = epoch[r] /\ saved'[r] = saved[r]
  BY <1>2 DEF RoundIInv, ClientTypeOK, GoOn
<1>5. RoundAt(r)'
  BY <1>1, <1>4 DEF RoundIInv, RoundAt, MessageAt, AppAt, ResultAt, serverVars
<1>6. \A q \in Restaurant \ {r} :
        /\ asked'[q] = asked[q] /\ answer'[q] = answer[q] /\ pc'[q] = pc[q]
        /\ epoch'[q] = epoch[q] /\ net'[q] = net[q] /\ saved'[q] = saved[q]
  BY <1>2 DEF RoundIInv, ClientTypeOK, GoOn
<1>. QED
  BY <1>1, <1>3, <1>5, <1>6, OneApp

LEMMA SetParamsRound ==
  ASSUME RoundIInv, NEW r \in Restaurant, StoreIInv', SetParams(r)
  PROVE  RoundIInv'
<1>1. UNCHANGED serverVars /\ pc[r] = "loaded"
  BY DEF SetParams, AppStep
<1>2. /\ asked[r] # None /\ epoch[r] = 0 /\ answer[r] = None
      /\ asked[r] = [type |-> stage, version |-> version]
      /\ stage \in {"fit", "evaluate"} /\ version \in Nat
  BY <1>1 DEF RoundIInv, RoundAt, AppAt, MessageAt, ServerTypeOK
<1>3. /\ net' = [net EXCEPT ![r] = Global(version)]
      /\ GoOn(r, stage)
  BY <1>2 DEF SetParams
<1>4. ClientTypeOK'
  BY <1>2, <1>3 DEF RoundIInv, ClientTypeOK, GoOn, Places, Global, Weights
<1>5. /\ asked'[r] = asked[r] /\ answer'[r] = answer[r] /\ pc'[r] = stage
      /\ epoch'[r] = epoch[r] /\ saved'[r] = saved[r] /\ net'[r] = Global(version)
  BY <1>3 DEF RoundIInv, ClientTypeOK, GoOn
<1>6. RoundAt(r)'
  BY <1>1, <1>2, <1>5
  DEF RoundIInv, RoundAt, MessageAt, AppAt, ResultAt, Global, serverVars
<1>7. \A q \in Restaurant \ {r} :
        /\ asked'[q] = asked[q] /\ answer'[q] = answer[q] /\ pc'[q] = pc[q]
        /\ epoch'[q] = epoch[q] /\ net'[q] = net[q] /\ saved'[q] = saved[q]
  BY <1>3 DEF RoundIInv, ClientTypeOK, GoOn
<1>. QED
  BY <1>1, <1>4, <1>6, <1>7, OneApp

\* What an app at an epoch has.
LEMMA AtEpoch ==
  ASSUME RoundIInv, NEW r \in Restaurant, pc[r] \in {"fit", "evaluate"}
  PROVE  /\ stage = pc[r] /\ answer[r] = None /\ asked[r] # None
         /\ asked[r] = [type |-> stage, version |-> version]
         /\ version \in Nat /\ epoch[r] \in Nat /\ net[r] \in Weights
         /\ pc[r] = "fit" => net[r] = [base |-> version, epochs |-> epoch[r]]
         /\ pc[r] = "evaluate" => net[r] = Global(version)
<1>1. /\ version \in Nat /\ epoch[r] \in Nat /\ asked[r] # None
      /\ asked[r] = [type |-> stage, version |-> version] /\ answer[r] = None
      /\ asked[r].type = pc[r]
      /\ pc[r] = "fit" => net[r] = [base |-> version, epochs |-> epoch[r]]
      /\ pc[r] = "evaluate" => net[r] = Global(version)
  BY DEF RoundIInv, ServerTypeOK, ClientTypeOK, RoundAt, AppAt, MessageAt
<1>2. net[r] \in Weights
  BY <1>1 DEF Weights, Global
<1>. QED
  BY <1>1, <1>2

LEMMA EpochRound ==
  ASSUME RoundIInv, NEW r \in Restaurant, StoreIInv', TrainLocal(r) \/ TestLocal(r)
  PROVE  RoundIInv'
<1>a. PICK type \in {"fit", "evaluate"} : \E weights :
        /\ Epoch(r, type, weights)
        /\ type = "fit" => weights = [net[r] EXCEPT !.epochs = @ + 1]
        /\ type = "evaluate" => weights = net[r]
  BY DEF TrainLocal, TestLocal
<1>1. PICK weights :
        /\ Epoch(r, type, weights)
        /\ type = "fit" => weights = [net[r] EXCEPT !.epochs = @ + 1]
        /\ type = "evaluate" => weights = net[r]
  BY <1>a
<1>2. UNCHANGED serverVars /\ pc[r] = type
  BY <1>1 DEF Epoch, AppStep
<1>. SUFFICES ASSUME ~ Fail(r) PROVE RoundIInv'
  BY <1>2, FailRound
<1>3. /\ epoch' = [epoch EXCEPT ![r] = @ + 1] /\ net' = [net EXCEPT ![r] = weights]
      /\ UNCHANGED <<asked, answer, pc, saved>>
  BY <1>1 DEF Epoch
<1>4. /\ stage = type /\ answer[r] = None /\ asked[r] # None
      /\ asked[r] = [type |-> stage, version |-> version]
      /\ version \in Nat /\ epoch[r] \in Nat /\ net[r] \in Weights
      /\ type = "fit" => net[r] = [base |-> version, epochs |-> epoch[r]]
      /\ type = "evaluate" => net[r] = Global(version)
  BY <1>2, AtEpoch
<1>5. /\ weights \in Weights
      /\ type = "fit" => weights = [base |-> version, epochs |-> epoch[r] + 1]
      /\ type = "evaluate" => weights = Global(version)
  BY <1>1, <1>4 DEF Weights
<1>6. ClientTypeOK'
  BY <1>3, <1>5 DEF RoundIInv, ClientTypeOK
<1>7. /\ asked'[r] = asked[r] /\ answer'[r] = answer[r] /\ pc'[r] = pc[r]
      /\ epoch'[r] = epoch[r] + 1 /\ net'[r] = weights
  BY <1>3 DEF RoundIInv, ClientTypeOK
<1>8. RoundAt(r)'
  BY <1>2, <1>4, <1>5, <1>7 DEF RoundAt, MessageAt, AppAt, ResultAt, Global, serverVars
<1>9. \A q \in Restaurant \ {r} :
        /\ asked'[q] = asked[q] /\ answer'[q] = answer[q] /\ pc'[q] = pc[q]
        /\ epoch'[q] = epoch[q] /\ net'[q] = net[q] /\ saved'[q] = saved[q]
  BY <1>3 DEF RoundIInv, ClientTypeOK
<1>. QED
  BY <1>2, <1>6, <1>8, <1>9, OneApp

\* The last epoch: the answer is the weights.
LEMMA AnswerRound ==
  ASSUME RoundIInv, NEW r \in Restaurant, StoreIInv', Fit(r) \/ Evaluate(r)
  PROVE  RoundIInv'
<1>1. /\ UNCHANGED serverVars /\ pc[r] \in {"fit", "evaluate"}
      /\ epoch[r] + 1 = Epochs /\ Ended(r, net[r])
      /\ saved' = [saved EXCEPT ![r] = net[r]] \/ saved' = saved
      /\ pc[r] = "fit" => saved' = [saved EXCEPT ![r] = net[r]]
  BY DEF Fit, Evaluate, AppStep
<1>2. /\ stage = pc[r] /\ version \in Nat /\ epoch[r] \in Nat /\ net[r] \in Weights
      /\ pc[r] = "fit" => net[r] = [base |-> version, epochs |-> epoch[r]]
      /\ pc[r] = "evaluate" => net[r] = Global(version)
  BY <1>1, AtEpoch
<1>3. ClientTypeOK'
  BY <1>1, <1>2 DEF RoundIInv, ClientTypeOK, Ended, Places
<1>4. /\ asked'[r] = None /\ answer'[r] = net[r] /\ pc'[r] = "idle" /\ epoch'[r] = 0
      /\ pc[r] = "fit" => saved'[r] = net[r]
  BY <1>1 DEF RoundIInv, ClientTypeOK, Ended
<1>5. epoch[r] = Epochs - 1
  BY <1>1, <1>2, FederationAssumption
<1>6. RoundAt(r)'
  BY <1>1, <1>2, <1>4, <1>5 DEF RoundAt, MessageAt, AppAt, ResultAt, serverVars
<1>7. \A q \in Restaurant \ {r} :
        /\ asked'[q] = asked[q] /\ answer'[q] = answer[q] /\ pc'[q] = pc[q]
        /\ epoch'[q] = epoch[q] /\ net'[q] = net[q] /\ saved'[q] = saved[q]
  BY <1>1 DEF RoundIInv, ClientTypeOK, Ended
<1>. QED
  BY <1>1, <1>3, <1>6, <1>7, OneApp

\* The server sends when no app has a message, and averages when no app works
\* on one any more.
LEMMA ServerRound ==
  ASSUME RoundIInv, StoreIInv', ServerNext
  PROVE  RoundIInv'
<1>1. CASE ConfigureFit \/ ConfigureEvaluate
  <2>1. PICK type \in {"fit", "evaluate"} :
          Send(type) /\ stage' = type /\ stage \in {"waiting", "fitted"}
    BY <1>1 DEF ConfigureFit, ConfigureEvaluate
  <2>2. /\ asked' = [r \in Restaurant |-> [type |-> type, version |-> version]]
        /\ answer' = [r \in Restaurant |-> None]
        /\ UNCHANGED <<given, round, version, pc, epoch, net, saved>>
    BY <2>1 DEF Send
  <2>3. ServerTypeOK'
    BY <2>1, <2>2 DEF RoundIInv, ServerTypeOK, given
  <2>4. ClientTypeOK'
    BY <2>2 DEF RoundIInv, ServerTypeOK, ClientTypeOK
  <2>5. ASSUME NEW r \in Restaurant PROVE RoundAt(r)'
    <3>1. pc[r] = "idle" /\ epoch[r] = 0
      BY <2>1 DEF RoundIInv, RoundAt, MessageAt, AppAt
    <3>2. /\ asked'[r] = [type |-> type, version |-> version] /\ answer'[r] = None
          /\ pc'[r] = "idle" /\ epoch'[r] = 0
      BY <2>2, <3>1
    <3>. QED
      BY <2>1, <2>2, <3>2 DEF RoundAt, MessageAt, AppAt, ResultAt
  <2>. QED
    BY <2>3, <2>4, <2>5 DEF RoundIInv
<1>2. CASE AggregateFit \/ AggregateEvaluate
  <2>1. Answered /\ UNCHANGED clientVars /\ stage' \in {"fitted", "waiting", "done"}
    BY <1>2 DEF AggregateFit, AggregateEvaluate
  <2>2. ServerTypeOK'
    BY <1>2, FederationAssumption
    DEF AggregateFit, AggregateEvaluate, RoundIInv, ServerTypeOK, given
  <2>3. ClientTypeOK'
    BY <2>1 DEF RoundIInv, ClientTypeOK, clientVars
  <2>4. ASSUME NEW r \in Restaurant PROVE RoundAt(r)'
    <3>1. asked[r] = None /\ pc[r] = "idle" /\ epoch[r] = 0
      BY <2>1 DEF RoundIInv, RoundAt, MessageAt, AppAt, Answered
    <3>2. asked'[r] = None /\ pc'[r] = "idle" /\ epoch'[r] = 0
      BY <2>1, <3>1 DEF clientVars
    <3>. QED
      BY <2>1, <3>2 DEF RoundAt, MessageAt, AppAt, ResultAt
  <2>. QED
    BY <2>2, <2>3, <2>4 DEF RoundIInv
<1>. QED
  BY <1>1, <1>2 DEF ServerNext

LEMMA NextRound ==
  ASSUME RoundIInv, [Next]_vars
  PROVE  RoundIInv'
<1>1. StoreIInv'
  BY NextStore DEF RoundIInv
<1>2. CASE UNCHANGED <<serverVars, clientVars>>
  BY <1>1, <1>2
  DEF RoundIInv, ServerTypeOK, ClientTypeOK, RoundAt, MessageAt, AppAt, ResultAt,
      serverVars, given, clientVars
<1>3. CASE ServerNext
  BY <1>1, <1>3, ServerRound
<1>4. ASSUME NEW r \in Restaurant, AppNext(r) PROVE RoundIInv'
  BY <1>1, <1>4, ClientFnRound, SetParamsRound, EpochRound, AnswerRound DEF AppNext
<1>5. ASSUME NEW r \in Restaurant, Crash(r) PROVE RoundIInv'
  BY <1>1, <1>2, <1>5, FailRound DEF Crash
<1>6. ASSUME NEW r \in Restaurant, Store(r) PROVE RoundIInv'
  BY <1>2, <1>6 DEF Store
<1>. QED
  BY <1>2, <1>3, <1>4, <1>5, <1>6 DEF Next, vars

\* The server, the apps and the files keep their types.
THEOREM TypeCorrect == Spec => []TypeOK
<1>1. RoundIInv => TypeOK
  BY DEF RoundIInv, StoreIInv, ServerTypeOK, ClientTypeOK, TypeOK, Places
<1>. QED
  BY <1>1, InitRound, NextRound, PTL DEF Spec

\* What is averaged in a round was trained from the parameters of this round.
THEOREM AveragedAreFromGlobal == Spec => []ResultsFromGlobal
<1>1. RoundIInv => ResultsFromGlobal
  BY DEF RoundIInv, RoundAt, ResultAt, ResultsFromGlobal
<1>. QED
  BY <1>1, InitRound, NextRound, PTL DEF Spec
-----------------------------------------------------------------------------
(* The local graph.                                                        *)

FeaturedOf(t) == {q \in DOMAIN t : Featured(t, q)}

\* The rows with features, one after the other.
LEMMA RowsOf ==
  ASSUME NEW t \in Table
  PROVE  LET rows == FeaturedRows(t)
             size == Cardinality(FeaturedOf(t))
         IN  /\ FeaturedOf(t) \in SUBSET Nat /\ IsFiniteSet(FeaturedOf(t))
             /\ size \in Nat
             /\ DOMAIN rows = 1..size
             /\ \A i \in 1..size : rows[i] \in FeaturedOf(t)
             /\ \A q \in FeaturedOf(t) : \E i \in 1..size : rows[i] = q
             /\ \A q \in FeaturedOf(t) : t[q].area \in Nat
<1>1. /\ IsFiniteSet(DOMAIN t) /\ DOMAIN t \in SUBSET Nat
      /\ \A q \in DOMAIN t : t[q].area \in Nat
  <2>. DEFINE n == Cardinality(DOMAIN t)
  <2>1. IsFiniteSet(DOMAIN t) /\ t \in [0..(n - 1) -> [area : Nat, mughlai : BOOLEAN]]
    BY TableAssumption
  <2>2. n \in Nat
    BY <2>1, FS_CardinalityType
  <2>. HIDE DEF n
  <2>3. DOMAIN t = 0..(n - 1) /\ DOMAIN t \in SUBSET Nat
    BY <2>1, <2>2
  <2>4. \A q \in DOMAIN t : t[q].area \in Nat
    BY <2>1, <2>3
  <2>. QED
    BY <2>1, <2>3, <2>4
<1>2. FeaturedOf(t) \in SUBSET (DOMAIN t)
  BY DEF FeaturedOf
<1>3. /\ IsFiniteSet(FeaturedOf(t)) /\ FeaturedOf(t) \in SUBSET Int
      /\ FeaturedOf(t) \in SUBSET Nat
  BY <1>1, <1>2, FS_Subset
<1>4. FeaturedRows(t) = Ascending(FeaturedOf(t))
  BY DEF FeaturedRows, FeaturedOf
<1>5. \A q \in FeaturedOf(t) : t[q].area \in Nat
  BY <1>1, <1>2
<1>. QED
  BY <1>3, <1>4, <1>5, AscendingProperties

\* The first block is listed in the order of its restaurants, and so is its
\* transpose when the areas come in the same order.
LEMMA EdgesOf ==
  ASSUME NEW t \in Table
  PROVE  LET rows == FeaturedRows(t)
             size == Cardinality(FeaturedOf(t))
         IN  /\ Process(t).r_to_a = [i \in 1..size |-> <<rows[i], t[rows[i]].area>>]
             /\ (\A q, r \in FeaturedOf(t) : q < r => t[q].area <= t[r].area) =>
                  Process(t).a_to_r = [i \in 1..size |-> <<t[rows[i]].area, rows[i]>>]
<1>. DEFINE S == FeaturedOf(t)
            rows == FeaturedRows(t)
            size == Cardinality(S)
<1>1. /\ S \in SUBSET Nat /\ IsFiniteSet(S) /\ size \in Nat
      /\ \A i \in 1..size : rows[i] \in S
      /\ \A q \in S : t[q].area \in Nat
  BY RowsOf
<1>2. Orders(Less(S), S)
  <2>1. \A q, r \in S : <<q, r>> \in Less(S) <=> q < r
    BY DEF Less
  <2>. QED
    BY <1>1, <2>1 DEF Orders
<1>3. rows = Listed(S, Less(S))
  BY DEF FeaturedRows, FeaturedOf, Ascending
<1>4. Process(t).r_to_a = [i \in 1..size |-> <<rows[i], t[rows[i]].area>>]
  <2>. DEFINE g == [q \in S |-> <<q, t[q].area>>]
              E == {g[q] : q \in S}
              Q == {p \in E \X E : Before(p[1], p[2])}
  <2>1. ASSUME NEW q \in S, NEW r \in S
        PROVE  <<g[q], g[r]>> \in Q <=> <<q, r>> \in Less(S)
    <3>1. Before(<<q, t[q].area>>, <<r, t[r].area>>) <=> q < r
      BY <1>1 DEF Before
    <3>. QED
      BY <3>1 DEF Less
  <2>2. E = {<<q, t[q].area>> : q \in S}
    OBVIOUS
  <2>3. Process(t).r_to_a = Listed(E, Q)
    BY <2>2 DEF Process, CreateAdjacency, RowMajor, FeaturedOf
  <2>. HIDE DEF Q, E
  <2>4. (\A q \in S : g[q] \in E) /\ \A e \in E : \E q \in S : e = g[q]
    BY DEF E
  <2>. HIDE DEF g, S, rows, size
  <2>5. Listed(E, Q) = [i \in 1..size |-> g[rows[i]]]
    <3>. DEFINE R == Less(S)
    <3>1. Orders(R, S) /\ Maps(g, S, R, E, Q)
      BY <1>2, <2>1, <2>4 DEF Maps
    <3>. HIDE DEF R
    <3>2. Listed(E, Q) = [i \in 1..Cardinality(S) |-> g[Listed(S, R)[i]]]
      BY <1>1, <3>1, ListedImage
    <3>. QED
      BY <1>3, <3>2 DEF R, size
  <2>6. \A i \in 1..size : g[rows[i]] = <<rows[i], t[rows[i]].area>>
    BY <1>1 DEF g
  <2>. QED
    BY <2>3, <2>5, <2>6
<1>5. ASSUME \A q, r \in S : q < r => t[q].area <= t[r].area
      PROVE  Process(t).a_to_r = [i \in 1..size |-> <<t[rows[i]].area, rows[i]>>]
  <2>. DEFINE g == [q \in S |-> <<t[q].area, q>>]
              E == {g[q] : q \in S}
              Q == {p \in E \X E : Before(p[1], p[2])}
  <2>1. ASSUME NEW q \in S, NEW r \in S
        PROVE  <<g[q], g[r]>> \in Q <=> <<q, r>> \in Less(S)
    <3>1. Before(<<t[q].area, q>>, <<t[r].area, r>>) <=> q < r
      BY <1>1, <1>5 DEF Before
    <3>. QED
      BY <3>1 DEF Less
  <2>2. E = {<<t[q].area, q>> : q \in S}
    OBVIOUS
  <2>3. Process(t).a_to_r = Listed(E, Q)
    BY <2>2 DEF Process, CreateAdjacency, RowMajor, FeaturedOf
  <2>. HIDE DEF Q, E
  <2>4. (\A q \in S : g[q] \in E) /\ \A e \in E : \E q \in S : e = g[q]
    BY DEF E
  <2>. HIDE DEF g, S, rows, size
  <2>5. Listed(E, Q) = [i \in 1..size |-> g[rows[i]]]
    <3>. DEFINE R == Less(S)
    <3>1. Orders(R, S) /\ Maps(g, S, R, E, Q)
      BY <1>2, <2>1, <2>4 DEF Maps
    <3>. HIDE DEF R
    <3>2. Listed(E, Q) = [i \in 1..Cardinality(S) |-> g[Listed(S, R)[i]]]
      BY <1>1, <3>1, ListedImage
    <3>. QED
      BY <1>3, <3>2 DEF R, size
  <2>6. \A i \in 1..size : g[rows[i]] = <<t[rows[i]].area, rows[i]>>
    BY <1>1 DEF g
  <2>. QED
    BY <2>3, <2>5, <2>6
<1>. QED
  BY <1>4, <1>5

\* A partition whose number is below the number of edges is a row of the
\* table; when no row up to it is without features, its edge is its own.
LEMMA OwnEdge ==
  ASSUME NEW t \in Table, NEW p \in Nat, HasPartition(Process(t), p),
         \A q \in 0..p : Featured(t, q)
  PROVE  /\ p \in FeaturedOf(t)
         /\ PartitionArea(Process(t), p) = t[p].area
<1>. DEFINE S == FeaturedOf(t)
            rows == FeaturedRows(t)
            size == Cardinality(S)
<1>1. /\ S \in SUBSET Nat /\ IsFiniteSet(S) /\ size \in Nat
      /\ \A i \in 1..size : rows[i] \in S
  BY RowsOf
<1>2. Process(t).r_to_a = [i \in 1..size |-> <<rows[i], t[rows[i]].area>>]
  BY EdgesOf
<1>3. p < size
  <2>. HIDE DEF size, rows, S
  <2>1. Len(Process(t).r_to_a) = size
    BY <1>1, <1>2
  <2>. QED
    BY <2>1 DEF HasPartition
<1>4. PICK n \in Nat : DOMAIN t = 0..(n - 1)
  <2>. DEFINE n == Cardinality(DOMAIN t)
  <2>1. IsFiniteSet(DOMAIN t) /\ DOMAIN t = 0..(n - 1)
    BY TableAssumption
  <2>2. n \in Nat
    BY <2>1, FS_CardinalityType
  <2>. QED
    BY <2>1, <2>2
<1>5. size <= n
  <2>1. IsFiniteSet(0..(n - 1)) /\ Cardinality(0..(n - 1)) = n
    BY FS_Interval
  <2>2. S \in SUBSET (0..(n - 1))
    BY <1>4 DEF FeaturedOf
  <2>. QED
    BY <2>1, <2>2, FS_Subset
<1>6. \A q \in 0..p : q \in S
  BY <1>1, <1>3, <1>4, <1>5 DEF FeaturedOf
<1>7. rows[p + 1] = p
  <2>1. {q \in S : q < p} = 0..(p - 1)
    BY <1>1, <1>6
  <2>2. Cardinality(0..(p - 1)) = p
    BY FS_Interval
  <2>3. rows = Ascending(S)
    BY DEF FeaturedRows, FeaturedOf
  <2>4. S \in SUBSET Int /\ p \in S /\ p + 1 \in Int
    BY <1>1, <1>6
  <2>. HIDE DEF S, rows
  <2>5. Cardinality({q \in S : q < p}) = p
    BY <2>1, <2>2, Zenon
  <2>6. p = (p + 1) - 1
    OBVIOUS
  <2>. QED
    BY <1>1, <2>3, <2>4, <2>5, <2>6, AscendingProperties
<1>8. Process(t).r_to_a[p + 1] = <<p, t[p].area>>
  BY <1>1, <1>2, <1>3, <1>7
<1>. QED
  BY <1>6, <1>8 DEF PartitionArea

\* The one end, or the other, of the edges of a list.
Ends(edges, end) == {e[end] : e \in Image(edges)}

LEMMA EndsOf ==
  ASSUME NEW edges, NEW end
  PROVE  Ends(edges, end) = {edges[k][end] : k \in DOMAIN edges}
<1>1. ASSUME NEW x \in Ends(edges, end)
      PROVE  x \in {edges[k][end] : k \in DOMAIN edges}
  <2>1. PICK k \in DOMAIN edges : x = edges[k][end]
    BY DEF Ends, Image
  <2>. QED
    BY <2>1
<1>2. ASSUME NEW k \in DOMAIN edges PROVE edges[k][end] \in Ends(edges, end)
  BY DEF Ends, Image
<1>. QED
  BY <1>1, <1>2

\* In an aligned table the partition's edges are those of its area, in both
\* directions, each beside its attribute.
LEMMA AlignedGraph ==
  ASSUME NEW t \in Table, NEW p \in Nat, HasPartition(Process(t), p), Aligned(t, p),
         NEW customers, NEW neighbor, NEW first
  PROVE  LET graph == LocalGraph(Process(t), p, customers, neighbor, first)
         IN  IsNeighborhood(t, p, graph) /\ AttrsFollowEdges(graph)
<1>. DEFINE S == FeaturedOf(t)
            rows == FeaturedRows(t)
            size == Cardinality(S)
            data == Process(t)
            here == {i \in 1..size : t[rows[i]].area = t[p].area}
            picked == Ascending(here)
            n == Cardinality(here)
            graph == LocalGraph(data, p, customers, neighbor, first)
<1>1. /\ size \in Nat /\ DOMAIN rows = 1..size
      /\ \A i \in 1..size : rows[i] \in S
      /\ \A q \in S : \E i \in 1..size : rows[i] = q
  BY RowsOf
<1>2. /\ data.r_to_a = [i \in 1..size |-> <<rows[i], t[rows[i]].area>>]
      /\ data.a_to_r = [i \in 1..size |-> <<t[rows[i]].area, rows[i]>>]
      /\ data.r_to_a_attr = rows /\ data.a_to_r_attr = rows
  <2>1. \A q, r \in S : q < r => t[q].area <= t[r].area
    BY DEF Aligned, FeaturedOf
  <2>2. data.r_to_a_attr = rows /\ data.a_to_r_attr = rows
    BY DEF Process, CreateFeatures
  <2>. QED
    BY <2>1, <2>2, EdgesOf
<1>3. p \in S /\ PartitionArea(data, p) = t[p].area
  BY OwnEdge DEF Aligned
<1>4. LocalIndices(data, p) = picked
  <2>1. \A i \in 1..size : data.r_to_a[i][2] = t[rows[i]].area
    BY <1>2
  <2>2. DOMAIN data.r_to_a = 1..size
    BY <1>2
  <2>3. {i \in DOMAIN data.r_to_a : data.r_to_a[i][2] = PartitionArea(data, p)} = here
    BY <1>3, <2>1, <2>2
  <2>. QED
    BY <2>3 DEF LocalIndices
<1>5. /\ n \in Nat /\ DOMAIN picked = 1..n
      /\ \A k \in 1..n : picked[k] \in here
      /\ \A i \in here : \E k \in 1..n : picked[k] = i
  <2>1. IsFiniteSet(1..size) /\ here \in SUBSET (1..size)
    BY <1>1, FS_Interval
  <2>2. IsFiniteSet(here) /\ here \in SUBSET Int
    BY <1>1, <2>1, FS_Subset
  <2>. HIDE DEF here
  <2>. QED
    BY <2>2, AscendingProperties
<1>. HIDE DEF size, rows, data, here, picked, n
\* The picked edges.
<1>6. DEFINE edges == [k \in 1..n |-> <<rows[picked[k]], t[rows[picked[k]]].area>>]
             back == [k \in 1..n |-> <<t[rows[picked[k]]].area, rows[picked[k]]>>]
             attrs == [k \in 1..n |-> rows[picked[k]]]
<1>7. \A k \in 1..n : picked[k] \in 1..size
  BY <1>5 DEF here
<1>8. /\ graph.r_to_a = Append(edges, <<p, p>>)
      /\ graph.r_to_a_attr = attrs /\ graph.a_to_r = back /\ graph.a_to_r_attr = attrs
  <2>1. /\ Pick(data.r_to_a, picked) = edges
        /\ Pick(data.a_to_r, picked) = back
        /\ Pick(rows, picked) = attrs
    BY <1>2, <1>5, <1>7 DEF Pick
  <2>. QED
    BY <1>2, <1>4, <2>1 DEF LocalGraph
\* Their restaurants.
<1>9. {attrs[k] : k \in 1..n} = Neighborhood(t, p)
  <2>1. ASSUME NEW k \in 1..n PROVE rows[picked[k]] \in Neighborhood(t, p)
    BY <1>1, <1>5, <1>7 DEF Neighborhood, FeaturedOf, here
  <2>2. ASSUME NEW q \in Neighborhood(t, p)
        PROVE  \E k \in 1..n : q = rows[picked[k]]
    <3>1. q \in S /\ t[q].area = t[p].area
      BY DEF Neighborhood, FeaturedOf
    <3>2. PICK i \in 1..size : rows[i] = q
      BY <1>1, <3>1
    <3>3. i \in here
      BY <3>1, <3>2 DEF here
    <3>. QED
      BY <1>5, <3>2, <3>3
  <2>. QED
    BY <2>1, <2>2
<1>10. {e[1] : e \in Image(graph.r_to_a)} = Neighborhood(t, p) \cup {p}
  <2>1. Image(Append(edges, <<p, p>>)) = Image(edges) \cup {<<p, p>>}
    <3>1. /\ DOMAIN Append(edges, <<p, p>>) = 1..(n + 1) /\ DOMAIN edges = 1..n
          /\ \A k \in 1..n : Append(edges, <<p, p>>)[k] = edges[k]
          /\ Append(edges, <<p, p>>)[n + 1] = <<p, p>>
      BY <1>5
    <3>2. \A k \in 1..(n + 1) : k \in 1..n \/ k = n + 1
      BY <1>5
    <3>3. \A k \in 1..n : k \in 1..(n + 1)
      BY <1>5
    <3>4. n + 1 \in 1..(n + 1)
      BY <1>5
    <3>. DEFINE all == Append(edges, <<p, p>>)
    <3>. HIDE DEF all, edges
    <3>. QED
      BY <3>1, <3>2, <3>3, <3>4 DEF Image, all
  <2>2. Ends(edges, 1) = {attrs[k] : k \in 1..n}
    <3>1. DOMAIN edges = 1..n /\ \A k \in 1..n : edges[k][1] = attrs[k]
      OBVIOUS
    <3>. HIDE DEF edges, attrs
    <3>2. Ends(edges, 1) = {edges[k][1] : k \in 1..n}
      BY <3>1, EndsOf
    <3>. QED
      BY <3>1, <3>2
  <2>3. {e[1] : e \in Image(edges) \cup {<<p, p>>}} = {e[1] : e \in Image(edges)} \cup {p}
    <3>. DEFINE all == Image(edges)
    <3>1. <<p, p>>[1] = p
      OBVIOUS
    <3>. HIDE DEF all
    <3>. QED
      BY <3>1
  <2>. QED
    BY <1>8, <1>9, <2>1, <2>2, <2>3 DEF Ends
<1>11. {e[2] : e \in Image(graph.a_to_r)} = Neighborhood(t, p)
  <2>1. Ends(back, 2) = {attrs[k] : k \in 1..n}
    <3>1. DOMAIN back = 1..n /\ \A k \in 1..n : back[k][2] = attrs[k]
      OBVIOUS
    <3>. HIDE DEF back, attrs
    <3>2. Ends(back, 2) = {back[k][2] : k \in 1..n}
      BY <3>1, EndsOf
    <3>. QED
      BY <3>1, <3>2
  <2>. QED
    BY <1>8, <1>9, <2>1 DEF Ends
<1>12. AttrsFollowEdges(graph)
  <2>1. \A k \in 1..n : Append(edges, <<p, p>>)[k] = edges[k]
    BY <1>5
  <2>2. \A k \in 1..n : edges[k][1] = attrs[k] /\ back[k][2] = attrs[k]
    OBVIOUS
  <2>3. DOMAIN attrs = 1..n
    OBVIOUS
  <2>. HIDE DEF edges, back, attrs
  <2>. QED
    BY <1>8, <2>1, <2>2, <2>3 DEF AttrsFollowEdges
<1>. HIDE DEF graph
<1>13. IsNeighborhood(t, p, graph)
  BY <1>10, <1>11 DEF IsNeighborhood
<1>. QED
  BY <1>12, <1>13 DEF graph, data

\* The app goes on from its first step only when there is an edge of its
\* number, and the table stays.
PartitionsFound == \A r \in Restaurant : pc[r] # "idle" => HasPartition(Process(table), r)

LEMMA NextFound ==
  ASSUME RoundIInv, PartitionsFound, [Next]_vars
  PROVE  PartitionsFound'
<1>a. pc \in [Restaurant -> Places]
  BY DEF RoundIInv, ClientTypeOK
<1>1. table' = table
  BY DEF Next, vars, ServerNext, ConfigureFit, ConfigureEvaluate, AggregateFit,
         AggregateEvaluate, Send, Store, Crash, AppNext, ClientFn, SetParams, TrainLocal, TestLocal, Epoch, Fit,
         Evaluate, AppStep, serverVars, given
<1>2. ASSUME NEW r \in Restaurant, pc'[r] # "idle"
      PROVE  pc[r] # "idle" \/ HasPartition(Process(table), r)
  <2>1. CASE UNCHANGED pc
    BY <1>2, <2>1
  <2>2. ASSUME NEW q \in Restaurant, AppNext(q)
        PROVE  pc[r] # "idle" \/ HasPartition(Process(table), r)
    <3>1. CASE q = r /\ ClientFn(q)
      BY <1>a, <1>2, <3>1 DEF ClientFn, Fail, Ended
    <3>2. CASE q # r
      BY <1>a, <1>2, <2>2, <3>2
      DEF AppNext, ClientFn, SetParams,
          TrainLocal, TestLocal, Epoch, Fit, Evaluate, Fail, Ended, GoOn
    <3>3. CASE q = r /\ ~ ClientFn(q)
      <4>1. pc[q] \in {"loaded", "fit", "evaluate"}
        BY <2>2, <3>3
        DEF AppNext, SetParams,
            TrainLocal, TestLocal, Epoch, Fit, Evaluate, AppStep
      <4>. QED
        BY <3>3, <4>1
    <3>. QED
      BY <3>1, <3>2, <3>3
  <2>3. ASSUME NEW q \in Restaurant, Crash(q)
        PROVE  pc[r] # "idle" \/ HasPartition(Process(table), r)
    BY <1>a, <1>2, <2>3 DEF Crash, Fail, Ended, clientVars
  <2>4. CASE ServerNext
    BY <1>2, <2>4
    DEF ServerNext, ConfigureFit, ConfigureEvaluate, AggregateFit, AggregateEvaluate,
        Send, clientVars
  <2>. QED
    BY <1>2, <2>1, <2>2, <2>3, <2>4 DEF Next, vars, Store, clientVars
<1>. QED
  BY <1>1, <1>2 DEF PartitionsFound

\* The local graph of an aligned table is the neighbourhood of the restaurant.
THEOREM AlignedSubgraph == Spec => []AlignedSubgraphIsNeighborhood
<1>1. Init => PartitionsFound
  BY DEF Init, PartitionsFound
<1>2. RoundIInv /\ PartitionsFound => AlignedSubgraphIsNeighborhood
  <2>. SUFFICES ASSUME RoundIInv, PartitionsFound, NEW r \in Restaurant,
                       HasGraph(r), Aligned(table, r)
                PROVE  IsNeighborhood(table, r, Graph(r)) /\ AttrsFollowEdges(Graph(r))
    BY DEF AlignedSubgraphIsNeighborhood
  <2>1. table \in Table /\ r \in Nat /\ HasPartition(Process(table), r)
    BY FederationAssumption DEF RoundIInv, ServerTypeOK, PartitionsFound, HasGraph
  <2>2. PICK t \in Table : t = table
    BY <2>1
  <2>. QED
    BY <2>1, <2>2, AlignedGraph DEF Graph
<1>. QED
  BY <1>1, <1>2, InitRound, NextRound, NextFound, PTL DEF Spec
=============================================================================
