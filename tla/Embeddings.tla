------------------------------ MODULE Embeddings ------------------------------
(***************************************************************************)
(* The files of EmbeddingOps (embeddings.py) at every restaurant: the      *)
(* tensors of the customers and of the neighbouring restaurants, the       *)
(* feature files made from them for the training, and the adjacency of     *)
(* neighbour and customers.  Every start of the client fills the tensors   *)
(* anew and then removes the feature files; the customers' keys add to     *)
(* them; the process may be stopped between any two writes.                *)
(*                                                                         *)
(* A row of a tensor is represented by the run of the client that wrote    *)
(* its embedding, zero when it is all zeros.  Of the restaurants' tensor   *)
(* only row r_id = 1 is ever written, and this one row stands for it.      *)
(* restaurant_customer_ids.pt is written and never read, and left out.     *)
(* One thread at a time is here: run while the client starts, the AI       *)
(* client's after that.                                                    *)
(***************************************************************************)
EXTENDS Integers, FiniteSets

CONSTANTS
  Restaurant,  \* the partition ids
  Active,      \* the restaurants whose client starts, saves and is stopped
  Row,         \* the rows of the customers' tensor, max_customers of them
  Seeds,       \* the rows init_embeddings fills, 25 in the code
  Missing,     \* stands for a file that does not exist
  MaxRuns      \* bound: starts of one client

ASSUME EmbeddingsAssumption ==
  /\ Active \subseteq Restaurant
  /\ Row \subseteq Nat /\ IsFiniteSet(Row) /\ Row # {}
  /\ Seeds \in 1..Cardinality(Row)
  /\ MaxRuns \in Nat \ {0}
  /\ Missing \notin Nat

VARIABLES
  run,   \* run[r]: the starts of the client of r so far
  at,    \* at[r]: "down", or where the threads of the client are
  disk   \* disk[r]: the files

storeVars == <<run, at, disk>>

Runs == 0..MaxRuns
Tensor == [Row -> Runs]
Files ==
  [customers : Tensor \cup {Missing}, restaurants : Runs \cup {Missing},
   features_customers : Tensor \cup {Missing},
   features_restaurants : Runs \cup {Missing},
   neighbor_rest_cust : (SUBSET Row) \cup {Missing}]

\* A restaurant that has not been started, and one that has.
NoFiles ==
  [customers |-> Missing, restaurants |-> Missing,
   features_customers |-> Missing, features_restaurants |-> Missing,
   neighbor_rest_cust |-> Missing]
StartedFiles == [NoFiles EXCEPT !.customers = [c \in Row |-> 1], !.restaurants = 0]

StoreInit ==
  /\ run = [r \in Restaurant |-> IF r \in Active THEN 0 ELSE 1]
  /\ at = [r \in Restaurant |-> IF r \in Active THEN "down" ELSE "serving"]
  /\ disk = [r \in Restaurant |-> IF r \in Active THEN NoFiles ELSE StartedFiles]

-----------------------------------------------------------------------------
\* One write of restaurant r, which takes its threads from `from` to `to`.
Write(r, from, to, files) ==
  /\ r \in Active
  /\ at[r] = from
  /\ at' = [at EXCEPT ![r] = to]
  /\ disk' = [disk EXCEPT ![r] = files]
  /\ UNCHANGED run

Start(r) ==
  /\ r \in Active
  /\ at[r] = "down"
  /\ run[r] < MaxRuns
  /\ run' = [run EXCEPT ![r] = @ + 1]
  /\ at' = [at EXCEPT ![r] = "started"]
  /\ UNCHANGED disk

\* create_embeddings may raise: the run thread ends, the process does not.
CreateFails(r) == Write(r, "started", "failed", disk[r])

\* Variant: the tensor of the last run is loaded and added to.
InitCustomersLoading(r) ==
  \E ids \in {S \in SUBSET Row : Cardinality(S) = Seeds} :
    LET old == disk[r].customers IN
    Write(r, "started", "customers",
          [disk[r] EXCEPT !.customers =
             [c \in Row |-> IF c \in ids THEN run[r]
                            ELSE IF old = Missing THEN 0 ELSE old[c]]])
\* init_embeddings: the descriptions of past customers at random rows, a
\* tensor of zeros for the restaurants, and the feature files of the last
\* run are removed where there are any.
InitCustomers(r) ==
  \E ids \in {S \in SUBSET Row : Cardinality(S) = Seeds} :
    Write(r, "started", "customers",
          [disk[r] EXCEPT !.customers =
             [c \in Row |-> IF c \in ids THEN run[r] ELSE 0]])
InitRestaurants(r) ==
  Write(r, "customers", "restaurants", [disk[r] EXCEPT !.restaurants = 0])
RemoveCustomerFeatures(r) ==
  Write(r, "restaurants", "removing",
        [disk[r] EXCEPT !.features_customers = Missing])
RemoveRestaurantFeatures(r) ==
  Write(r, "removing", "serving",
        [disk[r] EXCEPT !.features_restaurants = Missing])

\* save_customer_embeddings: a row at random, then the features.
SaveCustomer(r) ==
  \E c \in Row :
    Write(r, "serving", "customer",
          [disk[r] EXCEPT !.customers = [@ EXCEPT ![c] = run[r]]])
SaveCustomerFeatures(r) ==
  Write(r, "customer", "serving",
        [disk[r] EXCEPT !.features_customers = disk[r].customers])

\* save_restaurant_embeddings: row 1, the features, and an adjacency in which
\* the neighbour has every row of the customers' tensor, not the customer's.
SaveRestaurant(r) ==
  Write(r, "serving", "restaurant", [disk[r] EXCEPT !.restaurants = run[r]])
SaveRestaurantFeatures(r) ==
  Write(r, "restaurant", "adjacency",
        [disk[r] EXCEPT !.features_restaurants = disk[r].restaurants])
SaveAdjacency(r) ==
  Write(r, "adjacency", "serving",
        [disk[r] EXCEPT !.neighbor_rest_cust = DOMAIN disk[r].customers])

\* The process is stopped, between two writes.
StoreCrash(r) ==
  /\ r \in Active
  /\ at[r] # "down"
  /\ run[r] < MaxRuns
  /\ at' = [at EXCEPT ![r] = "down"]
  /\ UNCHANGED <<run, disk>>

StoreStep(r) ==
  \/ Start(r) \/ CreateFails(r)
  \/ InitCustomers(r) \/ InitRestaurants(r)
  \/ RemoveCustomerFeatures(r) \/ RemoveRestaurantFeatures(r)
  \/ SaveCustomer(r) \/ SaveCustomerFeatures(r)
  \/ SaveRestaurant(r) \/ SaveRestaurantFeatures(r) \/ SaveAdjacency(r)

-----------------------------------------------------------------------------
Serving == {"serving", "customer", "restaurant", "adjacency"}

StoreTypeOK ==
  /\ run \in [Restaurant -> Runs]
  /\ at \in [Restaurant -> Serving \cup {"down", "started", "failed",
                                         "customers", "restaurants", "removing"}]
  /\ disk \in [Restaurant -> Files]

\* Once the client serves customers, nothing of a former run is left in the
\* tensors and feature files, however often it was stopped half way through a
\* save or a start, and between two saves the features are those of the
\* tensor they were made from.
ReadyStoreIsOfThisRun ==
  \A r \in Restaurant : at[r] \in Serving =>
    LET d == disk[r] IN
    /\ \A c \in Row : d.customers[c] \in {0, run[r]}
    /\ d.restaurants \in {0, run[r]}
    /\ d.features_customers # Missing =>
         \A c \in Row : d.features_customers[c] \in {0, run[r]}
    /\ d.features_restaurants \in {Missing, 0, run[r]}
    /\ at[r] = "serving" =>
         /\ d.features_customers \in {Missing, d.customers}
         /\ d.features_restaurants \in {Missing, d.restaurants}
=============================================================================
