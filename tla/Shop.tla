-------------------------------- MODULE Shop --------------------------------
(***************************************************************************)
(* The shop of labs/lab-11/src/main.c.  Customers buy out stalls, a loader *)
(* refills them, each stall has its mutex; main joins the customers, tells *)
(* the loader to stop, joins it and destroys the mutexes.                  *)
(*                                                                         *)
(* A visit is four steps (choose, lock and read, write, unlock), so that   *)
(* what a thread read under the mutex may be stale if the mutex fails to   *)
(* protect it.  log_message only serialises the output and is left out.    *)
(***************************************************************************)
EXTENDS Integers, FiniteSets, FiniteSetsExt

CONSTANTS
    Stalls,             \* the stalls (STALL_COUNT of them)
    Customers,          \* the customers (CUSTOMER_COUNT of them)
    StartStock,         \* the values the first stock of a stall is drawn from
    Needs,              \* the values a customer's need is drawn from
    LOADER_ADD,         \* what the loader adds to a stall
    StockBound,         \* model bound: a stall that would pass it is not loaded
    NoOne               \* the owner of a free mutex

ASSUME ShopAssumption ==
    /\ IsFiniteSet(Stalls) /\ Stalls # {} /\ IsFiniteSet(Customers)
    /\ "loader" \notin Customers
    /\ StartStock \subseteq Nat /\ Needs \subseteq Nat \ {0}
    /\ LOADER_ADD \in Nat \ {0} /\ StockBound \in Nat
    /\ NoOne \notin Customers \union {"loader"}

VARIABLES
    stock,              \* stalls[s].stock
    mutex,              \* owner of stalls[s].mutex
    need,               \* customer->need
    stop_loader,        \* the flag under state_mutex
    pc,                 \* where each customer and the loader are
    at,                 \* the stall each of them chose
    seen,               \* the stock each of them read under the mutex
    main,               \* where main() is
    start,              \* history: the stock of the whole shop at the start
    bought,             \* history: what each customer bought
    loads               \* history: how often the loader loaded

shopVars == <<stock, mutex, need, stop_loader, pc, at, seen, main, start, bought, loads>>

Threads == Customers \union {"loader"}

\* The sum of the values of a function: all stocks, all purchases
Total(f) == MapThenSumSet(LAMBDA x : f[x], DOMAIN f)

-----------------------------------------------------------------------------
\* main() has filled the stalls and created the threads
ShopInit ==
    /\ stock \in [Stalls -> StartStock]
    /\ need \in [Customers -> Needs]
    /\ mutex = [s \in Stalls |-> NoOne]
    /\ stop_loader = FALSE
    /\ pc = [t \in Threads |-> IF t = "loader" THEN "check" ELSE "choose"]
    /\ at = [t \in Threads |-> CHOOSE s \in Stalls : TRUE]
    /\ seen = [t \in Threads |-> 0]
    /\ main = "join"
    /\ start = Total(stock)
    /\ bought = [c \in Customers |-> 0]
    /\ loads = 0

history == <<start, bought, loads>>

\* Defect: the mutex is taken from whoever holds it
LockUnchecked(t) ==
    /\ mutex' = [mutex EXCEPT ![at[t]] = t]
    /\ seen' = [seen EXCEPT ![t] = stock[at[t]]]

\* pthread_mutex_lock(&stall->mutex) and the read of stall->stock
Lock(t) ==
    /\ mutex[at[t]] = NoOne
    /\ mutex' = [mutex EXCEPT ![at[t]] = t]
    /\ seen' = [seen EXCEPT ![t] = stock[at[t]]]

\* random_range(&seed, 0, STALL_COUNT - 1): any stall, taken or not
Choose(t, s) ==
    /\ at' = [at EXCEPT ![t] = s]
    /\ pc' = [pc EXCEPT ![t] = "lock"]
    /\ UNCHANGED <<stock, mutex, need, stop_loader, seen, main, history>>

\* A customer, awake and hungry, goes to a stall
CustomerChoose(c, s) ==
    /\ pc[c] = "choose"
    /\ Choose(c, s)

\* The thread waits for the stall and enters it
Enter(t) ==
    /\ pc[t] = "lock"
    /\ Lock(t)
    /\ pc' = [pc EXCEPT ![t] = "inside"]
    /\ UNCHANGED <<stock, need, stop_loader, at, main, history>>

\* What a customer takes of what he saw
Taken(c) == Min({seen[c], need[c]})

\* stall->stock -= taken, customer->need -= taken
Buy(c) ==
    /\ pc[c] = "inside"
    /\ stock' = [stock EXCEPT ![at[c]] = seen[c] - Taken(c)]
    /\ need' = [need EXCEPT ![c] = @ - Taken(c)]
    /\ bought' = [bought EXCEPT ![c] = @ + Taken(c)]
    /\ pc' = [pc EXCEPT ![c] = "unlock"]
    /\ UNCHANGED <<mutex, stop_loader, at, seen, main, start, loads>>

\* The customer leaves the stall: for good when his need is met, else he
\* sleeps and chooses again
CustomerLeave(c) ==
    /\ pc[c] = "unlock"
    /\ mutex' = [mutex EXCEPT ![at[c]] = NoOne]
    /\ pc' = [pc EXCEPT ![c] = IF need[c] <= 0 THEN "done" ELSE "choose"]
    /\ UNCHANGED <<stock, need, stop_loader, at, seen, main, history>>

\* The loader reads stop_loader under state_mutex
LoaderCheck ==
    /\ pc["loader"] = "check"
    /\ pc' = [pc EXCEPT !["loader"] = IF stop_loader THEN "done" ELSE "choose"]
    /\ UNCHANGED <<stock, mutex, need, stop_loader, at, seen, main, history>>

HasRoom(s) == stock[s] + LOADER_ADD <= StockBound

LoaderChoose(s) ==
    /\ pc["loader"] = "choose"
    /\ HasRoom(s)
    /\ Choose("loader", s)

\* Model bound only: with every stall at the bound the loader's turn is empty
LoaderIdle ==
    /\ pc["loader"] = "choose"
    /\ \A s \in Stalls : ~HasRoom(s)
    /\ pc' = [pc EXCEPT !["loader"] = "check"]
    /\ UNCHANGED <<stock, mutex, need, stop_loader, at, seen, main, history>>

\* stall->stock += LOADER_ADD
Load ==
    /\ pc["loader"] = "inside"
    /\ stock' = [stock EXCEPT ![at["loader"]] = seen["loader"] + LOADER_ADD]
    /\ loads' = loads + 1
    /\ pc' = [pc EXCEPT !["loader"] = "unlock"]
    /\ UNCHANGED <<mutex, need, stop_loader, at, seen, main, start, bought>>

LoaderLeave ==
    /\ pc["loader"] = "unlock"
    /\ mutex' = [mutex EXCEPT ![at["loader"]] = NoOne]
    /\ pc' = [pc EXCEPT !["loader"] = "check"]
    /\ UNCHANGED <<stock, need, stop_loader, at, seen, main, history>>

\* Defect: the flag is forgotten
JoinCustomersNoFlag ==
    /\ main = "join"
    /\ \A c \in Customers : pc[c] = "done"
    /\ main' = "joinLoader"
    /\ UNCHANGED <<stock, mutex, need, stop_loader, pc, at, seen, history>>

\* main(): pthread_join of every customer, then the flag under state_mutex
JoinCustomers ==
    /\ main = "join"
    /\ \A c \in Customers : pc[c] = "done"
    /\ stop_loader' = TRUE
    /\ main' = "joinLoader"
    /\ UNCHANGED <<stock, mutex, need, pc, at, seen, history>>

\* Defect: the mutexes are destroyed without having joined the loader
DestroyUnjoined ==
    /\ main = "joinLoader"
    /\ main' = "destroyed"
    /\ UNCHANGED <<stock, mutex, need, stop_loader, pc, at, seen, history>>

\* pthread_join of the loader; main() destroys every mutex and returns
Destroy ==
    /\ pc["loader"] = "done"
    /\ main = "joinLoader"
    /\ main' = "destroyed"
    /\ UNCHANGED <<stock, mutex, need, stop_loader, pc, at, seen, history>>

\* The program has ended
Ended ==
    /\ main = "destroyed"
    /\ UNCHANGED shopVars

LoaderStep == LoaderCheck \/ LoaderIdle \/ Enter("loader") \/ Load \/ LoaderLeave

CustomerStep(c) == Enter(c) \/ Buy(c) \/ CustomerLeave(c)

ShopNext ==
    \/ \E c \in Customers : CustomerStep(c)
    \/ \E c \in Customers, s \in Stalls : CustomerChoose(c, s)
    \/ LoaderStep
    \/ \E s \in Stalls : LoaderChoose(s)
    \/ JoinCustomers
    \/ Destroy
    \/ Ended

ShopSpec == ShopInit /\ [][ShopNext]_shopVars

(***************************************************************************)
(* Threads are scheduled (WF); a mutex is handed to a waiting thread in    *)
(* the end (SF on Enter); and rand_r draws every stall again and again (SF *)
(* on the choices).                                                        *)
(***************************************************************************)
ShopFairSpec ==
    /\ ShopSpec
    /\ WF_shopVars(LoaderStep) /\ WF_shopVars(JoinCustomers) /\ WF_shopVars(Destroy)
    /\ \A t \in Threads : SF_shopVars(Enter(t))
    /\ \A c \in Customers :
          /\ WF_shopVars(CustomerStep(c))
          /\ \A s \in Stalls : SF_shopVars(CustomerChoose(c, s))
    /\ WF_shopVars(\E s \in Stalls : LoaderChoose(s))

-----------------------------------------------------------------------------
(***************************************************************************)
(* Nothing is lost or sold twice: what is in the stalls and what was       *)
(* bought is what was there at the start and what the loader added, at     *)
(* every moment and whatever the threads interleave (main.c:67-75, 118);   *)
(* no stall sells more than it has.                                        *)
(***************************************************************************)
Conservation ==
    /\ \A s \in Stalls : stock[s] >= 0
    /\ Total(stock) + Total(bought) = start + loads * LOADER_ADD

(***************************************************************************)
(* No thread is left at a stall when main destroys the mutexes             *)
(* (main.c:154-169): a mutex destroyed in use is undefined behaviour.      *)
(***************************************************************************)
DestroyedUnused ==
    main = "destroyed" =>
        /\ \A t \in Threads : pc[t] = "done"
        /\ \A s \in Stalls : mutex[s] = NoOne

(***************************************************************************)
(* The program ends: every customer is satisfied in the end, though others *)
(* empty the stalls before him, and the loader sees the flag               *)
(* (main.c:59-93, 104-110, 154-162).                                       *)
(***************************************************************************)
ProgramEnds == <>(main = "destroyed")

-----------------------------------------------------------------------------
(* What the proofs need besides.                                           *)

\* The types of the variables: no stock and no need falls below zero
ShopTypes ==
    /\ stock \in [Stalls -> Nat]
    /\ mutex \in [Stalls -> Threads \union {NoOne}]
    /\ need \in [Customers -> Nat]
    /\ stop_loader \in BOOLEAN
    /\ pc \in [Threads -> {"check", "choose", "lock", "inside", "unlock", "done"}]
    /\ at \in [Threads -> Stalls]
    /\ seen \in [Threads -> Nat]
    /\ main \in {"join", "joinLoader", "destroyed"}
    /\ start \in Int
    /\ bought \in [Customers -> Nat]
    /\ loads \in Nat

\* A stall is entered with its mutex only, one thread at a time, and what a thread has
\* read there is still so when it writes
MutexInv ==
    /\ \A t \in Threads : pc[t] \in {"inside", "unlock"} => mutex[at[t]] = t
    /\ \A s \in Stalls : mutex[s] # NoOne =>
          at[mutex[s]] = s /\ pc[mutex[s]] \in {"inside", "unlock"}
    /\ \A t \in Threads : pc[t] = "inside" => seen[t] = stock[at[t]]

\* main is past a join only when the threads joined are done
JoinInv ==
    /\ main # "join" => \A c \in Customers : pc[c] = "done"
    /\ main = "destroyed" => pc["loader"] = "done"
=============================================================================
