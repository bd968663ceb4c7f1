--------------------------------- MODULE Shops ---------------------------------
(***************************************************************************)
(* "11-streams/1.c": customers buy from shops until their request is met, *)
(* a loader fills the empty shops, and one mutex guards the shops.  What a *)
(* customer reads of a shop and what it writes there are steps of their    *)
(* own, so that the mutex has something to do.                             *)
(***************************************************************************)
EXTENDS Integers, FiniteSetsExt, Functions

CONSTANTS NUM_SHOPS, NUM_CUSTOMERS,
          Requests,    \* MIN_REQUEST .. MAX_REQUEST
          Goods        \* MIN_GOODS .. MAX_GOODS

ConstantsOK == /\ {NUM_SHOPS, NUM_CUSTOMERS} \subseteq Nat \ {0}
               /\ Requests \subseteq Nat \ {0} /\ Goods \subseteq Nat \ {0} /\ IsFiniteSet(Goods)

Shop      == 0 .. NUM_SHOPS - 1
Customers == 0 .. NUM_CUSTOMERS - 1
LOADER    == NUM_CUSTOMERS
Nobody    == NUM_CUSTOMERS + 1

VARIABLES
  shops,        \* goods in each shop
  request,      \* what each customer still wants
  customer,     \* where each customer is
  seen,         \* the shop it has chosen and the goods it has read there
  loader,       \* the shop the loader looks at next, or NUM_SHOPS
  mutex_shops,  \* the thread that has the mutex
  joined,       \* customers main has joined
  wanted,       \* history: what each customer asked for at the start
  delivered     \* history: goods brought to the shops so far
shopVars == <<shops, request, customer, seen, loader, mutex_shops, joined, wanted, delivered>>

Init ==
  /\ shops \in [Shop -> Goods] /\ delivered = SumFunction(shops)
  /\ request \in [Customers -> Requests] /\ wanted = request
  /\ customer = [c \in Customers |-> "shop"]
  /\ seen = [c \in Customers |-> <<0, 0>>]
  /\ loader = NUM_SHOPS /\ mutex_shops = Nobody /\ joined = 0

MainThere == joined < NUM_CUSTOMERS    \* with main every thread ends
-------------------------------------------------------------------------------
Take(t)  == mutex_shops = Nobody /\ mutex_shops' = t
Barge(t) == mutex_shops' = t          \* mutant: a lock that keeps nobody out
Lock(t)  == Take(t)
Unlock(t) == mutex_shops = t /\ mutex_shops' = Nobody

\* A customer: the lock, at the head of the loop.
Enter(c) ==
  /\ customer[c] = "shop" /\ request[c] > 0
  /\ Lock(c) /\ customer' = [customer EXCEPT ![c] = "choose"]
  /\ UNCHANGED <<shops, request, seen, loader, joined, wanted, delivered>>

\* rand() chooses a shop; an empty one is left at once.
Choose(c, s) ==
  /\ customer[c] = "choose"
  /\ seen' = [seen EXCEPT ![c] = <<s, shops[s]>>]
  /\ customer' = [customer EXCEPT ![c] = IF shops[s] > 0 THEN "buy" ELSE "leave"]
  /\ UNCHANGED <<shops, request, loader, mutex_shops, joined, wanted, delivered>>

Buy(c) ==
  LET shop  == seen[c][1]
      taken == IF request[c] > seen[c][2] THEN seen[c][2] ELSE request[c]
  IN  /\ customer[c] = "buy"
      /\ shops' = [shops EXCEPT ![shop] = seen[c][2] - taken]
      /\ request' = [request EXCEPT ![c] = @ - taken]
      /\ customer' = [customer EXCEPT ![c] = "leave"]
      /\ UNCHANGED <<seen, loader, mutex_shops, joined, wanted, delivered>>

LeaveShop(c) ==
  /\ customer[c] = "leave" /\ Unlock(c)
  /\ customer' = [customer EXCEPT ![c] = "shop"]
  /\ UNCHANGED <<shops, request, seen, loader, joined, wanted, delivered>>

Finish(c) ==
  /\ customer[c] = "shop" /\ request[c] <= 0
  /\ customer' = [customer EXCEPT ![c] = "done"]
  /\ UNCHANGED <<shops, request, seen, loader, mutex_shops, joined, wanted, delivered>>

\* The loader: the lock, one turn for each shop, the unlock.
LoaderEnter ==
  /\ loader = NUM_SHOPS /\ Lock(LOADER) /\ loader' = 0
  /\ UNCHANGED <<shops, request, customer, seen, joined, wanted, delivered>>

RestockShop ==
  LET empty == shops[loader] = 0 IN
  /\ loader < NUM_SHOPS
  /\ \E g \in Goods :
       /\ shops' = [shops EXCEPT ![loader] = IF empty THEN g ELSE @]
       /\ delivered' = IF empty THEN delivered + g ELSE delivered
  /\ IF loader + 1 = NUM_SHOPS THEN Unlock(LOADER) ELSE UNCHANGED mutex_shops
  /\ loader' = loader + 1
  /\ UNCHANGED <<request, customer, seen, joined, wanted>>

\* pthread_join in the order of the customers; after the last, main cancels the
\* loader and ends the program.
Join ==
  /\ customer[joined] = "done" /\ joined' = joined + 1
  /\ UNCHANGED <<shops, request, customer, seen, loader, mutex_shops, wanted, delivered>>

ChooseStocked(c) == \E s \in Shop : shops[s] > 0 /\ Choose(c, s)

CustomerStep(c) == Enter(c) \/ (\E s \in Shop : Choose(c, s)) \/ Buy(c) \/ LeaveShop(c) \/ Finish(c)

Next == MainThere /\ (Join \/ LoaderEnter \/ RestockShop \/ \E c \in Customers : CustomerStep(c))

\* Everybody goes on, gets the mutex in the end (they sleep for seconds between two
\* locks), and rand() does not miss the shops that have goods for ever.
Fairness ==
  /\ WF_shopVars(MainThere /\ Join) /\ WF_shopVars(MainThere /\ RestockShop) /\ SF_shopVars(MainThere /\ LoaderEnter)
  /\ \A c \in Customers :
       /\ WF_shopVars(MainThere /\ CustomerStep(c))
       /\ SF_shopVars(MainThere /\ Enter(c))
       /\ SF_shopVars(MainThere /\ ChooseStocked(c))

FairSpec == Init /\ [][Next]_shopVars /\ Fairness
-------------------------------------------------------------------------------
\* The type invariant; a shop is never in debt and nobody buys more than it wants.
TypeOK ==
  /\ \A s \in Shop : shops[s] \in 0 .. Max(Goods)
  /\ \A c \in Customers :
       /\ request[c] \in 0 .. wanted[c] /\ wanted[c] \in Requests
       /\ customer[c] \in {"shop", "choose", "buy", "leave", "done"}
       /\ customer[c] \in {"choose", "buy", "leave"} <=> mutex_shops = c
       /\ seen[c] \in Shop \X (0 .. Max(Goods))
  /\ loader \in 0 .. NUM_SHOPS /\ mutex_shops \in Customers \cup {LOADER, Nobody}
  /\ joined \in 0 .. NUM_CUSTOMERS /\ delivered \in Nat

\* What was delivered is in the shops or with the customers, whenever no purchase is
\* half done: no update of a shop is lost and no goods are sold twice (lines 24-35,
\* 45-53).
GoodsAddUp ==
  (\A c \in Customers : customer[c] # "buy") =>
    delivered + SumFunction(request) = SumFunction(shops) + SumFunction(wanted)

\* All customers get what they want and main ends the program, though one choice of
\* an empty shop costs a customer its turn (lines 23-37, 76-80).
Served    == joined = NUM_CUSTOMERS
AllServed == []<>Served
===============================================================================
