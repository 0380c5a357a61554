------------------------------ MODULE PosShop ------------------------------
(***************************************************************************)
(* The shop of a POS business in routes/pos_routes.py: its catalog, its    *)
(* stock and its sales, served by threads whose transactions overlap.      *)
(*                                                                         *)
(* A sale reads its lines in the order the client sent them.  It locks the *)
(* stock row of each tracked product and keeps the locks until it commits, *)
(* so sales can wait for one another, also in a circle.  Every other write *)
(* is one statement that waits for at most one row, after reads without a  *)
(* lock.  Prices and names are left out: they decide only whether a total  *)
(* is too large, which may happen at any line, and whether a name is taken.*)
(***************************************************************************)
EXTENDS Integers, Sequences, FiniteSets

CONSTANTS
    Threads,        \* request threads of the worker
    Products,       \* pos_products.id values
    NoProduct,      \* no product
    MaxQuantity,    \* _MAX_SALE_QUANTITY
    MaxLines,       \* bound: lines of a sale
    MaxStock        \* bound: deliveries stop at this stock

VARIABLES
    catalog,        \* rows of pos_products
    active,         \* those with is_active = 1
    tracked,        \* products that have a pos_inventory row
    stock,          \* [Products -> Int], pos_inventory.quantity
    pc,             \* [Threads -> Stages], the next statement of a request
    cart,           \* [Threads -> Seq(Line)], lines the sale has not read yet
    sold,           \* [Threads -> [Products -> Nat]], line_items of the sale
    held,           \* [Threads -> SUBSET Products], stock rows it has locked:
                    \* its inventory_deductions
    form,           \* [Threads -> [product, quantity]], a delivery or a count
    began,          \* history: the products of a sale that were tracked when it began
    book            \* history: [Products -> Int], what counts, deliveries and
                    \* committed sales leave of a product

catalogVars == <<catalog, active>>
stockVars == <<tracked, stock, book>>
saleVars == <<cart, sold, held, began>>
vars == <<catalogVars, stockVars, saleVars, pc, form>>

ASSUME ShopAssumption ==
    /\ NoProduct \notin Products
    /\ MaxQuantity \in Nat \ {0}
    /\ MaxLines \in Nat \ {0}
    /\ MaxStock \in Nat

Quantities == 1 .. MaxQuantity
Line == [product : Products, quantity : Quantities]
Stages == {"idle", "line", "stock", "receive", "adjust"}

\* What the client may send as items: no product twice.
Carts == {c \in UNION {[1 .. n -> Line] : n \in 1 .. MaxLines} :
            \A i, j \in DOMAIN c : i # j => c[i].product # c[j].product}

Nothing == [p \in Products |-> 0]
NoForm == [product |-> NoProduct, quantity |-> 0]

Init ==
    /\ catalog = {}
    /\ active = {}
    /\ tracked = {}
    /\ stock = Nothing
    /\ pc = [t \in Threads |-> "idle"]
    /\ cart = [t \in Threads |-> << >>]
    /\ sold = [t \in Threads |-> Nothing]
    /\ held = [t \in Threads |-> {}]
    /\ form = [t \in Threads |-> NoForm]
    /\ began = [t \in Threads |-> {}]
    /\ book = Nothing

Locked(p) == \E t \in Threads : p \in held[t]

\* The transaction of thread t ends: its locks and what it has read are gone.
EndSale(t) ==
    /\ pc' = [pc EXCEPT ![t] = "idle"]
    /\ cart' = [cart EXCEPT ![t] = << >>]
    /\ sold' = [sold EXCEPT ![t] = Nothing]
    /\ held' = [held EXCEPT ![t] = {}]
    /\ began' = [began EXCEPT ![t] = {}]

EndForm(t) ==
    /\ pc' = [pc EXCEPT ![t] = "idle"]
    /\ form' = [form EXCEPT ![t] = NoForm]

-----------------------------------------------------------------------------
(* create_sale.                                                            *)

\* The checks of the request before its first line.
BeginSale(t, c) ==
    /\ pc[t] = "idle"
    /\ pc' = [pc EXCEPT ![t] = "line"]
    /\ cart' = [cart EXCEPT ![t] = c]
    /\ began' = [began EXCEPT ![t] = {p \in tracked : \E i \in DOMAIN c : c[i].product = p}]
    /\ UNCHANGED <<catalogVars, stockVars, sold, held, form>>

\* The product of the next line, read without a lock.
ReadProduct(t) ==
    /\ pc[t] = "line" /\ cart[t] # << >>
    /\ Head(cart[t]).product \in active
    /\ pc' = [pc EXCEPT ![t] = "stock"]
    /\ UNCHANGED <<catalogVars, stockVars, saleVars, form>>

\* SELECT ... FOR UPDATE returns: there is no row, or nobody else holds it.
Granted(t) ==
    /\ pc[t] = "stock"
    /\ ~Locked(Head(cart[t]).product)

\* Slip: the quantity is read without FOR UPDATE.
TakeStock_Unlocked(t) ==
    LET p == Head(cart[t]).product
        q == Head(cart[t]).quantity
    IN  /\ pc[t] = "stock"
        /\ p \in tracked => q <= stock[p]
        /\ pc' = [pc EXCEPT ![t] = "line"]
        /\ cart' = [cart EXCEPT ![t] = Tail(@)]
        /\ sold' = [sold EXCEPT ![t] = [@ EXCEPT ![p] = q]]
        /\ held' = [held EXCEPT ![t] = IF p \in tracked THEN @ \cup {p} ELSE @]
        /\ UNCHANGED <<catalogVars, stockVars, form, began>>

\* The line is accepted.  A product without a row is sold without a limit.
TakeStock(t) ==
    LET p == Head(cart[t]).product
        q == Head(cart[t]).quantity
    IN  /\ Granted(t)
        /\ p \in tracked => q <= stock[p]
        /\ pc' = [pc EXCEPT ![t] = "line"]
        /\ cart' = [cart EXCEPT ![t] = Tail(@)]
        /\ sold' = [sold EXCEPT ![t] = [@ EXCEPT ![p] = q]]
        /\ held' = [held EXCEPT ![t] = IF p \in tracked THEN @ \cup {p} ELSE @]
        /\ UNCHANGED <<catalogVars, stockVars, form, began>>

\* Slip: the answer is sent and the transaction stays open.
RefuseProduct_Open(t) ==
    /\ pc[t] = "line" /\ cart[t] # << >>
    /\ Head(cart[t]).product \notin active
    /\ pc' = [pc EXCEPT ![t] = "idle"]
    /\ cart' = [cart EXCEPT ![t] = << >>]
    /\ sold' = [sold EXCEPT ![t] = Nothing]
    /\ began' = [began EXCEPT ![t] = {}]
    /\ UNCHANGED <<catalogVars, stockVars, held, form>>

\* 400: the product of the next line does not exist or is inactive.
RefuseProduct(t) ==
    /\ pc[t] = "line" /\ cart[t] # << >>
    /\ Head(cart[t]).product \notin active
    /\ EndSale(t)
    /\ UNCHANGED <<catalogVars, stockVars, form>>

\* 409 with too little stock, 400 with a total that is too large.
RefuseLine(t) ==
    /\ Granted(t)
    /\ EndSale(t)
    /\ UNCHANGED <<catalogVars, stockVars, form>>

\* The sale, its items and its deductions in one commit.
CommitSale(t) ==
    /\ pc[t] = "line" /\ cart[t] = << >>
    /\ stock' = [p \in Products |-> IF p \in held[t] THEN stock[p] - sold[t][p] ELSE stock[p]]
    /\ book' = [p \in Products |->
                    IF p \in began[t] \cup held[t] THEN book[p] - sold[t][p] ELSE book[p]]
    /\ EndSale(t)
    /\ UNCHANGED <<catalogVars, tracked, form>>

\* Any exception on the way, a statement_timeout among them.
AbortSale(t) ==
    /\ pc[t] \in {"line", "stock"}
    /\ EndSale(t)
    /\ UNCHANGED <<catalogVars, stockVars, form>>

\* PostgreSQL ends one sale of a circle of sales that wait for one another.
WaitsFor(t, u) == pc[t] = "stock" /\ Head(cart[t]).product \in held[u]

InCircle(t) ==
    \E S \in SUBSET Threads :
        /\ t \in S
        /\ \A u \in S : (\E v \in S : WaitsFor(u, v)) /\ (\E v \in S : WaitsFor(v, u))

BreakCircle(t) == InCircle(t) /\ AbortSale(t)

-----------------------------------------------------------------------------
(* receive_inventory and adjust_inventory.                                 *)

\* The product is read without a lock.
BeginMove(t, stage, p, q) ==
    /\ pc[t] = "idle"
    /\ p \in active
    /\ stage = "receive" => q > 0 /\ stock[p] + q <= MaxStock
    /\ pc' = [pc EXCEPT ![t] = stage]
    /\ form' = [form EXCEPT ![t] = [product |-> p, quantity |-> q]]
    /\ UNCHANGED <<catalogVars, stockVars, saleVars>>

\* _upsert_inventory_quantity: row p holds q units and is tracked from now on.
SetStock(p, q) ==
    /\ tracked' = tracked \cup {p}
    /\ stock' = [stock EXCEPT ![p] = q]

\* Slip: set_absolute is passed for a delivery too.
Receive_Absolute(t) ==
    LET p == form[t].product
        q == form[t].quantity
    IN  /\ pc[t] = "receive" /\ ~Locked(p)
        /\ SetStock(p, q)
        /\ book' = [book EXCEPT ![p] = @ + q]
        /\ EndForm(t)
        /\ UNCHANGED <<catalogVars, saleVars>>

\* The upsert waits for a sale that holds the row, and commits.
Receive(t) ==
    LET p == form[t].product
        q == form[t].quantity
    IN  /\ pc[t] = "receive" /\ ~Locked(p)
        /\ SetStock(p, IF p \in tracked THEN stock[p] + q ELSE q)
        /\ book' = [book EXCEPT ![p] = @ + q]
        /\ EndForm(t)
        /\ UNCHANGED <<catalogVars, saleVars>>

Adjust(t) ==
    LET p == form[t].product
        q == form[t].quantity
    IN  /\ pc[t] = "adjust" /\ ~Locked(p)
        /\ SetStock(p, q)
        /\ book' = [book EXCEPT ![p] = q]
        /\ EndForm(t)
        /\ UNCHANGED <<catalogVars, saleVars>>

\* An exception, or the end of the process, before the upsert.
AbortMove(t) ==
    /\ pc[t] \in {"receive", "adjust"}
    /\ EndForm(t)
    /\ UNCHANGED <<catalogVars, stockVars, saleVars>>

-----------------------------------------------------------------------------
(* create_product and update_product: nothing they read before their write *)
(* matters here.                                                           *)

\* A new row and its opening stock in one commit; quantity -1: no opening_stock.
CreateProduct(p, q) ==
    /\ p \notin catalog
    /\ catalog' = catalog \cup {p}
    /\ active' = active \cup {p}
    /\ IF q >= 0
       THEN SetStock(p, q) /\ book' = [book EXCEPT ![p] = q]
       ELSE UNCHANGED stockVars
    /\ UNCHANGED <<saleVars, pc, form>>

\* The flag the client sends or, if it sends none, one read earlier.
UpdateProduct(p, on) ==
    /\ p \in catalog
    /\ active' = IF on THEN active \cup {p} ELSE active \ {p}
    /\ UNCHANGED <<catalog, stockVars, saleVars, pc, form>>

-----------------------------------------------------------------------------

SaleStep(t) ==
    \/ ReadProduct(t)
    \/ TakeStock(t)
    \/ RefuseProduct(t)
    \/ RefuseLine(t)
    \/ CommitSale(t)

MoveStep(t) == Receive(t) \/ Adjust(t)

Request(t) ==
    \/ \E c \in Carts : BeginSale(t, c)
    \/ \E stage \in {"receive", "adjust"}, p \in Products, q \in 0 .. MaxQuantity :
            BeginMove(t, stage, p, q)

CatalogStep ==
    \E p \in Products :
        \/ \E q \in -1 .. MaxQuantity : CreateProduct(p, q)
        \/ \E on \in BOOLEAN : UpdateProduct(p, on)

Next ==
    \/ CatalogStep
    \/ \E t \in Threads :
            \/ Request(t)
            \/ SaleStep(t)
            \/ MoveStep(t)
            \/ AbortSale(t)
            \/ BreakCircle(t)
            \/ AbortMove(t)

\* A thread goes on with its request; row locks are granted in the order they
\* were asked for, and PostgreSQL breaks every circle (deadlock_timeout).
Fairness ==
    \A t \in Threads : SF_vars(SaleStep(t) \/ MoveStep(t)) /\ WF_vars(BreakCircle(t))

Spec == Init /\ [][Next]_vars
FairSpec == Spec /\ Fairness

-----------------------------------------------------------------------------
(* Properties.                                                             *)

\* What each variable holds; only tracked rows are locked, only by sales.
ShopTypeOK ==
    /\ catalog \subseteq Products
    /\ active \subseteq catalog
    /\ tracked \subseteq catalog
    /\ stock \in [Products -> Int]
    /\ pc \in [Threads -> Stages]
    /\ cart \in [Threads -> Seq(Line)]
    /\ sold \in [Threads -> [Products -> Nat]]
    /\ held \in [Threads -> SUBSET tracked]
    /\ form \in [Threads -> [product : Products \cup {NoProduct}, quantity : Nat]]
    /\ began \in [Threads -> SUBSET tracked]
    /\ book \in [Products -> Int]

\* Sales of several lines, deliveries and counts that overlap never take more
\* than there is: "a concurrent sale of the same product can never oversell it".
NeverOversold == \A p \in Products : stock[p] >= 0

\* Since the last count, the stock of a product is what was delivered minus
\* what committed sales took, once for each: a refused, aborted or victim sale
\* takes nothing.  Only a sale that began before the product was tracked may
\* have sold it without a deduction.
StockAccounted == \A p \in Products : stock[p] = book[p]

\* A sale, a delivery or a count that waits for stock rows is answered, whoever
\* holds them and in whatever order other sales lock them.
StockRequestsAnswered ==
    \A t \in Threads :
        pc[t] \in {"line", "stock", "receive", "adjust"} ~> pc[t] = "idle"
=============================================================================
