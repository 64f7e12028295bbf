--------------------------- MODULE MaterialLedger ---------------------------
(***************************************************************************)
(* The stock of one material (services/material_service): lots received,   *)
(* issues that take from the oldest lots, and reversals of either.  Each   *)
(* operation is one READ COMMITTED transaction.  An issue selects the lots *)
(* with something left, locks them one by one in the order of their        *)
(* creation, and decides on what is left of them once it has all the       *)
(* locks; lots committed after its selection it does not see.              *)
(***************************************************************************)
EXTENDS Naturals, FiniteSets, Sequences, FiniteSetsExt, Functions

CONSTANTS
    Procs,
    Quantities,    \* bound: quantities asked for, in the smallest unit
    Prices,        \* bound: prices of a whole unit, in the smallest coin
    Scale,         \* smallest units in a unit: 1000 in the code
    Units,         \* units of measure
    MaxWork        \* bound: transactions begun

LedgerAssumption ==
    /\ Quantities \subseteq Nat \ {0} /\ Prices \subseteq Nat
    /\ Scale \in Nat \ {0} /\ MaxWork \in Nat

VARIABLES
    lots,       \* material_receipts, in the order of their ids
    issues,     \* material_issues with their allocations
    material,   \* the card: unit and is_active
    lotLock, issueLock,   \* row locks: who holds which row
    work,       \* transactions begun so far; their starts date what they create
    tx          \* the transaction of each process

stockVars == <<lots, issues, material, lotLock, issueLock, work, tx>>

NoTransaction == [at |-> "idle"]
Ids(table) == DOMAIN table

\* money(): to the smallest coin, half up.
Money(qty, price) == (2 * qty * price + Scale) \div (2 * Scale)

StockInit ==
    /\ lots = <<>> /\ issues = <<>>
    /\ material \in [unit : Units, active : {TRUE}]
    /\ lotLock = {} /\ issueLock = {}
    /\ work = 0
    /\ tx = [p \in Procs |-> NoTransaction]

Begin(p, t) ==
    /\ tx[p].at = "idle" /\ work < MaxWork
    /\ work' = work + 1
    /\ tx' = [tx EXCEPT ![p] = t]
    /\ UNCHANGED <<lots, issues, material, lotLock, issueLock>>

\* The transaction of p ends; its locks go.
End(p) ==
    /\ tx' = [tx EXCEPT ![p] = NoTransaction]
    /\ lotLock' = {k \in lotLock : k[1] # p}
    /\ issueLock' = {k \in issueLock : k[1] # p}
    /\ UNCHANGED work

Lot(qty, price, created, unit, reverses) ==
    [qty |-> qty, left |-> qty, price |-> price, created |-> created, unit |-> unit,
     amount |-> Money(qty, price), reverses |-> reverses]

-----------------------------------------------------------------------------
\* create_receipt: the card is read, then the lot is inserted with its unit.
BeginReceipt(p, qty, price) ==
    /\ material.active
    /\ Begin(p, [at |-> "receiving", lot |-> Lot(qty, price, work, material.unit, 0)])

Receive(p) ==
    /\ tx[p].at = "receiving"
    /\ lots' = Append(lots, tx[p].lot)
    /\ End(p) /\ UNCHANGED <<issues, material>>

-----------------------------------------------------------------------------

Older(l, k) ==
    \/ lots[l].created < lots[k].created
    \/ lots[l].created = lots[k].created /\ l < k

\* issue_material and issue_material_sync: the selection of lots.
BeginIssue(p, qty) ==
    /\ material.active
    /\ Begin(p, [at |-> "locking", qty |-> qty, todo |-> {l \in Ids(lots) : lots[l].left > 0}, have |-> <<>>])

\* Mutant: without FOR UPDATE.
LotFreeToAll(p, l) == TRUE
LotFree(p, l) == \A o \in Procs \ {p} : <<o, l>> \notin lotLock

\* The lots read so far, with what was left of them, and l.
Having(have, l) == [k \in DOMAIN have \cup {l} |-> IF k = l THEN lots[l].left ELSE have[k]]

\* The next lot in the order of the selection; one emptied meanwhile drops out.
LockLot(p, l) ==
    /\ tx[p].at = "locking" /\ l \in tx[p].todo
    /\ \A k \in tx[p].todo \ {l} : Older(l, k)
    /\ LotFree(p, l)
    /\ lotLock' = lotLock \cup {<<p, l>>}
    /\ tx' = [tx EXCEPT ![p].todo = @ \ {l},
                        ![p].have = IF lots[l].left > 0 THEN Having(@, l) ELSE @]
    /\ UNCHANGED <<lots, issues, material, issueLock, work>>

\* allocate_fifo: what is taken of l, once the older lots are used up.
Takes(have, qty, l) ==
    LET earlier == SumFunctionOnSet(have, {k \in DOMAIN have : Older(k, l)})
    IN IF earlier >= qty THEN 0 ELSE Min({have[l], qty - earlier})

Allocated(have, qty) ==
    [l \in {k \in DOMAIN have : Takes(have, qty, k) > 0} |-> Takes(have, qty, l)]

\* _decrement_batches writes what was read minus what is taken.
Decremented(have, taken) ==
    [l \in Ids(lots) |->
        IF l \in DOMAIN taken
        THEN [lots[l] EXCEPT !.left = have[l] - taken[l]]
        ELSE lots[l]]

Cost(taken) == SumFunction([l \in DOMAIN taken |-> Money(taken[l], lots[l].price)])

Issued(taken, qty, reverses) ==
    Append(issues, [qty |-> qty, taken |-> taken, cost |-> Cost(taken), reverses |-> reverses])

Issue(p) ==
    LET have == tx[p].have
        qty == tx[p].qty
        taken == Allocated(have, qty)
    IN /\ tx[p].at = "locking" /\ tx[p].todo = {}
       /\ IF SumFunction(have) >= qty
          THEN lots' = Decremented(have, taken) /\ issues' = Issued(taken, qty, 0)
          ELSE UNCHANGED <<lots, issues>>
       /\ End(p) /\ UNCHANGED material

-----------------------------------------------------------------------------
IssueFree(i) == \A o \in Procs : <<o, i>> \notin issueLock

\* _reverse_issue: the row of the issue is locked, then the lots that reverse
\* it are looked up.
BeginReverseIssue(p, i) == Begin(p, [at |-> "lockingIssue", issue |-> i, created |-> work])

LockIssue(p) ==
    /\ tx[p].at = "lockingIssue" /\ IssueFree(tx[p].issue)
    /\ issueLock' = issueLock \cup {<<p, tx[p].issue>>}
    /\ tx' = [tx EXCEPT ![p] = [at |-> "reversing", issue |-> @.issue, created |-> @.created,
                                done |-> \E l \in Ids(lots) : lots[l].reverses = @.issue]]
    /\ UNCHANGED <<lots, issues, material, lotLock, work>>

PricesOf(i) == {lots[l].price : l \in DOMAIN issues[i].taken}
QuantityAt(i, price) ==
    SumFunctionOnSet(issues[i].taken, {l \in DOMAIN issues[i].taken : lots[l].price = price})

\* One lot per price, whatever the order.
ReverseIssue(p) ==
    LET i == tx[p].issue IN
    /\ tx[p].at = "reversing"
    /\ IF ~tx[p].done /\ material.active
       THEN \E s \in [1..Cardinality(PricesOf(i)) -> PricesOf(i)] :
               /\ IsInjective(s)
               /\ lots' = lots \o [n \in DOMAIN s |-> Lot(QuantityAt(i, s[n]), s[n], tx[p].created, material.unit, i)]
       ELSE UNCHANGED lots
    /\ End(p) /\ UNCHANGED <<issues, material>>

Untouched(l) == lots[l].left = lots[l].qty

BeginReverseLot(p, l) == Begin(p, [at |-> "lockingLot", lot |-> l])

\* _reverse_receipt: the lot is locked and, if nothing was taken from it,
\* issued as a whole.
ReverseLot(p) ==
    LET l == tx[p].lot IN
    /\ tx[p].at = "lockingLot" /\ LotFree(p, l)
    /\ IF Untouched(l)
       THEN /\ lots' = [lots EXCEPT ![l].left = @ - lots[l].qty]
            /\ issues' = Issued([k \in {l} |-> lots[l].qty], lots[l].qty, l)
       ELSE UNCHANGED <<lots, issues>>
    /\ End(p) /\ UNCHANGED material

-----------------------------------------------------------------------------
\* update_material: the unit is changed if no lot is there.
BeginUnit(p, u) ==
    /\ u # material.unit /\ lots = <<>>
    /\ Begin(p, [at |-> "unit", unit |-> u])

ChangeUnit(p) ==
    /\ tx[p].at = "unit"
    /\ material' = [material EXCEPT !.unit = tx[p].unit]
    /\ End(p) /\ UNCHANGED <<lots, issues>>

SetActive ==
    /\ work < MaxWork /\ work' = work + 1
    /\ material' = [material EXCEPT !.active = ~@]
    /\ UNCHANGED <<lots, issues, lotLock, issueLock, tx>>

\* An error, or the end of the connection.
Rollback(p) ==
    /\ tx[p].at # "idle"
    /\ End(p) /\ UNCHANGED <<lots, issues, material>>

Progress(p) ==
    \/ Receive(p) \/ Issue(p) \/ LockIssue(p) \/ ReverseIssue(p) \/ ReverseLot(p) \/ ChangeUnit(p)
    \/ \E l \in Ids(lots) : LockLot(p, l)

StockNext ==
    \/ SetActive
    \/ \E p \in Procs :
          \/ Progress(p) \/ Rollback(p)
          \/ \E q \in Quantities : BeginIssue(p, q) \/ \E c \in Prices : BeginReceipt(p, q, c)
          \/ \E i \in Ids(issues) : BeginReverseIssue(p, i)
          \/ \E l \in Ids(lots) : BeginReverseLot(p, l)
          \/ \E u \in Units : BeginUnit(p, u)

StockSpec == StockInit /\ [][StockNext]_stockVars

-----------------------------------------------------------------------------
StockTypeOK ==
    /\ \A l \in Ids(lots) : /\ lots[l].left \in 0..lots[l].qty /\ lots[l].qty > 0
                            /\ lots[l].price \in Prices /\ lots[l].unit \in Units
                            /\ lots[l].reverses \in Ids(issues) \cup {0}
    /\ \A i \in Ids(issues) : /\ DOMAIN issues[i].taken \subseteq Ids(lots)
                              /\ issues[i].reverses \in Ids(lots) \cup {0}
    /\ material \in [unit : Units, active : BOOLEAN]
    /\ lotLock \subseteq Procs \X Ids(lots) /\ issueLock \subseteq Procs \X Ids(issues)
    /\ work \in 0..MaxWork

TakenOf(l) ==
    SumFunction([i \in {j \in Ids(issues) : l \in DOMAIN issues[j].taken} |-> issues[i].taken[l]])

\* What is left of a lot is what was received minus what issues took.
LotsAccounted == \A l \in Ids(lots) : lots[l].left + TakenOf(l) = lots[l].qty

\* Every issue took what it was asked for.
IssuesCovered == \A i \in Ids(issues) : SumFunction(issues[i].taken) = issues[i].qty

Returning(i) == {l \in Ids(lots) : lots[l].reverses = i}

\* An issue is reversed as a whole and once.
ReturnedOnce ==
    \A i \in Ids(issues) :
        Returning(i) # {} => SumFunction([l \in Returning(i) |-> lots[l].qty]) = issues[i].qty

\* A reversed lot gave nothing to any other issue.
WithdrawnWhole ==
    \A i, j \in Ids(issues) :
        issues[i].reverses # 0 /\ i # j => issues[i].reverses \notin DOMAIN issues[j].taken

\* The books of a material balance, however its transactions overlap: lots and issues
\* account for each other (allocate_fifo, _decrement_batches), and what is reversed is
\* reversed as a whole and once (_reverse_issue, _reverse_receipt).
Balanced == LotsAccounted /\ IssuesCovered /\ ReturnedOnce /\ WithdrawnWhole

=============================================================================
