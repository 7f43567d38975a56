------------------------- MODULE BusinessOperations -------------------------
(* Products, their ledger, health, social channels and monetization          *)
(* requirements (packages/core/src/business-operations.ts, the handlers of   *)
(* /api/operations in apps/runtime/server.ts).  Each post is one write in    *)
(* the turn in which its body has arrived; its answer may be lost and the    *)
(* post repeated, and posts arrive in any order.                             *)
EXTENDS ReusableLibrary, Functions

CONSTANTS
  Products, Entries, Channels, Accounts,
  Currencies, Amounts, Times, Sources,
  MaxOperations    \* bound on accepted posts, those of products apart

ASSUME BusinessAssumption == Amounts \subseteq Int /\ Times \subseteq Nat

Kinds == {"income", "expense", "refund", "fee", "tax"}
NoProduct == "none"
NoChannel == [account |-> "none", product |-> NoProduct, at |-> 0]

VARIABLES
  products,       \* durable: product_operations
  ledger,         \* durable: id |-> entry
  health,         \* durable: <<product, time, source>> |-> state
  channels,       \* durable: id |-> the reading kept of it
  requirements,   \* durable: accounts that have a requirement on record
  operations,     \* accepted posts
  acknowledged    \* what posts were answered with 201    (history)

businessVars == <<products, ledger, health, channels, requirements, operations, acknowledged>>

LedgerEntry(p, k, c, a) == [product |-> p, kind |-> k, currency |-> c, amount |-> a]
Counted == operations < MaxOperations /\ operations' = operations + 1

-----------------------------------------------------------------------------
SaveProduct(p) ==
    /\ p \notin products /\ products' = products \cup {p}
    /\ UNCHANGED <<ledger, health, channels, requirements, operations, acknowledged>>

AnyEntryId(id) == TRUE
NewEntryId(id) == id \notin DOMAIN ledger

\* The insert fails when the id is taken, whatever the entry says.
AppendEntry(id, entry) ==
    /\ Counted /\ entry.product \in products /\ NewEntryId(id)
    /\ ledger' = Stored(ledger, id, entry)
    /\ acknowledged' = acknowledged \cup {[about |-> "entry", key |-> <<id>>, value |-> entry]}
    /\ UNCHANGED <<products, health, channels, requirements>>

\* A second reading of one source at one time replaces the first.
AppendHealth(p, at, source, state) ==
    /\ Counted /\ p \in products
    /\ health' = Stored(health, <<p, at, source>>, state)
    /\ acknowledged' = acknowledged \cup {[about |-> "health", key |-> <<p, at, source>>, value |-> state]}
    /\ UNCHANGED <<products, ledger, channels, requirements>>

\* A channel need not have a product; the reading posted last is the one kept.
SaveChannel(id, account, p, at) ==
    /\ Counted /\ p \in products \cup {NoProduct}
    /\ channels' = [channels EXCEPT ![id] = [account |-> account, product |-> p, at |-> at]]
    /\ UNCHANGED <<products, ledger, health, requirements, acknowledged>>

SaveRequirement(account) ==
    /\ Counted /\ requirements' = requirements \cup {account}
    /\ UNCHANGED <<products, ledger, health, channels, acknowledged>>

BusinessInit ==
    /\ products = {} /\ ledger = <<>> /\ health = <<>> /\ channels = [id \in Channels |-> NoChannel]
    /\ requirements = {} /\ operations = 0 /\ acknowledged = {}

BusinessNext ==
    \/ \E p \in Products : SaveProduct(p)
    \/ \E id \in Entries, p \in Products, k \in Kinds, c \in Currencies, a \in Amounts :
         AppendEntry(id, LedgerEntry(p, k, c, a))
    \/ \E p \in Products, at \in Times, source \in Sources, state \in {"healthy", "down"} :
         AppendHealth(p, at, source, state)
    \/ \E id \in Channels, account \in Accounts, p \in Products \cup {NoProduct}, at \in Times :
         SaveChannel(id, account, p, at)
    \/ \E account \in Accounts : SaveRequirement(account)

-----------------------------------------------------------------------------
(* GET /api/operations *)

Total(p, c, kind) ==
    SumFunctionOnSet([id \in DOMAIN ledger |-> ledger[id].amount],
                     {id \in DOMAIN ledger : ledger[id].product = p /\ ledger[id].currency = c /\ ledger[id].kind = kind})

\* summarizeLedger: one balance for each currency
Net(p, c) ==
    Total(p, c, "income") - Total(p, c, "expense") - Total(p, c, "refund") - Total(p, c, "fee") - Total(p, c, "tax")

\* latestHealth: none or the readings of the latest time; of those the first by source
ShownHealth(p) ==
    LET own == {k \in DOMAIN health : k[1] = p}
    IN  {k \in own : \A other \in own : other[2] <= k[2]}

(* What a product's snapshot says depends on what was acknowledged, and not  *)
(* on how often or in which order it was posted: every entry counts once, in *)
(* its product and its currency, and the health shown is an acknowledged     *)
(* reading with none later.  It is not so of channels, where the reading     *)
(* posted last is the one kept.  (buildProductOperationsSnapshot,            *)
(* business-operations.ts:189, appendProductLedgerEntry,                     *)
(* sqlite-store.ts:1432)                                                     *)
SnapshotTellsAcknowledged ==
    \A p \in products :
        /\ \A c \in Currencies :
             LET booked == {e \in acknowledged : e.about = "entry" /\ e.value.product = p /\ e.value.currency = c}
             IN  Net(p, c) = SumFunction([e \in booked |-> IF e.value.kind = "income" THEN e.value.amount ELSE -e.value.amount])
        /\ LET told == {e \in acknowledged : e.about = "health" /\ e.key[1] = p}
           IN  /\ (told = {}) = (ShownHealth(p) = {})
               /\ \A k \in ShownHealth(p) :
                    /\ [about |-> "health", key |-> k, value |-> health[k]] \in told
                    /\ \A e \in told : e.key[2] <= k[2]
\* What a listing of the current rows tells is what was accepted: every revision
\* of the library that was can be selected, and a product's snapshot follows
\* from what was acknowledged, however posts, revisions and deaths mix
\* (server.ts:5126, 4762).
RecordsAgree == SelectionsResolve /\ SnapshotTellsAcknowledged
=============================================================================
