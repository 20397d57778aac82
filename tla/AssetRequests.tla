---------------------------- MODULE AssetRequests ----------------------------
(***************************************************************************)
(* An employee asks for an asset or an accessory, the manager approves or  *)
(* rejects, IT fulfils: asset-requests.service.ts, and issue-kits' issue,  *)
(* which a fulfilment may call.                                            *)
(*                                                                         *)
(* No handler here runs in one transaction.  Each of its database calls is *)
(* a step of its own, and between them it keeps what it has read in task.   *)
(* The assignment of the asset is one step here: AssetCustody is about     *)
(* what happens inside it.                                                 *)
(***************************************************************************)
EXTENDS AssetLifecycle, Personnel, Naturals, FiniteSets

CONSTANTS
  RequestIds,    \* ids of asset requests
  Assets,        \* the assets a kit or a fulfilment can choose from
  KitItems,      \* the accessories a kit hands out with its asset
  Handlers,      \* handler slots: how many HTTP requests can be in flight
  EditStatuses,  \* the statuses an edit of a request may set
  AssetEdits,    \* the statuses changeStatus may give an asset meanwhile
  MaxUnits,      \* bound: units in stock of each accessory
  MaxFailures,   \* bound: fulfilments of one request that break off
  NoAsset, Keep

RequestStatus == {"pending", "approved", "rejected", "fulfilled"}

ItemKind == {"asset", "accessory"}

ASSUME RequestConstants ==
  /\ EditStatuses \subseteq RequestStatus
  /\ AssetEdits \subseteq AssetStatus
  /\ MaxUnits \in Nat /\ MaxFailures \in Nat
  /\ NoAsset \notin Assets
  /\ Keep \notin RequestStatus

VARIABLES
  requestStatus, \* requestStatus[q]: asset_requests.status, or unborn
  kind,          \* kind[q]
  requester,     \* requester[q]
  fulfilledWith, \* fulfilledWith[q]: fulfilled_asset_id
  assetStatus, holder,   \* of each asset, as in AssetCustody
  units,         \* units[k]: units of accessory k that are not checked out
  task,           \* task[h]: what the handler in slot h has read and does next
  handed,        \* history: the assets that q's fulfilments have assigned
  failures       \* history: q's fulfilments that broke off after that

requestRows == <<requestStatus, kind, requester, fulfilledWith>>
assetRows == <<assetStatus, holder>>
requestHistory == <<handed, failures>>
requestVars == <<requestStatus, kind, requester, fulfilledWith, assetStatus, holder,
                 units, task, handed, failures>>

Op == {"idle", "review", "edit", "pick", "assign", "mark"}

HandlerJob == [op : Op, request : RequestIds \union {NoOne}, to : RequestStatus \union {Keep},
        kind : ItemKind, asset : Assets \union {NoAsset}, left : SUBSET KitItems]

IdleJob == [op |-> "idle", request |-> NoOne, to |-> Keep, kind |-> "asset",
         asset |-> NoAsset, left |-> {}]

RequestInit ==
  /\ requestStatus = [q \in RequestIds |-> "unborn"]
  /\ kind = [q \in RequestIds |-> "asset"]
  /\ requester = [q \in RequestIds |-> NoOne]
  /\ fulfilledWith = [q \in RequestIds |-> NoAsset]
  /\ assetStatus = [a \in Assets |-> "available"]
  /\ holder = [a \in Assets |-> NoOne]
  /\ units \in [KitItems -> 0..MaxUnits]
  /\ task = [h \in Handlers |-> IdleJob]
  /\ handed = [q \in RequestIds |-> {}]
  /\ failures = [q \in RequestIds |-> 0]

Exists(q) == requestStatus[q] # "unborn"

-----------------------------------------------------------------------------
(* Submitting, reviewing and editing.                                      *)

Create(q, e, k) ==
  /\ ~Exists(q)
  /\ requestStatus' = [requestStatus EXCEPT ![q] = "pending"]
  /\ kind' = [kind EXCEPT ![q] = k]
  /\ requester' = [requester EXCEPT ![q] = e]
  /\ UNCHANGED <<fulfilledWith, assetRows, units, task, requestHistory>>

StartHandler(h, j) ==
  /\ task[h].op = "idle"
  /\ task' = [task EXCEPT ![h] = j]
  /\ UNCHANGED <<requestRows, assetRows, units, requestHistory>>

\* review: a rejection without a reason does not get past the checks.
BeginReview(h, q, decision) ==
  /\ requestStatus[q] = "pending"
  /\ StartHandler(h, [IdleJob EXCEPT !.op = "review", !.request = q, !.to = decision])

FinishHandler(h) == task' = [task EXCEPT ![h] = IdleJob]

\* The rejection reason, which is left out, is written with the status.
CommitReview(h) ==
  LET j == task[h]
  IN /\ j.op = "review"
     /\ requestStatus' = [requestStatus EXCEPT ![j.request] = j.to]
     /\ UNCHANGED <<kind, requester, fulfilledWith, assetRows, units, requestHistory>>
     /\ FinishHandler(h)

\* update: the kind it read or is given, and a status if one is given.
BeginEdit(h, q, k, s) ==
  /\ Exists(q)
  /\ StartHandler(h, [IdleJob EXCEPT !.op = "edit", !.request = q, !.kind = k, !.to = s])

CommitEdit(h) ==
  LET j == task[h]
  IN /\ j.op = "edit"
     /\ kind' = [kind EXCEPT ![j.request] = j.kind]
     /\ requestStatus' = [requestStatus EXCEPT ![j.request] = IF j.to = Keep THEN @ ELSE j.to]
     /\ UNCHANGED <<requester, fulfilledWith, assetRows, units, requestHistory>>
     /\ FinishHandler(h)

-----------------------------------------------------------------------------
(* Fulfilling.                                                             *)

\* Mutant: fulfill without its check of the status.
BeginFulfilAny(h, q) ==
  /\ Exists(q) /\ failures[q] < MaxFailures
  /\ StartHandler(h, [IdleJob EXCEPT !.op = "pick", !.request = q, !.kind = kind[q]])

\* fulfill reads the request.
BeginFulfil(h, q) ==
  /\ requestStatus[q] = "approved" /\ failures[q] < MaxFailures
  /\ StartHandler(h, [IdleJob EXCEPT !.op = "pick", !.request = q, !.kind = kind[q]])

Advance(h, j) ==
  /\ task[h].op = "pick"
  /\ task' = [task EXCEPT ![h] = j]
  /\ UNCHANGED <<requestRows, assetRows, units, requestHistory>>

\* With a kit: issue finds some available asset and goes on to assign it.
PickKit(h, a) ==
  /\ assetStatus[a] = "available"
  /\ Advance(h, [task[h] EXCEPT !.op = "assign", !.asset = a, !.left = KitItems])

\* Mutant: an asset that somebody holds is taken as issued to the requester.
PickAssetOfAnyone(h, a) ==
  Advance(h, [task[h] EXCEPT !.op = IF assetStatus[a] = "available"
                                   THEN "assign" ELSE "mark", !.asset = a])

\* With an asset: assigned now, or in the requester's hands already.
PickAsset(h, a) ==
  /\ task[h].op = "pick"
  /\ \/ /\ assetStatus[a] = "available"
        /\ Advance(h, [task[h] EXCEPT !.op = "assign", !.asset = a])
     \/ /\ assetStatus[a] # "available" /\ holder[a] = requester[task[h].request]
        /\ Advance(h, [task[h] EXCEPT !.op = "mark", !.asset = a])

\* With neither: only an accessory is handed out off the books.
PickNothing(h) ==
  /\ task[h].kind = "accessory"
  /\ Advance(h, [task[h] EXCEPT !.op = "mark"])

\* assets.assign: one transaction, with the lifecycle check on the status it
\* reads, not on the status the asset was picked for.
Assign(h) ==
  LET j == task[h]
  IN /\ j.op = "assign"
     /\ CanTransition(assetStatus[j.asset], "assigned")
     /\ assetStatus' = [assetStatus EXCEPT ![j.asset] = "assigned"]
     /\ holder' = [holder EXCEPT ![j.asset] = requester[j.request]]
     /\ handed' = [handed EXCEPT ![j.request] = @ \union {j.asset}]
     /\ task' = [task EXCEPT ![h].op = "mark"]
     /\ UNCHANGED <<requestRows, units, failures>>

\* accessories.checkout, once for each accessory of the kit.
CheckOutKitItem(h, k) ==
  /\ task[h].op = "mark" /\ k \in task[h].left
  /\ units[k] > 0
  /\ units' = [units EXCEPT ![k] = @ - 1]
  /\ task' = [task EXCEPT ![h].left = @ \ {k}]
  /\ UNCHANGED <<requestRows, assetRows, requestHistory>>

MarkFulfilled(h) ==
  LET j == task[h]
  IN /\ j.op = "mark" /\ j.left = {}
     /\ requestStatus' = [requestStatus EXCEPT ![j.request] = "fulfilled"]
     /\ fulfilledWith' = [fulfilledWith EXCEPT ![j.request] = j.asset]
     /\ UNCHANGED <<kind, requester, assetRows, units, requestHistory>>
     /\ FinishHandler(h)

\* The handler stops with an error or a lost connection, at any point: a kit's
\* accessory is out of stock, the asset has gone, the process is restarted.
BreakOff(h) ==
  LET j == task[h]
  IN /\ j.op # "idle"
     /\ failures' = IF j.op = "mark"
                    THEN [failures EXCEPT ![j.request] = @ + 1] ELSE failures
     /\ UNCHANGED <<requestRows, assetRows, units, handed>>
     /\ FinishHandler(h)

-----------------------------------------------------------------------------
(* What else happens to assets and accessories; such a request takes a     *)
(* handler slot, too, if only for its one step.                            *)

SlotFree == \E h \in Handlers : task[h].op = "idle"

AssignDirectly(a, e) ==
  /\ SlotFree
  /\ CanTransition(assetStatus[a], "assigned")
  /\ assetStatus' = [assetStatus EXCEPT ![a] = "assigned"]
  /\ holder' = [holder EXCEPT ![a] = e]
  /\ UNCHANGED <<requestRows, units, task, requestHistory>>

ChangeStatus(a, s) ==
  /\ SlotFree
  /\ CanTransition(assetStatus[a], s)
  /\ assetStatus' = [assetStatus EXCEPT ![a] = s]
  /\ holder' = [holder EXCEPT ![a] = IF s \in ClearsHolder THEN NoOne ELSE @]
  /\ UNCHANGED <<requestRows, units, task, requestHistory>>

\* Accessories.checkin, or new stock.
Restock(k) ==
  /\ SlotFree
  /\ units[k] < MaxUnits
  /\ units' = [units EXCEPT ![k] = @ + 1]
  /\ UNCHANGED <<requestRows, assetRows, task, requestHistory>>

-----------------------------------------------------------------------------
Handle(h) ==
  \/ \E q \in RequestIds, d \in {"approved", "rejected"} : BeginReview(h, q, d)
  \/ CommitReview(h)
  \/ \E q \in RequestIds, k \in ItemKind, s \in EditStatuses \union {Keep} : BeginEdit(h, q, k, s)
  \/ CommitEdit(h)
  \/ \E q \in RequestIds : BeginFulfil(h, q)
  \/ \E a \in Assets : PickKit(h, a) \/ PickAsset(h, a)
  \/ PickNothing(h)
  \/ Assign(h)
  \/ \E k \in KitItems : CheckOutKitItem(h, k)
  \/ MarkFulfilled(h)
  \/ BreakOff(h)

RequestNext ==
  \/ \E q \in RequestIds, e \in Employees, k \in ItemKind : Create(q, e, k)
  \/ \E h \in Handlers : Handle(h)
  \/ \E a \in Assets, e \in Employees : AssignDirectly(a, e)
  \/ \E a \in Assets, s \in AssetEdits : ChangeStatus(a, s)
  \/ \E k \in KitItems : Restock(k)

RequestSpec == RequestInit /\ [][RequestNext]_requestVars

-----------------------------------------------------------------------------
(* Properties.                                                             *)

RequestTypeOK ==
  /\ requestStatus \in [RequestIds -> RequestStatus \union {"unborn"}]
  /\ kind \in [RequestIds -> ItemKind]
  /\ requester \in [RequestIds -> Employees \union {NoOne}]
  /\ fulfilledWith \in [RequestIds -> Assets \union {NoAsset}]
  /\ assetStatus \in [Assets -> AssetStatus]
  /\ holder \in [Assets -> Employees \union {NoOne}]
  /\ units \in [KitItems -> 0..MaxUnits]
  /\ task \in [Handlers -> HandlerJob]
  /\ handed \in [RequestIds -> SUBSET Assets]
  /\ failures \in [RequestIds -> Nat]
  /\ \A h \in Handlers :
       task[h].op # "idle" => task[h].request \in RequestIds /\ Exists(task[h].request)
  /\ \A h \in Handlers : task[h].op = "assign" => task[h].asset \in Assets
  /\ \A h \in Handlers : task[h].op = "review" => task[h].to \in {"approved", "rejected"}

\* When handlers do not overlap, a request that is for an asset when it is marked
\* fulfilled is fulfilled with one, and whatever it is fulfilled with is then in the
\* requester's hands, whoever else had it before.
FulfilledInHand ==
  [][\A h \in Handlers :
       MarkFulfilled(h) =>
         /\ kind[task[h].request] = "asset" => task[h].asset # NoAsset
         /\ task[h].asset # NoAsset => holder[task[h].asset] = requester[task[h].request]]_requestVars

\* When handlers do not overlap and no status is edited by hand, a rejected request never
\* had an asset assigned for it, and a second asset is assigned only after a fulfilment
\* that broke off when it had assigned the first.
ExtraAssetsNeedFailures ==
  \A q \in RequestIds :
    /\ handed[q] # {} => requestStatus[q] \in {"approved", "fulfilled"}
    /\ Cardinality(handed[q]) <= 1 + failures[q]

-----------------------------------------------------------------------------
(* What the properties rest on, while handlers do not overlap.             *)

\* The request is what the fulfilment has read; what it is about to be marked
\* fulfilled with is in the requester's hands.
InHandInv ==
  \A h \in Handlers :
    LET j == task[h]
    IN /\ j.op \in {"pick", "assign", "mark"} => j.kind = kind[j.request]
       /\ j.op = "pick" => j.asset = NoAsset
       /\ j.op = "mark" =>
            /\ j.kind = "asset" => j.asset # NoAsset
            /\ j.asset # NoAsset => holder[j.asset] = requester[j.request]

\* A review is of a pending request and a fulfilment of an approved one.
ReadInv ==
  \A h \in Handlers :
    LET j == task[h]
    IN /\ j.op = "review" => requestStatus[j.request] = "pending"
       /\ j.op = "edit" => j.to = Keep
       /\ j.op \in {"pick", "assign", "mark"} => requestStatus[j.request] = "approved"

\* A fulfilment of q has assigned an asset, or needed none, and is not done.
BeingFulfilled(q) == \E h \in Handlers : task[h].op = "mark" /\ task[h].request = q

\* Each asset that was handed out is accounted for.
HandedInv ==
  \A q \in RequestIds :
    /\ IsFiniteSet(handed[q])
    /\ handed[q] # {} => requestStatus[q] \in {"approved", "fulfilled"}
    /\ Cardinality(handed[q]) <= failures[q]
         + (IF requestStatus[q] = "fulfilled" \/ BeingFulfilled(q) THEN 1 ELSE 0)
=============================================================================
