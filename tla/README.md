# Order fulfilment and stock of the 畔色 ERP in TLA+

These modules model the core of the ERP under `src/backend/app`: a platform
order that walks its status graph, the factory orders that are derived from it,
the stock those move, the production sheets that tell the factory what to make,
the desk where goods come back and parts are counted, the background imports,
and the registration of a campaign on the shop platform. Paths below are
relative to `src/backend/app`.

## 1. The system

FastAPI handlers (`api/`) call services (`services/`) on one SQLAlchemy session
per request; PostgreSQL at READ COMMITTED is the only shared state. A scheduler
thread runs cron jobs with sessions of its own. There are no in-process queues
between the components described here: they interact through the tables, by
calling each other inside one transaction, and by overwriting each other's
columns in separate ones.

| component | state | operations | what makes it correct |
|---|---|---|---|
| order state machine (`services/order_service.py`, `api/orders.py`) | `orders.status`, `is_historical`, `activate_at`, the two sign-off flags | `transition` (graph, force, quiet), status endpoint, sign-off, cancel-to-future | side effects happen with the status change or are reported |
| factory orders (`services/factory_order_service.py`) | `factory_orders` | generate, batch sync, cancel, void, ship, restock receipt | one live row per order, voided is final |
| part lock ledger (`services/inventory_lock_service.py`) | `inventory_lock_ledger`, `part_inventory.locked_qty`, `physical_qty` | lock, release, consume, inbound, return, undo, manual adjust | counters agree with the ledger, a lock ends once |
| product stock (`services/product_stock_ledger_service.py`) | `product_stock_movement`, `product_inventory.physical_qty` | `record_shipment`, `record_restock_receipt`, `reverse` | idempotent per event, a reversal mirrors its original |
| importers and baseline (`taobao_order_import`, `order_import`, `excel_importer`, `baseline_service`) | overwrite `orders` and `factory_orders` | platform export, status refresh, workbook rows, baseline date | do not leave the flow half done |
| shipment sync (`services/shipment_service.py`) | overwrites `orders.status` | courier poll | parcel events reach the order |
| scheduler (`services/scheduler.py`) | - | activation of future orders, reminders | a due order is activated |
| returns (`services/return_service.py`) | `return_shipments`, product stock | create, receive, confirm inbound, damaged | goods come back once |
| parts desk (`part_defect_service`, `approval_service`, `inventory_lock_service`) | ledger and part stock | disassembly, undo, defects, counts | the ledger has every movement, an approval applies to what it locks |
| request idempotency (`idempotency.py`) | keys in memory | around every POST, PUT, PATCH | a click acts once unless its key was forgotten |
| sheet delivery (`order_sheet_archive_service`, `order_line_delivery_service`, `factory_quantity_request_service`) | `order_details.factory_*`, archive rows, questions | daily reconciliation, scoped resume, reply to a question | a line is sent once under its own number, a refund and a confirmed quantity are answered once |
| import jobs (`import_job_service`) | `import_jobs`, files, thread pool | submit, run, cancel, stop, recover | a report is true, a job ends |
| campaign sign-up (`campaign_plan8_*_service`, `campaign_execution_service`, `campaign_service.push_*`) | plan status, attempt rows | execute, recover | a sign-up and a new activity are not repeated |

`PROJECT.json` lists the remaining parts (settlement, pricing, messaging, AI,
frontend, ...) with the reason each is left out.

What is hard here: the status column has one careful writer and five careless
ones; a side effect may fail half way and is swallowed so that the status change
survives; idempotence is checked by look-ups whose rows outlive what they stand
for (a voided factory order, a reversed shipment); quantities are clamped at
zero while the ledgers keep the full amount; requests overlap in the
database, where some tables are read under a row lock and others are not; and
three parts act on somebody else's system (a chat, the shop platform) that
cannot be asked whether a message arrived, while the process may restart at any
point.

## 2. Modules

| module | what it is |
|---|---|
| `Fulfilment` | the requests, importers, poll and job as atomic committed transactions |
| `PartPromise` | abstract specification: what the lock ledger promises about one factory order's parts |
| `FulfilmentTx` | the core requests statement by statement, in sessions that overlap |
| `OneShot` | abstract specification: an outside action that is claimed before it happens and happens at most once |
| `SheetDelivery` | production sheets of order lines; implements `OneShot` |
| `CampaignWrite` | discounts and sign-up of a campaign plan; the sign-up implements `OneShot` |
| `StockDesk` | returns, disassembly, defects and counts in sessions that overlap, behind the idempotency middleware |
| `ImportJobs` | the queue of background imports |
| `*_proofs` | theorems about `Fulfilment` (two modules: rows, and stock with its sums), `FulfilmentTx`, `SheetDelivery`, `CampaignWrite`, `StockDesk`, `ImportJobs`, checked by TLAPS |
| `SumTheorems` | lemmas about sums over finite sets, for the proofs |
| `MC*` | instances for TLC |

### Fulfilment

One action is one request (or one row a job handles) that commits; a request
that ends in an HTTP error rolls back and is no step. Variables are the tables:
`order`, `fo`, `ledger` (summed per factory order, part and kind), `locked` and
`physical` (part stock), `moves` and `stock` (product stock), and `raised`, the
exception rows of the latest request.

| action | code |
|---|---|
| `ChangeStatus`, `CancelToFuture` | `api/orders.py` `change_status`; both end in `Transition` = `order_service.transition`, whose `SideEffect` is one of `FactoryOrderOnPayment`, `CancelFactoryOrders`, `ShipFactoryOrders` |
| `ConfirmTracking`, `ConfirmManual` | sign-off buttons with `_check_signoff` |
| `GenerateFactoryOrder`, `VoidFactoryOrder`, `SyncFromOrders`, `ReceiveRestock` | `factory_order_service` behind its endpoints |
| `ImportOrder`, `ImportStatus`, `ImportHistory`, `ImportFactoryOrder`, `UpdateFactoryOrder`, `SetBaseline` | importers and baseline: direct writes |
| `ParcelMoving`, `ParcelSigned`, `CreateReturn` | courier poll, return desk: direct writes |
| `FallsDue`, `ActivateFutureOrder` | the clock reaching `activate_at`, the daily job |

`ActivateFutureOrder` takes the rows of one run of the job as separate steps;
the code commits the run at its end, and the rows touch different orders.
`SetBaseline` only moves the date forward. Product code and quantity of an order
are constants: an import that changes them after locking leaves the ledger as it
was, so the locks are indifferent to it.

### PartPromise

Per factory order: a phase (free, open, closed), what it holds and what it has
used. `Open` reserves, `Deliver` uses up all that is held, `GiveBack` returns
all of it and closes. `Fulfilment` implements it under the mapping in
`Promise == INSTANCE PartPromise WITH ...`. It is a promise the code could
break: `release_factory_order_lock` subtracts releases and consumptions,
`consume_for_shipment` only consumptions, and what keeps the two from meeting on
one row are the `voided_at` and `actual_delivery` conditions of their callers.

### FulfilmentTx

A session is one request in flight: the next statement (`at`), the rows it
found, the quantities it will write. Tables change only in `Commit`; `writer`
and `holder` are the row locks of an order (taken by the flush of the status,
after the status was read and checked) and of the part row (`SELECT ... FOR
UPDATE` in `_get_or_create_inventory`). The ledger is read before the part row
is locked, product stock is read without a lock, and the void and generate
endpoints take no lock on the order, as in the code. `Rollback` is any failure
of a request, a connection that dies or a deadlock victim.

Simplified: one product with one part, quantity one; no forced moves, history
or restock orders (module `Fulfilment` has them); row locks on `factory_orders`
and `product_inventory` that UPDATE takes at commit are not separate, because
nothing is read again after them.

### OneShot

A thing is open or claimed; its effect on the outside world happens at most
once, only while it is claimed, and a claim is never given back. What a
component calls a claim is the refinement mapping: for a sheet, any delivery
state from `sending_image` on (work before that can be tried again); for the
sign-up, any attempt row of operation `signup` that was claimed, whatever its
manifest. The discounts of a campaign are no such thing: `push_discount` sends
several workbooks and may send an edit again.

### SheetDelivery

A worker is one call in flight: `Callers` run `reconcile_pending_delivery`, the
others a scoped resume or a reply. There is no hourly job any more
(`scheduler.py:2493-2494`). The reconciliation is called by daily jobs (order
sheets at 18:30, void sheets at 10:00, the deliveries that a completed import
sets off, `order_delivery_completion_service.py:57`), by the catch-up of the
evening pull and by a manual trigger (`order_sheet_archive_service.py:1994`).
`_claim_job` keeps a job from overlapping itself and not from overlapping
another one, so callers may overlap. Each step is a transaction or a call to the
chat. Variables are the order's refund, hold and edits, the delivery columns of
the line, the archive rows of sent pictures and of void notices, the quantity
question and its confirmation, and `group`, what the chat really received.

| action | code |
|---|---|
| `Start`, `Supersede` | `repush_activated`: reads the evidence, later resets the lines of activated orders |
| `ReadRefunds`, `ArchiveVoid`, `VoidFails`, `SendVoid`, `RecordVoid` | `reconcile_refunded_order_lines` |
| `ReadReceipts`, `ClaimReply`, `SendReply` | `complete_pending_receipts`, `complete_delivery` |
| `ReadLines`, `Skip`, `Claim`, `CommitClaim`, `MarkSending`, `RenderFails`, `SendImage`, `Record`, `SettleUnknown`, `Finish` | `reconcile_order_line_delivery` |
| `Ask`, `SendCard`, `Reply` | `request_quantity`, `handle_reply` |
| `Resume` | `order_scoped_resume_service.resume` |
| `Crash`, `ChangeOrder` | a restart; imports and operators |

`Claim` is the conditional UPDATE: it waits for another claim of the row that is
not committed. The factory number is read in the same transaction and is unique
in the table; a number that was taken meanwhile raises outside the `try` and
ends the call. A call to the chat delivers or not and answers or not, in every
combination but an answer without a delivery. The two rows that a picture
leaves behind (archive, line) are one commit. The explanation of a confirmed
quantity is claimed in one transaction (`ClaimReply`) and sent, after a network
call to the factory's table, in a later step (`SendReply`); a claim whose sending
failed or was cut off by a restart is never resumed, because both readers skip
rows with a receipt state (`factory_quantity_request_service.py:248`, `:302`).
The confirmation counts only while the order is what it was when its quantity
was asked for (`Known`, `quantity_confirmation`).

Simplified: one line stands for an order with this line, paid, with an address
and a SKU (the guards that defer other lines only skip); `Claim` takes the number
of the line from the table where the code may still have an older copy of the row
(`:683`), which matters only for a line that another call starts over in between;
the limit of `repush_activated`, and the smallest number 241, are left out; the
withdrawal's rendering and upload are one step; an answer that contradicts an
operator's confirmation (`:229`) changes nothing and is no step.

### StockDesk

A session reads what its operation computes with when the request arrives
(`Read`, kept in `seen`), waits for the row lock of the part where the code takes
one, and commits. SQLAlchemy does not
refresh a row that a session already holds when a later `SELECT ... FOR UPDATE`
returns it, so a handler that read the row first computes with what it read;
`disassemble_product_to_parts` and `manual_adjust` read the row for the first
time under the lock. The middleware is `Arrive`, `Fail`, `Answer` and
`FailAfterCommit`: a key is refused while it is remembered, any answer but
success forgets it. The work is committed (`Commit`, the last part of the
operation's action) before it is answered: between the two, the handlers that
load their row again for the answer (`api/inventory.py:199`, `:231`,
`api/aftersales.py:305`) may fail, and then the key of work that was done is
forgotten. `Restart` forgets all keys and ends the requests under way. `forgot`
and `faults` count these two for the properties and the bound. The courier's
poll (`Poll`, `Signed`) writes `second_inbound_confirmed`, the flag by which
`confirm_return_inbound` knows its own work. One product made of one part; the
alert refresh, the derived status column and the money are left out.

### ImportJobs

`Insert`, `Persist`, `Enqueue` are the request; `Take` to `Finish` a thread;
`ReadForCancel` and `CommitCancel` the two halves of a cancellation, so that a
thread can start or end the job in between; `Stop` drops the queue and lets
running jobs go on until `Kill`; `Restart` is `recover_orphaned_jobs`. The rows
of the workbook and the status of the job are separate commits. Three failures
let a job go: the request fails behind its insert (`RequestFails`), the status
cannot be written and `_run_job_safe` logs the error (`WriteFails`), the recovery
at the start fails and logs it (`RecoveryFails`). Such a job is in `lost`, a
variable of the model, and shows pending or running until the next restart.

### CampaignWrite

A call executes plan 8 (`execute_plan8`: claim, discounts, sign-up) or recovers
its sign-up (`recover_plan8_signup`), both through `push_signup`. Each step is a
commit or a call to the platform. A claim is a conditional update of the attempt
row.

`push_discount` sends one workbook for each item (or SKU) that is edited in an
activity it already has (`EditActivity`), and then one for all the others
(`NewBatch`). Any of them may arrive in part, or without an answer, and end the
push. If the platform takes no row of the new batch and names items that are in
older activities, the function binds these and calls itself once more
(`PushAgain`, `campaign_service.py:3862-3868` and `:3945-3951`): what was edited
before is then edited again, with the same prices. `platform.live` are the items
whose discount is in force, `platform.entered` counts how often a new batch took
an item, `platform.signups` the sign-up.

A call may end by an exception that the services handle (`Raise`,
`RecordRaised`), by one that lies outside their `try` or is raised in its handler
(`Escape`: the claim of the attempt, the end of the recovery, any commit of a
handler), or by a restart (`Crash`). The last two leave the attempt open; `lost`
says which ones. The manifests (digests of the rows to be sent) are two values:
the recovery may send one of them only.

## 3. What TLC checks

| run | instance | properties |
|---|---|---|
| `lifecycle` | two orders, one part with one unit, 2 factory order rows; o1 may be forced anywhere, o2 is reached by imports | `LockedMatchesLedger`, `LocksSettleOnce`, `OneLiveFactoryOrder`, `VoidedIsFinal`, `PartPromiseKept` |
| `restock` | one order of two units with every writer, product stock of one, workbook factory orders of one or two units | `TypeOK`, `ReversalMirrorsOriginal`, `StockCoversMovements`, `HistoricalNotAdvanced` |
| `future` | three orders, one of them without a product code; fair scheduler | `FutureOrderActivates`, `PaymentLockFailureFlagged` |
| `transitions` | three sessions, two orders, status changes only | `LockedMatchesLedger`, `LocksSettleOnce`, `OneLiveFactoryOrder`, `PartPromiseKept` |
| `requests` | two sessions, one order, all kinds of request, fair database | `TypeOK`, `LockedCoversLedger`, `RequestsEnd` |
| `sheets` | two callers, two lines, refunds and holds, one restart (640 000 states) | `OneSheetPerGeneration`, `NumbersAreDistinct`, `OneVoidNotice` |
| `sheets_fair` | one caller and one request worker on a line of unknown quantity, refunds, holds, activations, edits, two restarts | `TypeOK`, `OneVoidNotice`, `OneExplanation`, `SheetIsOneShot`, `RefundIsAnswered`, `ReplyIsTakenUp` |
| `desk` | two sessions, one click for each operation on one return, one product and its part, one fault (4.8 million states) | `TypeOK`, `ClickActsOnce`, `LockedWritersLoseNothing` |
| `jobs` | two jobs, two threads, two stops | `TypeOK`, `DoneIsImported`, `RunningHasItsFile`, `CancelledWaitingNeverRuns`, `JobsEnd` |
| `campaign` | three calls, three items, two manifests, two restarts | `TypeOK`, `SignupNeedsDiscount`, `NewRowsOnce`, `CompletedIsRegistered`, `SignupIsOneShot` |

Why the bounds are enough. In fulfilment the cases that matter are two claims on
one unit: two orders on one part, two factory orders on one product stock, an
order that asks for two when one is left (the clamps), a second factory order
row for an order that had one. Two rows of `factory_orders` let a row be voided
and its successor live; when they are used up creation stops, which is why
`FutureOrderActivates` excuses states with `Unused = {}`. Three sessions give a
waiter behind a waiter on the same order row. For sheets, two lines and two
callers are what a shared number and a shared claim need, and one line is enough
for what concerns a line by itself; a second restart can hit the call that works
on what the first one left. At the desk a click of
every operation meets the others on a part that a cut must fill first, and one fault (an error behind a
commit, or a restart) lets each click be made again. Two jobs fill both threads,
and a third call of the campaign meets what two others have left; with three
items one can be edited, one found in an older activity and one be new. Symmetry over
factory orders, orders, sessions and workers is used in runs without liveness
only; no property or constant tells the elements apart in these runs (in
`lifecycle` only factory orders are permuted). Deadlock is not checked where
ids, clicks or attempts run out; a `jobs` run can end in a stopped process.

`sheets` leaves activations to `sheets_fair`, which has a
single caller: with overlapping callers the code does send a line twice after an
activation, see below. `OneVoidNotice` allows one notice for each caller, so in
`sheets_fair` it says "at most one", and in `sheets` that two calls which overlap
may both announce a withdrawal and nothing else repeats it. `ClickActsOnce`
compares how often a click acted with what had happened when its key was last
forgotten: it holds for the code, which does act twice after such an error or
restart. Distinct numbers beside an activation, and two undos of one cut, are in no
run; the theorems `DistinctNumbers` and `LockedWritersKeepBooks` hold with both.

Fairness. `FairSpec` of `Fulfilment`: the clock passes `activate_at`, and the
job, which runs daily, takes each due row. Nothing else is fair: operators and
imports need not act. `FairSpec` of `FulfilmentTx`: a running session executes
its next statement (weak), and a session waiting for a row lock is served
eventually because PostgreSQL queues waiters (strong). Beginning a request and
failing are never forced. `FairSpec` of `SheetDelivery`: the daily jobs call
again (`Start`), running calls take their next step, also when they have to wait
for a row lock again and again (strong), and drawing a void notice does not fail
for ever (strong on `ArchiveVoid`). Replies and resumes are not fair.
`FairSpec` of `ImportJobs`: requests and threads go on, and a stopped process is
started again (with or without a recovery that works), as its container policy
says. That it is stopped at all is not fair, so `JobsEnd` excuses a job that was
let go by an error: it waits for the next restart. Restarts, failures and
lost answers are never fair, and they are bounded, which is what lets the eventualities be reached.

### Where the code does something else than it says

Two runs check one statement of the repository each and find it violated.

| run | statement | what happens |
|---|---|---|
| `defect_claim` | `inventory_lock_service.py:6-7`: every movement is in the ledger, whose sums the part row shows | the defect endpoints read the part row before the service locks it; a movement that commits in between is overwritten, its ledger row stays |
| `return_claim` | `return_service.py:5`: confirming a return puts the product in stock | a courier signature has set the flag already: the confirmation succeeds and stocks nothing |

### Seen while modelling

Traces of the models, or plain readings, without a run of their own. Where they
are listed as a hazard without a property, this is why: a property would not
hold.

Fulfilment. A factory order that was voided before payment is returned as it is
by `generate_factory_order_for`, and nothing is locked or reported
(`order_service.py:161`). Ship, cancel, pay and ship again: the second shipment
is taken as already recorded (`product_stock_ledger_service.py:80`). The courier
poll assigns shipped past `transition`, and the lock stays
(`shipment_service.py:129`). Two overlapping shipments read the same stock and
one deduction is lost (`product_stock_ledger_service.py:82`). A void that
overlaps another void or a shipment settles a lock twice, since the ledger is
summed before the part row is locked. Two overlapping calls of the generate
endpoint create two factory orders (`factory_order_service.py:94`). A
cancellation checked against `paid` may commit after a shipment it did not see
and skip the reversal (`order_service.py:124-148`). `physical_qty` is clamped at
zero on consumption while the ledger books the full quantity. A workbook that
fills `actual_delivery` makes a later shipment skip the row. Moving the
baseline, or importing a row as history, excludes an order from stock effects
while its parts are locked; an import that changes the quantity or the product of
an order (`taobao_order_import.py:1162`) leaves its locks as they are.

Sheets. Two overlapping callers and an activation: the second one supersedes
with evidence that is out of date and resets a line whose new picture is on its
way, which is then sent twice. Two overlapping callers both announce a
withdrawal: the target list is read once and the archive row is no claim
(`order_sheet_archive_service.py:779-830`). A line whose outcome is uncertain is
never withdrawn after a refund, for there is no archived picture. A quantity
question that a restart leaves in "asking" is never asked again, and an
explanation that was claimed and not sent is never resumed. The number that an
activated line gives back may go to another line, or to the same one again, against
"以新号重推一次" (sent once more under a new number,
`order_sheet_archive_service.py:1633`): the next number is the highest that is held
and one more (`order_line_delivery_service.py:109`). Failing and uncertain lines
count towards the limit of every call (`:636-645`, `:746`): with a limit's worth
of them at the head of the list later lines starve, so no property says that
every line is served.

Desk. A click repeated after an error behind its commit, or after a restart, acts
twice. Two overlapping undos of one cut may both act, against "只能撤一次" (only once,
`inventory_lock_service.py:425`): `undone_at` is read before the row lock of the
part and not again. Two overlapping confirmations stock the goods twice; the product row is
written without a lock by `return_in_product` and can lose an update against a
cut or an undo; a cut locks the product and then the part, an undo the other way
round (PostgreSQL aborts one); an approval and a rejection that overlap leave an
executed request marked as rejected; the direct edit of a part row writes no
ledger (`api/inventory.py:140`).

Jobs. A crash between the commit of the rows and the status leaves a job that
says it is to be imported again, though its rows are there; a cancelled job that
a stop drops from the queue keeps its file; a cancellation's stale write may
turn a job that has just failed or been done into a cancelled one; a status write
that fails leaves a job running, in nobody's hands, until the next restart.

Campaign. A claim that a crash or an exception outside the `try` leaves behind is
neither retried nor recovered, which is the point of it: the plan then waits for
a person. Edits of existing activities are sent again when a conflict makes
`push_discount` start over.

## 4. What is proved

All theorems are for any values of the constants that satisfy the named
assumption of the module, which TLC evaluates on every run; nothing else is
assumed except where a theorem says so.

| module | theorem | statement |
|---|---|---|
| `Fulfilment_proofs` | `TypeCorrect` | `Spec => []TypeOK` |
| | `LocksSettle` | `Spec => []LocksSettleOnce` |
| | `VoidedFinal` | `Spec => VoidedIsFinal` |
| | `HistoricalOutside` | `Spec => HistoricalNotAdvanced` |
| | `ReversalsMirror` | `Spec => []ReversalMirrorsOriginal` |
| | `OneLive` | `Spec => []OneLiveFactoryOrder` |
| | `KeepsPromise` | `Spec => PartPromiseKept` (refinement) |
| `FulfilmentStock_proofs` | `LockedMatches` | `Spec => []LockedMatchesLedger` |
| | `StockCovers` | `Spec => []StockCoversMovements` |
| | `PaymentFlagged` | `Spec => PaymentLockFailureFlagged` |
| `FulfilmentTx_proofs` | `TypeCorrect` | `Spec => []TypeOK` |
| | `LockedCovers` | `Spec => []LockedCoversLedger`, for every kind of request |
| | `LocksSettle`, `OneLive`, `LockedMatches` | the three invariants of the run `transitions`, for status changes only |
| | `KeepsPromise` | `Spec => PartPromiseKept` (refinement), for status changes only |
| | `VoidedFinal` | `Spec => VoidedStays`, for status changes only |
| | `LocksNeverCycle` | `Spec => []NoDeadlock`, for every kind of request |
| `SheetDelivery_proofs` | `TypeCorrect` | `Spec => []TypeOK` |
| | `OneSheet` | `Spec => []OneSheetPerGeneration`, without activations or without overlapping callers |
| | `SheetsRefineOneShot` | `Spec => SheetIsOneShot` (refinement), likewise |
| | `DistinctNumbers` | `Spec => []NumbersAreDistinct` |
| | `OneNotice` | `Spec => []OneVoidNotice` |
| | `OneReply` | `Spec => []OneExplanation` |
| | `LinesAreInHands` | `Spec => []NothingIsLeftBehind` |
| `CampaignWrite_proofs` | `TypeCorrect`, `DiscountComesFirst`, `RowsEnteredOnce`, `CompletedIsTrue` | the four invariants of the run |
| | `SignupRefinesOneShot` | `Spec => SignupIsOneShot` (refinement) |
| | `OpenAttemptsAreKnown` | `Spec => []OpenIsKnown` |
| `StockDesk_proofs` | `TypeCorrect`, `ClickOnce`, `LockedWritersKeepBooks` | the properties of the run `desk` |
| | `FailedClickMayRetry` | `Spec => []KeysHaveReason` |
| `ImportJobs_proofs` | `TypeCorrect`, `DoneIsTrue`, `FileStays`, `CancelledIsFinal` | the safety properties of the run |
| | `OpenJobsAreInHandsOrLost` | `Spec => []LostAreKnown` |

Fulfilment. The more than twenty actions do only a handful of things to one
factory order: `RowStep` lists them (the row stays; it is created, with or
without its lock; it is voided, which releases; it is shipped, which consumes;
it is noted as delivered). `Footprint` says that a request makes a `RowStep` on
every row, creates at most one row per order, and adds movements only for the
entities it works for; lemma `NextGood` shows that every action has a footprint.
Everything else follows row by row. `LocksSettleOnce` is not inductive: nothing
in it says that an id without a row has no lock, or that what has been released
or consumed was the whole lock. `RowInv` adds that (and that a release means
voided), which is why the two different ledger sums of release and consume can
never both be positive. `OneLive` is proved through `SingleInv` (two live rows
of an order are one row): payment and the generate button look at all rows that
point at the order, the batch sync only at live ones, and each creates a row
only where no live one was. The product movements have their own step
(`MoveStep`). `KeepsPromise` maps each kind of `RowStep` to `Open`, `Deliver`,
`GiveBack` or `Keep` and uses `RowInv` for "used up in full".

Sums. `SumTheorems` has what the library lacks: what `SumFunction` (module
Functions) becomes when a summand is added, changed or taken away, and that a
sum of naturals is one. A sum is a function on subsets, chosen among
those that satisfy its recursion; that one exists and what it is for a set is
shown by taking a smallest set for which it fails, under the strict-subset
ordering, so no induction theorem with an operator parameter is needed.

Stock. `LockedMatches` is about one number and the sum of what all factory
orders hold. Each `RowStep` moves both by the same amount, provided the clamp at
zero of release and consume is never reached. That it is not rests
on `LockInv` from `Fulfilment_proofs`: what each row holds is a natural number,
so the sum over all is at least what some of them give back. `StockCovers`
follows the rows of the movement ledger: a movement is booked once (`NewMovement`:
no row for that reason and entity before), a shipment books what it took, and a
reversal books everything even where the clamp lets the stock keep more.
`PaymentFlagged` is an action property: `Answered` is shown for every request
that changes an order, and needs `LockInv` because a lock counts in full only on
an id that has no lock rows yet.

FulfilmentTx. `TypeCorrect` is for every kind of request; it needs what a
request in flight is about (`Purpose`: a session that books has an entry kind
to book, one that ships has an order). So is `LockedCovers`: however requests
overlap, the column never falls below what the ledger says is held. Its
invariant `LInv` follows the part row: only the session that has locked it has
counted anything, and what it will write is at least the column it read changed
by its own movements (`Carries`), a clamped value being larger. The others
assume `OnlyMoves`: the generate and void endpoints take no lock on the order,
and with them none of these properties holds when requests overlap. A session
works from what it read, so the invariant says that it is still so when it
commits: from its flush on it owns the row of its order (`Owners`), hence the
factory orders it found are still the live ones of that order and the quantities
it summed are still theirs (`StillTrue`); no two sessions have the same factory
order in hand (`Apart`); and the committed rows are settled (`Rows`) and one per
order (`Single`). Then a session settles one row, which holds what it gives
back, so it carries exactly what it will commit (`Exact`), and `LockedMatches`
follows. `KeepsPromise` shows that no statement but a commit is visible to
`PartPromise`, and that a commit opens, delivers, gives back or keeps each row.

SheetDelivery. That a picture is sent once is not inductive: the claim lives in
the delivery state of the line and in the step of the worker that made it.
`IInv` adds: a worker between its claim and its record is the only one on its
line and the line has the state that belongs to the step (`OneOwner`, `Held`);
what the group has is what was superseded and at most one more picture, which is
there when the line is sent and not before it is committed (`Pictures`); a line
has one live row of evidence at most, only while it is sent, and was superseded
once at most (`Archives`); what a caller has read in order to supersede is still
the evidence there is (`Sweeps`). `Sweeps` is where activations and overlapping
callers break the proof as they break the code: one caller supersedes what the
other has read. `OneSheet` and the refinement therefore assume `Scheduled`: that
`Changes` lacks "activate" (`NoActivation`, the run `sheets`) or that there is one
caller (`SoleCaller`, the run `sheets_fair`). The code guarantees neither; the
theorems say what it keeps as long as an activation does not meet two overlapping
callers.

The other theorems about sheets assume nothing. `DistinctNumbers` follows the
lines that were never started over: such a line keeps the number of its row, the
group has seen it under that number only (`Shown`), a worker that is to show it
has that number in hand (`Numbered`), and rows hold different numbers (`Unique`).
Lines that were started over drop out, which `Marks` makes sure of: a row is
reset only together with evidence that is superseded. That the next number is
above all numbers in use rests on `MaxExists`, a finite set of numbers has a
largest one, proved from the well-foundedness of the strict-subset ordering of a
finite set. `OneNotice` counts: the notices the group has, and the calls that
may still send one (`Pending`, those that read the line before its archive row
was written), are together at most as many as there are callers, and no call
becomes pending once the row is there. `OneReply` follows one question: it is
claimed under the lock of its row, by one worker, before the explanation is sent.

CampaignWrite. `IInv` is `TypeOK`, `Turns` (at most one call is past the claim of
an operation, and a recovery begins only after the execution has recorded that
it stopped at the export), `Sent` (what the platform has received in each step)
and `Registered` (from which step on the plan is pushed or reconciled). The heart
of `Sent` are `Covers`, that the items still to be edited, those of the new batch
and those in force are always all items, also when a conflict moves some of them
from the batch to the edits, and `NoRows`: a push that is still under way has
entered no row, so a retry enters none twice.

StockDesk. `ClickOnce` needs that a request under way has its key remembered and
no other session has the same click, and that a click without a key has not been
committed since the key was last forgotten (`KeysGuard`). `TypeCorrect` and
`LockedWritersKeepBooks` need that a session past `LockUndo` holds the row of the
part, knows what is on it and found enough (`UndoHoldsPart`): cut, undo and count
write the row under the lock, from what they read under it, so row and ledger
move together until a defect button, which reads before the lock, is used.

ImportJobs. A job is at one place: its request, the queue, one thread, or none
(`QueueOnce`, `ThreadOnce`, `NewIsNowhere`); wherever it can still be run from,
its file is there (`FilesKept`); a thread at its last step has committed
(`FinishedIsImported`). `CancelledIsFinal` follows a single job on: once it is
`Doomed`, flagged before any thread has read the flag, no step saves it.

What progress rests on. That something happens in the end cannot be proved here;
that nothing is left where nobody would go on with it can, and it is the part of
the argument that depends on the code and not on the scheduler. These six
theorems say so for any number of sessions, workers, jobs and calls. Their
properties are defined in the proof modules, beside the theorems: no run lists
them, but TLC found no violation of any of them on the instances of the runs
before they were proved.

- `LocksNeverCycle`: in every set of sessions there is one that waits for no
  other of the set, so that the waits of `RequestsEnd` end one after the other.
  `LockOrder` says which locks a session has behind each statement: the row of
  its order first, then the row of the part, and it never asks for an order
  while it holds the part. It is about the two kinds of row lock of the model;
  several materials, where the code's orders differ, are outside it (section 5).
- `OpenJobsAreInHandsOrLost`: while the service runs, a job shown as pending or
  running is with its request, in the queue, with a thread, or in `lost`, where
  only a failing request, status write or recovery puts it. A file that could not
  be saved, a cancellation at any moment, a drain, a kill and a start with
  recovery are all covered. This is what `JobsEnd` adds fairness to.
- `LinesAreInHands`: as long as the process was not restarted, a line that is
  rendering or sending is in the hands of a worker that will settle it, and so is
  a question that is being asked, for any number of overlapping callers
  and with activations. It takes for granted that the write of the new state
  succeeds. A restart leaves such a line, and a person has to look in the group.
- `OpenAttemptsAreKnown`: an attempt of execution or recovery is open exactly if
  one call works on it, or a restart or an exception that nothing handles has
  left it behind, and never both: no call works on an attempt that was left, and
  every other end of a call, by refusal or by a handled exception, writes down
  the end of the attempt it claimed.
- `FailedClickMayRetry`: a key the middleware remembers is that of a click under
  way, or of one whose work was committed since the key was last forgotten, so a
  click that failed before its commit can be made again. With `ClickOnce` this is
  both halves of idempotency.
- `VoidedFinal` (of `FulfilmentTx`): a request that read a factory order before
  another one voided it does not write to its ledger afterwards. It goes through
  `Owners`: to commit, it would need the row lock of the same order.

Model-checked only: everything under fairness (`FutureOrderActivates`,
`RequestsEnd`, `RefundIsAnswered`, `ReplyIsTakenUp`, `JobsEnd`), for liveness and
ENABLED are out of the prover's reach. Every safety
property of a passing run is a theorem, under the hypothesis named above where
there is one.

## 5. Not modelled

The modules stand for about 4200 lines, some two per cent of the repository:
the paths on which orders, parts, sheets, jobs and campaigns change state. Most
of the rest is covered by no model.

Money, matching and parsing of imports, messages that only inform, reminders
that only write exception rows, reports and the frontend have no control worth
exploring. Row locks of several materials: release and consume visit materials
in ledger order while lock sorts them (`inventory_lock_service.py:126`), so two
requests may deadlock; PostgreSQL then aborts one, which the model has as
`Rollback`.

Left out of modelled parts. Sheets: the older pushes of whole orders
(`push_pending_images`, `void_remote_pushed`, `renumber_order`), which claim
without a conditional update and skip lines that are delivered by themselves.
Desk: purchase inbound, adding a row, the direct edit, alerts and the expiry of
idempotency keys after ten minutes. Campaign: the other recovery services
(versions 2 to 8 and plan 7) follow the pattern of the one modelled, each with
its own constants and digests; the web agent that drives the browser runs on
another machine. Settlement, pricing, quotes and reports are arithmetic over
tables; users, backups and AI assistants keep no state that other parts depend
on. `PROJECT.json` gives the reason for each part.
