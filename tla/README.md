# NEXARA — formal specifications

TLA+ models of the parts of NEXARA where several requests, transactions,
retries or devices meet, the TLC configurations that check them, and TLAPS
proofs of what matters most. `src/` below is the root of the repository.

    tlc -config LedgerRaces.cfg MCStockLedger      # one run
    tlapm StockLedgerProofs.tla                    # the proofs of one module

## 1. Inventory

NEXARA is an ERP and field-service platform: a NestJS API over PostgreSQL
(`src/apps/api`), a Next.js web application (`src/apps/web`) and native mobile
applications with offline queues (`src/apps/mobile-native`). All state that
matters on the server lives in PostgreSQL tables reached through Prisma. There
are no application locks: a request handler is a sequence of awaited
statements, and the statements of different requests interleave. What protects
the data is, case by case, a `$transaction` at READ COMMITTED, a conditional
`UPDATE`, a `SELECT ... FOR UPDATE`, a unique index, or nothing.

| component | state | operations | hard behaviour | what makes it correct |
|---|---|---|---|---|
| Stock ledger (`warehouse.service.ts`) | `stock_levels`, `stock_movements`, `stock_reservations` | create a movement, reserve, release | statements of concurrent transactions, row locks, deadlocks, first insert of a row, timeouts | stock is explained by movements, nothing overdrawn, reservations add up, each call is all or nothing |
| Folios (`folio.service.ts`) | `folio_counters` | next, next available | first use by two requests, soft-deleted documents, rolled back callers | numbers never repeat |
| Cycle counts (`warehouse.service.ts`) | `cycle_counts`, `cycle_count_items` | schedule, capture, close, cancel | check now and write later, several transactions per close, death half way | an ended count is fully counted, success means every variance was posted |
| Purchases (`procurement.service.ts`, `accounting.service.ts`) | `purchase_orders`, received quantities, goods receipts, the supplier's invoices | approve, reject, receive, match, edit, waive, pay | a chain of separate writes over the ledger, status computed from a second read, verdict about quantities that change | order status agrees with received quantities, receipts with movements, only what was ordered and received is paid |
| Approvals (`workflow.service.ts`, listeners) | `workflow_instances`, `workflow_approvals` | request, decide, automatic chain, timeout | two deciders, automatic chain beside a decision, event after commit | steps in order, an entity is approved only after all steps, the outcome reaches it |
| Invoices and electronic invoicing (`accounting.service.ts`, `facturama.adapter.ts`) | the invoice, its payments, the bank's balance, the receipts held by the tax authority | stamp, edit, delete, pay, complement, cancel, credit | a provider that answers late or never, a retry after it issued, a claim that must be given back | one receipt in force, no payment lost, books and tax authority agree, no invoice stuck in `STAMPING` |
| Journals (`accounting.service.ts`, `period-close.service.ts`) | `journal_entries`, account balances, fiscal periods | create, post, reverse, automatic entries, close and reopen a period | two reversals, two automatic entries, posting beside a close | balances follow the entries, one reversal per posting, closed periods keep their books |
| Idempotency keys (`idempotency.interceptor.ts`) | `idempotency_keys` | look up, run, store, expire | retry while the first still runs, answer stored after it was sent, store that fails | same key, same body: one execution |
| Offline queue (`data/offline/` of the Android app) | the queue file, the media files, the pass under way | queue, replay, retry one, discard | changes queued while a pass runs, passes cancelled with their screen, death in the middle of a pass or a save, two queue objects on one file, bodies expanded from files | nothing queued is lost, nothing runs twice, bodies arrive whole |
| Job queue (`job-queue.service.ts`) | pending, dead letters | enqueue, tick, run, retry | unique jobs, retry with backoff, death of the process | a job is never lost while the process lives, it ends done or dead |
| Activities (`activities.service.ts`, lifecycle, team) | activities, work sessions | assign, start, pause, close | two devices, offline replays | one open session per person, closed once |
| Everything else | | | CRUD, external protocols, presentation | see section 7 |

Components interact by direct calls inside the API process (a close of a count
or a goods receipt calls `createStockMovement`; a goods receipt creates the
supplier's invoice and its accrual entry; a payment asks for its complement),
by domain events published after a commit (a finished approval changes its
entity), by the job queue, by the phone's requests that pass the idempotency
interceptor, and through the shared tables.

The hazards, each at its line of code and with the properties that would catch
it, are in `PROJECT.json`.

## 2. Modules

| module | models | kind |
|---|---|---|
| `StockAccount` | what the ledger promises: every movement, hold and release is one indivisible change | abstract specification |
| `StockLedger` | `createStockMovement`, `createReservation`, `releaseReservation`, one action per awaited statement, over PostgreSQL at READ COMMITTED | component |
| `ApprovalLadder` | what the approval workflow promises about an order: steps from the first up, one standing outcome | abstract specification |
| `GeneralLedger` | what accounting promises about entries and a balance: each posting and each reversal is one change | abstract specification |
| `JobLife` | what the job queue promises about each job: it waits, runs within its attempts, ends done or given up | abstract specification |
| `ChangeLife` | what the phone and the API promise about a change made offline: pending until it ends, done once if its requests come in order | abstract specification |
| `CycleCount` | the four handlers of cycle counts, over atomic stock movements | component |
| `Purchases` | an order, its goods receipts and the supplier's invoices, over atomic movements and entries | composition |
| `Approvals` | the approval workflow of one purchase order: request, decide, automatic chain, threshold gate, listeners | component |
| `Invoices` | a customer invoice, its payments and its fiscal receipts, with the provider | component |
| `Journals` | journal entries, balances and the fiscal period | component |
| `OfflineSync` | the Android app's offline queue together with the API's idempotency interceptor | composition |
| `JobQueue` | the in-process job queue: enqueue, tick, run, retry, dead letters | component |
| `MCStockLedger`, `MCCycleCount`, `MCPurchases`, `MCApprovals`, `MCInvoices`, `MCJournals`, `MCOfflineSync`, `MCJobQueue` | small instances for TLC | model checking |
| `Subsequences` | selecting from a sequence in its order, as both queues do | operators |
| `StockLedgerProofs`, `CycleCountProofs`, `PurchasesProofs`, `ApprovalsProofs`, `InvoicesProofs`, `JournalsProofs` | invariants and refinements for all constants | proofs |
| `QueueProofs` | the same for `JobQueue` and `OfflineSync`, with the laws of `Subsequences` | proofs |
| `SumProofs` | the laws of sums over finite sets that four of them cite | proofs |

In every module a *call* is one request; its program counter `pc` names the
next statement and `local` (`call` in `StockLedger`) holds what it has read. A
request that is refused when it arrives changes nothing and is left out.
Where calls are numbered (`Invoices`, `Journals`, `Purchases`) they begin in
that order, which removes copies of one behaviour and nothing else. `alone` is
history: it stays true while no two requests overlap and none dies. A property
that starts with `alone` says what the code is meant to do; that overlapping
requests can break it is listed as a hazard with a note, or in section 4.

### StockLedger

One company and one product: every statement of the handlers filters by both,
so calls about other products never meet.

| state | code |
|---|---|
| `stockLevel` | committed rows of `stock_levels` with `locationId` NULL |
| `owner`, `draft` | PostgreSQL's row lock and the version its holder has written but not committed |
| `reservation`, `claim` | `stock_reservations` and the lock taken by the release's `updateMany` |
| `movement` | committed rows of `stock_movements` |
| `folio` | `folio_counters.valor` of the series `STOCK_MOVEMENT` |
| `books` | movements whose COGS entry has been posted |

A read sees the committed rows and the call's own writes. An `UPDATE` is
enabled when the row is unlocked or locked by the same call, and evaluates its
`WHERE` on the newest version at that moment, which is what READ COMMITTED does
after waiting. `COMMIT` publishes every draft of the call at once; `Rollback`
drops them. `Interrupt` is a transaction that ends from outside (Prisma's
timeout, a lost connection, a restart); `DeadlockVictim` is PostgreSQL's
detector. The insert of a row nobody else can see (movement, reservation) is
taken with the commit that publishes it. The unique index of `stock_levels`
contains `locationId`, which is NULL in every row the API writes, so it never
rejects an insert; accordingly `CreateLevel` has no failing branch.

Abstractions: quantities are base units (`convertirCaptura` has run); costs are
whether there is one (`priced`); lots, locations, notes, alerts and
notifications are left out; `FolioService.next` is one step, because its
statement is one atomic `UPDATE ... RETURNING` committed on its own connection.

### StockAccount and the refinement

`StockAccount` has three actions, `Move`, `Hold` and `Free`, each one atomic.
`LedgerIsAccount` says that `StockLedger`, with costs and audit columns hidden,
implements it: a commit is one abstract step and every other statement is a
stutter. It holds even where twin rows exist (section 4), which is why
`StockAccount` speaks of rows and not of warehouses.

### CycleCount

One count of one warehouse. The handlers read the count, decide, and write
later; nothing locks the count in between. Closing calls `createStockMovement`
once per product: here that is a single step, which is what `LedgerIsAccount`
justifies. `OtherMovement` is any other movement; `Die` is the process or its
connection dying between two statements. A count reads its items in no fixed
order, so `AdjustItem` takes any product that is left. `alone` here also says
that nothing else moved stock; `ClosedStockIsCounted` speaks of such histories.

### Purchases

One order with its lines, some of them products kept in stock (`Goods`).

| state | code |
|---|---|
| `status`, `received` | `PurchaseOrder.status`, `PurchaseOrderItem.receivedQty` |
| `receipt`, `housed` | `goods_receipts` and their items, by the call that created them; those with a `warehouseId` |
| `stock` | what `RECEIPT` movements have put in the warehouse |
| `accrued` | receipts whose accrual entry exists |
| `bill` | the supplier's invoices: quantities billed, whether the order and receipt are linked, the verdict of the three-way match, whether paid |

`createGoodsReceipt` has no transaction: `ReadForReceipt`, `CreateReceipt`, one
`IncrementLine` per line, one `PostMovement` per product, `RereadOrder`,
`WriteStatus`, `Accrue`, `CreateBill`, `LinkBill`, `ReadBill`, `WriteMatch` are
its awaited statements in order, and `Stop` ends any handler between two of
them. A movement is one step (justified by `LedgerIsAccount`), and so is an
automatic entry (`OneAutoEntry`). Quantities are not compared with what is
due, as in the code, so an order may be received beyond what was ordered; nor
with zero, since the controller takes any body: a negative quantity takes back
what was received, and a line of zero or less is neither moved nor accrued nor
invoiced. A receipt without a warehouse (the request names none and the company
has no active one) is received and invoiced, and moves nothing. A request names
a line once, and one it leaves out counts as zero. Prices are left out: the
match compares quantities.

### Approvals

One purchase order and its workflow definition with steps `1..LastStep`. A call
is one of three requests: ask for the approval (`requestApproval`), decide a
pending step (`decide`), or approve the order directly (`approvePurchaseOrder`,
which passes the gate `exigir`). After an insert or an advance the call goes on
as `tryAutoApproveChain`, which runs after the response; `WriteDecision`,
`Advance` and `CompleteInstance` serve both, because `systemAdvanceApproval`
repeats the statements of `decide`. There are no transactions: each awaited
statement is an action, and updates go by id whatever the row has become.

| state | code |
|---|---|
| `instance` | `workflow_instances` of the order, named by the call that inserted them |
| `approval` | `workflow_approvals` in the order of ids |
| `order` | `purchase_orders.status` (`DRAFT`, `CONFIRMED`, `CANCELLED`) |
| `listener` | what the completion or rejection listener still has to do for an event |
| `granted`, `died` | history: approved steps, whether the process ever died |

Who may decide is abstracted to "somebody may": the test reads tables that do
not change here. `Capped` says that the amount exceeds the company's limit and
that whoever approves directly is not management (who is exempt). `AutoSteps`
are the steps whose `autoApproveCondition` the order meets. The bound of eight
turns of the chain is not reached with three steps. The timeout cron only
writes a comment. Events live in the process: `Die` loses them.

`ApprovalLadder` keeps the order, the granted steps and which instances
authorize or were rejected, and has five actions: `Grant` needs the steps below,
`Authorize` all of them and no rejection, `Reject` takes an authorization back,
`Confirm` needs a full climb where the amount does, `Cancel` a rejection.
`WorkflowIsLadder` says that `Approvals`, without its rows, events and
half-finished requests, implements it.

### Invoices

One customer invoice paid in instalments (PPD).

| state | code |
|---|---|
| `invoice` | the row: status, total, paid amount, `cfdiUuid`, cancelled, deleted |
| `lock` | the row lock of `registerPayment`'s `SELECT ... FOR UPDATE` |
| `payment`, `bank` | payments with the UUID of their complement; the bank account's balance |
| `notes` | credit notes created |
| `cfdi` | what the provider and the tax authority hold: receipts with serie and folio (`key`), total, instalment number, in force or not |

`stampInvoice` is `ReadForStamp`, `ClaimStamp` (the conditional `UPDATE` to
`STAMPING`), the adapter's `emitir` (`Search`, `Post`, `Recover`), then
`PersistStamp` or `RevertStamp`. The same three adapter steps serve
`stampPaymentComplement`, which nobody claims. `registerPayment` is one
transaction, two steps because the row is locked while other requests run.
`cancelInvoice` and `createCreditNote` read, call out or insert, and write by
id.

The provider is external: `Post` issues a receipt or does not, and answers,
answers without a UUID or does not answer. A request it does not answer is
processed before the adapter gives up (`NoAnswer` after `Issue`) or never; a
receipt that appears after the second look-up is outside the model. A receipt
is its key, total and number: the CFDI's contents are data. Folios are left
out, `key` being what the adapter looks up.

### Journals

One fiscal period and one account: entries named by the call that created them,
`amount` what an entry adds to the account, `balance` its `Account.balance`,
`closed` the period's flag, `posts` (history) how often an entry's lines moved
the balance. `PostEntry` and `ReverseEntry` are the transactions that claim the
entry with a conditional `UPDATE` and move the balances; the tests of status
and period come before them, unlocked. `CreateAuto` is the insert that the
unique key on the reference may reject. The checklist of `closePeriod` does not
keep a period open when a justification is given, so it is no guard.

`GeneralLedger` has no requests and no period: entries are in draft, posted or
reversed, `Write` enters one, `Post` moves it and the balance together, and
`Reverse` posts the opposite of an entry that was never reversed before.
`JournalsAreLedger` says that `Journals` implements it whatever overlaps or
dies: a claim that finds its entry changed is a stutter.

### OfflineSync

The phone and the API. `queue` is the queue file, `media` the files on disk,
`pass` the snapshot a replay works on, `live` what the screen that made each
change knows; `requests` are the requests under way, each with its key or
none, its body and its stage in the API; `stored` is `idempotency_keys`.
History: `spoiled` are the changes that a torn or an overlapping save took from
the file or put back, `left` those whose media were deleted and that stayed in
the file because the pass or the app ended first.

A change is sent live without a key (`SendLive`); with no connection or no
answer it is queued with a new key (`Enqueue`) although the server may have it.
A pass (`BeginPass`, `SyncNow`, `RetryOne`) sends its items one at a time and
takes the finished ones from the file only when it ends (`EndPass`), while the
file changes under it. The interceptor looks the key up (`LookUp`), runs the
handler (`RunHandler`, `RefuseRequest`), answers, and stores the answer later
and without anybody waiting (`StoreAnswer`, whose failure is swallowed).
`Lose`, `Expire`, `Connection`, `LeaveScreen`, `Die` and `Discard` are the faults
and the user.

A pass runs in a coroutine of the screen. When the connection changes
(`LaunchedEffect(isOnline)` in `NexaraScaffold.kt:47`), the user leaves the
queue's screen, the app locks itself or the activity is created again, it may be
cancelled (`Cancel`): it stops at the pause between two items, `EndPass` never
comes, and what it has sent stays in the file without its media. A request under
way is finished first, since nothing suspends within it; the pass is then `cut`.

A save truncates the file and writes it anew, and what cannot be parsed is read
as an empty queue (`OfflineMutationQueue.kt:46,85`): a death during a save empties
the queue (`Die`). `@Synchronized` excludes one object's methods only, and each
creation of the activity makes another object (`MainActivity.kt:63`) while
clients keep theirs. So every operation reads one of `Views`: the file, the file
without some of its items, or with one that was taken from it; and what it made
of that takes the place of the file (`Save`). Two objects are allowed at any
time, and a death is allowed to meet a save at any time, which is more than the
phone does. A view differs from the file by missing items or by one put back.

`orderly` (history) are the changes of which no request was sent while another
was under way or before the previous answer was in store. Backoff is "its last
attempt may be too recent" (`SkipItem`).

`ChangeLife` sees a change as promised, pending, done, settled or discarded,
without file, passes or requests: `Promise` and `Discard` are the user's,
`Perform` and `Keep` the server's, `Settle` (refused or given up) and `Remove`
end it, several at once when a pass ends; `Return` is a change that was discarded
or spoiled while it was being sent, failed, and is put back by `upsert`. A writer
may have seen other changes than are pending (`Write`), and `Die` may take all
that are; the changes this befalls are spoiled. `Disorder` is where
the promise to do it once ends: a request that overlaps another or finds no
answer in store, or an answer that expires. `ChangesFollowLife` says that
`OfflineSync` implements it.

### JobQueue

The mode without Redis. `pending` is the array of waiting jobs and `due` those
whose `runAt` has passed (`Elapse`). A tick takes the due jobs at one moment
(`Tick`), then runs them one by one (`RunNext`) and awaits each handler, which
resolves or rejects; `EnqueueJob` may come between any two awaits.
`job[j].known` says whether a handler is registered. `completed` is history: the
code forgets finished jobs. Names that `OfflineSync` has as well carry `Job`
(`JobInit`, `JobNext`, `JobSpec`), since `QueueProofs` extends both.

`JobLife` sees a job as ignored, waiting, running, completed or dead, with the
attempts it was allowed and has started: `Accept` or `Ignore` enters it, `Start`
runs it when no other runs and an attempt is left, `Succeed` and `GiveUp` end
it, and `Return` sends it back to wait while attempts are left.
`JobsFollowLife` says that the array, the batch of a tick and the dead letters
implement it: taking the due jobs at one moment and splicing them out one by
one, while others are pushed, loses, repeats and overlaps none.

## 3. Runs

| run | bounds | shows |
|---|---|---|
| `ledger_races` | 3 calls, quantities 1–2; one warehouse with 3 units of which one is reserved, one without a row | `TypeOK`, `NoOverdraft`, `MovementsExplainStock`, `ReservedMatchesActive`, `MovementNumbersUnique`, `LedgerIsAccount` |
| `ledger_fair` | 2 calls, adjustments and dispatches with and without cost, two warehouses with rows, fair | `BooksOnlyCostedMovements`, `CallsEnd` |
| `count_overlap` | 4 requests, 2 at a time, 2 products, deaths, other movements | `TypeOK`, `SuccessMeansAdjusted`, `ClosedIsCounted`, `ClosedStockIsCounted` |
| `approvals_fair` | 3 calls, 3 steps of which the first and third approve themselves, deaths, fair | `TypeOK`, `ConfirmedOnlyAfterAllSteps`, `OutcomeReachesOrder`, `WorkflowIsLadder` |
| `purchase_received` | 4 requests, 2 at a time, one of them stopping; a product of which 1 is ordered and a service of which 2 are; receipts and edits of both lines, of one with the other taken back, or of the product taken back alone; with or without a warehouse | `TypeOK`, `StatusAgrees`, `ReceiptsAddUp`, `PaidIsMatched` |
| `invoice_paid` | 4 requests, 2 at a time, deaths, totals 2–3, payments of 1–2, fair | `TypeOK`, `OneReceiptInForce`, `PaidIsPayments`, `ReceiptsAgree`, `RecordsAreIssued`, `StampingEnds` |
| `journal_books` | 6 requests, 3 at a time, deaths | `TypeOK`, `BalanceIsLedger`, `OneReversalPerPosting`, `ClosedKeepsBooks`, `JournalsAreLedger` |
| `offline_replay` | 2 changes, one with media in its JSON and one a file; 2 requests of one change under way, 2 attempts, one incident: a death, a cancelled pass, a discard or two saves that overlap | `TypeOK`, `QueuedIsNotLost`, `BodiesAreWhole`, `ChangesFollowLife` |
| `jobs_fair` | 3 jobs, ticks of 2, 1 or 2 attempts, fair | `JobsTypeOK`, `EveryJobInOnePlace`, `OneUniqueWaitsFirst`, `EveryJobEnds`, `JobsFollowLife` |
| `ledger_oversold`, `complement_twice`, `offline_left_behind` | 2 calls; 4 requests, 2 at a time; 1 change | disagreements, section 4 |

They have between 72 thousand (`approvals_fair`) and 7.5 million
(`offline_replay`) distinct states, explored exhaustively.

Why the bounds are enough to be interesting:

- `ledger_races`: the races are between two transactions, and a third call is
  what makes a reservation, its release and a competing movement meet, or two
  releases of one reservation. The second warehouse lets transfers and receipts
  race to insert its row. With 3 units and quantities 1 and 2 both branches of
  every test are reachable before and after another call commits. One unit is
  reserved from the start, so that a reservation given back twice shows.
- `ledger_fair`: two rows and two calls are an opposite pair of transfers.
- `approvals_fair`: three calls are two deciders of one instance beside its
  automatic chain, two instances of one order with one decision, or a request,
  a decision and a direct approval that find each other's results.
- `purchase_received`: approving takes one of the four requests; the other three
  are two receipts that overlap and a rejection, or a receipt followed by an
  edit, a match, a waiver or a payment. Of two lines, one received in full and
  one in part, taken back or left out, receipts make an order full, partial,
  excessive or due again.
- `invoice_paid`: stamping takes one request, so that three remain: two payments
  and a cancellation, two stamps that race and their retry, two payments and
  the complement of the first. Two totals let an edit disagree with a receipt;
  payments of 1 and 2 let two instalments fill or exceed the total.
- `journal_books`: creating, posting, reversing and posting again one entry
  leaves two requests to race any of them. One amount suffices because entries
  that are missing or doubled in the balance are told apart by their number.
- `offline_replay`: two changes are needed for one to be queued while a pass
  sends the other; two attempts let a retry exist and be exhausted. One incident
  meets every state of the queue, the pass and the requests. `MaxBusy` bounds the
  changes that have requests under way at once: two requests of one change are
  what the keys must tell apart, and requests of two changes meet in the file
  alone, since the interceptor looks at one key at a time.
- `jobs_fair`: three jobs and ticks of two leave one job behind every full
  tick, and two attempts let a retry be overtaken.

`jobs_fair` does not check deadlock: a queue whose jobs have all ended rests.
The calls of `StockLedger` and `CycleCount` are interchangeable, so their runs
without liveness use symmetry. The three models with numbered calls end in
`Quiescent`, which stutters when nothing runs.

## 4. Disagreements between code and documentation

Each is a run that expects a violation; `PROJECT.json` quotes the line.

- `ledger_oversold`: the `WHERE` of the decrement tests `quantity` alone, so a
  movement can take stock reserved since its availability test.
- `complement_twice`: nothing claims a payment before its complement is asked
  for, so that two requests both find none and two complements are in force.
- `offline_left_behind`: the queue's screen says that changes synchronise by
  themselves with a connection; one that a pass leaves behind waits for the
  connection to change or for the user.

Met while modelling, and not checked by a run; each is a state some model
reaches, and the properties are worded so as to hold in spite of it:

- the unique index does not reject a second first row (`locationId` is NULL),
  so a warehouse can get two rows of one product, and a release may then take
  its quantity off the other row;
- the audited quantity before a movement is read before its row is locked;
- the comment of `closeCycleCount` (`warehouse.service.ts:1426`) says that
  products without a capture count as having no variance («se consideran sin
  varianza (no se ajustan)»); the code refuses to close while one is missing, and
  its message (line 1441) says so («Faltan … producto(s) por contar antes de
  cerrar»). `ClosedIsCounted` follows the code and the message;
- a capture can reopen a count that ended meanwhile, two closes or a retried
  close post a variance twice, and a count may be cancelled half way through
  its adjustments;
- two overlapping requests open two approval instances of one order;
- the rejection listener may cancel an order confirmed since it read it, and a
  receipt may mark a cancelled order received;
- receipts of a negative quantity that overlap others may leave an order
  `RECEIVED` that is not, since each decides on its own read; a receipt without a
  warehouse is received and invoiced although nothing is ever put in stock;
- a goods receipt that stops leaves increments without movements, and a
  supplier's invoice without its link is payable without a match;
- posting does not refuse a reversed entry, which then counts again. The trial
  balance (`accounting.service.ts:1581`) counts `POSTED` entries only, so that
  after a reversal it holds the counter-entry without the entry;
- a unique job enters the queue while another of its id is running;
- a live request that timed out and reached the server runs again from the
  queue, under a key the first did not carry; a discarded change that a pass
  already holds is still sent;
- the phone's queue «persiste en disco y reintenta al recuperar conexión»
  (`OfflineMutationQueue.kt:12`), but a death during a save loses all of it, two
  queue objects may undo each other's saves, and a pass that is cancelled leaves
  sent changes in the file without their media, to be sent again with the
  references in their bodies.

## 5. Fairness

`StockLedger` assumes weak fairness, per call, of the handler's next statement
and of the deadlock detector. The server keeps running a handler it started:
Node schedules every settled promise, and PostgreSQL answers every statement
that is not waiting for a lock; a lock wait ends when its holder ends.
PostgreSQL aborts a member of every cycle of waits (`deadlock_timeout`). No
fairness is assumed of requests arriving, of timeouts, of crashes or of a COGS
posting failing. `CallsEnd` therefore does not lean on Prisma's timeout.

`Approvals` assumes weak fairness of each call's next statement and of each
listener, for the same reason; it does not assume that requests or decisions
arrive, and a death ends the obligation (`OutcomeReachesOrder` excepts it).

`Invoices` assumes weak fairness of the next statement of each request that has
begun, the provider's answer or the adapter's timeout being one of them. How
the provider answers is free. `StampingEnds` excepts a call that died and one
the provider gave no UUID, since the code leaves both in `STAMPING`.

`JobQueue` assumes that time passes, that the interval timer keeps firing, and
that handlers settle; nothing is assumed of how they settle or of enqueue.

`OfflineSync` assumes, for `offline_left_behind` alone, that the app, its
screens and the API go on with what they have begun, and that an item is sent
if it may be sent again and again; nothing of the user or the connection. The
counterexample is a phone that stays online.

`CycleCount`, `Purchases` and `Journals` state no liveness and no fairness.

## 6. Proofs

Each proof module proves, for every value of the constants that meets its
module's `ConstantsAssumption` (which TLC evaluates in every run), an invariant
that is inductive and the properties it implies. `TypeCorrect` is
`Spec => []TypeOK` in each, `InductiveInvariant` the invariant itself; in
`QueueProofs`, which has two components, `JobsTypeCorrect` and `SyncTypeCorrect`,
`JobsInductive` and `SyncInductive`. Five refinements are proved
(`LedgerRefinesAccount`, `WorkflowClimbsLadder`, `JournalsKeepLedger`,
`QueueFollowsLife`, `SyncFollowsLife`), each from the component's invariant by
one case per action: it is a step of the abstract specification or leaves what
that specification sees unchanged.

`SumProofs` has the laws of `SumFunction` that the properties about sums need:
a sum is of integers if its values are, does not depend on the order in which
they are taken (`SumRemove`), follows a change of one value (`ChangedSum`) and a
new element (`ExtendedSum`), and is monotone (`SumMonotone`). The library's
induction theorems take an operator as parameter, which the provers cannot
instantiate; the lemmas argue instead by a minimal counterexample, a set of
least size for which the law fails, since strict inclusion of finite sets is
well founded.

`StockLedgerProofs`:

- `NeverOverdrawn`: `Spec => []NoOverdraft`;
- `NumbersNeverCollide`: `Spec => []MovementNumbersUnique`.

`NoOverdraft` speaks of committed rows and is not inductive: a commit publishes
a draft. `IInv` adds that drafts of locked rows are rows and are non-negative
(`NonNegative`), that a row without an owner has no draft (`LocksHeld`), and
that the locals a statement uses are set when control reaches it
(`LocalsReady`: a level that was found exists, a quantity is positive). The
non-negativity of a decrement comes from the `WHERE` evaluated under the lock,
not from the earlier test, and that is what the proof uses. Lemmas about the
shared steps (`WriteStep`, `RollbackStep`, `PublishStep`, `LocalStep`) carry
each action with a short case. `MovementNumbersUnique` is proved with the
numbers of calls still between drawing and committing added
(`NumbersInv`): drawn numbers are at most `folio` and pairwise different.

And about `StockAccount`, in the second part of the same module:

- `LedgerRefinesAccount`: `Spec => LedgerIsAccount`, the refinement of
  section 2. `AccountInv` says of each call and statement what its drafts are
  (`Written`): a movement that has decremented sees the committed stock with
  its quantity taken from one row it has locked (`Taken`), one that has also
  incremented sees an outcome of `Move` (`Delivered`), a reservation or release
  before its commit an outcome of `Hold` or `Free` (`Kept`, `Freed`). The row
  about to be written belongs to the warehouse the call means (`Fits`), and a
  release that has claimed its reservation is the only one and found it active
  (`Claims`). No step of another call disturbs this (`Frame`): it leaves the
  locked rows, their drafts and the claimed reservations alone, and a change of
  any other row is a change of both sides of the equation. Hence a commit,
  which publishes what its call sees, is one step of `StockAccount`, and every
  other statement changes nothing the account has (`HiddenChangesNothing`);
- `BooksAreCosted`: `Spec => []BooksOnlyCostedMovements`. `BooksInv` adds that a
  call about to post has committed a movement with a cost, and the invariant
  above that a movement is written once;
- `ReservationsCovered`: `Spec => ReservingNeverOverbooks`, which no run lists
  because `StockAccount` contains it. It comes from the refinement: of the
  account's steps only `Hold` reserves more of a row, and it holds what is
  available;
- `StockIsExplained`: `Spec => []MovementsExplainStock`, and `ReservedIsActive`:
  `Spec => []ReservedMatchesActive`. `SumsInv` adds that only finitely many rows
  were ever written (`FiniteTables`). By the refinement a commit is one step of
  the account, which changes the sums by the quantity of the movement or the
  reservation it publishes with it. Where a warehouse has one row, an active
  reservation's quantity is at most what that row has reserved, so the
  `GREATEST(..., 0)` of a release never hides a difference; with two rows it
  may, and that is why the property asks for one.

`CycleCountProofs`:

- `SuccessPostsAll`: `Spec => []SuccessMeansAdjusted`. `PostedInv` adds what a
  close in progress has posted: the variance of every product it read that is
  not in `todo`;
- `ClosedFullyCounted`: `Spec => []ClosedIsCounted`. `CountInv` adds that a
  count is fully counted from the moment a close has passed its test, and the
  proof shows why later captures cannot undo that: a capture never clears a
  quantity;
- `ClosedLeavesCounted`: `Spec => []ClosedStockIsCounted`. `StockInv` says of
  the histories it speaks of that what a call has read still holds, that the
  stock is what the count expects until a close posts the variances, one
  product at a time, and that such a close does not fail. Only finitely many
  requests run, so at most one means that any two are the same.

`ApprovalsProofs`:

- `StepsTakenInOrder`: `Spec => []StepsInOrder`. `LadderInv` adds that the step
  of a row is granted when a call is about to advance from it, and all steps
  when a call is about to complete an instance;
- `ConfirmedAfterClimb`: `Spec => []ConfirmedOnlyAfterAllSteps`. `OutcomeInv`
  adds that an instance that authorizes, an approval event on its way and a
  call that passed the gate all come after a full climb. That two deciders may
  take the same step twice, or that an order may have two instances, does not
  break it;
- `WorkflowClimbsLadder`: `Spec => WorkflowIsLadder`, the refinement of section
  2. It uses the two invariants above, that a call inserts its instance once
  and that what is on its way to cancel the order comes after a rejection
  (`EndsInv`). A statement that writes an instance changes no other
  (`InstanceWritten`): an insert or an advance changes neither which instances
  authorize nor which were rejected, and a completion that meets a rejection
  loses to it.

`JournalsProofs`:

- `ReversedOnce`: `Spec => []OneReversalPerPosting`, and `AutomaticOnce`:
  `Spec => []OneAutoEntry`, which no run lists because `GeneralLedger` contains
  it. `BooksInv` says which entry a call has read at each
  statement (`Reads`), that every reversal names an entry and no two the same
  one (`Links`), and ties the number of postings to the status and to whether
  the entry was reversed (`Postings`). The cardinality in the property is that
  of a set with at most one member, which `Links` provides;
- `ClosedPeriodKept`: `Spec => ClosedKeepsBooks`. `AloneInv` adds that, as long
  as no requests overlapped, a call about to write found the period open and
  nobody can have closed it since;
- `LedgerAddsUp`: `Spec => []BalanceIsLedger`. Each posting adds its amount
  with the entry that becomes posted, a reversal takes it with the opposite
  entry it creates. `Postings` and `Links` say that an entry never
  posted is a draft, or does not exist, so it was no part of the sum before;
- `JournalsKeepLedger`: `Spec => JournalsAreLedger`, the refinement of section 2,
  by one lemma for an insert, a posting and a reversal (`WritesEntry`,
  `PostsEntry`, `ReversesEntry`). That a claim which succeeds finds the entry as
  the abstract action asks, although it was read earlier, is `BooksInv`.

`PurchasesProofs`:

- `OrderStatus`: `Spec => []StatusAgrees`. `StatusInv` adds that, while no receipt
  took anything back, what a receipt read for the status is never more than what
  is received now (quantities only grow, so a stale read may miss a completion
  but never invent one), that alone means at most one call runs, and that its
  read is then exact and the order still open (`StillOpen`);
- `PaymentsMatched`: `Spec => []PaidIsMatched`. `MatchInv` adds, for such
  histories, that a verdict in force is about the quantities now on the invoice
  and that the call that is about to write one has read them;
- `ReceiptsCounted`: `Spec => []ReceiptsAddUp`. `CountInv` says of each line
  that there are quantities, one by call, that add up to what was received, and
  others that add up to its stock (`LineCounted`), and what they are at each
  statement of a receipt (`Counted`): nothing, or the quantity of the receipt,
  and of the stock only if there is a warehouse and the quantity is positive. A
  receipt that has stopped has counted each whole or not at all, so that some of
  the receipts explain every state, and all of them one at rest where none
  stopped.

`InvoicesProofs`:

- `NoDoubleStamp`: `Spec => []OneReceiptInForce`. `OneStamper` says that one
  call at most is between the claim and its end, that the invoice is then
  `STAMPING`, or a receipt can no longer be asked for, and that a call asks the
  provider only while no receipt for the invoice is in force: the claim keeps
  others away, and the look-up finds what an earlier call that ended without
  an answer had issued;
- `PaidInTime`: `Spec => MoneyOnlyOnLiveInvoice`, an action property that no
  run lists: `Known` says that the call that is about to commit a payment
  holds the lock and that what it read is still the row;
- `PaymentsAddUp`: `Spec => []PaidIsPayments`. `PaidInv` adds that a request
  that has not committed its payment has none (`NotYetPaid`); the lock makes
  what a payment read what it adds to;
- `RecordsGenuine`: `Spec => []RecordsAreIssued`. `RecordsInv` adds what each
  call carries from one statement to the next (`Holds`): one that has not asked
  the provider has no receipt, the UUID about to be recorded is of a receipt like
  the one that was asked for, and a cancellation names the invoice's receipt. A
  receipt is never taken back nor put in force again (`ReceiptsStand`), so
  another call's step disturbs none of this;
- `BooksAgree`: `Spec => []ReceiptsAgree`. `Together` is about the histories the
  property speaks of: every reference between the tables points to a receipt of
  what refers to it (`Linked`), the complements are numbered from 1 in every
  state, and `Facts` says what the only call that runs knows at each statement
  about a receipt that is asked for, issued and not recorded, or annulled and
  not yet cancelled. The next number is right because the payments with a
  complement and the complements are in bijection (`NextNumber`).

`QueueProofs` begins with the laws of `Subsequence`, by which both queues
select: the n-th of the positions exists and grows with n (`NthLaws`, from the
number of positions below a position and a least counterexample), so that the
result has the selected elements, in order, and repeats none if the sequence
repeats none (`SubsequenceLaws`, `DistinctSubsequence`). `RemoveFirst`, `Tail`,
`Append` and prefixes have laws of the same kind. Of `JobQueue`:

- `JobsTypeCorrect`: `JobSpec => []JobsTypeOK`; `NoJobLost`:
  `JobSpec => []EveryJobInOnePlace`; `UniqueWaitsAlone`:
  `JobSpec => []OneUniqueWaitsFirst`. `JobsInvariant` adds that waiting, dead,
  running and completed jobs are apart and are all the accepted ones, and that
  neither array nor batch repeats a job (`JobsApart`), that a job that waits has
  an attempt left and one that runs has begun one (`AttemptsCounted`), and says
  with a quantifier what `OneUniqueWaitsFirst` says with a cardinality
  (`OneFirst`);
- `AttemptsRespected`: `JobSpec => []GivenUpOnlyExhausted`, an invariant no run
  lists because `JobLife` contains it;
- `QueueFollowsLife`: `JobSpec => JobsFollowLife`, the refinement of section 2.

Of `OfflineSync`:

- `SyncTypeCorrect`: `Spec => []TypeOK`, which says also that the file has each
  change once and none out of attempts. An upsert or a removal keeps that by the
  laws of queues (`QueueReplace`, `QueueWithout`);
- `OrderlyAtMostOnce`: `Spec => []OrderlyRunsOnce`, which no run lists because
  `ChangeLife` contains it. `OneAwaited` (of the phone's
  requests with a key one at most is awaited, and the pass awaits it),
  `NewUntouched` (a change not yet made has no trace), `AnswersEarned` (a
  successful answer, on its way or in store, is of a change that ran) and
  `OneOrderly` (an orderly change has one request at most, and one that may still
  run comes before the first run or will find the answer in store);
- `QueuedKept`: `Spec => []QueuedIsNotLost`. `QueuedOnly` says that what a pass
  has finished ran, was refused or given up, so that `EndPass`, which takes those
  from a file that changed since the pass began, drops nothing else
  (`NoneLost`). A save changes the file by what it is meant to and by what is
  spoiled (`SaveFacts`), and a death during one spoils all of it;
- `MediaReachServer`: `Spec => []BodiesAreWhole`. `MediaKept` says that what is
  queued and not done in the pass under way still has its media, unless it was
  discarded, spoiled or left behind by a pass or an app that ended (`Astray`);
- `SyncFollowsLife`: `Spec => ChangesFollowLife`, the refinement of section 2.
  `Traced` adds that what a pass works on is in the file or was discarded or
  spoiled meanwhile, so that only such a change can come back, and that only
  queued changes are settled or discarded. `ChangeWrites` makes of each save one
  `Write`.

Only model-checked, and why: liveness (`CallsEnd`, `OutcomeReachesOrder`,
`StampingEnds`, `EveryJobEnds`), which needs `ENABLED`. Every other property of
the passing runs is a theorem.

## 7. Not modelled, and the plan

Not modelled because there is no protocol to check (single-row CRUD,
presentation, external devices and services): sales, quotes, payroll, vehicles,
users, news, notifications, assistant, web application, deployment. The full
list with reasons is in `PROJECT.json`.

Partly modelled components leave out, in the ledger, lots, locations, packaging
and alerts, and the value of the weighted average cost; in invoicing, the other
providers' adapters, global and recurring invoices and the CFDI's contents; in
accounting, bank reconciliation, budgets, assets, taxes and reports; in
procurement, requisitions, quotations of suppliers, cancellations of other
orders and landed costs; in the mobile applications, a full storage, the
screens, the read cache and the iOS queue. Seeding a folio counter the first time
(`folio.service.ts:61-74`) is not modelled: the counter of movements exists.

Left for the plan, in this order:

1. `ActivityLifecycle`: states, work sessions, closure and its evidence, fed by
   two devices that replay.
2. `FolioSeries`: seeding from existing documents and soft deletes;
   `FolioPool`: the second connection taken inside a transaction.
3. Delivery of outgoing webhooks (`webhooks.service.ts`) over the job queue.
4. `WeightedCost`: the average cost under overlapping receipts.
