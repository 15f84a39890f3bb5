# A1 Suite: a TLA+ verification project

A1 Suite is a business suite for one company per tenant: CRM and quotes, an
approval workflow, invoicing and receivables, payables and purchasing, stock,
payroll, documents, connectors, and the paid pilots by which clinics come to it. The server (`src/server/`) is one Node process,
Fastify routes over one SQLite database; `src/web-modern/` is a client of its
routes. This directory models the parts where money, stock, approvals,
credentials and renewals move, checks them with TLC and proves the main results with TLAPS.

Paths below are relative to `src/`; `app.js`, `db.js` and `ledger.js` stand for
`server/app.js`, `server/db.js` and `server/ledger.js`.

## How the program runs

Three facts about the code shape every module.

* **One thread.** A handler runs until it returns or awaits. `node:sqlite` is
  synchronous, so a handler that only talks to the database is not interrupted
  by another. The awaits that really yield are those on the network:
  `config.safeFetch` to a webhook endpoint or a provider.
* **Autocommit.** Most handlers open no transaction. Each SQL statement commits
  on its own, so a crash, or a statement that throws, leaves the statements
  before it. A few handlers (orders, receipts, returns, bills, stock moves) run
  inside `BEGIN ... COMMIT` and roll back as a whole.
* **Retries meet early returns.** Idempotence is written by hand: a handler
  looks for the row an earlier call would have left and returns when it is
  there. What the earlier call left undone stays undone.

In the modules, `cpu` holds the handler that is running and its next statement
(`Idle` between handlers); a request starts only when `cpu = Idle`. Handlers
suspended on the network are kept apart (`awaiting`, `attempt`). `Crash` loses
both and keeps the tables.

## Components

| Component | Code | State | What makes it correct | Modelled |
| --- | --- | --- | --- | --- |
| Receivables, bank reconciliation, collection promises | app.js 58551-59201, 62646-62790; ledger.js 264-287 | invoices, links, payments, ledger, bank rows, promises, tasks | paid means covered; revenue booked once; credits and receipts agree; nothing in closed periods; webhooks after the books | `Receivables` |
| Approvals, quotes, portal acceptance | app.js 6460-6540, 51192-51780, 54912-57437 | approvals, runs, quotes, acceptances, results | nothing without approval, at most once; invoices traceable; runs truthful | `WorkflowApprovals`, `GovernedActions` |
| Webhook delivery | app.js 51990-52255, 2852-2863 | endpoints, deliveries, attempts in flight | the log claims only what was received; every endpoint is tried | `WebhookDelivery` |
| Purchase orders, stock, bills | app.js 53104-54474, 57790-57982; procurement.js 136-182 | orders, lines, receipts, returns, quants, bills, bill payments | status follows lines; stock conserved; one bill per order | `PurchaseToPay` |
| Finance periods | app.js 6706-6764 | finance_periods | closed means frozen | in the three modules that book |
| Ledger reports, opening balances | ledger.js, accounting.js | ledger_journal | sums agree | postings only |
| Pilot launch and renewals | app.js 12740-46000 | one row per packet, with the quotes, approvals and invoices behind it | a launch is offered once and only when everything is resolved; each cycle is renewed out of a complete one | `PilotLaunch`, `PilotRenewals` |
| OAuth connections | oauthRoutes.js, smbCrmIntegration.js, lib/integrations/ | integration rows, tokens, one-shot states | a state buys one exchange; tokens are used only for the connection that asked; a disconnect leaves only what was elsewhere | `OAuthConnections` |
| Sessions, second factor, challenges | app.js 182-460, 8701-9079; db.js 9861-9892 | sessions, factors, challenges, the limiter's memory | no password-only session beside a factor; a challenge gives one session; codes are capped | `SignIn` (partly) |
| Procurement keys, landed cost | procurement.js, app.js 1016-1120 | idempotency_keys, requisitions | an action once per key | planned (`awardRfq` is modelled) |
| Documents and e-signature | app.js 4482-4700 | documents, signatures | signed content does not change | planned |
| SMB CRM automations, webhooks, outbound | smbCrm*.js | runs, outbound queue | at most once, bounded | planned |
| Workflow rules, expenses, export records | app.js 6822-6930, 7260 | one row each | versions, periods | planned with the automations |
| Tenant cache | platformTenant.js | cached answers | staleness bounded | no: a single cached answer |
| Assets, HR leave, backup, state integrations | assets.js, hr.js, lib/backup-restore.js, stateIntegrations.js | rows of their own | balances, order of restore | planned last |
| Payroll, tax returns, exports, CFO models | payroll.js, vatReturn.js, exportDocs.js, cfo.js | none of their own | arithmetic | no: pure functions, nothing concurrent |
| AI, retrieval, law ingest | copilot.js, rag.js, lawIngest.js | text | what changes state goes through approvals | no |
| Vault, access control, localisation, client, scripts | lib/vault.js, rbac.js, locale.js, web-modern/ | tables | cryptography, lookups, views | no |

How they interact: a quote asks for a release approval; its public acceptance
wins the deal and asks for an invoice approval; executing that approval drafts
an invoice in an open period; posting the draft makes the invoice, its link and
its ledger entries; receipts (direct, or converted from bank credits) set its
status, refresh the customer's total, fulfil promises and finally call the
webhooks. Purchasing runs beside it: an order, its receipts and returns move
stock, a complete order is billed, the bill is paid. All of them test the same
finance periods and write the same ledger.

A pilot is sold on top of this. Its packets are evidence: each looks at the rows
that the quote, approval and finance handlers moved and certifies what it saw;
a closed cycle is the source of the next quote. Sessions decide who may call any
of it, and OAuth connections hold the credentials of the connectors.

## Modules

**Receivables.** One action for every autocommitted statement of
`postDraftInvoice` (`PostInvoice`, `PostLink`, `PostStatus`, `PostLedger`),
`recordInvoicePayment` (`PayInvoice`/`Reconcile`, `PayStatus`, `PayRefresh`,
`PayCash`, `FulfilPromise`, `CloseTask`, `AllFulfilled`, `Notify`),
`reconcileFinanceBankTransaction` (`Reconcile`, `Settle`),
`sendCollectionReminder` (`SendReminder`, `ReminderPromise`, `UpdateTask`) and
`createCollectionPromiseForTask` (`RecordPromise`, `UpdateTask`). A receipt that
pays an invoice off awaits the webhook: it moves to `awaiting`, other requests
run, and `WebhookEnds` brings a reconciliation back. `openReceivables` is the
set of invoices summed in the cached column. All invoices have one customer and
one total; the seeded status `overdue`, event rows and audit rows are left out.

**WorkflowApprovals.** Quotes, legal questions, privacy requests, service cases
and collection tasks with the approvals that govern them. `Decide` is the
decision route; `MayExecute` the guards of the execution route; `ExecuteX` the
first statement of each action, followed by `MarkSubject`, `ClearFlag`,
`RecordRun`, `MarkExecuted`, one statement each. `Accept`, `AcceptQuote`,
`WinDeal`, `InsertApproval` are the statements of a public acceptance.
`StatementThrows` and `FirstStatementThrows` model the catch block
(`recordWorkflowRunFailure`), whose INSERT is refused by the unique index when a
run is already there; a draft whose period is closed fails as `locked` and may
be retried. Every quote has a deal of its own. Task and reply approvals exist
only as seeds (`db.js` 8977-9037), as in the program; demonstration rows that no
handler can produce (a quote seeded as sent without an approval) are left out.

**GovernedActions** is the abstract promise of that workflow: an action is
asked for, decided once, and performed at most once, after approval.
`WorkflowApprovals!GovernedOnce` is the refinement; `executed` counts as
approved, and how often something was done is read from the rows it left.

**WebhookDelivery.** An event finds the enabled endpoints, writes a delivery for
each and posts them in order; the owner may post any delivery again, whatever
its status. `Post` reads the attempt count before the await, `Record` writes the
outcome after it. `Receive` (external) is the receiver and the network: it may
accept and its answer still be lost, or time out at any moment.

**PurchaseToPay.** Orders (`CreateOrder`, `AwardOrder`, `ConfirmOrder`),
`Receive`, `Return`, `BillOrder`, `CreateBill` are one step each because the
code runs them in a transaction; `PayBill`, `PayBillStatus`, `PayBillLedger` are
three because `payFinanceBill` has none. `MoveIn` and `MoveOut` are the stock
moves that no order asks for. A reference is a number: *n* stands for the text
the server derives for the *n*-th request, and a caller may write the same text.
A repeated reference is answered or refused without a change, a stutter here.
A line of a receipt or return that fails undoes those before it by the `ROLLBACK`
of its transaction (app.js 54155, 54239); that the database does so is assumed.
Prices, average cost, `reserved_quantity` (never written) and warehouse status
(no route changes it) are left out. A period without a row counts as open for
payables and as closed for receivables, as in the code. The rows are seeded and
no route makes or deletes one: a `Period` here has its row, while
`WorkflowApprovals`, where a customer's acceptance date names the period, also
has periods that are `missing`.

**PilotLaunch.** From the installed template to the paid offer: install, owner's
brief, operator's workbench, accountant's review, readiness packet, remediation
plan, resolutions, clearance, offer. Every packet is one INSERT under a unique
key that names what it was made from, so a packet is its key here. `Install` and
`OwnerBrief` take what the connectors and invoices said at that moment as an
input, which is stored and never looked at again. Only `ResolveAction` has a
second statement (`ResolvePlan`). Gates the source always finds ready or always
blocked are named in the header.

**PilotRenewals** extends it with the commercial cycles: cycle 0 of the offer and
ten renewals, each of seven packets. The source writes them as seventy-seven
functions and tables with one control. `QuoteHandoff`, `QuoteReleasePacket`,
`QuoteAcceptanceHandoff`, `DraftInvoicePacket`, `InvoicePostingPacket`,
`PaymentCollectionPacket` and `CloseoutPacket` say what they do for cycle *n*,
and a definition under the name of each function says of which cycle it is.
`AskRelease`, `HandOver` and `InsertCloseout` are the statements behind the first
one of a handoff and of a closeout. The rows in between move by the handlers of
`WorkflowApprovals` and `Receivables`, of which this module keeps what a packet
can see: `Decide`, `ExecuteRelease`, `ExecuteInvoice`, `Accept`, `PostInvoice`,
`RecordPayment` and their later statements. Failing runs, periods, webhooks and
posts that lose their link stay with those modules. The price of a renewal
follows the receipt that the closeout names.

**OAuthConnections.** `Connect` leaves a state; `Callback` consumes it and waits
for the provider (`exchanging`); `ExchangeSucceeds` stores tokens or inserts the
row, `StoreTokens` and `MarkConnected` follow. `Refresh` reads the tokens and
waits (`refreshing`); `RefreshSucceeds` writes without another look.
`Disconnect`, `Upsert` and `RotateSecret` write the same row. The token store
keeps its envelope in the `config_json` that `GET /api/smb-crm/integrations` hands
out (`List`) and `POST` writes as it comes (`Upsert`, smbCrmIntegration.js 177): a
caller may write back any envelope it was ever `shown`, into this row or another,
write tokens of its own, or leave them out, and the status is `disconnected`
unless it says otherwise. Tokens a caller wrote are plain and are read as they are
(token-store.js 156); an envelope `Opens` only for the tenant and provider it was
sealed for. A grant remembers the state or the grant it came from; one that a
caller wrote has neither. `vault` is whether the routes were
registered with one: `app.js` registers them without, so there the callback
takes the tokens and drops them. The hourly sweep reads a field its rows lack
(scheduler.js:76) and changes nothing; it is no action.

**SignIn.** `Login` and `LoginChallenged` are the two ends of `POST /api/login`,
`Attempt` is `POST /api/login/mfa` with its limiter, `VerifiedSession` the session
behind a right code, `VerifyEnrollment` and `RetirePasswordOnly` the two
statements of an enrolment. Time is a tick counter; `hits` is memory of the
process, as attempts per challenge and tick, and a crash empties it. `tried` counts the codes compared in requests
that the limiter sees (requests from loopback pass it).

`MC*.tla` name the small constants; each `.cfg` is one run.

## Runs

| Run | Configuration | What it shows |
| --- | --- | --- |
| receivables_crash | 1 draft, 2 invoice ids, 2 periods, 2 receipts, 1 bank row, 2 promises, 1 crash; symmetry of ids and promises | what holds whatever the crash cut off, the books when the server is idle and the rest at every moment: `BooksComplete`, `PaidIsCovered`, `NotifiedHasBooks`, `RevenueBookedOnce`, `LedgerAccepts`, `ReconciledIsReceipt`, `FulfilledIsPaid`, `ClosedPeriodIsFrozen` |
| receivables_books | 2 drafts, 3 receipts, 1 bank row, no crash, fairness | `SuspendedSettles` |
| receivables_reminder | 1 promise, reminder after full payment | violated: `PaidPromiseIsKept` |
| approvals_once | a quote, a legal question, a task, 2 periods, 2 interruptions | `InvoiceHasProvenance`, `ExecutedIsDone`, `HandlersComplete`, and the refinement `GovernedOnce` |
| approvals_reviews | a question, a privacy request, a reply, a task, 1 interruption | `OwnerApproved`, `RepliesAreCrashes` |
| webhooks | 1 event, 2 endpoints, 2 retries, a crash, fairness | `DeliveredWasReceived`, `NeverOvercounts`, `DeliveredStays`, `EventReachesAll` |
| purchase_orders | an order of two lines of one item, 2 receipts, 2 returns, other moves | `TypeOK`, `StatusFollowsLines`, `EvidenceAddsUp`, `ReferencesTellApart`, `StockIsConserved`, `ThreeWayMatch` |
| payables | 2 bills, 2 periods, a reference, 2 crashes | `PayablesComplete` |
| pilot_program | 1 package, 1 connector, 1 date, all 11 cycles, no crash | `OneOfferPerPlan`, `EveryRenewalWasEarned` |
| pilot_renewals | from a plan on, 2 cycles, 3 quotes, 1 extra receipt, 1 crash, fairness | `TypeOK`, `EvidenceStaysTrue`, `RenewalsPerReceipt`, `OrphanQuotesAreCrashes`, `EveryHandoffCloses` |
| oauth | 1 tenant, 2 providers, 2 states, 1 refresh request, 3 grants, 1 crash, with and without a vault | `OneExchangePerState`, `UsedWhereAsked`, `NothingUnsealed`, `SurvivorsWereElsewhere` |
| signin | an owner, an administrator, an agent, 2 challenges, 3 tokens, 1 attempt, 3 moments, 1 crash | `PasswordOnlyIsRetired`, `OneSessionPerChallenge`, `TriesAreCapped` |

The type invariants of `PurchaseToPay` and `PilotRenewals` say more than types
(the stock of an item never goes below zero; a packet's quote and receipt are
there) and are checked by a run; those of the other modules are theorems only, as
are `DraftInOpenPeriod` and `CompletedStays` of `WorkflowApprovals`,
`ClosedPeriodIsFrozen` of `PurchaseToPay` (`payFinanceBill` tests the period and
books without an await between),
`OfferIsEarned` and `ClearedIsFinal` of `PilotLaunch`.

`BooksComplete`, `PayablesComplete`, `HandlersComplete` and `PasswordOnlyIsRetired`
speak of histories with crashes. Each bounds by their number what is left apart
when nothing runs: an invoice that was not posted or a receipt without its cash
entry, a payment without its ledger entry, an approval whose rows disagree, a user
who keeps sessions without the factor. Without a crash they say that nothing is. So
they fail for a handler that writes less than it should, for one that is cut off
and leaves more than one row behind, and for a later request that makes what a
crash left worse. `BooksComplete` also says what the cached receivables total is
good for: after receipts it counts no paid invoice and every partly paid one; an
open invoice posted since the last receipt it may miss, because a posting does not
refresh it (app.js 58876).

### What the violated run says

docs/PRODUCT_BASELINE.md:388 says that full payment moves the promise of an
invoice to fulfilled and closes its task. `sendCollectionReminder` looks neither
at the promise nor at the invoice, so a reminder sent afterwards takes the
promise back and reopens the task.

Other disagreements were met while modelling. They have no run; where a property
is named, it states what holds instead.

* A reply is sent twice when its execution dies before the run record, against
  PRODUCT_BASELINE.md:298: `RepliesAreCrashes` bounds the replies by the deaths.
* An acceptance that dies after its first row leaves an accepted quote without an
  approval, against :100, and a legal or privacy execution cut short after its
  result is completed without marking its subject, against :138:
  `HandlersComplete` bounds such approvals by the interruptions.
* Overlapping webhook attempts are counted as one, against :112 and
  test/api.test.js:22919: `NeverOvercounts`.
* A second bank credit of one text and amount is marked reconciled against the
  first receipt (app.js 58705); :401 describes a receipt per credit:
  `ReconciledIsReceipt`.
* A second receipt of a paid invoice announces `invoice_paid` again (:113 says
  first-time), and the retry route of webhooks takes deliveries that did not fail
  (:115).
* Each receipt of a paid invoice makes another collection packet, closeout and
  renewal: `RenewalsPerReceipt`. The renewal is priced by the receipt the
  closeout names, where :855 speaks of the collected amount.
* A refresh that was waiting writes tokens into a connection disconnected
  meanwhile, and a configuration written back brings those of the time it was read,
  against the comment at oauthRoutes.js:391: `SurvivorsWereElsewhere` says that
  there is no third way.

## Bounds

One of each row is enough for most questions, because handlers meet through
shared rows: two invoice ids for one draft let a crash produce the orphan and
the second post; two periods let one close while the other is used; two receipts
of 1 or 2 against a total of 2 give partial, exact and excessive payment; a bank
row and a direct payment compete for one reference; two retries overlap each
other and a first attempt; two endpoints give an order. One crash is
enough to reach what each handler leaves when it is cut off at any statement,
and to run every handler on it afterwards; two handlers cut off in one history are
explored for payables and approvals, and the proved invariants have no bound. Two
promises let the payment fulfil one before the other. A line of one and a line of two pieces of the same
item make every status reachable by more than one path; a second order would
act on the stock as `MoveIn` and `MoveOut` do. `MaxQuantity` stands for the cap
of 1,000,000 in `normalizePurchaseInteger`. `MaxReplies`, `MaxPayments`,
`MaxRequests`, `MaxStock`, `MaxCrashes`, `MaxInterrupts` and `RetryId` are the
named bounds of histories.

`PilotProgram` goes through all eleven cycles: `LastCycle` is the program's own
10 and `MaxQuotes` 11 lets each have its quote. Its package lacks the receivables
handoff and its connector may be missing, so that a plan has up to four actions.
`PilotRenewals` has two cycles, enough for a renewal to hang on a receipt of the
cycle before, with `MaxExtras` 1, a third quote for the one that a crash orphans
or a second receipt asks for, and prices of 2 and 1 against receipts of 1, so
that payments are partial, full and excessive. `OAuth` has one tenant, so
two connections: what may pass between connections, an envelope or a callback, does
so between two providers of a tenant at least as easily as between tenants, since
callbacks name only the provider. Two callbacks and a refresh overlap; `MaxGrants` 3
is two exchanges and a refresh of one of them, or tokens a caller wrote in their place. In `SignIn` the limiter remembers for two ticks and a
challenge lives for one; `MaxTime` 2 and `MaxPending` 1 bound a history, and three
tokens are the session that enrols, one beside it and one of a challenge.

Deadlock is checked except where a history may be over: in `Webhooks` when every
attempt is, in `PilotProgram` after the last cycle, in `PilotRenewals` then or in
a dead end, in `SignIn` when its ids are used up.

## Fairness

Safety is checked under `Spec` or, where a liveness property shares the run,
`FairSpec`. `Receivables!FairSpec` has weak fairness on `Statement`: a running
handler is not suspended; and strong fairness on `WebhookEnds` for each
reconciliation, because a fetch ends in the end but its continuation is ready
only between other requests. `safeFetch` sets no limit of its own; that a fetch ends rests
on the receiver, or on the runtime's own limits.
`WebhookDelivery!FairSpec` has weak fairness on the steps of the event loop
(`Deliver`, `Respond`, `Record`). No fairness is assumed there for the owner, a
customer or a crash. `PilotRenewals!RenewalSpec` has weak fairness on `Running`,
the later statements of a running handler, and on `Progress`: as long as some
request would bring a cycle on, one is made. That is an assumption about people,
not code, and the question of `EveryHandoffCloses` is whether the code lets them:
it names every state (`DeadEnd`) in which no request would.

## Proofs

Every safety invariant and every action property that a run checks is also a
theorem, for all values of the constants and for any length of history, under the
named assumptions of each module: amounts positive, bounds natural, every order
with a line, finitely many lines (`LinesAreFinite`), the subjects of different
tables distinct (`SubjectsApart`), and `None` not a value of any column
(`NoneIsNoRow`, `NoneIsNoValue`). TLC evaluates the assumptions in the runs. The
theorems listed in `PROJECT.json`:

* `SumTheorems` is the library of the others: what is added, removed, equal and
  positive about `SumFunctionOnSet`, the sum over a finite set. The sum is a
  recursive function, so each fact needs an induction; it takes the form of a
  smallest counterexample (`MinimalSubset`: the subsets of a finite set are well
  founded under inclusion). `UnrollsExists` shows that the recursion has a
  solution, which everything else needs.
* `ReceivablesProofs`: `TypeCorrect`, `FrozenPeriods`, `LedgerNeverRefuses`,
  `RevenueOnce`, `ReceiptsReconciled`, `PaidMeansCovered`, `BooksBeforeWebhooks`,
  `KeptPromisesArePaid`, `CompleteBooks`.
  `LedgerAccepts` is not inductive by itself: `PeriodInv` adds that the period of
  the running handler is open at each statement from its test on, and that what
  waits in `awaiting` has no ledger entry left. `PostingInv` adds to
  `RevenueBookedOnce` what a posting under way knows about its link.
  `ReceiptInv` adds to `ReconciledIsReceipt` that every frame that will settle a
  bank row, running or suspended, carries an existing receipt of that row.
  `PaidInv` adds that receipts are finitely many and of posted invoices, so that
  a receipt more can only raise their sum. `NotifyInv` follows a payment from its
  cash entry to the message; `PromiseInv` a promise to its task and invoice.
  `BookInv` says that there are a set of invoices and a set of receipts, lost by
  crashes and no more than these, outside of which each statement of a posting
  or a receipt still owes to the books.
* `WorkflowApprovalsProofs`: `TypeCorrect`, `NothingUnapproved`, `Provenance`,
  `ExecutedMeansDone`, `RunsStayCompleted`, `DraftsInOpenPeriods`,
  `ImplementsGovernedActions`, `RepliesAreCounted`, `HandlersLeaveNoGap`. `GovInv`
  ties every result and every execution under way to a decided approval; `ProvInv`
  adds that an invoice approval, or the handler about to insert it, has an accepted
  quote and a won deal; `DoneInv` that a completed run, or the statement about to
  record it, has its result; `ReplyInv` that a reply without a run that is not
  under way was interrupted as often as it was sent; `CompleteInv` that the approvals
  whose rows disagree beyond what the running handler has left to do (`Broken`) are at
  most the interruptions: an interruption adds one, no other step any. The refinement assumes
  `Case = {}`, since replies do break it, and maps every step to a step of
  `GovernedActions` or a stutter.
* `WebhookDeliveryProofs`: `TypeCorrect`, `DeliveriesReceived`, `DeliveriesStay`,
  `CountsAreRecorded`. `LogInv` adds that an attempt holding a success has a
  delivery the receiver accepted, so whichever attempt writes last writes the truth
  about it. `CountInv` adds that what an attempt read before its await was at most
  what had been recorded by then, which its own record exceeds.
* `PurchaseToPayProofs`: `TypeCorrect`, `StatusIsRight`, `OrdersMatchBills`,
  `FrozenPeriods`, `StockConserved`, `QuantitiesHaveEvidence`, `ReferencesApart`,
  `PayablesAgree`. `StatusFollowsLines` and `ThreeWayMatch` need each other: that
  no second bill appears follows from the status, and that a billed order keeps its
  goods from the guards of returns; `OrderInv` is their conjunction with the types
  of the rows they mention. A receipt or return changes the lines of one order in
  one step, and the stock of an item by the sum over its lines; the lemmas about
  logs say what an entry more does to such a sum. `LogsInv` is what was
  true of each reference when its request was written: a caller's was new, a derived
  one was the number of references in use and one.
  `PayablesInv` says what a payment under way still owes, and that the payments
  which no handler will book any more (`Lost`) are at most the crashes.
* `OAuthProofs`: `TypeCorrect`, `TokensWereAskedFor`, `DisconnectTakesTheRest`,
  `NothingStoredUnsealed`, `StatesAreUsedOnce`. `AskedInv` follows a grant to the
  connection its state was made for: a grant is for the connection it names,
  wherever it is held, so only where an envelope opens does it matter which row it
  lies in. `SealedInv`: without a vault nothing a provider issued is in a row, hence
  nothing to be shown. `LeftInv` adds to `SurvivorsWereElsewhere` what the statements
  between tokens and status know; it needs `SealedInv`, because a disconnect without
  a vault leaves the tokens, and they are a caller's. `OnceInv`: a state is waiting to
  be used, in one exchange, or behind one grant, never in two of them.
* `SignInProofs`: `TypeCorrect`, `FactorRetiresPasswords`, `CodesAreSpentOnce`,
  `CodesAreCapped`. `TypeOK` says besides the types that a verified session is made
  for a user with a factor; `FactorInv` counts the users whose sessions without the
  factor the running enrolment is not about to retire (`Exposed`), and these are at
  most the crashes. `CodeInv` counts the session that the running
  handler owes. `CapInv` adds to `TriesAreCapped` that, while a challenge lives,
  everything tried since the last restart is still in the limiter's memory.
* `PilotRenewalsProofs`: `OffersAreUnique`, `OffersAreEarned`, `ClearedStays`,
  `PilotTypes`, `EvidenceIsKept`, `OrphansAreFew`, `RenewedPerReceipt`,
  `RenewalsAreEarned`, over the whole program for any number of packages, dates,
  quotes, receipts and crashes; those of the renewals both from the empty tables
  and from a tenant with a plan. `ChainOK` says that a plan's evidence is there and
  does not change, so that its set of actions is fixed; `GateInv` adds that a
  cleared packet names exactly that set, which makes two cleared packets of a plan
  one; `CpuOK` that no handler of a renewal runs the statement that resolves a plan.
  `RenewalInv` is the invariant of the cycles. `RowsOK` and `Later` say that a quote
  row is well formed and only gets later, so that what a packet certified stays
  true; `HandoffsOK` that a quote has one handoff and a source is handed over once;
  `PacketsOK` that a packet has the packet before it; `ReceiptsOK` that a receipt
  that is certified beside an earlier one was counted as an extra; `RowCpu`,
  `AskCpu` and `CloseCpu` what the next statement of a running handler finds. That
  renewals are at most the receipts is an injection from handoffs to receipts; that
  every renewal was earned goes up the cycles one by one.

Only model-checked: liveness (`SuspendedSettles`, `EventReachesAll`,
`EveryHandoffCloses`), because the prover has no rule for fairness and ENABLED.

## Plan

Done: `Receivables`, `WorkflowApprovals` with `GovernedActions`,
`WebhookDelivery`, `PurchaseToPay`, `PilotLaunch`, `PilotRenewals`,
`OAuthConnections` and `SignIn`, with proofs of all their safety properties.

Next:

1. Abstract promises of more components, with their refinements: one exchange and
   one live grant per connection, receipts as a ledger that only grows, and
   `GovernedActions` with replies (each counted against an interruption).
2. `ProcurementKeys`: idempotency keys stored after the action, landed cost.
3. `DocumentSigning`, then the SMB CRM queues; assets, leave, restore and state
   integrations last.

## Not modelled

The map covers about a tenth of the implementation's lines. The rest is not
control that a model checker could explore:

* the web client (`web-modern/`, more than a third of the lines) renders and
  calls routes;
* two thirds of what `app.js` has per pilot packet, and most of its other lines,
  build the text of a row, read rows back or format an answer; a definition
  stands for the function that writes;
* reports, payroll, tax and export documents are functions of rows with nothing
  concurrent, covered by examples in `test/`;
* schemas, seeds, localisation tables, route registration and scripts have no
  behaviour of their own;
* vault cryptography, AI prompts and retrieval are data.

The components with state that are left out are those of the plan. Portal tokens,
the throttle of logins and the platform's tenant guard are left out of `SignIn`;
locations, lots and counts out of `PurchaseToPay`.

## Running

    tlc -workers 2 -config ReceivablesCrash.cfg MCReceivables
    tlapm ReceivablesProofs.tla

`PROJECT.json` lists every run with its properties, the mutant that breaks each
property, the source lines of every definition, the hazards and the theorems.
