# Formal model of the Fueled Capital invoice purchase API

TLA+ modules, model-checked instances and machine-checked proofs for this repository: how an
invoice gets into the system, how money moves on it, how payments, credit limits, fees,
onboarding and notifications follow. Paths below are relative to `src/`; paths without `apps/`
or `packages/` to `src/apps/api/src/`.

## 1. The system

| Component | State it keeps | Operations | What makes it correct |
|---|---|---|---|
| Lifecycle table (`packages/shared/src/state-machines.ts`, `enums.ts`) | none | `isLegalInvoiceTransition`, the pre-funding and exposed sets | every status change is one of the table's |
| Invoice intake (`invoices/invoices.service.ts`) | `Invoice`, `InvoiceDocument`, `Dispute` | `create`, `attachDocument`, `runExtraction(AsSystem)`, `submitForApproval`, `mcApprove`, `mcDispute`, `resolveDispute`, `underwrite`, `respondToInfoRequest`, `cancel` | one invoice per number, a disputed invoice has a dispute to resolve, no move outside the table |
| Invoice servicing (same file) | `Invoice.reserveAmount`/`reserveHold`, `ReserveHoldEvent`, `Chargeback` | `fund`, `settle`, `placeReserveHold`, `releaseReserveHold`, `chargeback`, `writeOff` | no money moves twice, what is released was held, a settled invoice is paid and not on hold |
| Ledger (`ledger/ledger.service.ts`) | `LedgerEntry`, append-only, unique idempotency key | `record` | one entry per key |
| Credit limits (`credit-limits/`) | `MachineryCompanyCreditLimit` (total, used), `CreditLimitChangeLog` | `applyDelta`, `wouldExceed`, `setLimit` | the counter is what is FUNDED; funding never exceeds the total |
| Payments (`payments/payments.service.ts`) | `Payment`, `PaymentInvoiceMatch` | `record`, `match` | a payment's status does not claim more than is matched |
| Upload and extraction (`apps/web/src/app/broker/`, `documents/`, `extraction/`, `apps/lambdas/src/ocr-extraction-trigger`) | the form's hidden fields, the bucket, `InvoiceDocument`, `InvoiceExtractionResult` | presign, PUT, `extract-preview`, `createInvoice` (three calls), S3 event | no dangling key, the form tells the truth, one document is one invoice, an upload reaches its Broker's review |
| KYB documents (`accounts/kyb-documents.controller.ts`) | `KybDocument` | upload, submit, review | a submitted document is in the bucket |
| Onboarding (`onboarding/`) and accounts (`accounts/`) | `onboardingStatus` of Brokers and Machinery Companies, `AppUser` | create, invite, `transition` | a decision follows a review, is audited before it is announced, and is announced |
| Notifications (`notifications/`) | `Notification`, an outbox of PENDING rows | `notify*`, `processPending` | SENT means sent; every row is closed; no repeats without a fault |
| Fees (`fees/`, `apps/lambdas/src/monthly-fee-run`) | `FeeTier`, `MinimumMonthlyFee`, `InvoiceFeeAccrual`, `BrokerFeeInvoice` | tiers, minimum, run for one or all Brokers, preview, issue | a month is charged once, completely, to every Broker; what is issued is final |
| Internal API and Lambdas (`internal/`, `apps/lambdas`) | none of their own | trigger extraction, send notifications, run fees, check reserve releases | retried triggers are harmless |
| Auth, audit, health, rendering, terraform | rows nothing reads, or none | - | - |

**How they interact.** A controller calls a handler of `InvoicesService`. The handler reads
the invoice and whatever else its guards need *outside* any transaction, then runs one
Prisma interactive transaction (READ COMMITTED) that calls `writeStatusChange`,
`LedgerService.record` and `CreditLimitsService.applyDelta` with the same client, and then
perhaps `notify`, after the commit. Several API replicas run against one database
(`terraform/modules/ecs-service`), so calls share nothing but its tables. The portals call the
API from server actions, one call after the other. EventBridge starts three Lambdas and S3 a
fourth; each makes one call to `internal/` and is tried again by AWS when that throws.

**What is hard.** Between a handler's reads and its transaction any other call may commit, and
`writeStatusChange` selects the invoice by id alone: it overwrites whatever the status has
become. `applyDelta` writes an absolute `currentUsed` computed from an unlocked read. Money
operations rely on idempotency keys that clients may supply. Onboarding transitions, sender
runs and the upload form's actions use no transaction at all: each is a sequence of queries or
calls that can stop anywhere. Fee runs read approvals, resolutions and prices one after the
other while all three change. `PROJECT.json` lists each of these hazards at its line with the
properties that cover it.

## 2. Modules

    Cents               rounding to whole cents
    InvoiceStatuses     the transition table (no state)
      InvoiceStore      the shared tables, calls in flight, helpers every handler uses
        InvoiceIntake     handlers up to APPROVED_FOR_FUNDING
        InvoiceServicing  handlers that move money
    Payments            recording and matching of payments
    CreditFacility      abstract specification of the credit convention
    FundingSystem       intake + servicing + payments over the shared tables; the properties
    OutboxContract      abstract specification of the notification outbox
    Outbox              notify and processPending
      Onboarding          accounts, users and transitions, which post to the outbox
    Fees                tiers, fee runs of Admins and the Lambda, issuing
    Upload              upload form, bucket, S3 event, extraction, KYB documents
    MCFunding, MCSideTables, MCAccounts, MCFees     constants and symmetry for TLC

    Sums                    sums over finite sets and their laws
    FundingSystem_proofs    types of the funding system; holds, disputes, uploads, payment statuses
    Money_proofs            the money invariants
    Servicing_proofs        without overlap: lifecycle table, holds, limit, credit log, credit
                            facility and its counters
    Payments_proofs         payment statuses on their own
    Onboarding_proofs       onboarding, outbox, the step part of the outbox contract
    Fees_proofs             accruals, completeness, finality of issued fee invoices, and what the
                            bills add up to
    Upload_proofs           documents, forms, one invoice per document

`FundingSystem`, `Onboarding`, `Fees` and `Upload` are four closed systems. They share only the
invoice's life, of which each of the last two keeps what it reads: `Fees` the months of an
invoice's approval and resolution, `Upload` its status up to the Broker's submission. An
approved account, which `create` and `mcApprove` ask for, is `onboarded` in `FundingSystem`.

### The funding system

**Calls.** A call in flight is a record in the set `calls`: the handler (`op`), the point it
has reached (`pc`), its invoice, its idempotency key, the status pair it is going to write, and
the values it read (`amount`, `row`, `found`, `used`). `Request` bounds how many are in flight
at once. A handler is as many actions as it has points between which another call can commit:

| Handler | Actions |
|---|---|
| `fund` | `FundBegin` (status guard), `FundCheck` (limit), `OpenTx` (row lock, key lookups, `currentUsed`), `Fund` (writes, commit), `Notify` |
| `settle` | `SettleBegin` (status, hold, reserve amount), `SettleCheck` (matches), `OpenTx`, `Settle` |
| `chargeback` | `ChargebackBegin`, `OpenTx`, `ChargeBack`, `Notify` |
| `writeOff` | `WriteOffBegin`, `WriteOffFind` (findFirst), `WriteOff` |
| `placeReserveHold` | `PlaceHoldBegin`, `PlaceReserveHold` |
| `releaseReserveHold` | `ReleaseHoldBegin`, `ReleaseHoldFind` (findFirst), `ReleaseReserveHold` |
| `create` | `CreateBegin` (onboarding, duplicate check), `Create` |
| `runExtraction` | `RunExtraction`, `ExtractionStarted` (first transaction), `ExtractionDone` (after the provider) |
| `underwrite` | `Underwrite`, `UnderwriteCheck` (limit, APPROVE only), `ChangeStatus`, `Notify` |
| `submitForApproval`, `mcApprove`, `respondToInfoRequest`, `cancel` | their own first action, then `ChangeStatus` (and `Notify` after a submission) |
| `mcDispute`, `resolveDispute` | `McDisputeBegin`, `McDispute`; `ResolveDisputeBegin`, `ResolveDisputeFind`, `ResolveDispute` |
| `payments.match` | `MatchOpen` (insert, sum), `MatchCommit` (status, commit), `MatchAbandon` |

`Abandon` ends a call at any point: a guard that refuses, a query or provider that throws, a
transaction rolled back, a replica lost. A transaction that has updated its invoice holds the
row (`Locked`) until it ends, so another call's write of the same invoice waits. A transaction
whose key was inserted meanwhile fails on the unique index: its commit step is disabled and
only `Abandon` remains.

**Abstractions.** An invoice that does not exist has status NONE. Amounts are whole cents,
`Rounded` is the rounding of a `Decimal(14,2)` column; a `reserveAmount` that is null is 0,
which is what `settle` makes of it. A default key such as `fund:${id}` is the pair of handler
and invoice; the suffixes `:reserve` and `:credit-limit` are the entry's type or log part.
Status history, audit rows, reasons, actors and dates are left out: no guard of these handlers
reads them. Role and ownership checks are assumed passed. Matches are kept as the two sums the
code computes.

### Onboarding and the outbox

`transition` is five kinds of query outside any transaction: `TransitionBegin` (read, both
checks), `TransitionUpdate` (by id), `TransitionAudit`, `ReadRecipients`, and one `PostNotice`
per recipient in any order (`Promise.all`). `TransitionLost` cuts it off between any two.
`processPending` is `SenderStart` (its one `findMany`), then per row `RecipientMissing`, or
`Send` and `Mark`; `SendThrows` and `SenderLost` end it with its batch unfinished. `delivered`
and `repeats` record what the provider accepted, which the table does not know; `entered` and
`lost` are history. `faults` counts, and `MaxFaults` bounds, everything that goes wrong. A user
is deleted only by hand (`RemoveUser`); `processPending` expects that.

### Fees

A run handles one Broker after the other, each in three steps: `Check` (the fee invoice of the
period is not ISSUED, and the approvals), `Read` (resolutions, tiers, minimum), `Write` (the
transaction). Where the code makes two queries between which no other step of the model matters
to the result, they are one step. The months of the model are what `startOfMonthUtc` and
`nextMonthUtc` make of dates. `Outstanding` chooses any resolution row of an invoice that has
two, because the query does not order what the `Map` then overwrites. `Ends` gives the Lambda's
invocation back to AWS: repeated after a failure, done after a success. `LambdaGivesUp` is its
timeout, after which the API goes on with the run. `readIn` is history.

### Upload

A session is one opening of the upload page, one KYB upload, or one upload by another client of
the API; its document has the key of its own uuid. `ServerStep` holds what the portal's server
does without anybody's doing: `Put`, `Preview`, then `Create`, `CreatedBare` or `Attach`,
`Extract`. `UploadFails` is any failing call before the confirmation page, which then has no
key; `CallLost` any of `createInvoice`, after which the page offers to confirm again.
`ExtractionStarted` and `ExtractionDone` are the two transactions around the OCR call.
`LambdaRefused`, `LambdaExtracts` and `LambdaTimesOut` are the S3 event's tries.

## 3. What is checked

Every run is exhaustive over its instance. Deadlock is checked in all runs of `FundingSystem`
but `side_tables`, where a request can always arrive; the other instances stop when their bounds
on transitions, faults, sessions or months are used up.

The parameters `Ops`, `PortalOnly` and `Serialised` of the funding system, `Overlap` of the
outbox and `IssueQuietly` of fees say which environment a property needs. `Serialised =
"nothing"`, `PortalOnly = FALSE`, `Overlap = TRUE` and `IssueQuietly = FALSE` are what the code
enforces. A property checked under a restriction holds only with it, and section 3.3 or a
violating run says what happens without.

### 3.1 Runs that pass

| Run | Instance | Shows |
|---|---|---|
| `money_races` | 1 approved invoice, 2 calls, any of underwrite, fund, settle, chargeback, write-off; nothing serialised | `NoDoubleEntry`, `ReleaseMatchesHold`, `ReserveAgreesWithLedger`, `WriteOffMatchesChargeback`, `FundedIsBacked`, `RestoreFollowsFunding`, `SettledIsPaid` hold although the status does not follow the table |
| `side_tables` | one of three scenes: 3 calls around holds with 4 hold events; 2 overlapping intake calls of an invoice; 2 match calls over 2 payments and 2 invoices; nothing serialised | the blocking flag never lacks an active event; a disputed invoice has an open dispute; a stale payment status errs on the low side only |
| `lifecycle` | 1 invoice from upload to its end, all 16 handlers, one call at a time, its Broker suspended and restored | `LegalMoves`, and that every handler can fire |
| `servicing` | 2 invoices of one debtor, calls overlapping across but not on an invoice, pages not trusted | `HoldBlocksSettlement`, `HoldFlagAgrees`, `ExposureFollowsStatus`, `ChargebackMatchesLedger` |
| `credit` | 3 invoices (100, 50, 50) of 2 debtors, limits missing, set to 100 or 150 and lowered, calls overlapping across but not on an account | `FundingWithinLimit`, `AdvanceAndReserveAddUp`, `CounterMatchesLog` (no counter update is lost), and that the handlers implement `CreditFacility` |
| `accounts` | 1 account and 1 user, 5 transitions of which 2 may overlap, 1 fault, batches of 2, sender runs one after another | decisions follow a review; SENT means sent; every notification is closed and every audited decision announced; the outbox implements `OutboxContract`, its liveness included |
| `fees` | 2 Brokers, 2 invoices of the first of which one is open throughout, a closed and a current month, 2 tiers, 1 Admin run beside the Lambda's, 2 tries, 1 change of prices, 1 fault, `IssueQuietly` | accruals and ledger agree, fees only and always for what was outstanding, no overcharge, run and preview agree up to rounding, what is issued stays, every Broker is billed in the end |
| `upload` | any 2 of 2 forms, a KYB upload and an API client; 2 invoice numbers, 2 tries of an event, 2 faults | no dangling key, a form that reports success tells the truth, one document is one invoice unless a call failed, a staged upload is extracted unless a call failed |

### 3.2 Runs that end in a violation

Each is of a statement the repository makes, quoted under "findings" in `PROJECT.json`.

| Run | What the code does |
|---|---|
| `overfunding` | two fundings of one account both pass the limit check before either transaction; together they exceed the limit |
| `mixed_keys` | two concurrent fund calls, one with an `idempotency-key` header and one without, disburse twice |
| `blocked_run` | a fee invoice an Admin issued early makes `runForBrokerPeriod` throw, which ends `runForAllBrokers`; every try of the Lambda meets it again, and the Brokers after it are not billed |
| `stranded_upload` | an upload whose preview failed is confirmed by hand; the form reports success, and the invoice stays UPLOADED with no document and no way on but Cancel |

### 3.3 Observed, not kept as runs

- Without `Serialised` the status does not follow the table: a `cancel` that read
  PENDING_MC_APPROVAL writes CANCELLED over a FUNDED invoice (`invoices/invoices.service.ts:560`).
- Two fundings of one account that overlap read the same `currentUsed`; one update is lost and
  the counter no longer is what is funded (`credit-limits/credit-limits.service.ts:62`, against
  :41). A hold placed after `settle` has read the invoice does not stop the settlement
  (`invoices/invoices.service.ts:501`, against `README.md:86`). An overlapping settlement and
  chargeback of one invoice both restore its exposure (:498 and :639, against `README.md:19`).
- `state-machines.ts:47` lists EXTRACTING, PENDING_UNDERWRITING and INFO_REQUESTED among the
  statuses an invoice can be withdrawn from, but the table above it has no such edge and the
  call is refused.
- Advance and reserve (`invoices/invoices.service.ts:423`) are rounded separately and can
  together exceed the invoice by a cent (`AdvanceAndReserveAddUp` has the exact bound).
- Two overlapping matches can leave a fully matched payment PARTIALLY_MATCHED.
- An extraction starts whatever the status of its invoice: a repeated or late one brings a
  submitted or CANCELLED invoice back to PENDING_BROKER_REVIEW. A replica lost during the OCR
  call leaves its invoice in EXTRACTING.
- Two onboarding transitions that read the same status both take effect, so the last one is from
  a status the account has left; a status can have changed without an audit row.
- Sender runs that overlap send the same rows twice; a late `Mark` can turn SENT into FAILED.
- The FEE_INVOICE ledger entry keeps the amount of the first run
  (`fees/fee-accrual.service.ts:125`) while later runs change the fee invoice, although
  `ledger/ledger.service.ts:18` calls the ledger "the financial system of record".
- A fee invoice issued between a run's check and its transaction is recomputed (:55). This is
  why `fees` has `IssueQuietly`.
- An invoice charged back and written off in a later month may be billed for the months in
  between, depending on which of the two rows the query returns last (:41).
- An invoice with two approval rows, which two overlapping underwriting calls can leave, counts
  twice in a month's fee (`Doubled`).

### 3.4 Bounds and why they are enough

*Funding system.* Two calls in flight exhibit every pairwise race, and each lost update and
stale guard in this code is a race of two; the holds scene has three because its invariant needs
a place between two releases. `RowId` has one more id than calls can use at once, so an older
row is always around. `ChargebackAmounts` holds a partial and the full amount. `LimitValues` and
the amounts are such that one invoice fits the limit and two do not (`overfunding`), that two fit
one value of the limit and not the other (`credit`), or that two fit (`servicing`).
`MatchAmounts` and `MaxMatched` allow a payment to be matched below, at and above its amount.
`Request` and `RowId` are symmetric: no action or property tells their members apart. The three
scenes of `side_tables` touch different tables, so an instance with all of them at once would
only be their product.

*Accounts.* Transitions of different accounts share no row, so one account and two overlapping
transitions show every race; five are enough for a rejection followed by a new review, or for an
approval, a suspension and its end. Batches of two against up to three notices make a later row
wait for earlier ones. One fault at any point is each of: a lost transition, a throwing provider
before or after the mail went out, a lost run, a deleted user.

*Fees.* One closed month and one current one are all a run can tell apart; a run and a
concurrent one (or a timed-out run and its retry) are the races of the monthly job. Two tiers
meet at 20 gallons, which two invoices of 10 reach and one does not; amounts and percentages are
chosen so that a fee has a fraction of a cent to round. The second Broker has no invoices and is
billed the minimum, and the order of the Brokers is free.

*Upload.* Two sessions at a time are all pairs of forms, KYB uploads and API clients. Two faults
let a form be confirmed three times, and an extraction be lost after another. Two tries are a
first one and a retry.

### 3.5 Fairness

Liveness assumes only what the code's scheduling gives.

- *Outbox:* `OutboxFairness` has EventBridge start a sender run again and again
  (`terraform`, `rate(5 minutes)`) and a run in flight get on. *Onboarding:* a request that has
  begun is carried on by its replica, each on its own.
- *Fees:* the month's event invokes the Lambda (cron), and runs in flight get on.
- *Upload:* the portal's server carries on what it has begun, AWS delivers an event it has
  accepted, and extractions in flight get on (the OCR provider answers or times out).

All of it is weak fairness, and all of it can be cut off by a fault: faults are bounded by
`MaxFaults`, never ruled out. Nothing is assumed of Brokers, Admins and clients: who never
confirms, reviews or issues breaks no property.

### 3.6 Mutants

For every property one edit of the model as a plausible bug would make it is kept beside the
definition it replaces, under a comment that starts "Mutant", and named in `PROJECT.json`; under
it TLC finds the property violated on the run's own instance.

## 4. What is proved

`tlapm` checks the eight proof modules to the last leaf. The theorems hold for every value of the
constants that satisfies the named assumptions of the modules: any number of invoices, debtors,
replicas, calls in flight, amounts, limits, months, tiers, sessions and faults; those of
`Servicing_proofs` for the values of `Serialised` they name, all others whatever calls overlap.

| Theorem | Statement |
|---|---|
| `TypeCorrect` | `Spec => []TypeOK` of the funding system |
| `NoMoneyMovesTwice` | no two ledger entries of one type for an invoice |
| `ReleasedAsHeld` | a release has a hold of the same amount |
| `ReserveStored` | the reserve on the invoice is the one in the ledger |
| `PartsAddUp` | advance and reserve make up the amount, or a cent more |
| `WrittenOffAsChargedBack` | a write-off repeats a chargeback's amount |
| `FundingIsBacked` | FUNDED means disbursed, held and logged |
| `CreditTakenBeforeGivenBack` | no restore without an exposure |
| `SettlementIsPaid` | SETTLED means paid and released |
| `NoEarlyNotification` | no Broker hears of money that has not moved |
| `HoldsHaveEvents` | a blocked invoice has an active hold event |
| `DisputesAreOpen` | a disputed invoice has an open dispute |
| `UploadedOnce` | no step brings an existing invoice back to UPLOADED |
| `StatusesBacked` | FULLY_MATCHED and OVERPAID are backed by committed matches, in the system |
| `MovesAreLegal` | every status change is in the lifecycle table, given `Orderly` |
| `FlagsAgree` | the hold flag stands for exactly one active event, given `Orderly` |
| `HoldsBlock` | no settled invoice has an active hold, given `Orderly` |
| `ChargebacksOnLedger` | a chargeback row agrees with its ledger entry, given `Orderly` and default keys |
| `ExposureIsLogged` | an invoice's logged deltas add up to its amount while FUNDED, to nothing otherwise, given `Orderly` and default keys |
| `FundingStaysWithin` | no step that adds exposure exceeds the total, given `Serialised = "account"` |
| `CountersMatchLog` | each counter is the sum of its account's log rows, given `Serialised = "account"`, with any client keys |
| `HandlersImplementFacility` | `Spec => ImplementsFacility`, given `Orderly`, `Serialised = "account"` and default keys |
| `CountersFollowStatuses` | each counter is the full amount of the account's FUNDED invoices, given the same |
| `PaymentsTypeCorrect`, `StatusNeverOverstated` | the same of `Payments` on its own |
| `OnboardingTypeCorrect` | type correctness of onboarding and outbox |
| `DecidedAfterReview` | APPROVED, REJECTED and SUSPENDED follow UNDER_REVIEW |
| `NoticesAreAudited` | no notification of a decision without its audit row |
| `SentMeansDelivered` | a SENT row was accepted by the provider, overlapping runs included |
| `RepeatsAreFaults` | no more repeated mails than faults, when runs do not overlap |
| `OutboxKeepsContract` | every step of the outbox is one of `OutboxContract` or a stutter, when runs do not overlap |
| `AccrualsMatchLedger` | each accrual row has its ledger entry of the same amount |
| `FeesAreOwed` | accruals only for months an invoice was outstanding in |
| `ClosedPeriodsComplete` | a month read after its end leaves no outstanding invoice out |
| `IssuedIsFinal` | an issued fee invoice never changes, given `IssueQuietly` |
| `FeesTypeCorrect` | type correctness of `Fees`, amounts included |
| `BilledWithinAccruals` | no calculated fee exceeds the accruals, each counted as often as its invoice has approval rows |
| `NobodyIsOvercharged` | no calculated fee exceeds the accruals, given `Doubled = {}` |
| `PreviewIsClose` | preview and bill differ by at most half a cent for every invoice row |
| `UploadTypeCorrect` | type correctness of `Upload` |
| `DocumentsAreStored` | no invoice or account points to a document not in the bucket |
| `FormsTellTheTruth` | what a form reports is so |
| `OneInvoiceEach` | a document on two invoices had a failed call |

The theorems of `Money_proofs` but `PartsAddUp` assume `ClientKeys = {}`, no idempotency key but
the handlers' defaults; `mixed_keys` shows that the assumption is needed. Those that need
`Overlap = FALSE`, `IssueQuietly` or `Doubled = {}` (no invoice has two approval rows; section 3.3
says what a second one does) say so, and `PartsAddUp` and `FundingStaysWithin` assume amounts that
are not negative. The sums of `Fees` need the approved invoices to be finite, hence
`IsFiniteSet(Standing)` in `FeesAssumption`: the invoices there are at first are rows of a table,
and each step approves one more. The log and the FUNDED invoices start out empty, so the funding
system needs no such assumption. `Orderly` is `Serialised # "nothing"` (calls on one invoice do not
overlap) with either `PortalOnly` or none of the seven handlers that write a status change
without having looked at the invoice's status (`Trusting`); `servicing`, `lifecycle` and `credit`
are instances of it. The code enforces none of this, and `overfunding` shows what happens
without it: the theorems say what the operators can rely on while they work one at a time.

**The argument for the money.** None of the properties is inductive: a commit step relies on what its call
read some steps earlier. `MoneyInv` adds

- `LedgerKeys`: an entry's key is the default key of the handler that writes its type. So an
  entry with the same invoice and type has the key the transaction looks up, and `record`
  either finds it or is stopped by the index (`RecordKeeps`);
- `EntryFacts`, `LogFacts`, `StatusFacts`: what each entry, log row and status has behind it;
- `CallFacts`: what a call in flight still knows. A settlement in flight knows that the reserve
  was held and, once checked, that the invoice is paid; a transaction that found a key taken
  knows that its entry exists; a call that will notify knows what it announces.

`CallFacts` survives other calls because all it mentions only grows (`Grows`, `CallFactsKept`):
the code never deletes or amends ledger entries, log rows, matches or a chargeback's amount.
That, and not the status checks, is what protects the money. Most steps are `Quiet` (they move
no money and enter no money status) and are handled by one lemma; `Fund`, `Settle`,
`ChargeBack`, `WriteOff` and `Notify` each have their own. `MoneyInv` was model-checked on the
instance of `money_races` before it was proved.

**Holds, disputes and uploads.** `SideInv` adds that row ids are unique and that a row a call
has found belongs to the call's own invoice (`RowFacts`), which stays true because rows are
never removed or moved to another invoice. A release that closes the row it found clears the
flag of that same invoice in the same transaction; a resolution leaves MC_DISPUTED in the
transaction that closes its row. Only `mcDispute` writes MC_DISPUTED and only `create` writes
UPLOADED; `UploadedOnce` then follows from the unique index in `Create`.

**Without overlap.** `OrderInv` adds to `SideInv` that no two calls in flight are of one invoice
(`Alone`) and, for each call, that its invoice still has the status the call's pair starts from,
that a call to settle or to place a hold finds the flag down, and that a release has found the
only active event (`OrderFacts`); and for each invoice that the flag is up whenever there is an
active event, that there is at most one, and that a settled invoice has the flag down
(`HoldOrder`). A step of one invoice's call leaves all of this alone for the other invoices
(`OthersKept`), so each handler is an argument about its own invoice. `BookInv` joins `OrderInv`
and `MoneyInv` and adds that the status shows what is in the log and the ledger (`BookFacts`):
with the exposure logged the invoice is FUNDED or beyond, with the restore logged it is closed.
Statuses only advance (`StatusesAdvance`, from `MovesAreLegal`'s lemma), so a transaction, whose
invoice still has the status it started from, finds its keys free (`NothingFound`): `record` and
`applyDelta` never return early. `LimitInv` says the same of accounts: no two calls of one
debtor, the counter a transaction read is still the counter, and the limit checked before the
transaction still has room. `BookInv /\ LimitInv` then gives, step by step, that `Fund` is
`Expose`, `Settle` and `ChargeBack` are `Restore`, `SetLimit` is `SetTotal`, and every other step
leaves the facility alone.

**Sums.** The properties about totals fold a function over a set (`MapThenSumSet`). The induction
theorems of the library are out of reach, so `Sums` proves the laws of such a sum by a smallest
counterexample: the strict subset order on finite sets is well founded
(`FS_StrictSubsetOrderingWellFounded`), so among the subsets for which a law fails there is one
none of whose proper subsets does (`SmallestSubset`); taking one element out of it gives a
contradiction. In this way the fold is shown to be defined (`RecursionExists`,
`RecursionUnique`), independent of the order in which it takes the elements (`SumTakenOut`),
monotone, additive and homogeneous (`SumMonotone`, `SumPlus`, `SumScale`), and to grow with its
set (`SumGrows`).

**The credit log and the counters.** `ExposureInv` adds to `BookInv` that an invoice has at most
one log row of each part, that the two have opposite deltas of its full amount, and that a closed
invoice has both (`ExposureFacts`). The first holds because a commit finds its key free and the
status rules out an earlier row (`CommitAddsOne`), the last because only `Settle` and `ChargeBack`
enter the closed statuses (`OnlyCommitsClose`). An invoice's log is then empty, one row or two, and
`ExposureIsLogged` is the sum in each case. `LogInv` needs neither the statuses nor the default
keys: with calls on one account apart, the value `applyDelta` read is still the counter
(`LimitFacts`), and the row it appends is new because the unique index would have stopped it
otherwise, so counter and log move by the same delta (`ApplyDeltaKeepsLog`).
`CountersFollowStatuses` is about the abstract facility: each `Expose` and `Restore` moves one
invoice into or out of the exposed set and the counter by that invoice's amount
(`FacilityKeepsSums`), and `FacilityStep` says that every step of the handlers is such a step.

**Payments.** A match call sums what is committed and its own row. Since matches are never
removed, the sum it read is at most what is matched after its commit (`TotalsKept`), so the
status it computes from the sum can be too low, never too high.

**Onboarding and the outbox.** `OnboardingInv` is `OutboxInv` (the rows of a run are in the
table, and one whose answer was yes is in `delivered`), `OwnInv` and `NoticeIsAudited`. `OwnInv`
says of a transition in flight (`TransitionFacts`) that its number is not reused, that it is in
`audited` once it reads its recipients, and that UNDER_REVIEW was entered if it is to a decision;
and of the past (`History`) that every status an account has had is on record, no decision
without a review. `entered` only grows, which is why an overwritten status does not disturb what
a transition in flight knows. With `Overlap = FALSE`, `AloneInv` adds that there is one run at
most, that all it still has to do is PENDING, and that the `Loose` rows, delivered, still PENDING
and at no run, were left by a fault each. From it follow `RepeatsAreFaults` and that `Mark` is a
`CloseLetter`.

**Fees.** `FeesInv` is the types in parts (`WorldOK`, `PricesOK`, `BooksOK`, `AttemptsOK`),
`RunFacts` (an invoice a run holds was approved by the end of its period and, once the
resolutions are read, outstanding in it; a run that read after the period misses none that
surely was), `FeesWhileOutstanding` and `ClosedPeriodComplete`. What a run has read stays true
because months only advance, an approval is never moved, and a resolution in a later month does
not change that an invoice was outstanding in an earlier one. `QuietInv`, for `IssueQuietly`,
adds that no run past its check is at an issued fee invoice.

`FiguresInv` is about the amounts: that every approved invoice is one of finitely many
(`ApprovedFinite`), that the invoices of a run are its Broker's (`RunOwns`), and that each
calculated fee is at most the accruals of its Broker and month (`BilledAtMost`). A transaction
writes the accruals of the invoices it read, at the prices it read, and the fee invoice with their
sum, so the two agree at that moment (`TransactionWrites`); any later run replaces accruals only
together with the fee invoice, and those of further invoices only add to the right-hand side
(`TotalGrows`, `BilledKept`). `PreviewIsClose` compares two sums term by term: each accrual is
within half a cent of what it is rounded from (`FeeIsRounded`), the sum of as many rows within
as many half cents (`RowIsClose`, `TotalBound`), and the minimum, applied to both, brings them no
further apart (`MinimumKeepsClose`).

**Upload.** `UploadInv` adds to the type invariant that a call under way names an invoice
(`NamesKnown`), that a key is handed on only once its object is stored (`KeysStored`), that an
invoice is with the one form that created it, at every point of `createInvoice` (`HeldOnce`: the
unique index), and that a document is on its form's invoice only unless a fault sent the form
back (`OwnInvoice`).

**Only proved.** `CounterFollowsStatus` follows from the refinement the `credit` run checks, and
`NoticeIsAudited` is a conjunct of the inductive `OnboardingInv`; no run repeats them.

**Only model-checked.** Every invariant and every action property the runs check is a theorem;
what is left to TLC is liveness, which is out of the prover's reach with `ENABLED`:
`EveryNoticeHandled`, `DecisionAnnounced`, `EveryBrokerBilled`, `StagedUploadReviewed`, and the
fairness half of `ImplementsOutbox`. The conditions of the theorems are not proved of the code,
which enforces none of them: the violating runs and section 3.3 show what happens without.

## 5. Not modelled

Authentication, roles and ownership (checks without state; every model starts from a caller the
guards accept). Rendering, dashboards, statements and exports (reads). The reserve release check
of `internal/` (a read of invoices and matches, and `notifyAllAdmins`, whose only caller it is).
Audit rows other than those of onboarding (written in the transaction of the change they record,
or next to a fee tier; nothing reads them) and the health endpoint. What a document says and how
the OCR provider reads it. Infrastructure, of which the models take that several replicas run,
the Lambdas' schedules and retries, and which uploads raise an S3 event.

## 6. Plan

Done: the funding system with its proofs; onboarding and the outbox with its contract; fees;
upload and extraction; their proofs, those about sums included.

Left, in this order:

1. A reference definition of the tier table (`gallonsFrom`, `gallonsTo` without gaps or overlap,
   which no handler enforces) and what `findTierForGallons` promises against it.
2. The reserve release check, once it does more than notify.
