-------------------------------- MODULE Fees --------------------------------
(***************************************************************************)
(* FeeAccrualService and FeeTiersService: the monthly fee run.             *)
(*                                                                         *)
(* A run bills one Broker, or every Broker in turn, for one period.  For   *)
(* each Broker it checks that the fee invoice of the period is not issued, *)
(* reads the approvals, the resolutions and the prices, outside of any     *)
(* transaction, and then writes accruals, fee invoice and ledger in one.   *)
(* The first refusal or error ends the whole run.  Two queries that follow *)
(* each other and read what no step relates are one step here.             *)
(*                                                                         *)
(* Time is kept in months: all that the run compares.  startOfMonthUtc     *)
(* and nextMonthUtc make period p the month p.                             *)
(***************************************************************************)
EXTENDS Cents, FiniteSets, FiniteSetsExt

CONSTANTS
  Invoice, Broker,
  Owner,          \* the Broker of an invoice
  Amount,         \* its totalAmount, in cents
  Gallons,        \* its gallons
  Standing,       \* invoices outstanding in every month there is
  Doubled,        \* invoices whose approval has two status-history rows
  LastMonth,      \* bound: the clock stops here
  Tier,           \* FeeTier rows that may be created
  From, To, Pct,  \* their gallonsFrom, gallonsTo, and feePct in thousandths
  Minimums,       \* minimum monthly fees an Admin may set
  OpeningTiers,   \* the tiers active at first
  MaxChanges,     \* bound on changes of tiers and minimum
  Slot,           \* slots for runs in flight
  MaxRuns,        \* bound on the runs Admins ask for
  Tries,          \* how often the monthly Lambda is invoked before it is left
  MaxFaults,      \* bound on runs cut off
  IssueQuietly,   \* an Admin issues only what the monthly run is done with
  NoFee

ASSUME FeesAssumption ==
  /\ Owner \in [Invoice -> Broker]
  /\ Amount \in [Invoice -> Nat] /\ Gallons \in [Invoice -> Nat]
  /\ Standing \subseteq Invoice /\ Doubled \subseteq Invoice
  /\ IsFiniteSet(Standing)
  /\ LastMonth \in Nat \ {0}
  /\ From \in [Tier -> Nat] /\ To \in [Tier -> Nat] /\ Pct \in [Tier -> Nat]
  /\ Minimums \subseteq Nat
  /\ OpeningTiers \subseteq Tier
  /\ MaxChanges \in Nat /\ MaxRuns \in Nat
  /\ Tries \in Nat /\ MaxFaults \in Nat
  /\ IssueQuietly \in BOOLEAN
  /\ NoFee \notin Nat

Month == 1..LastMonth

VARIABLES
  now,           \* the current month
  approvedIn,    \* month of an invoice's APPROVED_FOR_FUNDING row, 0 if none
  resolvedIn,    \* months of its SETTLED, CHARGED_BACK, WRITTEN_OFF rows
  tiers,         \* the active FeeTier rows
  minimum,       \* the current minimum monthly fee
  changes,       \* how often they have been changed
  accrued,       \* feeAmount of an InvoiceFeeAccrual row
  accrualEntry,  \* amount of the FEE_ACCRUAL ledger entry
  feeInvoice,    \* the BrokerFeeInvoice table
  invoiceEntry,  \* amount of the FEE_INVOICE ledger entry
  runs,          \* the fee runs in flight
  asked,         \* number of runs Admins have asked for
  attempts,      \* invocations of the monthly Lambda still to come
  faults         \* runs cut off so far

world  == <<now, approvedIn, resolvedIn>>
prices == <<tiers, minimum, changes>>
books  == <<accrued, accrualEntry, feeInvoice, invoiceEntry>>
vars   == <<world, prices, books, runs, asked, attempts, faults>>

Fee == Nat \cup {NoFee}

(* A fee invoice; readIn is history: the month its figures were read in.   *)
FeeInvoice == [status: {"NONE", "DRAFT", "ISSUED"}, calculated: Nat,
               total: Nat, readIn: 0..LastMonth]

NoInvoice == [status |-> "NONE", calculated |-> 0, total |-> 0, readIn |-> 0]

(* A run: the Brokers still to bill, the one it is at, what it is about to *)
(* do, and what it has read.                                               *)
Run == [slot: Slot, lambda: BOOLEAN, period: Month,
        todo: SUBSET Broker, broker: Broker,
        pc: {"check", "read", "write"},
        invoices: SUBSET Invoice, pct: Nat, min: Nat, readIn: 0..LastMonth]

FeesTypeOK ==
  /\ now \in Month
  /\ approvedIn \in [Invoice -> 0..LastMonth]
  /\ resolvedIn \in [Invoice -> SUBSET Month]
  /\ tiers \subseteq Tier /\ minimum \in Nat /\ changes \in 0..MaxChanges
  /\ accrued \in [Invoice \X Month -> Fee]
  /\ accrualEntry \in [Invoice \X Month -> Fee]
  /\ feeInvoice \in [Broker \X Month -> FeeInvoice]
  /\ invoiceEntry \in [Broker \X Month -> Fee]
  /\ runs \subseteq Run
  /\ asked \in Nat /\ attempts \in 0..Tries
  /\ faults \in 0..MaxFaults

Init ==
  /\ now = 1
  /\ approvedIn = [i \in Invoice |-> IF i \in Standing THEN 1 ELSE 0]
  /\ resolvedIn = [i \in Invoice |-> {}]
  /\ tiers = OpeningTiers /\ minimum = 0 /\ changes = 0
  /\ accrued = [x \in Invoice \X Month |-> NoFee]
  /\ accrualEntry = [x \in Invoice \X Month |-> NoFee]
  /\ feeInvoice = [x \in Broker \X Month |-> NoInvoice]
  /\ invoiceEntry = [x \in Broker \X Month |-> NoFee]
  /\ runs = {} /\ asked = 0 /\ attempts = 0 /\ faults = 0

-----------------------------------------------------------------------------
(* The clock and the invoices.                                             *)

(* A month ends: EventBridge has its fees run.  The attempts are over long *)
(* before the next month is.                                               *)
Tick ==
  /\ now < LastMonth /\ attempts = 0
  /\ now' = now + 1
  /\ attempts' = Tries
  /\ UNCHANGED <<approvedIn, resolvedIn, prices, books, runs, asked, faults>>

Approve(i) ==
  /\ approvedIn[i] = 0
  /\ approvedIn' = [approvedIn EXCEPT ![i] = now]
  /\ UNCHANGED <<now, resolvedIn, prices, books, runs, asked, attempts, faults>>

(* Settled, or charged back.                                               *)
Resolve(i) ==
  /\ approvedIn[i] # 0 /\ resolvedIn[i] = {} /\ i \notin Standing
  /\ resolvedIn' = [resolvedIn EXCEPT ![i] = {now}]
  /\ UNCHANGED <<now, approvedIn, prices, books, runs, asked, attempts, faults>>

(* What was charged back is written off in a later month.                  *)
WriteOff(i) ==
  /\ \E m \in Month : resolvedIn[i] = {m} /\ m < now
  /\ resolvedIn' = [resolvedIn EXCEPT ![i] = @ \cup {now}]
  /\ UNCHANGED <<now, approvedIn, prices, books, runs, asked, attempts, faults>>

-----------------------------------------------------------------------------
(* FeeTiersService.                                                        *)

Changes == changes < MaxChanges /\ changes' = changes + 1

CreateTier(t) ==
  /\ Changes /\ t \notin tiers
  /\ tiers' = tiers \cup {t}
  /\ UNCHANGED <<world, minimum, books, runs, asked, attempts, faults>>

DeactivateTier(t) ==
  /\ Changes /\ t \in tiers
  /\ tiers' = tiers \ {t}
  /\ UNCHANGED <<world, minimum, books, runs, asked, attempts, faults>>

(* The row created last is the one getCurrentMinimumMonthlyFee finds.      *)
SetMinimumMonthlyFee(x) ==
  /\ Changes /\ minimum' = x
  /\ UNCHANGED <<world, tiers, books, runs, asked, attempts, faults>>

(* The bands the volume falls into; To is 0 where gallonsTo is null.       *)
Matching(gallons) ==
  {t \in tiers : gallons >= From[t] /\ (To[t] = 0 \/ gallons < To[t])}

(* findTierForGallons: the first match in order of gallonsFrom, any of     *)
(* those that start alike; no band costs nothing.                          *)
FeePcts(gallons) ==
  IF Matching(gallons) = {} THEN {0}
  ELSE {Pct[t] : t \in {u \in Matching(gallons) :
                          \A v \in Matching(gallons) : From[u] <= From[v]}}

(* Mutant: the fee is cut off to the cent.                                 *)
FeeCutOff(amount, pct) == (amount * pct) \div 100000

FeeOf(amount, pct) == Rounded(amount * pct, 100000)
-----------------------------------------------------------------------------
(* A fee run.                                                              *)

Copies(i) == IF i \in Doubled THEN 2 ELSE 1

(* The sum of f over the rows the approvals query joins to these invoices. *)
Total(S, f) == MapThenSumSet(LAMBDA i : Copies(i) * f[i], S)

Free(s) == \A r \in runs : r.slot # s

Blank(slot, lambda, period, todo, broker) ==
  [slot |-> slot, lambda |-> lambda, period |-> period, todo |-> todo,
   broker |-> broker, pc |-> "check", invoices |-> {}, pct |-> 0, min |-> 0,
   readIn |-> 0]

Starts(lambda, period, todo, broker) ==
  /\ \E s \in Slot : Free(s)
  /\ runs' = runs \cup
       {Blank(CHOOSE s \in Slot : Free(s), lambda, period, todo, broker)}

(* An Admin asks for one Broker or for all.  The form takes any date; a    *)
(* bound here is that months to come are not run.                          *)
AdminRuns(period, brokers) ==
  /\ asked < MaxRuns
  /\ period <= now
  /\ brokers = Broker \/ Cardinality(brokers) = 1
  /\ \E b \in brokers : Starts(FALSE, period, brokers, b)
  /\ asked' = asked + 1
  /\ UNCHANGED <<world, prices, books, attempts, faults>>

(* The Lambda bills every Broker for the month before this one.            *)
LambdaRuns ==
  /\ attempts > 0
  /\ \A r \in runs : ~ r.lambda
  /\ \E b \in Broker : Starts(TRUE, now - 1, Broker, b)
  /\ UNCHANGED <<world, prices, books, asked, attempts, faults>>

Becomes(r, q) == runs' = (runs \ {r}) \cup {q}

(* Mutant: whatever the answer, the month is not run again.                *)
EndsForGood(r, failed) ==
  /\ runs' = runs \ {r}
  /\ attempts' = IF r.lambda THEN 0 ELSE attempts

(* Mutant: an Admin's run counts against the Lambda's attempts.            *)
EndsForAll(r, failed) ==
  /\ runs' = runs \ {r}
  /\ attempts' = IF failed THEN attempts - 1 ELSE 0

(* A failed invocation is repeated, a successful one is not.               *)
Ends(r, failed) ==
  /\ runs' = runs \ {r}
  /\ attempts' = IF ~ r.lambda THEN attempts
                 ELSE IF failed THEN attempts - 1 ELSE 0

Issued(b, p) == feeInvoice[b, p].status = "ISSUED"

(* Mutant: the query is not bounded by the end of the period.              *)
ApprovedEver(r) ==
  {i \in Invoice : Owner[i] = r.broker /\ approvedIn[i] # 0}

(* The approvals of the Broker's invoices up to the end of the period.     *)
ApprovedFor(r) ==
  {i \in Invoice : Owner[i] = r.broker /\ approvedIn[i] \in 1..r.period}

ReadApprovals(r) ==
  Becomes(r, [r EXCEPT !.pc = "read", !.invoices = ApprovedFor(r),
                       !.readIn = now])

(* Mutant: an issued fee invoice is recomputed.                            *)
CheckNothing(r) ==
  /\ r.pc = "check"
  /\ ReadApprovals(r) /\ UNCHANGED attempts
  /\ UNCHANGED <<world, prices, books, asked, faults>>

(* One issued fee invoice ends the run for the Brokers still to come.      *)
Check(r) ==
  /\ r.pc = "check"
  /\ IF Issued(r.broker, r.period) THEN Ends(r, TRUE)
     ELSE ReadApprovals(r) /\ UNCHANGED attempts
  /\ UNCHANGED <<world, prices, books, asked, faults>>

(* Mutant: what is resolved later on is left out of the months before.     *)
OutstandingNow(r, S) == S = {i \in r.invoices : resolvedIn[i] = {}}

(* The Map keeps one resolution row of an invoice, and the query does not  *)
(* order them: any one of a chargeback and its write-off.                  *)
Outstanding(r, S) ==
  /\ S \subseteq r.invoices
  /\ \A i \in S : \/ resolvedIn[i] = {}
                  \/ \E m \in resolvedIn[i] : m >= r.period
  /\ \A i \in r.invoices \ S : \E m \in resolvedIn[i] : m < r.period

Volume(S) == Total(S, Gallons)

Read(r) ==
  /\ r.pc = "read"
  /\ \E S \in SUBSET r.invoices :
       /\ Outstanding(r, S)
       /\ \E pct \in FeePcts(Volume(S)) :
            Becomes(r, [r EXCEPT !.pc = "write", !.invoices = S,
                                 !.pct = pct, !.min = minimum])
  /\ UNCHANGED <<world, prices, books, asked, attempts, faults>>

(* Mutant: the upsert updates the row to the price of the day.             *)
FeeOfTheDay(r, i) == FeeOf(Amount[i], r.pct)

(* The upsert of an accrual never updates a row that is there.             *)
FeeIn(r, i) ==
  IF accrued[i, r.period] # NoFee THEN accrued[i, r.period]
  ELSE FeeOf(Amount[i], r.pct)

Billed(r) == r.invoices \X {r.period}

(* Mutant: the fees of the day are summed, not those accrued.              *)
CalculatedToday(r) ==
  Total(r.invoices, [i \in r.invoices |-> FeeOfTheDay(r, i)])

Calculated(r) == Total(r.invoices, [i \in r.invoices |-> FeeIn(r, i)])

(* The minimum is billed where the fee falls short of it.                  *)
AtLeast(min, fee) == IF fee < min THEN min ELSE fee

WriteBooks(r) ==
  LET b     == <<r.broker, r.period>>
      total == AtLeast(r.min, Calculated(r))
  IN  /\ accrued' = [x \in DOMAIN accrued |->
           IF x \in Billed(r) THEN FeeIn(r, x[1]) ELSE accrued[x]]
      /\ accrualEntry' = [x \in DOMAIN accrualEntry |->
           IF x \in Billed(r) /\ accrualEntry[x] = NoFee
           THEN FeeIn(r, x[1]) ELSE accrualEntry[x]]
      /\ feeInvoice' = [feeInvoice EXCEPT ![b] =
           [status |-> IF @.status = "NONE" THEN "DRAFT" ELSE @.status,
            calculated |-> Calculated(r), total |-> total, readIn |-> r.readIn]]
      /\ invoiceEntry' = [invoiceEntry EXCEPT ![b] =
           IF @ = NoFee THEN total ELSE @]

(* The transaction, and the loop's next Broker.                            *)
Write(r) ==
  /\ r.pc = "write"
  /\ WriteBooks(r)
  /\ IF r.todo = {r.broker} THEN Ends(r, FALSE)
     ELSE \E b \in r.todo \ {r.broker} :
            /\ Becomes(r, Blank(r.slot, r.lambda, r.period,
                                r.todo \ {r.broker}, b))
            /\ UNCHANGED attempts
  /\ UNCHANGED <<world, prices, asked, faults>>

(* A query throws, the transaction is rolled back or the replica dies.     *)
RunLost(r) ==
  /\ faults < MaxFaults
  /\ Ends(r, TRUE)
  /\ faults' = faults + 1
  /\ UNCHANGED <<world, prices, books, asked>>

(* The Lambda's call times out; the API goes on with the run.              *)
LambdaGivesUp(r) ==
  /\ faults < MaxFaults
  /\ r.lambda
  /\ Becomes(r, [r EXCEPT !.lambda = FALSE])
  /\ attempts' = attempts - 1
  /\ faults' = faults + 1
  /\ UNCHANGED <<world, prices, books, asked>>

(* markIssued, unguarded.  IssueQuietly is how an Admin had better use it. *)
MarkIssued(b, p) ==
  /\ feeInvoice[b, p].status # "NONE"
  /\ IssueQuietly => /\ p < now /\ (p < now - 1 \/ attempts = 0)
                     /\ \A r \in runs : r.period # p
  /\ feeInvoice' = [feeInvoice EXCEPT ![<<b, p>>].status = "ISSUED"]
  /\ UNCHANGED <<world, prices, accrued, accrualEntry, invoiceEntry, runs,
                 asked, attempts, faults>>

RunStep(r) == Check(r) \/ Read(r) \/ Write(r)

SomeRun == \E r \in runs : RunStep(r)

Next ==
  \/ Tick
  \/ \E i \in Invoice : Approve(i) \/ Resolve(i) \/ WriteOff(i)
  \/ \E t \in Tier : CreateTier(t) \/ DeactivateTier(t)
  \/ \E x \in Minimums : SetMinimumMonthlyFee(x)
  \/ \E p \in Month, brokers \in SUBSET Broker : AdminRuns(p, brokers)
  \/ LambdaRuns
  \/ \E r \in runs : RunStep(r) \/ RunLost(r) \/ LambdaGivesUp(r)
  \/ \E b \in Broker, p \in Month : MarkIssued(b, p)

(* EventBridge invokes the Lambda, and a run in flight gets on.            *)
Spec == Init /\ [][Next]_vars /\ WF_vars(LambdaRuns) /\ WF_vars(SomeRun)

-----------------------------------------------------------------------------
(* The ledger, the system of record, has each accrual at the amount of its *)
(* row, whatever the prices and runs did since.                            *)
AccrualMatchesLedger == accrualEntry = accrued

(* An invoice is billed for a month only if it was approved by the end of  *)
(* it and not yet resolved for good when it began, though approvals and    *)
(* resolutions are read at different times and written later still.        *)
FeesWhileOutstanding ==
  \A i \in Invoice, p \in Month : accrued[i, p] # NoFee =>
    /\ approvedIn[i] \in 1..p
    /\ resolvedIn[i] = {} \/ \E m \in resolvedIn[i] : m >= p

(* A fee invoice whose figures were read after its month was over leaves   *)
(* out no invoice that was outstanding in it.                              *)
ClosedPeriodComplete ==
  \A b \in Broker, p \in Month, i \in Invoice :
    /\ feeInvoice[b, p].readIn > p
    /\ Owner[i] = b /\ approvedIn[i] \in 1..p
    /\ \A m \in resolvedIn[i] : m >= p
    => accrued[i, p] # NoFee

(* A Broker is never billed more than the accruals of its invoices, or the *)
(* minimum, whichever runs overlap and whatever was accrued before.        *)
NeverOvercharged ==
  \A b \in Broker, p \in Month :
    feeInvoice[b, p].calculated <=
      MapThenSumSet(LAMBDA i : accrued[i, p],
        {i \in Invoice : Owner[i] = b /\ accrued[i, p] # NoFee})

(* calculateFee, what the preview shows an Admin for a volume, at the      *)
(* prices a run has read, in cents / 100000.                               *)
EstimatedFee(r) ==
  AtLeast(r.min * 100000, Total(r.invoices, Amount) * r.pct)

(* A month that has not been accrued before is billed what the preview     *)
(* shows, up to half a cent for every invoice row: the run rounds each     *)
(* accrual, the preview nothing.                                           *)
PreviewAgrees ==
  \A r \in runs :
    LET billed == 100000 * AtLeast(r.min, Calculated(r))
        slack  == 50000 * Total(r.invoices, [i \in r.invoices |-> 1])
    IN  r.pc = "write" /\ (\A x \in Billed(r) : accrued[x] = NoFee) =>
          /\ billed <= EstimatedFee(r) + slack
          /\ EstimatedFee(r) <= billed + slack

(* An issued fee invoice "can no longer be recomputed".                    *)
IssuedFinal ==
  [][\A b \in Broker, p \in Month :
       Issued(b, p) => feeInvoice'[b, p] = feeInvoice[b, p]]_vars

(* Once a month is over every Broker gets its fee invoice, by as many      *)
(* attempts as it takes.                                                   *)
EveryBrokerBilled ==
  \A p \in Month \ {LastMonth} :
    (now > p) ~> \A b \in Broker : feeInvoice[b, p].status # "NONE"
=============================================================================
