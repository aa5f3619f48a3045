------------------------------ MODULE Fees_proofs ------------------------------
(***************************************************************************)
(* What the fee accruals promise, for any Brokers, invoices, prices and    *)
(* months, however many runs overlap and are cut off: first what holds     *)
(* whatever the amounts are, then what the sums over the invoices come to. *)
(***************************************************************************)
EXTENDS Fees, Sums

(* The invoices' part of the state, and the clock's.                       *)
WorldOK ==
  /\ now \in Month
  /\ approvedIn \in [Invoice -> 0..LastMonth]
  /\ resolvedIn \in [Invoice -> SUBSET Month]
  /\ \A i \in Invoice :
       approvedIn[i] <= now /\ \A m \in resolvedIn[i] : m <= now

PricesOK == tiers \subseteq Tier /\ minimum \in Nat

(* A row of the fee invoices read by month n, whatever its status and      *)
(* amounts.                                                                *)
RowOK(row, n) ==
  \E s, c, t : \E m \in 0..n :
    row = [status |-> s, calculated |-> c, total |-> t, readIn |-> m]

BooksOK ==
  /\ accrued \in [Invoice \X Month -> Fee]
  /\ accrualEntry = accrued
  /\ \A i \in Invoice, p \in Month : accrued[i, p] # NoFee => p <= now
  /\ DOMAIN feeInvoice = Broker \X Month
  /\ \A x \in Broker \X Month : RowOK(feeInvoice[x], now)

(* Invoice i was outstanding in month p.                                   *)
WasOutstanding(i, p) ==
  approvedIn[i] \in 1..p /\ (resolvedIn[i] = {} \/ \E m \in resolvedIn[i] : m >= p)

(* It is still to be found outstanding by who reads its only resolution.   *)
SurelyOutstanding(i, p) ==
  approvedIn[i] \in 1..p /\ \A m \in resolvedIn[i] : m >= p

(* What a run has read stays true: an approval is for good, and what is    *)
(* resolved later is no reason to leave a month out.                       *)
RunFacts(r) ==
  /\ r \in Run /\ r.period <= now /\ r.readIn <= now
  /\ r.pc = "read" => \A i \in r.invoices : approvedIn[i] \in 1..r.period
  /\ r.pc = "write" => \A i \in r.invoices : WasOutstanding(i, r.period)
  /\ r.pc \in {"read", "write"} /\ r.readIn > r.period =>
       \A i \in Invoice :
         Owner[i] = r.broker /\ SurelyOutstanding(i, r.period)
           => i \in r.invoices

(* The Lambda is only invoked once a month is over.                        *)
AttemptsOK == attempts \in Int /\ (attempts > 0 => now > 1)

FeesInv ==
  /\ WorldOK /\ PricesOK /\ BooksOK /\ AttemptsOK
  /\ \A r \in runs : RunFacts(r)
  /\ FeesWhileOutstanding /\ ClosedPeriodComplete

-----------------------------------------------------------------------------
LEMMA FeesInit == Init => FeesInv
<1> SUFFICES ASSUME Init PROVE FeesInv
  OBVIOUS
<1>1. LastMonth \in Nat /\ LastMonth # 0 /\ NoFee \notin Nat
  BY FeesAssumption DEF FeesAssumption
<1>2. WorldOK
  BY <1>1 DEF Init, WorldOK, Month
<1>3. PricesOK
  BY FeesAssumption DEF FeesAssumption, Init, PricesOK
<1>4. BooksOK
  <2>1. 0 \in 0..now
    BY DEF Init
  <2>2. RowOK(NoInvoice, now)
    BY <2>1 DEF RowOK, NoInvoice
  <2>3. QED
    BY <2>2 DEF Init, BooksOK, Fee
<1>5. FeesWhileOutstanding
  BY DEF Init, FeesWhileOutstanding
<1>6. ClosedPeriodComplete
  <2> SUFFICES ASSUME NEW b \in Broker, NEW p \in Month
               PROVE  ~ feeInvoice[b, p].readIn > p
    BY DEF ClosedPeriodComplete
  <2>1. feeInvoice[b, p] = NoInvoice /\ NoInvoice.readIn = 0
    BY DEF Init, NoInvoice
  <2>2. p \in Nat
    BY DEF Month
  <2> DEFINE n == feeInvoice[b, p].readIn
  <2>3. n = 0
    BY <2>1
  <2> HIDE DEF n
  <2>4. ~ n > p
    BY <2>2, <2>3
  <2>5. QED
    BY <2>4 DEF n
<1>7. AttemptsOK
  BY DEF Init, AttemptsOK
<1>8. QED
  BY <1>2, <1>3, <1>4, <1>5, <1>6, <1>7 DEF Init, FeesInv

-----------------------------------------------------------------------------
(* The world goes on: the clock does not go back, an approval stays, and   *)
(* only this month's approvals and resolutions are added.                  *)
WorldGoesOn ==
  /\ WorldOK /\ WorldOK' /\ now <= now'
  /\ \A i \in Invoice :
       /\ approvedIn[i] # 0 => approvedIn'[i] = approvedIn[i]
       /\ approvedIn[i] = 0 => approvedIn'[i] \in {0, now}
       /\ resolvedIn[i] \subseteq resolvedIn'[i]
       /\ \A m \in resolvedIn'[i] \ resolvedIn[i] : m = now

LEMMA WorldSteps ==
  ASSUME FeesInv, [Next]_vars
  PROVE  WorldGoesOn
<1>1. LastMonth \in Nat /\ WorldOK
  BY FeesAssumption DEF FeesAssumption, FeesInv
<1>2. CASE UNCHANGED world
  BY <1>1, <1>2 DEF world, WorldOK, WorldGoesOn, Month
<1>3. CASE Tick
  BY <1>1, <1>3 DEF Tick, WorldOK, WorldGoesOn, Month
<1>4. ASSUME NEW i \in Invoice, Approve(i) PROVE WorldGoesOn
  BY <1>1, <1>4 DEF Approve, WorldOK, WorldGoesOn, Month
<1>5. ASSUME NEW i \in Invoice, Resolve(i) PROVE WorldGoesOn
  BY <1>1, <1>5 DEF Resolve, WorldOK, WorldGoesOn, Month
<1>6. ASSUME NEW i \in Invoice, WriteOff(i) PROVE WorldGoesOn
  BY <1>1, <1>6 DEF WriteOff, WorldOK, WorldGoesOn, Month
<1>7. ASSUME NEW t \in Tier, CreateTier(t) \/ DeactivateTier(t)
      PROVE  UNCHANGED world
  BY <1>7 DEF CreateTier, DeactivateTier
<1>8. ASSUME \/ \E x \in Minimums : SetMinimumMonthlyFee(x)
             \/ \E p \in Month, brokers \in SUBSET Broker : AdminRuns(p, brokers)
             \/ LambdaRuns
      PROVE  UNCHANGED world
  BY <1>8 DEF SetMinimumMonthlyFee, AdminRuns, LambdaRuns
<1>9. ASSUME NEW r \in runs, RunStep(r) \/ RunLost(r) \/ LambdaGivesUp(r)
      PROVE  UNCHANGED world
  BY <1>9 DEF RunStep, Check, Read, Write, RunLost, LambdaGivesUp
<1>10. ASSUME NEW b \in Broker, NEW p \in Month, MarkIssued(b, p)
       PROVE  UNCHANGED world
  BY <1>10 DEF MarkIssued
<1>11. CASE UNCHANGED vars
  BY <1>2, <1>11 DEF vars
<1>12. QED
  BY <1>2, <1>3, <1>4, <1>5, <1>6, <1>7, <1>8, <1>9, <1>10, <1>11 DEF Next

-----------------------------------------------------------------------------
(* Months, and what they are compared with, are numbers.                   *)
LEMMA MonthsAreNumbers == Month \subseteq Nat /\ Month \subseteq 0..LastMonth
  BY FeesAssumption DEF FeesAssumption, Month

LEMMA WorldIsNumbers ==
  ASSUME WorldGoesOn
  PROVE  /\ now \in Nat /\ now' \in Nat /\ now <= now'
         /\ approvedIn \in [Invoice -> Nat] /\ approvedIn' \in [Invoice -> Nat]
         /\ \A i \in Invoice :
              resolvedIn[i] \subseteq Nat /\ resolvedIn'[i] \subseteq Nat
  BY FeesAssumption DEF FeesAssumption, WorldGoesOn, WorldOK, Month

(* An invoice that was outstanding in a month of the past has been so      *)
(* forever after, and one that is surely so has been all along.            *)
LEMMA OutstandingStays ==
  ASSUME WorldGoesOn, NEW i \in Invoice, NEW p \in Nat
  PROVE  /\ approvedIn[i] \in 1..p => approvedIn'[i] \in 1..p
         /\ p <= now /\ WasOutstanding(i, p) => WasOutstanding(i, p)'
         /\ p < now /\ SurelyOutstanding(i, p)' => SurelyOutstanding(i, p)
<1>1. /\ now \in Nat /\ approvedIn \in [Invoice -> Nat]
      /\ approvedIn' \in [Invoice -> Nat]
      /\ resolvedIn[i] \subseteq Nat /\ resolvedIn'[i] \subseteq Nat
  BY WorldIsNumbers
<1>2. /\ approvedIn[i] # 0 => approvedIn'[i] = approvedIn[i]
      /\ approvedIn[i] = 0 => approvedIn'[i] \in {0, now}
      /\ resolvedIn[i] \subseteq resolvedIn'[i]
      /\ \A m \in resolvedIn'[i] \ resolvedIn[i] : m = now
  BY DEF WorldGoesOn
<1>3. approvedIn[i] \in 1..p => approvedIn'[i] \in 1..p
  BY <1>1, <1>2
<1>4. ASSUME p <= now, WasOutstanding(i, p) PROVE WasOutstanding(i, p)'
  BY <1>1, <1>2, <1>3, <1>4 DEF WasOutstanding
<1>5. ASSUME p < now, SurelyOutstanding(i, p)' PROVE SurelyOutstanding(i, p)
  BY <1>1, <1>2, <1>5 DEF SurelyOutstanding
<1>6. QED
  BY <1>3, <1>4, <1>5

(* What a run knows stays true while the world goes on.                    *)
LEMMA RunFactsStay ==
  ASSUME WorldGoesOn, NEW r, RunFacts(r)
  PROVE  RunFacts(r)'
<1>1. /\ now \in Nat /\ now' \in Nat /\ now <= now'
      /\ r \in Run /\ r.period \in Nat /\ r.readIn \in Nat
      /\ r.invoices \subseteq Invoice
      /\ r.period <= now /\ r.readIn <= now
  BY WorldIsNumbers, FeesAssumption DEF FeesAssumption, RunFacts, Run, Month
<1>2. r.period <= now' /\ r.readIn <= now'
  BY <1>1
<1>3. r.pc = "read" => \A i \in r.invoices : approvedIn'[i] \in 1..r.period
  BY <1>1, OutstandingStays DEF RunFacts
<1>4. r.pc = "write" => \A i \in r.invoices : WasOutstanding(i, r.period)'
  BY <1>1, OutstandingStays DEF RunFacts
<1>5. r.readIn > r.period => \A i \in Invoice :
        SurelyOutstanding(i, r.period)' => SurelyOutstanding(i, r.period)
  BY <1>1, OutstandingStays
<1>6. QED
  BY <1>1, <1>2, <1>3, <1>4, <1>5 DEF RunFacts

(* A run about to check a Broker knows nothing yet.                        *)
LEMMA BlankFacts ==
  ASSUME WorldOK, NEW s \in Slot, NEW lambda \in BOOLEAN,
         NEW p \in Month, p <= now, NEW todo \in SUBSET Broker, NEW b \in Broker
  PROVE  RunFacts(Blank(s, lambda, p, todo, b))
<1> DEFINE r == Blank(s, lambda, p, todo, b)
<1>1. r \in Run /\ r.period = p /\ r.readIn = 0 /\ r.pc = "check"
  BY FeesAssumption DEF FeesAssumption, Blank, Run, Month
<1>2. now \in Nat
  BY DEF WorldOK, Month
<1> HIDE DEF r
<1>3. RunFacts(r)
  BY <1>1, <1>2 DEF RunFacts
<1>4. QED
  BY <1>3 DEF r

(* Starting a run takes a slot that is free.                               *)
LEMMA StartFacts ==
  ASSUME WorldOK, NEW lambda \in BOOLEAN, NEW p \in Month, p <= now,
         NEW todo \in SUBSET Broker, NEW b \in Broker, Starts(lambda, p, todo, b)
  PROVE  \A r \in runs' : r \in runs \/ RunFacts(r)
<1>1. (CHOOSE s \in Slot : Free(s)) \in Slot
  BY DEF Starts
<1>2. QED
  BY <1>1, BlankFacts DEF Starts

(* The fee percentage is of one of the tiers, or 0.                        *)
LEMMA PctIsNatural ==
  ASSUME PricesOK, NEW gallons, NEW pct \in FeePcts(gallons)
  PROVE  pct \in Nat
  BY FeesAssumption DEF FeesAssumption, PricesOK, FeePcts, Matching

(* The two reads.                                                          *)
LEMMA CheckFacts ==
  ASSUME FeesInv, NEW r \in runs, Check(r), NEW q \in runs', q \notin runs
  PROVE  RunFacts(q)
<1>1. /\ r \in Run /\ RunFacts(r) /\ WorldOK
      /\ now \in Nat /\ now \in 0..LastMonth
  BY FeesAssumption DEF FeesAssumption, FeesInv, RunFacts, WorldOK, Month
<1>2. q = [r EXCEPT !.pc = "read", !.invoices = ApprovedFor(r), !.readIn = now]
  BY DEF Check, Ends, ReadApprovals, Becomes
<1>3. ApprovedFor(r) \subseteq Invoice
  BY DEF ApprovedFor
<1>4. /\ q \in Run /\ q.pc = "read" /\ q.invoices = ApprovedFor(r)
      /\ q.readIn = now /\ q.period = r.period /\ q.broker = r.broker
  BY <1>1, <1>2, <1>3 DEF Run
<1>5. QED
  BY <1>1, <1>4 DEF RunFacts, ApprovedFor, SurelyOutstanding

LEMMA ReadFacts ==
  ASSUME FeesInv, NEW r \in runs, Read(r), NEW q \in runs', q \notin runs
  PROVE  RunFacts(q)
<1>1. r \in Run /\ RunFacts(r) /\ r.pc = "read" /\ PricesOK /\ WorldOK
  BY DEF FeesInv, RunFacts, Read
<1>2. PICK S \in SUBSET r.invoices :
        /\ Outstanding(r, S)
        /\ \E pct \in FeePcts(Volume(S)) :
             Becomes(r, [r EXCEPT !.pc = "write", !.invoices = S,
                                  !.pct = pct, !.min = minimum])
  BY DEF Read
<1>3. PICK pct \in FeePcts(Volume(S)) :
        q = [r EXCEPT !.pc = "write", !.invoices = S, !.pct = pct,
                      !.min = minimum]
  BY <1>2 DEF Becomes
<1>4. pct \in Nat /\ minimum \in Nat
  BY <1>1, PctIsNatural DEF PricesOK
<1>5. /\ q \in Run /\ q.pc = "write" /\ q.invoices = S
      /\ q.readIn = r.readIn /\ q.period = r.period /\ q.broker = r.broker
  BY <1>1, <1>3, <1>4 DEF Run
<1>6. \A i \in S : WasOutstanding(i, r.period)
  BY <1>1, <1>2 DEF Outstanding, RunFacts, WasOutstanding
<1>7. r.period \in Nat /\ \A i \in Invoice : resolvedIn[i] \subseteq Nat
  BY <1>1 DEF Run, Month, WorldOK
<1>8. \A i \in r.invoices : SurelyOutstanding(i, r.period) => i \in S
  <2> SUFFICES ASSUME NEW i \in r.invoices \ S, SurelyOutstanding(i, r.period)
               PROVE  FALSE
    OBVIOUS
  <2>1. PICK m \in resolvedIn[i] : m < r.period
    BY <1>2 DEF Outstanding
  <2>2. m >= r.period /\ i \in Invoice
    BY <1>1 DEF SurelyOutstanding, Run
  <2>3. QED
    BY <1>7, <2>1, <2>2
<1>9. QED
  BY <1>1, <1>5, <1>6, <1>8 DEF RunFacts

-----------------------------------------------------------------------------
(* The transaction of a run.                                               *)

LEMMA FeeIsNatural ==
  ASSUME NEW amount \in Nat, NEW pct \in Nat
  PROVE  FeeOf(amount, pct) \in Nat
<1>1. \A x, y \in Nat : x * y \in Nat
  OBVIOUS
<1>2. \A n \in Nat : Rounded(n, 100000) \in Nat
  BY DEF Rounded
<1>3. QED
  BY <1>1, <1>2 DEF FeeOf

(* An accrual once written stays at its amount; the run's are written.     *)
LEMMA AccrualsWritten ==
  ASSUME FeesInv, NEW r \in runs, WriteBooks(r)
  PROVE  /\ accrued' \in [Invoice \X Month -> Fee]
         /\ accrualEntry' = accrued'
         /\ \A i \in Invoice, p \in Month :
              /\ i \in r.invoices /\ p = r.period => accrued'[i, p] # NoFee
              /\ accrued'[i, p] = accrued[i, p]
                   \/ (i \in r.invoices /\ p = r.period)
<1>1. r \in Run /\ BooksOK /\ NoFee \notin Nat
  BY FeesAssumption DEF FeesAssumption, FeesInv, RunFacts
<1>2. ASSUME NEW i \in r.invoices
      PROVE  FeeIn(r, i) \in Nat /\ <<i, r.period>> \in Invoice \X Month
  <2>1. /\ i \in Invoice /\ r.pct \in Nat /\ r.period \in Month
        /\ Amount[i] \in Nat
    BY <1>1, FeesAssumption DEF FeesAssumption, Run
  <2>2. accrued[i, r.period] \in Fee
    BY <1>1, <2>1 DEF BooksOK
  <2>3. QED
    BY <2>1, <2>2, FeeIsNatural DEF FeeIn, Fee
<1>3. \A x \in Billed(r) : x[1] \in r.invoices /\ x = <<x[1], r.period>>
  BY DEF Billed
<1>4. accrued' = [x \in Invoice \X Month |->
                    IF x \in Billed(r) THEN FeeIn(r, x[1]) ELSE accrued[x]]
  BY <1>1 DEF WriteBooks, BooksOK
<1>5. accrued' \in [Invoice \X Month -> Fee]
  BY <1>1, <1>2, <1>3, <1>4 DEF BooksOK, Fee
<1>6. accrualEntry' = accrued'
  <2>1. accrualEntry' = [x \in Invoice \X Month |->
          IF x \in Billed(r) /\ accrued[x] = NoFee
          THEN FeeIn(r, x[1]) ELSE accrued[x]]
    BY <1>1 DEF WriteBooks, BooksOK
  <2>2. ASSUME NEW x \in Billed(r), accrued[x] # NoFee
        PROVE  FeeIn(r, x[1]) = accrued[x]
    BY <1>3, <2>2 DEF FeeIn
  <2>3. QED
    BY <1>4, <2>1, <2>2
<1>7. ASSUME NEW i \in Invoice, NEW p \in Month
      PROVE  /\ i \in r.invoices /\ p = r.period => accrued'[i, p] # NoFee
             /\ accrued'[i, p] = accrued[i, p]
                  \/ (i \in r.invoices /\ p = r.period)
  <2>1. <<i, p>> \in Billed(r) <=> i \in r.invoices /\ p = r.period
    BY DEF Billed
  <2>2. QED
    BY <1>1, <1>2, <1>4, <2>1
<1>8. QED
  BY <1>5, <1>6, <1>7

(* The run's fee invoice has the run's month; the others stay.             *)
LEMMA FeeInvoiceWritten ==
  ASSUME FeesInv, NEW r \in runs, Write(r)
  PROVE  /\ DOMAIN feeInvoice' = Broker \X Month
         /\ \A x \in Broker \X Month :
              /\ RowOK(feeInvoice'[x], now') /\ now' = now
              /\ x # <<r.broker, r.period>> => feeInvoice'[x] = feeInvoice[x]
              /\ x = <<r.broker, r.period>> =>
                   feeInvoice'[x].readIn = r.readIn
<1>1. r \in Run /\ BooksOK /\ r.readIn \in 0..now /\ now' = now
  <2>1. r \in Run /\ RunFacts(r) /\ BooksOK /\ WorldOK /\ now' = now
    BY DEF FeesInv, RunFacts, Write, world
  <2>2. QED
    BY <2>1 DEF RunFacts, Run, WorldOK, Month
<1> DEFINE b == <<r.broker, r.period>>
           row == [status |-> IF feeInvoice[b].status = "NONE" THEN "DRAFT"
                              ELSE feeInvoice[b].status,
                   calculated |-> Calculated(r),
                   total |-> AtLeast(r.min, Calculated(r)),
                   readIn |-> r.readIn]
<1>2. feeInvoice' = [feeInvoice EXCEPT ![b] = row]
  BY DEF Write, WriteBooks
<1>3. RowOK(row, now) /\ row.readIn = r.readIn
  BY <1>1 DEF RowOK
<1>4. b \in Broker \X Month
  BY <1>1 DEF Run
<1> HIDE DEF b, row
<1>5. /\ DOMAIN feeInvoice' = Broker \X Month
      /\ \A x \in Broker \X Month :
           feeInvoice'[x] = IF x = b THEN row ELSE feeInvoice[x]
  BY <1>1, <1>2, <1>4 DEF BooksOK
<1>6. QED
  BY <1>1, <1>3, <1>5 DEF b, BooksOK

(* What is billed for is and stays outstanding, and what was outstanding   *)
(* to the end of a month that was over is billed for.                      *)
LEMMA WritingKeeps ==
  ASSUME FeesInv, NEW r \in runs, Write(r)
  PROVE  BooksOK' /\ FeesWhileOutstanding' /\ ClosedPeriodComplete'
<1>1. /\ RunFacts(r) /\ r.pc = "write" /\ WriteBooks(r) /\ BooksOK
      /\ UNCHANGED <<now, approvedIn, resolvedIn>>
  BY DEF FeesInv, Write, world
<1>2. BooksOK'
  <2>1. r.period <= now
    BY <1>1 DEF RunFacts
  <2>2. \A i \in Invoice, p \in Month : accrued'[i, p] # NoFee => p <= now
    BY <1>1, <2>1, AccrualsWritten DEF BooksOK
  <2>3. QED
    BY <1>1, <2>2, AccrualsWritten, FeeInvoiceWritten DEF BooksOK
<1>3. FeesWhileOutstanding'
  <2> SUFFICES ASSUME NEW i \in Invoice, NEW p \in Month, accrued'[i, p] # NoFee
               PROVE  /\ approvedIn[i] \in 1..p
                      /\ resolvedIn[i] = {} \/ \E m \in resolvedIn[i] : m >= p
    BY <1>1 DEF FeesWhileOutstanding
  <2>1. CASE i \in r.invoices /\ p = r.period
    BY <1>1, <2>1 DEF RunFacts, WasOutstanding
  <2>2. CASE accrued'[i, p] = accrued[i, p]
    BY <2>2 DEF FeesInv, FeesWhileOutstanding
  <2>3. QED
    BY <1>1, <2>1, <2>2, AccrualsWritten
<1>4. ClosedPeriodComplete'
  <2> SUFFICES ASSUME NEW b \in Broker, NEW p \in Month, NEW i \in Invoice,
                      feeInvoice'[b, p].readIn > p,
                      Owner[i] = b, SurelyOutstanding(i, p)
               PROVE  accrued'[i, p] # NoFee
    BY <1>1 DEF ClosedPeriodComplete, SurelyOutstanding
  <2>1. CASE <<b, p>> = <<r.broker, r.period>>
    <3>1. r.readIn > r.period
      BY <2>1, FeeInvoiceWritten
    <3>2. i \in r.invoices
      BY <1>1, <2>1, <3>1 DEF RunFacts
    <3>3. QED
      BY <1>1, <2>1, <3>2, AccrualsWritten
  <2>2. CASE <<b, p>> # <<r.broker, r.period>>
    <3>1. feeInvoice'[b, p] = feeInvoice[b, p]
      BY <2>2, FeeInvoiceWritten
    <3>2. accrued[i, p] # NoFee
      BY <3>1 DEF FeesInv, ClosedPeriodComplete, SurelyOutstanding
    <3>3. QED
      BY <1>1, <3>2, AccrualsWritten
  <2>3. QED
    BY <2>1, <2>2
<1>5. QED
  BY <1>2, <1>3, <1>4

LEMMA Between ==
  ASSUME NEW k \in Nat, NEW n \in 0..k, NEW p \in Nat, n > p
  PROVE  p < k
  OBVIOUS

(* Other steps write no accrual and no figures.                            *)
FiguresStay ==
  /\ UNCHANGED <<accrued, accrualEntry>>
  /\ DOMAIN feeInvoice' = DOMAIN feeInvoice
  /\ \A x \in Broker \X Month :
       \E s : feeInvoice'[x] = [feeInvoice[x] EXCEPT !.status = s]

LEMMA FiguresKeep ==
  ASSUME FeesInv, WorldGoesOn, FiguresStay
  PROVE  BooksOK' /\ FeesWhileOutstanding' /\ ClosedPeriodComplete'
<1>1. now \in Nat /\ now' \in Nat /\ now <= now'
  BY WorldIsNumbers
<1>2. ASSUME NEW x \in Broker \X Month
      PROVE  /\ RowOK(feeInvoice'[x], now')
             /\ feeInvoice'[x].readIn = feeInvoice[x].readIn
             /\ feeInvoice[x].readIn \in 0..now
  <2>1. PICK s, c, a : \E m \in 0..now :
          feeInvoice[x] =
            [status |-> s, calculated |-> c, total |-> a, readIn |-> m]
    BY DEF FeesInv, BooksOK, RowOK
  <2>2. PICK m \in 0..now :
          feeInvoice[x] =
            [status |-> s, calculated |-> c, total |-> a, readIn |-> m]
    BY <2>1
  <2>3. PICK s1 : feeInvoice'[x] = [feeInvoice[x] EXCEPT !.status = s1]
    BY DEF FiguresStay
  <2>4. feeInvoice'[x] =
          [status |-> s1, calculated |-> c, total |-> a, readIn |-> m]
    BY <2>2, <2>3
  <2>5. m \in 0..now'
    BY <1>1, <2>2
  <2>6. feeInvoice[x].readIn = m /\ feeInvoice'[x].readIn = m
    BY <2>2, <2>4
  <2>7. RowOK(feeInvoice'[x], now')
    BY <2>4, <2>5 DEF RowOK
  <2>8. QED
    BY <2>2, <2>6, <2>7
<1>3. BooksOK'
  <2>1. \A p \in Month : p <= now => p <= now'
    BY <1>1 DEF Month
  <2>2. QED
    BY <1>2, <2>1 DEF FeesInv, BooksOK, FiguresStay
<1>4. FeesWhileOutstanding'
  <2> SUFFICES ASSUME NEW i \in Invoice, NEW p \in Month, accrued[i, p] # NoFee
               PROVE  WasOutstanding(i, p)'
    BY DEF FiguresStay, FeesWhileOutstanding, WasOutstanding
  <2>1. WasOutstanding(i, p)
    BY DEF FeesInv, FeesWhileOutstanding, WasOutstanding
  <2>2. p \in Nat /\ p <= now
    BY MonthsAreNumbers DEF FeesInv, BooksOK
  <2>3. QED
    BY <2>1, <2>2, OutstandingStays
<1>5. ClosedPeriodComplete'
  <2> SUFFICES ASSUME NEW b \in Broker, NEW p \in Month, NEW i \in Invoice,
                      feeInvoice'[b, p].readIn > p,
                      Owner[i] = b, SurelyOutstanding(i, p)'
               PROVE  accrued[i, p] # NoFee
    BY DEF FiguresStay, ClosedPeriodComplete, SurelyOutstanding
  <2> DEFINE n == feeInvoice[b, p].readIn
  <2>1. n \in 0..now /\ n > p /\ p \in Nat
    BY <1>2, MonthsAreNumbers
  <2> HIDE DEF n
  <2>2. p < now
    BY <1>1, <2>1, Between, Zenon
  <2>3. SurelyOutstanding(i, p)
    BY <2>1, <2>2, OutstandingStays
  <2>4. QED
    BY <2>1, <2>3 DEF n, FeesInv, ClosedPeriodComplete, SurelyOutstanding
<1>6. QED
  BY <1>3, <1>4, <1>5

(* Issuing what is issued changes nothing of the row.                      *)
LEMMA IssuedAlready ==
  ASSUME NEW row, NEW s, NEW c, NEW a, NEW m,
         row = [status |-> s, calculated |-> c, total |-> a, readIn |-> m],
         row.status = "ISSUED"
  PROVE  [row EXCEPT !.status = "ISSUED"] = row
  OBVIOUS

(* The tables of the books change in a run's transaction, and where an     *)
(* Admin issues a fee invoice.                                             *)
LEMMA BooksSteps ==
  ASSUME [Next]_vars
  PROVE  \/ UNCHANGED books
         \/ \E r \in runs : Write(r)
         \/ \E b \in Broker, p \in Month : MarkIssued(b, p)
<1>1. CASE Tick \/ LambdaRuns \/ UNCHANGED vars
  BY <1>1 DEF Tick, LambdaRuns, vars
<1>2. ASSUME NEW i \in Invoice, Approve(i) \/ Resolve(i) \/ WriteOff(i)
      PROVE  UNCHANGED books
  BY <1>2 DEF Approve, Resolve, WriteOff
<1>3. ASSUME NEW t \in Tier, CreateTier(t) \/ DeactivateTier(t)
      PROVE  UNCHANGED books
  BY <1>3 DEF CreateTier, DeactivateTier
<1>4. ASSUME \/ \E x \in Minimums : SetMinimumMonthlyFee(x)
             \/ \E p \in Month, brokers \in SUBSET Broker : AdminRuns(p, brokers)
      PROVE  UNCHANGED books
  BY <1>4 DEF SetMinimumMonthlyFee, AdminRuns
<1>5. ASSUME NEW r \in runs, Check(r) \/ Read(r) \/ RunLost(r) \/ LambdaGivesUp(r)
      PROVE  UNCHANGED books
  BY <1>5 DEF Check, Read, RunLost, LambdaGivesUp
<1>6. QED
  BY <1>1, <1>2, <1>3, <1>4, <1>5 DEF Next, RunStep

(* The steps that are not a run's transaction.                             *)
LEMMA FiguresStaying ==
  ASSUME FeesInv, [Next]_vars, ~ \E r \in runs : Write(r)
  PROVE  FiguresStay
<1>1. CASE UNCHANGED books
  <2>1. \A x \in Broker \X Month :
          feeInvoice[x] = [feeInvoice[x] EXCEPT !.status = feeInvoice[x].status]
    BY DEF FeesInv, BooksOK, RowOK
  <2>2. QED
    BY <1>1, <2>1 DEF books, FiguresStay
<1>2. ASSUME NEW b \in Broker, NEW p \in Month, MarkIssued(b, p)
      PROVE  FiguresStay
  <2>1. \A x \in Broker \X Month : \E s :
          feeInvoice'[x] = [feeInvoice[x] EXCEPT !.status = s]
    <3> SUFFICES ASSUME NEW x \in Broker \X Month
                 PROVE  \E s : feeInvoice'[x] = [feeInvoice[x] EXCEPT !.status = s]
      OBVIOUS
    <3>1. CASE x = <<b, p>>
      BY <1>2, <3>1 DEF MarkIssued, FeesInv, BooksOK
    <3>2. CASE x # <<b, p>>
      <4>1. feeInvoice'[x] = feeInvoice[x]
        BY <1>2, <3>2 DEF MarkIssued, FeesInv, BooksOK
      <4>2. feeInvoice[x] = [feeInvoice[x] EXCEPT !.status = feeInvoice[x].status]
        BY DEF FeesInv, BooksOK, RowOK
      <4>3. QED
        BY <4>1, <4>2
    <3>3. QED
      BY <3>1, <3>2
  <2>2. QED
    BY <1>2, <2>1 DEF MarkIssued, FiguresStay
<1>3. QED
  BY <1>1, <1>2, BooksSteps

-----------------------------------------------------------------------------
(* Whoever takes the step, the runs know what they know.                   *)
LEMMA RunsKept ==
  ASSUME FeesInv, [Next]_vars
  PROVE  \A q \in runs' : RunFacts(q)'
<1>1. WorldGoesOn /\ WorldOK
  BY WorldSteps DEF FeesInv
<1>2. SUFFICES \A q \in runs' : q \in runs \/ RunFacts(q)
  BY <1>1, RunFactsStay DEF FeesInv
<1>3. CASE runs' \subseteq runs
  BY <1>3
<1>4. CASE Tick \/ UNCHANGED vars
  BY <1>3, <1>4 DEF Tick, vars
<1>5. ASSUME NEW i \in Invoice, Approve(i) \/ Resolve(i) \/ WriteOff(i)
      PROVE  runs' \subseteq runs
  BY <1>5 DEF Approve, Resolve, WriteOff
<1>6. ASSUME \/ \E t \in Tier : CreateTier(t) \/ DeactivateTier(t)
             \/ \E x \in Minimums : SetMinimumMonthlyFee(x)
             \/ \E b \in Broker, p \in Month : MarkIssued(b, p)
      PROVE  runs' \subseteq runs
  BY <1>6 DEF CreateTier, DeactivateTier, SetMinimumMonthlyFee, MarkIssued
<1>7. ASSUME NEW p \in Month, NEW brokers \in SUBSET Broker,
             AdminRuns(p, brokers)
      PROVE  \A q \in runs' : q \in runs \/ RunFacts(q)
  <2>1. PICK b \in brokers : Starts(FALSE, p, brokers, b)
    BY <1>7 DEF AdminRuns
  <2>2. p <= now
    BY <1>7 DEF AdminRuns
  <2>3. QED
    BY <1>1, <2>1, <2>2, StartFacts
<1>8. CASE LambdaRuns
  <2>1. PICK b \in Broker : Starts(TRUE, now - 1, Broker, b)
    BY <1>8 DEF LambdaRuns
  <2>2. attempts > 0
    BY <1>8 DEF LambdaRuns
  <2>3. now - 1 \in Month /\ now - 1 <= now
    <3>1. LastMonth \in Nat /\ now \in 1..LastMonth
      BY FeesAssumption DEF FeesAssumption, FeesInv, WorldOK, Month
    <3>2. now > 1
      BY <2>2 DEF FeesInv, AttemptsOK
    <3>3. QED
      BY <3>1, <3>2 DEF Month
  <2>4. QED
    BY <1>1, <2>1, <2>3, StartFacts
<1>9. ASSUME NEW r \in runs, Check(r) \/ Read(r)
      PROVE  \A q \in runs' : q \in runs \/ RunFacts(q)
  BY <1>9, CheckFacts, ReadFacts
<1>10. ASSUME NEW r \in runs, Write(r)
       PROVE  \A q \in runs' : q \in runs \/ RunFacts(q)
  <2>1. r \in Run /\ RunFacts(r)
    BY DEF FeesInv, RunFacts
  <2>2. CASE Ends(r, FALSE)
    BY <2>2 DEF Ends
  <2>3. ASSUME NEW b \in r.todo \ {r.broker},
               Becomes(r, Blank(r.slot, r.lambda, r.period,
                                r.todo \ {r.broker}, b))
        PROVE  \A q \in runs' : q \in runs \/ RunFacts(q)
    <3>1. /\ r.slot \in Slot /\ r.lambda \in BOOLEAN /\ r.period \in Month
          /\ r.period <= now
          /\ r.todo \ {r.broker} \in SUBSET Broker /\ b \in Broker
      BY <2>1 DEF RunFacts, Run
    <3>2. RunFacts(Blank(r.slot, r.lambda, r.period, r.todo \ {r.broker}, b))
      BY <1>1, <3>1, BlankFacts
    <3>3. QED
      BY <2>3, <3>2 DEF Becomes
  <2>4. QED
    BY <1>10, <2>2, <2>3 DEF Write
<1>11. ASSUME NEW r \in runs, RunLost(r) PROVE runs' \subseteq runs
  BY <1>11 DEF RunLost, Ends
<1>12. ASSUME NEW r \in runs, LambdaGivesUp(r)
       PROVE  \A q \in runs' : q \in runs \/ RunFacts(q)
  <2> DEFINE q1 == [r EXCEPT !.lambda = FALSE]
  <2>1. r \in Run /\ RunFacts(r)
    BY DEF FeesInv, RunFacts
  <2>2. /\ q1 \in Run /\ q1.period = r.period /\ q1.pc = r.pc
        /\ q1.invoices = r.invoices /\ q1.readIn = r.readIn
        /\ q1.broker = r.broker
    BY <2>1 DEF Run
  <2>3. runs' = (runs \ {r}) \cup {q1}
    BY <1>12 DEF LambdaGivesUp, Becomes
  <2> HIDE DEF q1
  <2>4. RunFacts(q1)
    BY <2>1, <2>2 DEF RunFacts
  <2>5. QED
    BY <2>3, <2>4
<1>13. QED
  BY <1>3, <1>4, <1>5, <1>6, <1>7, <1>8, <1>9, <1>10, <1>11, <1>12
  DEF Next, RunStep

(* The prices.                                                             *)
LEMMA PricesKept ==
  ASSUME FeesInv, [Next]_vars
  PROVE  PricesOK'
<1>1. PricesOK
  BY DEF FeesInv
<1>2. CASE UNCHANGED prices
  BY <1>1, <1>2 DEF prices, PricesOK
<1>3. ASSUME NEW t \in Tier, CreateTier(t) \/ DeactivateTier(t) PROVE PricesOK'
  BY <1>1, <1>3 DEF CreateTier, DeactivateTier, PricesOK
<1>4. ASSUME NEW x \in Minimums, SetMinimumMonthlyFee(x) PROVE PricesOK'
  BY <1>1, <1>4, FeesAssumption DEF FeesAssumption, SetMinimumMonthlyFee, PricesOK
<1>5. ASSUME NEW i \in Invoice, Approve(i) \/ Resolve(i) \/ WriteOff(i)
      PROVE  UNCHANGED prices
  BY <1>5 DEF Approve, Resolve, WriteOff
<1>6. ASSUME \/ Tick \/ LambdaRuns
             \/ \E p \in Month, brokers \in SUBSET Broker : AdminRuns(p, brokers)
             \/ \E b \in Broker, p \in Month : MarkIssued(b, p)
      PROVE  UNCHANGED prices
  BY <1>6 DEF Tick, LambdaRuns, AdminRuns, MarkIssued
<1>7. ASSUME NEW r \in runs, RunStep(r) \/ RunLost(r) \/ LambdaGivesUp(r)
      PROVE  UNCHANGED prices
  BY <1>7 DEF RunStep, Check, Read, Write, RunLost, LambdaGivesUp
<1>8. CASE UNCHANGED vars
  BY <1>2, <1>8 DEF vars
<1>9. QED
  BY <1>2, <1>3, <1>4, <1>5, <1>6, <1>7, <1>8 DEF Next

LEMMA AttemptsKept ==
  ASSUME FeesInv, [Next]_vars
  PROVE  AttemptsOK'
<1>1. AttemptsOK /\ now \in Nat /\ Tries \in Nat
  BY MonthsAreNumbers, FeesAssumption
  DEF FeesAssumption, FeesInv, WorldOK
<1>2. CASE UNCHANGED <<now, attempts>>
  BY <1>1, <1>2 DEF AttemptsOK
<1>3. CASE Tick
  <2>1. now' = now + 1 /\ attempts' = Tries /\ now >= 1
    BY <1>3 DEF Tick, FeesInv, WorldOK, Month
  <2>2. QED
    BY <1>1, <2>1 DEF AttemptsOK
<1>4. ASSUME NEW r \in runs, NEW failed \in BOOLEAN, Ends(r, failed), now' = now
      PROVE  AttemptsOK'
  BY <1>1, <1>4 DEF Ends, AttemptsOK
<1>5. ASSUME NEW r \in runs, RunStep(r) \/ RunLost(r) \/ LambdaGivesUp(r)
      PROVE  AttemptsOK'
  <2>1. now' = now
    BY <1>5 DEF RunStep, Check, Read, Write, RunLost, LambdaGivesUp, world
  <2>2. CASE Ends(r, TRUE) \/ Ends(r, FALSE)
    BY <1>4, <2>1, <2>2
  <2>3. CASE attempts' \in {attempts, attempts - 1}
    BY <1>1, <2>1, <2>3 DEF AttemptsOK
  <2>4. QED
    BY <1>5, <2>2, <2>3
    DEF RunStep, Check, Read, Write, RunLost, LambdaGivesUp
<1>6. ASSUME NEW i \in Invoice, Approve(i) \/ Resolve(i) \/ WriteOff(i)
      PROVE  UNCHANGED <<now, attempts>>
  BY <1>6 DEF Approve, Resolve, WriteOff
<1>7. ASSUME \/ \E t \in Tier : CreateTier(t) \/ DeactivateTier(t)
             \/ \E x \in Minimums : SetMinimumMonthlyFee(x)
      PROVE  UNCHANGED <<now, attempts>>
  BY <1>7 DEF CreateTier, DeactivateTier, SetMinimumMonthlyFee, world
<1>8. ASSUME \/ \E p \in Month, brokers \in SUBSET Broker : AdminRuns(p, brokers)
             \/ LambdaRuns
             \/ \E b \in Broker, p \in Month : MarkIssued(b, p)
      PROVE  UNCHANGED <<now, attempts>>
  BY <1>8 DEF AdminRuns, LambdaRuns, MarkIssued, world
<1>9. CASE UNCHANGED vars
  BY <1>2, <1>9 DEF vars, world
<1>10. QED
  BY <1>2, <1>3, <1>5, <1>6, <1>7, <1>8, <1>9 DEF Next

LEMMA FeesStep == FeesInv /\ [Next]_vars => FeesInv'
<1> SUFFICES ASSUME FeesInv, [Next]_vars PROVE FeesInv'
  OBVIOUS
<1>1. WorldGoesOn /\ WorldOK'
  BY WorldSteps DEF WorldGoesOn
<1>2. BooksOK' /\ FeesWhileOutstanding' /\ ClosedPeriodComplete'
  <2>1. CASE \E r \in runs : Write(r)
    BY <2>1, WritingKeeps
  <2>2. CASE ~ \E r \in runs : Write(r)
    BY <1>1, <2>2, FiguresStaying, FiguresKeep
  <2>3. QED
    BY <2>1, <2>2
<1>3. QED
  BY <1>1, <1>2, RunsKept, PricesKept, AttemptsKept DEF FeesInv

LEMMA FeesInvariant == Spec => []FeesInv
  BY FeesInit, FeesStep, PTL DEF Spec

(* However often a month is run again, at whatever prices, the ledger has  *)
(* every accrual as the accrual table has it.                              *)
THEOREM AccrualsMatchLedger == Spec => []AccrualMatchesLedger
<1>1. FeesInv => AccrualMatchesLedger
  BY DEF FeesInv, BooksOK, AccrualMatchesLedger
<1>2. QED
  BY <1>1, FeesInvariant, PTL

(* What a run has read outside its transaction still justifies every       *)
(* accrual it writes.                                                      *)
THEOREM FeesAreOwed == Spec => []FeesWhileOutstanding
<1>1. FeesInv => FeesWhileOutstanding
  BY DEF FeesInv
<1>2. QED
  BY <1>1, FeesInvariant, PTL

(* A run of a month that is over misses none of its invoices.              *)
THEOREM ClosedPeriodsComplete == Spec => []ClosedPeriodComplete
<1>1. FeesInv => ClosedPeriodComplete
  BY DEF FeesInv
<1>2. QED
  BY <1>1, FeesInvariant, PTL

-----------------------------------------------------------------------------
(* As long as an Admin issues only what no run is at, no run past its      *)
(* check is at an issued fee invoice.                                      *)
QuietInv ==
  \A r \in runs : r.pc \in {"read", "write"} => ~ Issued(r.broker, r.period)

LEMMA QuietKept ==
  ASSUME IssueQuietly, FeesInv, QuietInv, [Next]_vars
  PROVE  /\ QuietInv'
         /\ \A b \in Broker, p \in Month :
              Issued(b, p) => feeInvoice'[b, p] = feeInvoice[b, p]
<1> DEFINE Final == \A b \in Broker, p \in Month :
                      Issued(b, p) => feeInvoice'[b, p] = feeInvoice[b, p]
<1>1. ASSUME feeInvoice' = feeInvoice,
             \A q \in runs' : q \in runs \/ q.pc = "check"
      PROVE  QuietInv' /\ Final
  BY <1>1 DEF QuietInv, Issued
<1>2. ASSUME NEW r \in runs, Check(r) PROVE QuietInv' /\ Final
  <2> DEFINE q1 == [r EXCEPT !.pc = "read", !.invoices = ApprovedFor(r),
                             !.readIn = now]
  <2>1. feeInvoice' = feeInvoice /\ r \in Run
    BY <1>2 DEF Check, books, FeesInv, RunFacts
  <2>2. CASE Issued(r.broker, r.period)
    BY <1>1, <1>2, <2>1, <2>2 DEF Check, Ends
  <2>3. CASE ~ Issued(r.broker, r.period)
    <3>1. runs' = (runs \ {r}) \cup {q1}
      BY <1>2, <2>3 DEF Check, ReadApprovals, Becomes
    <3>2. q1.broker = r.broker /\ q1.period = r.period
      BY <2>1 DEF Run
    <3> HIDE DEF q1
    <3>3. QED
      BY <2>1, <2>3, <3>1, <3>2 DEF QuietInv, Issued
  <2>4. QED
    BY <2>2, <2>3
<1>3. ASSUME NEW r \in runs, NEW q1, runs' = (runs \ {r}) \cup {q1},
             q1.broker = r.broker /\ q1.period = r.period,
             r.pc \in {"read", "write"} \/ q1.pc = r.pc, feeInvoice' = feeInvoice
      PROVE  QuietInv' /\ Final
  BY <1>3 DEF QuietInv, Issued
<1>4. ASSUME NEW r \in runs, Read(r) PROVE QuietInv' /\ Final
  <2>1. r \in Run /\ r.pc = "read" /\ feeInvoice' = feeInvoice
    BY <1>4 DEF Read, books, FeesInv, RunFacts
  <2>2. PICK S \in SUBSET r.invoices :
          \E pct \in FeePcts(Volume(S)) :
            Becomes(r, [r EXCEPT !.pc = "write", !.invoices = S,
                                 !.pct = pct, !.min = minimum])
    BY <1>4 DEF Read
  <2>3. PICK pct \in FeePcts(Volume(S)) :
          Becomes(r, [r EXCEPT !.pc = "write", !.invoices = S,
                               !.pct = pct, !.min = minimum])
    BY <2>2
  <2> DEFINE q1 == [r EXCEPT !.pc = "write", !.invoices = S, !.pct = pct,
                             !.min = minimum]
  <2>4. q1.broker = r.broker /\ q1.period = r.period
    BY <2>1 DEF Run
  <2>5. runs' = (runs \ {r}) \cup {q1}
    BY <2>3 DEF Becomes
  <2> HIDE DEF q1
  <2>6. QED
    BY <1>3, <2>1, <2>4, <2>5
<1>5. ASSUME NEW r \in runs, LambdaGivesUp(r) PROVE QuietInv' /\ Final
  <2> DEFINE q1 == [r EXCEPT !.lambda = FALSE]
  <2>1. r \in Run /\ feeInvoice' = feeInvoice /\ runs' = (runs \ {r}) \cup {q1}
    BY <1>5 DEF LambdaGivesUp, Becomes, books, FeesInv, RunFacts
  <2>2. q1.broker = r.broker /\ q1.period = r.period /\ q1.pc = r.pc
    BY <2>1 DEF Run
  <2> HIDE DEF q1
  <2>3. QED
    BY <1>3, <2>1, <2>2
<1>6. ASSUME NEW r \in runs, Write(r) PROVE QuietInv' /\ Final
  <2>1. r \in Run /\ r.pc = "write" /\ ~ Issued(r.broker, r.period)
    BY <1>6 DEF Write, QuietInv, FeesInv, RunFacts
  <2>2. \A q \in runs' : q \in runs \/ q.pc = "check"
    BY <1>6 DEF Write, Ends, Becomes, Blank
  <2>3. \A x \in Broker \X Month :
          x # <<r.broker, r.period>> => feeInvoice'[x] = feeInvoice[x]
    BY <1>6, FeeInvoiceWritten
  <2>4. ~ Issued(r.broker, r.period)'
    BY <1>6, <2>1 DEF Write, WriteBooks, Issued, FeesInv, BooksOK, Run
  <2>5. \A q \in runs : q \in Run
    BY DEF FeesInv, RunFacts
  <2>6. ASSUME NEW b \in Broker, NEW p \in Month
        PROVE  /\ Issued(b, p) => feeInvoice'[b, p] = feeInvoice[b, p]
               /\ ~ Issued(b, p) => ~ Issued(b, p)'
    <3>1. CASE <<b, p>> = <<r.broker, r.period>>
      BY <2>1, <2>4, <3>1
    <3>2. CASE <<b, p>> # <<r.broker, r.period>>
      BY <2>3, <3>2 DEF Issued
    <3>3. QED
      BY <3>1, <3>2
  <2>7. QED
    BY <2>2, <2>5, <2>6 DEF QuietInv, Run
<1>7. ASSUME NEW b \in Broker, NEW p \in Month, MarkIssued(b, p)
      PROVE  QuietInv' /\ Final
  <2>1. /\ runs' = runs /\ \A r \in runs : r.period # p
        /\ feeInvoice' = [feeInvoice EXCEPT ![<<b, p>>].status = "ISSUED"]
    BY <1>7 DEF MarkIssued
  <2>2. \A r \in runs : r \in Run
    BY DEF FeesInv, RunFacts
  <2>3. ASSUME NEW x \in Broker \X Month, x # <<b, p>>
        PROVE  feeInvoice'[x] = feeInvoice[x]
    BY <2>1, <2>3 DEF FeesInv, BooksOK
  <2>4. QuietInv'
    BY <2>1, <2>2, <2>3 DEF QuietInv, Issued, Run
  <2>5. ASSUME Issued(b, p) PROVE feeInvoice'[b, p] = feeInvoice[b, p]
    <3>1. feeInvoice' = [feeInvoice EXCEPT ![<<b, p>>] =
                          [feeInvoice[<<b, p>>] EXCEPT !.status = "ISSUED"]]
      BY <2>1, Zenon
    <3>2. DOMAIN feeInvoice = Broker \X Month
      BY DEF FeesInv, BooksOK
    <3>3. PICK s, c, a, m : feeInvoice[<<b, p>>] =
            [status |-> s, calculated |-> c, total |-> a, readIn |-> m]
      BY <3>2 DEF FeesInv, BooksOK, RowOK
    <3>4. feeInvoice[<<b, p>>].status = "ISSUED"
      BY <2>5, Zenon DEF Issued
    <3>5. [feeInvoice[<<b, p>>] EXCEPT !.status = "ISSUED"] = feeInvoice[<<b, p>>]
      BY <3>3, <3>4, IssuedAlready, Zenon
    <3>6. feeInvoice'[<<b, p>>] = feeInvoice[<<b, p>>]
      BY <3>1, <3>2, <3>5
    <3>7. QED
      BY <3>6, Zenon
  <2>6. QED
    BY <2>3, <2>4, <2>5
<1>8. ASSUME NEW i \in Invoice, Approve(i) \/ Resolve(i) \/ WriteOff(i)
      PROVE  feeInvoice' = feeInvoice /\ runs' = runs
  BY <1>8 DEF Approve, Resolve, WriteOff, books
<1>9. ASSUME \/ \E t \in Tier : CreateTier(t) \/ DeactivateTier(t)
             \/ \E x \in Minimums : SetMinimumMonthlyFee(x)
             \/ Tick \/ UNCHANGED vars
      PROVE  feeInvoice' = feeInvoice /\ runs' = runs
  BY <1>9 DEF CreateTier, DeactivateTier, SetMinimumMonthlyFee, Tick, vars, books
<1>10. ASSUME \/ \E p \in Month, brokers \in SUBSET Broker : AdminRuns(p, brokers)
              \/ LambdaRuns
       PROVE  /\ feeInvoice' = feeInvoice
              /\ \A q \in runs' : q \in runs \/ q.pc = "check"
  BY <1>10 DEF AdminRuns, LambdaRuns, Starts, Blank, books
<1>11. ASSUME NEW r \in runs, RunLost(r)
       PROVE  feeInvoice' = feeInvoice /\ runs' \subseteq runs
  BY <1>11 DEF RunLost, Ends, books
<1>12. QED
  BY <1>1, <1>2, <1>4, <1>5, <1>6, <1>7, <1>8, <1>9, <1>10, <1>11
  DEF Next, RunStep

(* An issued fee invoice is never changed again, if it is issued when no   *)
(* run of its month is in flight or still to come.                         *)
THEOREM IssuedIsFinal ==
  ASSUME IssueQuietly
  PROVE  Spec => IssuedFinal
<1>1. Init => QuietInv
  BY DEF Init, QuietInv
<1>2. FeesInv /\ QuietInv /\ [Next]_vars =>
        QuietInv' /\ [\A b \in Broker, p \in Month :
          Issued(b, p) => feeInvoice'[b, p] = feeInvoice[b, p]]_vars
  BY QuietKept
<1>3. QED
  BY <1>1, <1>2, FeesInvariant, PTL DEF Spec, IssuedFinal

-----------------------------------------------------------------------------
(* The figures.  A Broker's calculated fee is a sum over the invoices a    *)
(* run has found, all approved and so finitely many.                       *)

ApprovedFinite == IsFiniteSet({i \in Invoice : approvedIn[i] # 0})

(* A run bills a Broker for its own invoices.                              *)
RunOwns(r) == \A i \in r.invoices : Owner[i] = r.broker

(* One run at a time is the Lambda's, and while it runs the invocation it  *)
(* belongs to is not over.                                                 *)
LambdaAlone ==
  /\ attempts \in 0..Tries
  /\ \A r, q \in runs : r.lambda /\ q.lambda => r = q
  /\ \A r \in runs : r.lambda => attempts > 0

(* What the Broker's invoices are accrued at, each counted as often as the *)
(* approvals query returns it.                                             *)
AccruedTo(b, p) == {i \in Invoice : Owner[i] = b /\ accrued[i, p] # NoFee}
Accruals(b, p) ==
  Total(AccruedTo(b, p), [i \in AccruedTo(b, p) |-> accrued[i, p]])

(* No fee invoice comes to more than what is accrued by now: accruals that *)
(* other runs add meanwhile only raise the sum.                            *)
BilledAtMost ==
  \A b \in Broker, p \in Month :
    feeInvoice[b, p].calculated <= Accruals(b, p)

FiguresInv ==
  /\ FeesTypeOK /\ ApprovedFinite /\ LambdaAlone /\ BilledAtMost
  /\ \A r \in runs : RunOwns(r)

-----------------------------------------------------------------------------
(* Total adds up each row as often as the query returns it.                *)
Weighed(S, f) == [i \in S |-> Copies(i) * f[i]]

TotalRecursion(h, S, f) ==
  h = [s \in SUBSET S |->
         IF s = {} THEN 0
         ELSE Copies(First(s)) * f[First(s)] + h[s \ {First(s)}]]

LEMMA TotalIsSum ==
  ASSUME NEW S, IsFiniteSet(S), NEW f
  PROVE  Total(S, f) = Sum(Weighed(S, f), S)
<1> DEFINE g == Weighed(S, f)
<1>1. Total(S, f) = (CHOOSE h : TotalRecursion(h, S, f))[S]
  BY DEF Total, MapThenSumSet, MapThenFoldSet, TotalRecursion, First
<1>2. ASSUME NEW h PROVE TotalRecursion(h, S, f) <=> Recursion(h, g, S)
  <2>1. \A s \in SUBSET S : s # {} =>
          g[First(s)] = Copies(First(s)) * f[First(s)]
    BY FirstIsIn DEF Weighed
  <2> HIDE DEF g
  <2>2. QED
    BY <2>1 DEF TotalRecursion, Recursion
<1> DEFINE h == CHOOSE h : TotalRecursion(h, S, f)
<1>3. TotalRecursion(h, S, f)
  BY <1>2, RecursionExists
<1> HIDE DEF g, h
<1>4. h[S] = Sum(g, S)
  BY <1>2, <1>3, SumOfRecursion
<1>5. QED
  BY <1>1, <1>4 DEF g, h

LEMMA WeighedIsNatural ==
  ASSUME NEW S, NEW f, NEW i \in S, f[i] \in Nat
  PROVE  Weighed(S, f)[i] \in Nat
  BY DEF Weighed, Copies

LEMMA TotalIsNatural ==
  ASSUME NEW S, IsFiniteSet(S), NEW f, \A i \in S : f[i] \in Nat
  PROVE  Total(S, f) \in Nat
<1> DEFINE g == Weighed(S, f)
<1>1. \A i \in S : g[i] \in Nat
  BY WeighedIsNatural
<1> HIDE DEF g
<1>2. Sum(g, S) \in Nat
  BY <1>1, SumNat
<1>3. QED
  BY <1>2, TotalIsSum DEF g

(* A larger total: more rows, at no less.                                  *)
LEMMA TotalGrows ==
  ASSUME NEW T, IsFiniteSet(T), NEW S \in SUBSET T, NEW f, NEW g,
         \A i \in T : g[i] \in Nat,
         \A i \in S : f[i] \in Nat /\ f[i] <= g[i]
  PROVE  Total(S, f) <= Total(T, g)
<1> DEFINE u == Weighed(S, f)
           v == Weighed(T, g)
<1>1. IsFiniteSet(S)
  BY FS_Subset
<1>2. \A i \in S : u[i] \in Nat /\ u[i] <= v[i]
  BY DEF Weighed, Copies
<1>3. \A i \in T : v[i] \in Nat
  BY WeighedIsNatural
<1>4. Total(S, f) = Sum(u, S) /\ Total(T, g) = Sum(v, T)
  BY <1>1, TotalIsSum
<1> HIDE DEF u, v
<1>5. Sum(u, S) <= Sum(v, S)
  BY <1>1, <1>2, <1>3, SumMonotone
<1>6. Sum(v, S) <= Sum(v, T)
  BY <1>3, SumGrows
<1>7. Sum(u, S) \in Int /\ Sum(v, S) \in Int /\ Sum(v, T) \in Int
  BY <1>1, <1>2, <1>3, SumNat
<1>8. QED
  BY <1>4, <1>5, <1>6, <1>7

-----------------------------------------------------------------------------
(* What a run is at, the invoices approved and the Lambda's run.           *)

LEMMA ApprovedKept ==
  ASSUME FeesInv, ApprovedFinite, [Next]_vars
  PROVE  ApprovedFinite'
<1> DEFINE A == {i \in Invoice : approvedIn[i] # 0}
<1>1. IsFiniteSet(A) /\ approvedIn \in [Invoice -> 0..LastMonth]
  BY DEF ApprovedFinite, FeesInv, WorldOK
<1>2. CASE UNCHANGED approvedIn
  BY <1>1, <1>2 DEF ApprovedFinite
<1>3. ASSUME NEW i \in Invoice, Approve(i) PROVE ApprovedFinite'
  <2>1. A' \subseteq A \cup {i}
    BY <1>1, <1>3 DEF Approve
  <2>2. IsFiniteSet(A \cup {i})
    BY <1>1, FS_AddElement
  <2>3. IsFiniteSet(A')
    <3> DEFINE B == A \cup {i}
               C == A'
    <3>1. IsFiniteSet(B) /\ C \in SUBSET B
      BY <2>1, <2>2
    <3> HIDE DEF B, C
    <3>2. IsFiniteSet(C)
      BY <3>1, FS_Subset
    <3>3. QED
      BY <3>2 DEF C
  <2>4. QED
    BY <2>3 DEF ApprovedFinite
<1>4. ASSUME NEW i \in Invoice, Resolve(i) \/ WriteOff(i)
      PROVE  UNCHANGED approvedIn
  BY <1>4 DEF Resolve, WriteOff
<1>5. ASSUME \/ \E t \in Tier : CreateTier(t) \/ DeactivateTier(t)
             \/ \E x \in Minimums : SetMinimumMonthlyFee(x)
             \/ Tick \/ UNCHANGED vars
      PROVE  UNCHANGED approvedIn
  BY <1>5 DEF CreateTier, DeactivateTier, SetMinimumMonthlyFee, Tick, vars, world
<1>6. ASSUME \/ \E p \in Month, brokers \in SUBSET Broker : AdminRuns(p, brokers)
             \/ LambdaRuns
             \/ \E b \in Broker, p \in Month : MarkIssued(b, p)
      PROVE  UNCHANGED approvedIn
  BY <1>6 DEF AdminRuns, LambdaRuns, MarkIssued, world
<1>7. ASSUME NEW r \in runs, RunStep(r) \/ RunLost(r) \/ LambdaGivesUp(r)
      PROVE  UNCHANGED approvedIn
  BY <1>7 DEF RunStep, Check, Read, Write, RunLost, LambdaGivesUp, world
<1>8. QED
  BY <1>2, <1>3, <1>4, <1>5, <1>6, <1>7 DEF Next

(* What happens to a run: it starts blank, ends, or is replaced by one that *)
(* is the Lambda's only if it was and bills a Broker for its own invoices   *)
(* if it did.                                                              *)
Started(lambda) ==
  \E q \in runs' :
    /\ runs' = runs \cup {q}
    /\ q.lambda = lambda /\ q.invoices = {}

Gone(r) == /\ runs' = runs \ {r}
           /\ attempts' \in IF r.lambda THEN {0, attempts - 1} ELSE {attempts}

GivenUp(r) ==
  /\ r.lambda /\ attempts' = attempts - 1
  /\ \E q \in runs' : runs' = (runs \ {r}) \cup {q} /\ ~ q.lambda

Replaced(r) ==
  \E q \in runs' :
    /\ runs' = (runs \ {r}) \cup {q}
    /\ q.lambda => r.lambda
    /\ (\A i \in r.invoices : Owner[i] = r.broker)
         => \A i \in q.invoices : Owner[i] = q.broker

LEMMA StartsStarted ==
  ASSUME NEW lambda, NEW p, NEW todo, NEW b, Starts(lambda, p, todo, b)
  PROVE  Started(lambda)
<1> DEFINE q == Blank(CHOOSE s \in Slot : Free(s), lambda, p, todo, b)
<1>1. q.lambda = lambda /\ q.invoices = {}
  BY DEF Blank
<1>2. runs' = runs \cup {q}
  BY DEF Starts
<1> HIDE DEF q
<1>3. QED
  BY <1>1, <1>2 DEF Started

LEMMA CheckReplaces ==
  ASSUME FeesInv, NEW r \in runs, Check(r), ~ Issued(r.broker, r.period)
  PROVE  Replaced(r) /\ attempts' = attempts
<1> DEFINE q == [r EXCEPT !.pc = "read", !.invoices = ApprovedFor(r),
                          !.readIn = now]
<1>1. r \in Run
  BY DEF FeesInv, RunFacts
<1>2. /\ q.lambda = r.lambda /\ q.broker = r.broker
      /\ q.invoices = ApprovedFor(r)
  BY <1>1 DEF Run
<1>3. runs' = (runs \ {r}) \cup {q} /\ attempts' = attempts
  BY DEF Check, ReadApprovals, Becomes
<1> HIDE DEF q
<1>4. \A i \in q.invoices : Owner[i] = q.broker
  BY <1>2 DEF ApprovedFor
<1>5. QED
  BY <1>2, <1>3, <1>4 DEF Replaced

LEMMA ReadReplaces ==
  ASSUME FeesInv, NEW r \in runs, Read(r)
  PROVE  Replaced(r) /\ attempts' = attempts
<1>1. r \in Run /\ attempts' = attempts
  BY DEF FeesInv, RunFacts, Read
<1>2. PICK S \in SUBSET r.invoices :
        \E pct \in FeePcts(Volume(S)) :
          Becomes(r, [r EXCEPT !.pc = "write", !.invoices = S,
                               !.pct = pct, !.min = minimum])
  BY DEF Read
<1>3. PICK pct \in FeePcts(Volume(S)) :
        Becomes(r, [r EXCEPT !.pc = "write", !.invoices = S,
                             !.pct = pct, !.min = minimum])
  BY <1>2
<1> DEFINE q == [r EXCEPT !.pc = "write", !.invoices = S, !.pct = pct,
                          !.min = minimum]
<1>4. q.lambda = r.lambda /\ q.broker = r.broker /\ q.invoices = S
  BY <1>1 DEF Run
<1>5. runs' = (runs \ {r}) \cup {q}
  BY <1>3 DEF Becomes
<1> HIDE DEF q
<1>6. QED
  BY <1>1, <1>4, <1>5 DEF Replaced

LEMMA NextBrokerReplaces ==
  ASSUME NEW r \in runs, NEW b,
         Becomes(r, Blank(r.slot, r.lambda, r.period, r.todo \ {r.broker}, b))
  PROVE  Replaced(r)
<1> DEFINE q == Blank(r.slot, r.lambda, r.period, r.todo \ {r.broker}, b)
<1>1. q.lambda = r.lambda /\ q.invoices = {}
  BY DEF Blank
<1>2. runs' = (runs \ {r}) \cup {q}
  BY DEF Becomes
<1> HIDE DEF q
<1>3. QED
  BY <1>1, <1>2 DEF Replaced

LEMMA GivingUpReplaces ==
  ASSUME FeesInv, NEW r \in runs, LambdaGivesUp(r)
  PROVE  Replaced(r) /\ GivenUp(r)
<1> DEFINE q == [r EXCEPT !.lambda = FALSE]
<1>1. r \in Run
  BY DEF FeesInv, RunFacts
<1>2. ~ q.lambda /\ q.broker = r.broker /\ q.invoices = r.invoices
  BY <1>1 DEF Run
<1>3. runs' = (runs \ {r}) \cup {q} /\ r.lambda /\ attempts' = attempts - 1
  BY DEF LambdaGivesUp, Becomes
<1> HIDE DEF q
<1>4. QED
  BY <1>2, <1>3 DEF Replaced, GivenUp

LEMMA EndsGone ==
  ASSUME NEW r \in runs, NEW failed \in BOOLEAN, Ends(r, failed)
  PROVE  Gone(r)
  BY DEF Ends, Gone

RunMoves ==
  \/ runs' = runs /\ attempts' = attempts
  \/ runs' = runs /\ attempts = 0 /\ attempts' = Tries
  \/ Started(FALSE) /\ attempts' = attempts
  \/ /\ Started(TRUE) /\ attempts' = attempts
     /\ attempts > 0 /\ \A r \in runs : ~ r.lambda
  \/ \E r \in runs : \/ Gone(r)
                     \/ Replaced(r) /\ attempts' = attempts
                     \/ Replaced(r) /\ GivenUp(r)

LEMMA RunsMove ==
  ASSUME FeesInv, [Next]_vars
  PROVE  RunMoves
<1>1. CASE Tick
  BY <1>1 DEF Tick, RunMoves
<1>2. ASSUME NEW i \in Invoice, Approve(i) \/ Resolve(i) \/ WriteOff(i)
      PROVE  runs' = runs /\ attempts' = attempts
  BY <1>2 DEF Approve, Resolve, WriteOff
<1>3. ASSUME \/ \E t \in Tier : CreateTier(t) \/ DeactivateTier(t)
             \/ \E x \in Minimums : SetMinimumMonthlyFee(x)
             \/ UNCHANGED vars
      PROVE  runs' = runs /\ attempts' = attempts
  BY <1>3 DEF CreateTier, DeactivateTier, SetMinimumMonthlyFee, vars
<1>4. ASSUME NEW b \in Broker, NEW p \in Month, MarkIssued(b, p)
      PROVE  runs' = runs /\ attempts' = attempts
  BY <1>4 DEF MarkIssued
<1>5. ASSUME NEW p \in Month, NEW brokers \in SUBSET Broker,
             AdminRuns(p, brokers)
      PROVE  RunMoves
  BY <1>5, StartsStarted DEF AdminRuns, RunMoves
<1>6. CASE LambdaRuns
  BY <1>6, StartsStarted DEF LambdaRuns, RunMoves
<1>7. ASSUME NEW r \in runs, Check(r) PROVE RunMoves
  <2>1. CASE Issued(r.broker, r.period)
    BY <1>7, <2>1, EndsGone DEF Check, RunMoves
  <2>2. CASE ~ Issued(r.broker, r.period)
    BY <1>7, <2>2, CheckReplaces DEF RunMoves
  <2>3. QED
    BY <2>1, <2>2
<1>8. ASSUME NEW r \in runs, Read(r) PROVE RunMoves
  BY <1>8, ReadReplaces DEF RunMoves
<1>9. ASSUME NEW r \in runs, Write(r) PROVE RunMoves
  <2>1. CASE Ends(r, FALSE)
    BY <2>1, EndsGone DEF RunMoves
  <2>2. CASE ~ Ends(r, FALSE)
    <3>1. PICK b \in r.todo \ {r.broker} :
            /\ Becomes(r, Blank(r.slot, r.lambda, r.period,
                                r.todo \ {r.broker}, b))
            /\ attempts' = attempts
      BY <1>9, <2>2 DEF Write
    <3>2. QED
      BY <3>1, NextBrokerReplaces DEF RunMoves
  <2>3. QED
    BY <2>1, <2>2
<1>10. ASSUME NEW r \in runs, RunLost(r) PROVE RunMoves
  BY <1>10, EndsGone DEF RunLost, RunMoves
<1>11. ASSUME NEW r \in runs, LambdaGivesUp(r) PROVE RunMoves
  BY <1>11, GivingUpReplaces DEF RunMoves
<1>12. QED
  BY <1>1, <1>2, <1>3, <1>4, <1>5, <1>6, <1>7, <1>8, <1>9, <1>10, <1>11
  DEF Next, RunStep, RunMoves

LEMMA OwnsKept ==
  ASSUME RunMoves, \A r \in runs : RunOwns(r)
  PROVE  \A r \in runs' : RunOwns(r)'
<1>1. \A r \in runs : RunOwns(r)'
  BY DEF RunOwns
<1>2. ASSUME NEW lambda, Started(lambda) PROVE \A r \in runs' : RunOwns(r)'
  BY <1>1, <1>2 DEF Started, RunOwns
<1>3. ASSUME NEW r \in runs, Replaced(r) PROVE \A q \in runs' : RunOwns(q)'
  BY <1>1, <1>3 DEF Replaced, RunOwns
<1>4. ASSUME NEW r \in runs, Gone(r) PROVE \A q \in runs' : RunOwns(q)'
  BY <1>1, <1>4 DEF Gone
<1>5. QED
  BY <1>1, <1>2, <1>3, <1>4 DEF RunMoves

LEMMA LambdaKept ==
  ASSUME RunMoves, LambdaAlone
  PROVE  LambdaAlone'
<1>1. Tries \in Nat /\ attempts \in 0..Tries
  BY FeesAssumption DEF FeesAssumption, LambdaAlone
<1>2. CASE runs' = runs /\ attempts' = attempts
  BY <1>2 DEF LambdaAlone
<1>3. CASE runs' = runs /\ attempts = 0 /\ attempts' = Tries
  <2>1. \A r \in runs : ~ r.lambda
    BY <1>3 DEF LambdaAlone
  <2>2. QED
    BY <1>1, <1>3, <2>1 DEF LambdaAlone
<1>4. CASE Started(FALSE) /\ attempts' = attempts
  BY <1>4 DEF LambdaAlone, Started
<1>5. CASE /\ Started(TRUE) /\ attempts' = attempts
           /\ attempts > 0 /\ \A r \in runs : ~ r.lambda
  BY <1>5 DEF LambdaAlone, Started
<1>6. ASSUME NEW r \in runs, Gone(r) PROVE LambdaAlone'
  <2>1. CASE r.lambda
    <3>1. \A q \in runs' : ~ q.lambda
      BY <1>6, <2>1 DEF Gone, LambdaAlone
    <3>2. attempts > 0 /\ attempts' \in {0, attempts - 1}
      BY <1>6, <2>1 DEF Gone, LambdaAlone
    <3>3. QED
      BY <1>1, <3>1, <3>2 DEF LambdaAlone
  <2>2. CASE ~ r.lambda
    BY <1>6, <2>2 DEF Gone, LambdaAlone
  <2>3. QED
    BY <2>1, <2>2
<1>7. ASSUME NEW r \in runs, Replaced(r), attempts' = attempts
      PROVE  LambdaAlone'
  BY <1>7 DEF Replaced, LambdaAlone
<1>8. ASSUME NEW r \in runs, GivenUp(r) PROVE LambdaAlone'
  <2>1. \A q \in runs' : ~ q.lambda
    BY <1>8 DEF GivenUp, LambdaAlone
  <2>2. attempts > 0 /\ attempts' = attempts - 1
    BY <1>8 DEF GivenUp, LambdaAlone
  <2>3. QED
    BY <1>1, <2>1, <2>2 DEF LambdaAlone
<1>9. QED
  BY <1>2, <1>3, <1>4, <1>5, <1>6, <1>7, <1>8 DEF RunMoves

-----------------------------------------------------------------------------
(* The sums a run and a fee invoice stand for are over finite sets.        *)

AccruedAreFinite == \A b \in Broker, p \in Month : IsFiniteSet(AccruedTo(b, p))

LEMMA AccruedFinite ==
  FeesWhileOutstanding /\ ApprovedFinite => AccruedAreFinite
<1> SUFFICES ASSUME FeesWhileOutstanding, ApprovedFinite,
                    NEW b \in Broker, NEW p \in Month
             PROVE  IsFiniteSet(AccruedTo(b, p))
  BY DEF AccruedAreFinite
<1> DEFINE A == {i \in Invoice : approvedIn[i] # 0}
<1>1. IsFiniteSet(A)
  BY DEF ApprovedFinite
<1>2. AccruedTo(b, p) \in SUBSET A
  <2>1. \A a \in 1..p : a # 0
    BY MonthsAreNumbers
  <2>2. \A i \in AccruedTo(b, p) : i \in Invoice /\ approvedIn[i] \in 1..p
    BY Zenon DEF AccruedTo, FeesWhileOutstanding
  <2>3. QED
    BY <2>1, <2>2
<1> HIDE DEF A
<1>3. QED
  BY <1>1, <1>2, FS_Subset

LEMMA BilledFinite ==
  ASSUME FeesInv, ApprovedFinite, NEW r \in runs, r.pc = "write"
  PROVE  IsFiniteSet(r.invoices)
<1> DEFINE A == {i \in Invoice : approvedIn[i] # 0}
<1>1. IsFiniteSet(A)
  BY DEF ApprovedFinite
<1>2. r.invoices \in SUBSET A
  <2>1. r.invoices \subseteq Invoice /\ r.period \in Nat
    BY MonthsAreNumbers DEF FeesInv, RunFacts, Run
  <2>2. \A i \in r.invoices : approvedIn[i] \in 1..r.period
    BY DEF FeesInv, RunFacts, WasOutstanding
  <2>3. QED
    BY <2>1, <2>2
<1> HIDE DEF A
<1>3. QED
  BY <1>1, <1>2, FS_Subset

LEMMA FeeInIsNatural ==
  ASSUME FeesInv, NEW r \in runs, NEW i \in r.invoices
  PROVE  FeeIn(r, i) \in Nat
<1>1. /\ i \in Invoice /\ r.pct \in Nat /\ r.period \in Month
      /\ Amount[i] \in Nat
  BY FeesAssumption DEF FeesAssumption, FeesInv, RunFacts, Run
<1>2. accrued[i, r.period] \in Fee
  BY <1>1 DEF FeesInv, BooksOK
<1>3. QED
  BY <1>1, <1>2, FeeIsNatural DEF FeeIn, Fee

LEMMA CalculatedIsNatural ==
  ASSUME FeesInv, ApprovedFinite, NEW r \in runs, r.pc = "write"
  PROVE  Calculated(r) \in Nat
<1> DEFINE f == [i \in r.invoices |-> FeeIn(r, i)]
<1>1. IsFiniteSet(r.invoices) /\ \A i \in r.invoices : f[i] \in Nat
  BY BilledFinite, FeeInIsNatural
<1> HIDE DEF f
<1>2. Total(r.invoices, f) \in Nat
  BY <1>1, TotalIsNatural
<1>3. QED
  BY <1>2 DEF Calculated, f

(* What the run's transaction leaves in the accruals and the fee invoice.  *)
LEMMA TransactionWrites ==
  ASSUME FeesInv, NEW r \in runs, Write(r)
  PROVE  /\ \A i \in r.invoices : accrued'[i, r.period] = FeeIn(r, i)
         /\ LET row   == feeInvoice'[<<r.broker, r.period>>]
                old   == feeInvoice[<<r.broker, r.period>>]
                total == AtLeast(r.min, Calculated(r))
            IN  /\ row.status = IF old.status = "NONE" THEN "DRAFT"
                                ELSE old.status
                /\ row.calculated = Calculated(r)
                /\ row = [status |-> row.status, calculated |-> row.calculated,
                          total |-> total, readIn |-> r.readIn]
<1>1. r \in Run /\ BooksOK
  BY DEF FeesInv, RunFacts
<1>2. \A i \in r.invoices : accrued'[i, r.period] = FeeIn(r, i)
  <2> SUFFICES ASSUME NEW i \in r.invoices
               PROVE  accrued'[i, r.period] = FeeIn(r, i)
    OBVIOUS
  <2>1. <<i, r.period>> \in Invoice \X Month /\ <<i, r.period>> \in Billed(r)
    BY <1>1 DEF Run, Billed
  <2>2. QED
    BY <1>1, <2>1 DEF Write, WriteBooks, BooksOK
<1> DEFINE b   == <<r.broker, r.period>>
           row == [status |-> IF feeInvoice[b].status = "NONE" THEN "DRAFT"
                              ELSE feeInvoice[b].status,
                   calculated |-> Calculated(r),
                   total |-> AtLeast(r.min, Calculated(r)),
                   readIn |-> r.readIn]
<1>3. b \in DOMAIN feeInvoice
  BY <1>1 DEF Run, BooksOK
<1>4. feeInvoice' = [feeInvoice EXCEPT ![b] = row]
  BY DEF Write, WriteBooks
<1>5. feeInvoice'[b] = row
  <2> HIDE DEF b, row
  <2>1. QED
    BY <1>3, <1>4
<1>6. /\ row.status = IF feeInvoice[b].status = "NONE" THEN "DRAFT"
                      ELSE feeInvoice[b].status
      /\ row.calculated = Calculated(r)
      /\ row = [status |-> row.status, calculated |-> row.calculated,
                total |-> AtLeast(r.min, Calculated(r)), readIn |-> r.readIn]
  OBVIOUS
<1> HIDE DEF row
<1>7. QED
  BY <1>2, <1>5, <1>6 DEF b

-----------------------------------------------------------------------------
(* No fee invoice above the accruals.                                      *)
LEMMA BilledKept ==
  ASSUME FeesInv, FeesInv', FiguresInv, ApprovedFinite', [Next]_vars
  PROVE  BilledAtMost'
<1>1. AccruedAreFinite'
  BY AccruedFinite, PTL DEF FeesInv
<1>2. CASE ~ \E r \in runs : Write(r)
  <2>1. FiguresStay
    BY <1>2, FiguresStaying
  <2> SUFFICES ASSUME NEW b \in Broker, NEW p \in Month
               PROVE  feeInvoice'[b, p].calculated <= Accruals(b, p)'
    BY DEF BilledAtMost
  <2>2. feeInvoice'[b, p].calculated = feeInvoice[b, p].calculated
    <3>1. feeInvoice[b, p] \in FeeInvoice
      BY DEF FiguresInv, FeesTypeOK
    <3>2. PICK s : feeInvoice'[b, p] = [feeInvoice[b, p] EXCEPT !.status = s]
      BY <2>1 DEF FiguresStay
    <3>3. QED
      BY <3>1, <3>2 DEF FeeInvoice
  <2>3. Accruals(b, p)' = Accruals(b, p)
    BY <2>1 DEF Accruals, AccruedTo, FiguresStay
  <2>4. QED
    BY <2>2, <2>3 DEF FiguresInv, BilledAtMost
<1>3. ASSUME NEW r \in runs, Write(r) PROVE BilledAtMost'
  <2>1. /\ r \in Run /\ r.pc = "write" /\ RunOwns(r) /\ WriteBooks(r)
        /\ r.invoices \subseteq Invoice
    BY <1>3 DEF FeesInv, FiguresInv, RunFacts, Run, Write
  <2> SUFFICES ASSUME NEW b \in Broker, NEW p \in Month
               PROVE  feeInvoice'[b, p].calculated <= Accruals(b, p)'
    BY DEF BilledAtMost
  <2>2. CASE b = r.broker /\ p = r.period
    <3> DEFINE T == AccruedTo(b, p)'
               f == [i \in r.invoices |-> FeeIn(r, i)]
               g == [i \in T |-> accrued'[i, p]]
    <3>1. feeInvoice'[b, p].calculated = Calculated(r)
      <4>1. feeInvoice'[<<r.broker, r.period>>].calculated = Calculated(r)
        BY <1>3, TransactionWrites
      <4>2. QED
        BY <2>2, <4>1, Zenon
    <3>2. \A i \in r.invoices : accrued'[i, p] = FeeIn(r, i)
      BY <1>3, <2>2, TransactionWrites
    <3>3. \A i \in r.invoices : FeeIn(r, i) \in Nat
      BY FeeInIsNatural
    <3>4. IsFiniteSet(T)
      BY <1>1 DEF AccruedAreFinite
    <3>5. r.invoices \in SUBSET T
      BY <2>1, <2>2, <3>2, <3>3, FeesAssumption
      DEF FeesAssumption, AccruedTo, RunOwns
    <3>6. \A i \in T : g[i] \in Nat
      BY DEF AccruedTo, FeesInv, BooksOK, Fee
    <3>7. \A i \in r.invoices : f[i] \in Nat /\ f[i] <= g[i]
      <4>1. \A i \in r.invoices : f[i] = FeeIn(r, i) /\ g[i] = FeeIn(r, i)
        BY <3>2, <3>5, Zenon
      <4> HIDE DEF f, g
      <4>2. QED
        BY <3>3, <4>1
    <3>8. Accruals(b, p)' = Total(T, g) /\ Calculated(r) = Total(r.invoices, f)
      BY DEF Accruals, Calculated
    <3> HIDE DEF T, f, g
    <3>9. Total(r.invoices, f) <= Total(T, g)
      BY <3>4, <3>5, <3>6, <3>7, TotalGrows
    <3>10. QED
      BY <3>1, <3>8, <3>9
  <2>3. CASE ~ (b = r.broker /\ p = r.period)
    <3>1. feeInvoice'[b, p] = feeInvoice[b, p]
      BY <1>3, <2>3, FeeInvoiceWritten
    <3>2. \A i \in Invoice : Owner[i] = b => accrued'[i, p] = accrued[i, p]
      BY <2>1, <2>3, AccrualsWritten DEF RunOwns
    <3>3. AccruedTo(b, p)' = AccruedTo(b, p)
      BY <3>2 DEF AccruedTo
    <3>4. Accruals(b, p)' = Accruals(b, p)
      <4>1. [i \in AccruedTo(b, p)' |-> accrued'[i, p]]
              = [i \in AccruedTo(b, p) |-> accrued[i, p]]
        BY <3>2, <3>3 DEF AccruedTo
      <4>2. QED
        BY <3>3, <4>1 DEF Accruals
    <3>5. QED
      BY <3>1, <3>4 DEF FiguresInv, BilledAtMost
  <2>4. QED
    BY <2>2, <2>3
<1>4. QED
  BY <1>2, <1>3

-----------------------------------------------------------------------------
(* Types.                                                                  *)

LEMMA CountersKept ==
  ASSUME FeesTypeOK, [Next]_vars
  PROVE  changes' \in 0..MaxChanges /\ asked' \in Nat /\ faults' \in 0..MaxFaults
<1>1. /\ MaxChanges \in Nat /\ MaxFaults \in Nat
      /\ changes \in 0..MaxChanges /\ asked \in Nat /\ faults \in 0..MaxFaults
  BY FeesAssumption DEF FeesAssumption, FeesTypeOK
<1>2. ASSUME \/ \E t \in Tier : CreateTier(t) \/ DeactivateTier(t)
             \/ \E x \in Minimums : SetMinimumMonthlyFee(x)
      PROVE  changes' \in 0..MaxChanges /\ UNCHANGED <<asked, faults>>
  BY <1>1, <1>2
  DEF CreateTier, DeactivateTier, SetMinimumMonthlyFee, Changes
<1>3. ASSUME NEW p \in Month, NEW brokers \in SUBSET Broker,
             AdminRuns(p, brokers)
      PROVE  asked' \in Nat /\ UNCHANGED <<changes, faults>>
  BY <1>1, <1>3 DEF AdminRuns, prices
<1>4. ASSUME NEW r \in runs, RunLost(r) \/ LambdaGivesUp(r)
      PROVE  faults' \in 0..MaxFaults /\ UNCHANGED <<changes, asked>>
  <2>1. /\ faults < MaxFaults /\ faults' = faults + 1
        /\ UNCHANGED <<changes, asked>>
    BY <1>4 DEF RunLost, LambdaGivesUp, prices
  <2>2. QED
    BY <1>1, <2>1
<1>5. ASSUME NEW r \in runs, RunStep(r)
      PROVE  UNCHANGED <<changes, asked, faults>>
  BY <1>5 DEF RunStep, Check, Read, Write, prices
<1>6. ASSUME NEW i \in Invoice, Approve(i) \/ Resolve(i) \/ WriteOff(i)
      PROVE  UNCHANGED <<changes, asked, faults>>
  BY <1>6 DEF Approve, Resolve, WriteOff, prices
<1>7. ASSUME \/ Tick \/ LambdaRuns \/ UNCHANGED vars
             \/ \E b \in Broker, p \in Month : MarkIssued(b, p)
      PROVE  UNCHANGED <<changes, asked, faults>>
  BY <1>7 DEF Tick, LambdaRuns, MarkIssued, vars, prices
<1>8. QED
  BY <1>1, <1>2, <1>3, <1>4, <1>5, <1>6, <1>7 DEF Next

LEMMA TablesTyped ==
  ASSUME FeesInv, FiguresInv, [Next]_vars
  PROVE  /\ feeInvoice' \in [Broker \X Month -> FeeInvoice]
         /\ invoiceEntry' \in [Broker \X Month -> Fee]
<1>1. /\ feeInvoice \in [Broker \X Month -> FeeInvoice]
      /\ invoiceEntry \in [Broker \X Month -> Fee]
  BY DEF FiguresInv, FeesTypeOK
<1>2. CASE UNCHANGED books
  BY <1>1, <1>2 DEF books
<1>3. ASSUME NEW b \in Broker, NEW p \in Month, MarkIssued(b, p)
      PROVE  /\ feeInvoice' \in [Broker \X Month -> FeeInvoice]
             /\ invoiceEntry' \in [Broker \X Month -> Fee]
  BY <1>1, <1>3 DEF MarkIssued, FeeInvoice
<1>4. ASSUME NEW r \in runs, Write(r)
      PROVE  /\ feeInvoice' \in [Broker \X Month -> FeeInvoice]
             /\ invoiceEntry' \in [Broker \X Month -> Fee]
  <2> DEFINE x == <<r.broker, r.period>>
             total == AtLeast(r.min, Calculated(r))
  <2>1. r \in Run /\ r.pc = "write" /\ x \in Broker \X Month
    BY <1>4 DEF FeesInv, RunFacts, Run, Write
  <2>2. Calculated(r) \in Nat
    BY <2>1, CalculatedIsNatural DEF FiguresInv
  <2>3. total \in Nat
    BY <2>1, <2>2 DEF AtLeast, Run
  <2>4. feeInvoice' = [feeInvoice EXCEPT ![x] = feeInvoice'[x]]
    <3>1. /\ DOMAIN feeInvoice' = Broker \X Month
          /\ \A y \in Broker \X Month : y # x => feeInvoice'[y] = feeInvoice[y]
      BY <1>4, FeeInvoiceWritten
    <3>2. \E row : feeInvoice' = [feeInvoice EXCEPT ![x] = row]
      BY <1>4 DEF Write, WriteBooks
    <3>3. QED
      BY <1>1, <2>1, <3>2
  <2>5. feeInvoice'[x] \in FeeInvoice
    <3>1. feeInvoice[x].status \in {"NONE", "DRAFT", "ISSUED"}
      BY <1>1, <2>1 DEF FeeInvoice
    <3>2. r.readIn \in 0..LastMonth
      BY <2>1 DEF Run
    <3>3. /\ feeInvoice'[x].status \in {"DRAFT", "ISSUED"}
          /\ feeInvoice'[x].calculated \in Nat
          /\ feeInvoice'[x] = [status |-> feeInvoice'[x].status,
                               calculated |-> feeInvoice'[x].calculated,
                               total |-> total, readIn |-> r.readIn]
      BY <1>4, <2>2, <3>1, TransactionWrites
    <3>4. QED
      BY <2>3, <3>2, <3>3 DEF FeeInvoice
  <2>6. feeInvoice' \in [Broker \X Month -> FeeInvoice]
    BY <1>1, <2>4, <2>5
  <2>7. invoiceEntry' = [invoiceEntry EXCEPT ![x] =
                          IF invoiceEntry[x] = NoFee THEN total
                          ELSE invoiceEntry[x]]
    BY <1>4 DEF Write, WriteBooks
  <2> HIDE DEF x, total
  <2>8. invoiceEntry' \in [Broker \X Month -> Fee]
    BY <1>1, <2>1, <2>3, <2>7 DEF Fee
  <2>9. QED
    BY <2>6, <2>8
<1>5. QED
  BY <1>2, <1>3, <1>4, BooksSteps

LEMMA TypesKept ==
  ASSUME FeesInv, FeesInv', FiguresInv, LambdaAlone', [Next]_vars
  PROVE  FeesTypeOK'
<1>1. WorldOK' /\ PricesOK' /\ BooksOK' /\ \A r \in runs' : RunFacts(r)'
  BY DEF FeesInv
<1>2. runs' \subseteq Run
  BY <1>1 DEF RunFacts
<1>3. accrued' \in [Invoice \X Month -> Fee] /\ accrualEntry' = accrued'
  BY <1>1 DEF BooksOK
<1>4. FeesTypeOK
  BY DEF FiguresInv
<1>5. QED
  BY <1>1, <1>2, <1>3, <1>4, CountersKept, TablesTyped
  DEF FeesTypeOK, WorldOK, PricesOK, LambdaAlone

LEMMA FiguresInit == Init => FiguresInv
<1> SUFFICES ASSUME Init PROVE FiguresInv
  OBVIOUS
<1>1. FeesTypeOK
  <2>1. FeesInv
    BY FeesInit
  <2>2. NoInvoice \in FeeInvoice
    BY FeesAssumption DEF FeesAssumption, NoInvoice, FeeInvoice
  <2>3. /\ feeInvoice \in [Broker \X Month -> FeeInvoice]
        /\ invoiceEntry \in [Broker \X Month -> Fee]
    BY <2>2 DEF Init, Fee
  <2>4. /\ changes \in 0..MaxChanges /\ asked \in Nat
        /\ attempts \in 0..Tries /\ faults \in 0..MaxFaults /\ runs \subseteq Run
    BY FeesAssumption DEF FeesAssumption, Init
  <2>5. QED
    BY <2>1, <2>3, <2>4 DEF FeesInv, FeesTypeOK, WorldOK, PricesOK, BooksOK
<1>2. ApprovedFinite
  <2>1. {i \in Invoice : approvedIn[i] # 0} = Standing
    BY FeesAssumption DEF FeesAssumption, Init
  <2>2. QED
    BY <2>1, FeesAssumption DEF FeesAssumption, ApprovedFinite
<1>3. LambdaAlone
  BY FeesAssumption DEF FeesAssumption, Init, LambdaAlone
<1>4. BilledAtMost
  <2> SUFFICES ASSUME NEW b \in Broker, NEW p \in Month
               PROVE  feeInvoice[b, p].calculated <= Accruals(b, p)
    BY DEF BilledAtMost
  <2>1. feeInvoice[b, p].calculated = 0
    BY DEF Init, NoInvoice
  <2>2. AccruedTo(b, p) = {}
    BY DEF Init, AccruedTo
  <2>3. Accruals(b, p) \in Nat
    <3> DEFINE f == [i \in AccruedTo(b, p) |-> accrued[i, p]]
    <3>1. IsFiniteSet(AccruedTo(b, p)) /\ \A i \in AccruedTo(b, p) : f[i] \in Nat
      BY <2>2, FS_EmptySet
    <3> HIDE DEF f
    <3>2. Total(AccruedTo(b, p), f) \in Nat
      BY <3>1, TotalIsNatural
    <3>3. QED
      BY <3>2 DEF Accruals, f
  <2>4. \A n \in Nat : 0 <= n
    OBVIOUS
  <2>5. QED
    BY <2>1, <2>3, <2>4, Zenon
<1>5. QED
  BY <1>1, <1>2, <1>3, <1>4 DEF Init, FiguresInv

LEMMA FiguresInvariant == Spec => []FiguresInv
<1>1. FeesInv /\ FeesInv' /\ FiguresInv /\ [Next]_vars => FiguresInv'
  <2> SUFFICES ASSUME FeesInv, FeesInv', FiguresInv, [Next]_vars
               PROVE  FiguresInv'
    OBVIOUS
  <2>1. ApprovedFinite' /\ RunMoves
    BY ApprovedKept, RunsMove DEF FiguresInv
  <2>2. LambdaAlone' /\ \A r \in runs' : RunOwns(r)'
    BY <2>1, LambdaKept, OwnsKept DEF FiguresInv
  <2>3. BilledAtMost' /\ FeesTypeOK'
    BY <2>1, <2>2, BilledKept, TypesKept
  <2>4. QED
    BY <2>1, <2>2, <2>3 DEF FiguresInv
<1>2. QED
  BY <1>1, FiguresInit, FeesInvariant, PTL DEF Spec

(* Type correctness of the fee run: in particular every figure written is  *)
(* a number of cents, and the Lambda's attempts are never overdrawn.       *)
THEOREM FeesTypeCorrect == Spec => []FeesTypeOK
<1>1. FiguresInv => FeesTypeOK
  BY DEF FiguresInv
<1>2. QED
  BY <1>1, FiguresInvariant, PTL

(* However often the approvals query returns an invoice, no fee invoice    *)
(* comes to more than the accruals, each counted that often.               *)
THEOREM BilledWithinAccruals == Spec => []BilledAtMost
<1>1. FiguresInv => BilledAtMost
  BY DEF FiguresInv
<1>2. QED
  BY <1>1, FiguresInvariant, PTL

-----------------------------------------------------------------------------
(* What NeverOvercharged sums up.                                          *)
AccruedRecursion(h, p, S) ==
  h = [s \in SUBSET S |->
         IF s = {} THEN 0 ELSE accrued[First(s), p] + h[s \ {First(s)}]]

LEMMA AccruedIsSum ==
  ASSUME NEW p, NEW S, IsFiniteSet(S)
  PROVE  MapThenSumSet(LAMBDA i : accrued[i, p], S)
           = Sum([i \in S |-> accrued[i, p]], S)
<1> DEFINE g == [i \in S |-> accrued[i, p]]
<1>1. MapThenSumSet(LAMBDA i : accrued[i, p], S)
        = (CHOOSE h : AccruedRecursion(h, p, S))[S]
  BY Zenon DEF MapThenSumSet, MapThenFoldSet, AccruedRecursion, First
<1>2. ASSUME NEW h PROVE AccruedRecursion(h, p, S) <=> Recursion(h, g, S)
  <2>1. \A s \in SUBSET S : s # {} => g[First(s)] = accrued[First(s), p]
    BY FirstIsIn
  <2> HIDE DEF g
  <2>2. QED
    BY <2>1 DEF AccruedRecursion, Recursion
<1> DEFINE h == CHOOSE h : AccruedRecursion(h, p, S)
<1>3. AccruedRecursion(h, p, S)
  BY <1>2, RecursionExists
<1> HIDE DEF g, h
<1>4. h[S] = Sum(g, S)
  BY <1>2, <1>3, SumOfRecursion
<1>5. QED
  BY <1>1, <1>4, Zenon DEF g, h

(* Where no approval has a second row, no Broker is ever billed more than  *)
(* its invoices' accruals, whichever runs overlap, are cut off or repeated *)
(* and whatever the prices do meanwhile.                                   *)
THEOREM NobodyIsOvercharged ==
  ASSUME Doubled = {}
  PROVE  Spec => []NeverOvercharged
<1>1. FeesInv /\ FiguresInv => NeverOvercharged
  <2> SUFFICES ASSUME FeesInv, FiguresInv, NEW b \in Broker, NEW p \in Month
               PROVE  feeInvoice[b, p].calculated <=
                        MapThenSumSet(LAMBDA i : accrued[i, p],
                          {i \in Invoice : Owner[i] = b /\ accrued[i, p] # NoFee})
    BY DEF NeverOvercharged
  <2> DEFINE S == AccruedTo(b, p)
             f == [i \in S |-> accrued[i, p]]
             g == Weighed(S, f)
  <2>1. IsFiniteSet(S)
    BY AccruedFinite DEF AccruedAreFinite, FeesInv, FiguresInv
  <2>2. \A i \in S : f[i] \in Int /\ f[i] = g[i]
    <3>1. \A i \in S : f[i] \in Nat
      BY DEF AccruedTo, FeesInv, BooksOK, Fee
    <3> HIDE DEF f
    <3>2. QED
      BY <3>1 DEF Weighed, Copies
  <2>3. Accruals(b, p) = Sum(g, S)
    BY <2>1, TotalIsSum DEF Accruals
  <2>4. MapThenSumSet(LAMBDA i : accrued[i, p], S) = Sum(f, S)
    BY <2>1, AccruedIsSum
  <2>5. feeInvoice[b, p].calculated <= Accruals(b, p)
    BY DEF FiguresInv, BilledAtMost
  <2>6. Sum(f, S) = Sum(g, S)
    <3> HIDE DEF S, f, g
    <3>1. QED
      BY <2>1, <2>2, SumSame
  <2>7. QED
    BY <2>3, <2>4, <2>5, <2>6, Zenon DEF AccruedTo
<1>2. QED
  BY <1>1, FeesInvariant, FiguresInvariant, PTL

-----------------------------------------------------------------------------
(* The preview.                                                            *)

(* An inequality that holds of every row holds of the totals.              *)
LEMMA TotalBound ==
  ASSUME NEW S, IsFiniteSet(S), NEW f, NEW g, NEW e,
         NEW k \in Nat, NEW m \in Nat, NEW n \in Nat,
         \A i \in S : /\ f[i] \in Nat /\ g[i] \in Nat /\ e[i] \in Nat
                      /\ k * f[i] <= m * g[i] + n * e[i]
  PROVE  k * Total(S, f) <= m * Total(S, g) + n * Total(S, e)
<1> DEFINE u == Weighed(S, f)
           v == Weighed(S, g)
           w == Weighed(S, e)
           ku == [i \in S |-> k * u[i]]
           mv == [i \in S |-> m * v[i]]
           nw == [i \in S |-> n * w[i]]
           all == [i \in S |-> mv[i] + nw[i]]
<1>1. \A x, y \in Nat : x * y \in Nat
  OBVIOUS
<1>2. \A i \in S : u[i] \in Nat /\ v[i] \in Nat /\ w[i] \in Nat
  BY WeighedIsNatural
<1>3. \A i \in S : k * u[i] <= m * v[i] + n * w[i]
  <2> SUFFICES ASSUME NEW i \in S
               PROVE  k * u[i] <= m * v[i] + n * w[i]
    OBVIOUS
  <2>1. /\ f[i] \in Nat /\ g[i] \in Nat /\ e[i] \in Nat
        /\ k * f[i] <= m * g[i] + n * e[i]
    OBVIOUS
  <2>2. u[i] = Copies(i) * f[i] /\ v[i] = Copies(i) * g[i] /\ w[i] = Copies(i) * e[i]
    BY DEF Weighed
  <2> HIDE DEF u, v, w
  <2>3. CASE Copies(i) = 1
    BY <2>1, <2>2, <2>3
  <2>4. CASE Copies(i) = 2
    BY <2>1, <2>2, <2>4
  <2>5. QED
    BY <2>3, <2>4 DEF Copies
<1> HIDE DEF u, v, w
<1>4. \A i \in S : /\ ku[i] \in Nat /\ mv[i] \in Nat /\ nw[i] \in Nat
                   /\ all[i] = mv[i] + nw[i] /\ ku[i] <= all[i]
  BY <1>1, <1>2, <1>3
<1>5. \A i \in S : all[i] \in Nat
  BY <1>4
<1>6. /\ Sum(ku, S) = k * Sum(u, S)
      /\ Sum(mv, S) = m * Sum(v, S)
      /\ Sum(nw, S) = n * Sum(w, S)
  <2>1. /\ \A i \in S : u[i] \in Int /\ ku[i] = k * u[i]
        /\ \A i \in S : v[i] \in Int /\ mv[i] = m * v[i]
        /\ \A i \in S : w[i] \in Int /\ nw[i] = n * w[i]
    BY <1>2
  <2> HIDE DEF ku, mv, nw
  <2>2. QED
    BY <2>1, SumScale
<1> HIDE DEF ku, mv, nw, all
<1>7. Sum(ku, S) <= Sum(all, S)
  BY <1>4, <1>5, SumMonotone
<1>8. Sum(all, S) = Sum(mv, S) + Sum(nw, S)
  BY <1>4, SumPlus
<1>9. Total(S, f) = Sum(u, S) /\ Total(S, g) = Sum(v, S) /\ Total(S, e) = Sum(w, S)
  BY TotalIsSum DEF u, v, w
<1>10. QED
  BY <1>6, <1>7, <1>8, <1>9

(* A cent, and half of one, in the unit the preview computes in.           *)
Cent == 100000
Half == 50000

LEMMA UnitsAreNatural == Cent \in Nat /\ Half \in Nat
  BY SMT DEF Cent, Half

(* The fee of an invoice is within half a cent of its exact amount.        *)
LEMMA FeeIsRounded ==
  ASSUME NEW amount \in Nat, NEW pct \in Nat
  PROVE  /\ Cent * FeeOf(amount, pct) <= pct * amount + Half
         /\ pct * amount <= Cent * FeeOf(amount, pct) + Half
<1>1. \A n \in Nat : /\ 100000 * Rounded(n, 100000) <= n + 50000
                     /\ n <= 100000 * Rounded(n, 100000) + 50000
  BY SMT DEF Rounded
<1>2. amount * pct \in Nat /\ amount * pct = pct * amount
  OBVIOUS
<1>3. QED
  BY <1>1, <1>2, SMT DEF FeeOf, Cent, Half

(* What a row adds to the run's fee, the preview's and the slack.          *)
LEMMA RowIsClose ==
  ASSUME NEW amount \in Nat, NEW pct \in Nat, NEW fee, NEW one,
         fee = FeeOf(amount, pct), one = 1
  PROVE  /\ fee \in Nat /\ one \in Nat
         /\ Cent * fee <= pct * amount + Half * one
         /\ pct * amount <= Cent * fee + Half * one
<1>1. fee \in Nat
  BY FeeIsNatural
<1>2. /\ Cent * fee <= pct * amount + Half
      /\ pct * amount <= Cent * fee + Half
  BY FeeIsRounded
<1>3. Half * one = Half /\ one \in Nat
  BY UnitsAreNatural
<1>4. QED
  BY <1>1, <1>2, <1>3

(* Raising both to the minimum brings them no further apart.               *)
LEMMA MinimumKeepsClose ==
  ASSUME NEW min \in Nat, NEW c \in Nat, NEW y \in Nat, NEW d \in Nat,
         Cent * c <= y + d, y <= Cent * c + d
  PROVE  /\ Cent * AtLeast(min, c) <= AtLeast(min * Cent, y) + d
         /\ AtLeast(min * Cent, y) <= Cent * AtLeast(min, c) + d
  BY SMT DEF AtLeast, Cent

(* The preview is off by the rounding only: half a cent for every row the  *)
(* run bills, whatever the amounts, the percentage and the minimum.        *)
THEOREM PreviewIsClose == Spec => []PreviewAgrees
<1>1. FeesInv /\ FiguresInv => PreviewAgrees
  <2> SUFFICES ASSUME FeesInv, FiguresInv, NEW r \in runs, r.pc = "write",
                      \A x \in Billed(r) : accrued[x] = NoFee
               PROVE  LET billed == Cent * AtLeast(r.min, Calculated(r))
                          exact  == AtLeast(r.min * Cent,
                                            Total(r.invoices, Amount) * r.pct)
                          slack  == Half * Total(r.invoices,
                                                 [i \in r.invoices |-> 1])
                      IN  billed <= exact + slack /\ exact <= billed + slack
    BY SMT DEF PreviewAgrees, EstimatedFee, Cent, Half
  <2> DEFINE S == r.invoices
             f == [i \in S |-> FeeIn(r, i)]
             one == [i \in S |-> 1]
             c == Total(S, f)
             a == Total(S, Amount)
             n == Total(S, one)
             exact == a * r.pct
             slack == Half * n
  <2>1. /\ IsFiniteSet(S) /\ S \subseteq Invoice /\ r.period \in Month
        /\ r.pct \in Nat /\ r.min \in Nat
    BY BilledFinite DEF FiguresInv, FeesInv, RunFacts, Run
  <2>2. \A i \in S : f[i] = FeeOf(Amount[i], r.pct) /\ Amount[i] \in Nat
    <3> SUFFICES ASSUME NEW i \in S
                 PROVE  /\ FeeIn(r, i) = FeeOf(Amount[i], r.pct)
                        /\ Amount[i] \in Nat
      OBVIOUS
    <3>1. Amount[i] \in Nat
      BY <2>1, FeesAssumption DEF FeesAssumption
    <3>2. <<i, r.period>> \in Billed(r)
      BY DEF Billed
    <3>3. accrued[<<i, r.period>>] = NoFee
      BY <3>2
    <3>4. QED
      BY <3>1, <3>3, Zenon DEF FeeIn
  <2>3. \A i \in S : /\ f[i] \in Nat /\ Amount[i] \in Nat /\ one[i] \in Nat
                     /\ Cent * f[i] <= r.pct * Amount[i] + Half * one[i]
                     /\ r.pct * Amount[i] <= Cent * f[i] + Half * one[i]
    <3>1. \A i \in S : one[i] = 1
      OBVIOUS
    <3> HIDE DEF S, f, one
    <3>2. QED
      BY <2>1, <2>2, <3>1, RowIsClose, Zenon
  <2>4. c \in Nat /\ a \in Nat /\ n \in Nat
    <3> HIDE DEF S, f, one
    <3>1. QED
      BY <2>1, <2>3, TotalIsNatural
  <2>5. Cent * c <= r.pct * a + Half * n /\ r.pct * a <= Cent * c + Half * n
    <3> HIDE DEF S, f, one
    <3>1. Cent * c <= r.pct * a + Half * n
      BY <2>1, <2>3, UnitsAreNatural, TotalBound, Zenon
    <3>2. r.pct * a <= Cent * c + Half * n
      BY <2>1, <2>3, UnitsAreNatural, TotalBound, Zenon
    <3>3. QED
      BY <3>1, <3>2, Zenon
  <2> HIDE DEF S, f, one, c, a, n
  <2>6. exact = r.pct * a /\ exact \in Nat /\ slack \in Nat
    BY <2>1, <2>4, UnitsAreNatural
  <2> HIDE DEF exact
  <2>7. /\ Cent * AtLeast(r.min, c) <= AtLeast(r.min * Cent, exact) + slack
        /\ AtLeast(r.min * Cent, exact) <= Cent * AtLeast(r.min, c) + slack
    <3>1. Cent * c <= exact + slack /\ exact <= Cent * c + slack
      BY <2>5, <2>6
    <3> HIDE DEF slack
    <3>2. QED
      BY <2>1, <2>4, <2>6, <3>1, MinimumKeepsClose, Zenon
  <2>8. QED
    BY <2>7, Zenon DEF Calculated, exact, slack, S, f, one, c, a, n
<1>2. QED
  BY <1>1, FeesInvariant, FiguresInvariant, PTL
=============================================================================
