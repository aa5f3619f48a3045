-------------------------- MODULE Onboarding_proofs --------------------------
(***************************************************************************)
(* The safety of onboarding and of the notification outbox, for any        *)
(* accounts, users, transitions, sender runs, batch size and faults.       *)
(***************************************************************************)
EXTENDS Onboarding, SequenceTheorems, FiniteSetTheorems, TLAPS

(* A run works on rows there are, and what it was told was accepted was.   *)
RunFacts(x) ==
  /\ x.todo \subseteq DOMAIN notices
  /\ x.at # 0 => x.at \in x.todo
  /\ x.at # 0 /\ x.accepted => x.at \in delivered

OutboxInv ==
  /\ OutboxTypeOK
  /\ \A x \in senders : RunFacts(x)
  /\ SentWasDelivered

OwnTypeOK ==
  /\ onboarding \in [Account -> OnboardingStatus \cup {"NONE"}]
  /\ entered \subseteq Account \X OnboardingStatus
  /\ begun \in 0..MaxTransitions
  /\ transitions \subseteq Transition
  /\ audited \subseteq Topic
  /\ lost \subseteq Topic

(* A transition once begun has a number, has passed its check on a status  *)
(* that was entered, and has its audit row when it reads its recipients.   *)
TransitionFacts(t) ==
  /\ t.id \in 1..begun
  /\ t.pc \in {"audited", "posting"} => t.id \in audited
  /\ t.to \in NotifiableStatuses => <<t.acct, "UNDER_REVIEW">> \in entered

(* Every status an account has had is on record, and none of the three     *)
(* decisions was recorded before a review was.                             *)
History ==
  \A a \in Account :
    /\ onboarding[a] # "NONE" => <<a, onboarding[a]>> \in entered
    /\ \A s \in NotifiableStatuses :
         <<a, s>> \in entered => <<a, "UNDER_REVIEW">> \in entered

OwnInv ==
  /\ OwnTypeOK
  /\ \A t \in transitions : TransitionFacts(t)
  /\ History

OnboardingInv == OutboxInv /\ OwnInv /\ NoticeIsAudited

-----------------------------------------------------------------------------
(* Nothing is in flight and no account there yet.                          *)
LEMMA OnboardingInit == Init => OnboardingInv
<1> SUFFICES ASSUME Init PROVE OnboardingInv
  OBVIOUS
<1>1. notices \in Seq(Row) /\ DOMAIN notices = {}
  BY DEF Init, OutboxInit
<1>2. OutboxInv
  BY <1>1, OutboxAssumption
  DEF OutboxAssumption, Init, OutboxInit, OutboxInv, OutboxTypeOK, SentWasDelivered
<1>3. OwnInv
  BY OnboardingAssumption
  DEF OnboardingAssumption, Init, OwnInv, OwnTypeOK, History, OnboardingStatus
<1>4. QED
  BY <1>1, <1>2, <1>3 DEF OnboardingInv, NoticeIsAudited

(* A status written to a row keeps the table, and the row's other columns. *)
LEMMA StatusWritten ==
  ASSUME notices \in Seq(Row), NEW n \in DOMAIN notices,
         NEW st \in {"SENT", "FAILED"}, SetStatus(n, st)
  PROVE  /\ notices' \in Seq(Row) /\ DOMAIN notices' = DOMAIN notices
         /\ notices'[n].status = st
         /\ \A m \in DOMAIN notices :
              /\ notices'[m].about = notices[m].about
              /\ m # n => notices'[m] = notices[m]
<1>1. notices[n] \in Row
  BY ElementOfSeq
<1>2. [notices[n] EXCEPT !.status = st] \in Row
  BY <1>1 DEF Row
<1>3. notices' = [notices EXCEPT ![n] = [notices[n] EXCEPT !.status = st]]
  BY DEF SetStatus
<1>4. notices' \in Seq(Row) /\ DOMAIN notices' = DOMAIN notices
  BY <1>2, <1>3, ExceptSeq
<1>5. QED
  BY <1>1, <1>3, <1>4 DEF Row

(* A row posted is the last, PENDING, and leaves the others as they were.  *)
LEMMA RowPosted ==
  ASSUME notices \in Seq(Row), NEW u \in User, NEW topic \in Topic,
         Post(u, topic)
  PROVE  /\ notices' \in Seq(Row)
         /\ Len(notices') = Len(notices) + 1
         /\ DOMAIN notices' = DOMAIN notices \cup {Len(notices')}
         /\ notices'[Len(notices')].status = "PENDING"
         /\ notices'[Len(notices')].about = topic
         /\ \A m \in DOMAIN notices : notices'[m] = notices[m]
<1> DEFINE row == [to |-> u, about |-> topic, status |-> "PENDING"]
<1>1. row \in Row /\ row.status = "PENDING" /\ row.about = topic
  BY DEF Row
<1>2. notices' = Append(notices, row)
  BY DEF Post
<1> HIDE DEF row
<1>3. QED
  BY <1>1, <1>2, AppendProperties

(* A run goes on with less of its batch.                                   *)
LEMMA RunGoesOn ==
  ASSUME OutboxInv, NEW x \in senders, NEW n, DoneWith(x, n)
  PROVE  /\ senders' \subseteq Run
         /\ \A y \in senders' :
              y \in senders \/ (y.at = 0 /\ y.todo \subseteq x.todo)
<1>1. x \in Run
  BY DEF OutboxInv, OutboxTypeOK
<1>2. [x EXCEPT !.todo = @ \ {n}, !.at = 0, !.accepted = FALSE] \in Run
  BY <1>1 DEF Run
<1>3. senders' \subseteq Run
  BY <1>2 DEF DoneWith, OutboxInv, OutboxTypeOK
<1>4. ASSUME NEW y \in senders', y \notin senders
      PROVE  y.at = 0 /\ y.todo \subseteq x.todo
  BY <1>1, <1>4 DEF DoneWith, Run
<1>5. QED
  BY <1>3, <1>4

(* Mark and RecipientMissing: a row is closed and the run goes on.         *)
LEMMA RowClosed ==
  ASSUME OutboxInv, NEW x \in senders, NEW n \in x.todo,
         NEW st \in {"SENT", "FAILED"}, st = "SENT" => n \in delivered,
         SetStatus(n, st), DoneWith(x, n), UNCHANGED <<users, delivered, repeats>>,
         faults' = faults
  PROVE  OutboxInv'
<1>1. n \in DOMAIN notices /\ notices \in Seq(Row)
  BY DEF OutboxInv, OutboxTypeOK, RunFacts
<1>2. /\ notices' \in Seq(Row) /\ DOMAIN notices' = DOMAIN notices
      /\ notices'[n].status = st
      /\ \A m \in DOMAIN notices : m # n => notices'[m] = notices[m]
  BY <1>1, StatusWritten
<1>3. OutboxTypeOK'
  BY <1>2, RunGoesOn DEF OutboxInv, OutboxTypeOK
<1>4. ASSUME NEW y \in senders' PROVE RunFacts(y)'
  BY <1>2, RunGoesOn DEF OutboxInv, RunFacts
<1>5. SentWasDelivered'
  BY <1>2 DEF OutboxInv, SentWasDelivered
<1>6. QED
  BY <1>3, <1>4, <1>5 DEF OutboxInv

(* What the account's side of a step does to the outbox.                   *)
LEMMA OutboxAside ==
  ASSUME OutboxInv, UNCHANGED <<notices, delivered, repeats>>,
         users' \in [User -> {"NONE", "ACTIVE", "GONE"}],
         senders' \subseteq senders, faults' \in 0..MaxFaults
  PROVE  OutboxInv'
  BY DEF OutboxInv, OutboxTypeOK, RunFacts, SentWasDelivered

(* Another fault is one within the bound.                                  *)
LEMMA FaultWithin ==
  ASSUME faults \in 0..MaxFaults, faults < MaxFaults
  PROVE  faults + 1 \in 0..MaxFaults
  BY OutboxAssumption DEF OutboxAssumption

(* A step of a sender run.                                                 *)
LEMMA SenderKeeps ==
  ASSUME OutboxInv, NEW x \in senders, SenderStep(x) \/ SenderFault(x)
  PROVE  OutboxInv'
<1>1. x \in Run /\ RunFacts(x)
  BY DEF OutboxInv, OutboxTypeOK
<1>2. CASE Mark(x)
  <2> DEFINE st == IF x.accepted THEN "SENT" ELSE "FAILED"
  <2>1. x.at \in x.todo /\ (st = "SENT" => x.at \in delivered)
    BY <1>1, <1>2 DEF Mark, RunFacts
  <2>2. SetStatus(x.at, st) /\ DoneWith(x, x.at)
    BY <1>2 DEF Mark
  <2> HIDE DEF st
  <2>3. st \in {"SENT", "FAILED"}
    BY DEF st
  <2>4. QED
    BY <1>2, <2>1, <2>2, <2>3, RowClosed DEF Mark
<1>3. ASSUME NEW n \in x.todo, RecipientMissing(x, n) PROVE OutboxInv'
  BY <1>3, RowClosed DEF RecipientMissing
<1>4. ASSUME NEW n \in x.todo, Send(x, n) PROVE OutboxInv'
  <2>1. n \in DOMAIN notices /\ n \in Nat
    BY <1>1 DEF RunFacts, Run
  <2>2. PICK ok \in BOOLEAN :
          /\ IF ok THEN Accept(n) ELSE UNCHANGED <<delivered, repeats>>
          /\ senders' = (senders \ {x}) \cup
                          {[x EXCEPT !.at = n, !.accepted = ok]}
    BY <1>4 DEF Send
  <2>3. /\ delivered \subseteq delivered' /\ delivered' \subseteq DOMAIN notices
        /\ repeats' \in Nat /\ (ok => n \in delivered')
    BY <2>1, <2>2 DEF Accept, OutboxInv, OutboxTypeOK
  <2>4. [x EXCEPT !.at = n, !.accepted = ok] \in Run
    BY <1>1, <2>1 DEF Run
  <2>5. OutboxTypeOK'
    BY <1>4, <2>2, <2>3, <2>4 DEF Send, OutboxInv, OutboxTypeOK
  <2>6. RunFacts([x EXCEPT !.at = n, !.accepted = ok])'
    BY <1>1, <1>4, <2>3 DEF Send, RunFacts, Run
  <2>7. ASSUME NEW y \in senders' PROVE RunFacts(y)'
    BY <1>4, <2>2, <2>3, <2>6 DEF Send, OutboxInv, RunFacts
  <2>8. SentWasDelivered'
    BY <1>4, <2>3 DEF Send, OutboxInv, SentWasDelivered
  <2>9. QED
    BY <2>5, <2>7, <2>8 DEF OutboxInv
<1>5. ASSUME NEW n \in x.todo, SendThrows(x, n) PROVE OutboxInv'
  <2>1. n \in DOMAIN notices
    BY <1>1 DEF RunFacts
  <2>2. /\ delivered \subseteq delivered' /\ delivered' \subseteq DOMAIN notices
        /\ repeats' \in Nat
    BY <1>5, <2>1 DEF SendThrows, Accept, OutboxInv, OutboxTypeOK
  <2>3. faults' \in 0..MaxFaults
    BY <1>5, FaultWithin DEF SendThrows, OutboxInv, OutboxTypeOK
  <2>4. QED
    BY <1>5, <2>2, <2>3
    DEF SendThrows, OutboxInv, OutboxTypeOK, RunFacts, SentWasDelivered
<1>6. CASE SenderLost(x)
  <2>1. faults' \in 0..MaxFaults
    BY <1>6, FaultWithin DEF SenderLost, OutboxInv, OutboxTypeOK
  <2>2. QED
    BY <1>6, <2>1, OutboxAside DEF SenderLost, OutboxInv, OutboxTypeOK
<1>7. QED
  BY <1>2, <1>3, <1>4, <1>5, <1>6 DEF SenderStep, SenderFault

(* A run that starts takes rows that are PENDING.                          *)
LEMMA StartKeeps ==
  ASSUME OutboxInv, NEW s \in Sender, SenderStart(s)
  PROVE  OutboxInv'
<1> DEFINE x == [slot |-> s, todo |-> Oldest(BatchSize, Pending), at |-> 0,
                 accepted |-> FALSE]
<1>1. DOMAIN notices \subseteq Nat \ {0}
  BY LenProperties DEF OutboxInv, OutboxTypeOK
<1>2. Oldest(BatchSize, Pending) \subseteq DOMAIN notices
  BY DEF Oldest, Pending
<1>3. x \in Run
  BY <1>1, <1>2 DEF Run
<1>4. senders' = senders \cup {x}
  BY DEF SenderStart
<1>5. OutboxTypeOK'
  BY <1>3, <1>4 DEF SenderStart, OutboxInv, OutboxTypeOK
<1>6. ASSUME NEW y \in senders' PROVE RunFacts(y)'
  BY <1>2, <1>4 DEF SenderStart, OutboxInv, RunFacts
<1>7. QED
  BY <1>5, <1>6 DEF SenderStart, OutboxInv, SentWasDelivered

(* A notice that is posted is not yet SENT and in no batch.                *)
LEMMA PostKeeps ==
  ASSUME OutboxInv, NEW u \in User, NEW topic \in Topic, Post(u, topic),
         UNCHANGED <<users, delivered, repeats, senders, faults>>
  PROVE  OutboxInv'
<1>1. /\ notices' \in Seq(Row)
      /\ DOMAIN notices' = DOMAIN notices \cup {Len(notices')}
      /\ notices'[Len(notices')].status = "PENDING"
      /\ \A m \in DOMAIN notices : notices'[m] = notices[m]
  <2>1. notices \in Seq(Row)
    BY DEF OutboxInv, OutboxTypeOK
  <2>2. QED
    BY <2>1, RowPosted
<1>2. OutboxTypeOK'
  BY <1>1 DEF OutboxInv, OutboxTypeOK
<1>3. ASSUME NEW y \in senders' PROVE RunFacts(y)'
  BY <1>1 DEF OutboxInv, RunFacts
<1>4. SentWasDelivered'
  <2> SUFFICES ASSUME NEW n \in DOMAIN notices', notices'[n].status = "SENT"
               PROVE  n \in delivered'
    BY DEF SentWasDelivered
  <2>1. n # Len(notices')
    BY <1>1
  <2>2. QED
    BY <1>1, <2>1 DEF OutboxInv, SentWasDelivered
<1>5. QED
  BY <1>2, <1>3, <1>4 DEF OutboxInv

-----------------------------------------------------------------------------
(* The outbox's invariant, whichever part of the system takes the step.    *)
LEMMA OutboxKept ==
  ASSUME OnboardingInv, [Next]_vars
  PROVE  OutboxInv'
<1> USE DEF OnboardingInv
<1>1. CASE UNCHANGED outboxVars
  BY <1>1 DEF outboxVars, OutboxInv, OutboxTypeOK, RunFacts, SentWasDelivered
<1>2. ASSUME NEW u \in User, InviteUser(u) PROVE OutboxInv'
  BY <1>2, OutboxAside DEF InviteUser, OutboxInv, OutboxTypeOK
<1>3. ASSUME NEW u \in User, RemoveUser(u) PROVE OutboxInv'
  <2>1. faults' \in 0..MaxFaults
    BY <1>3, FaultWithin DEF RemoveUser, OutboxInv, OutboxTypeOK
  <2>2. QED
    BY <1>3, <2>1, OutboxAside DEF RemoveUser, OutboxInv, OutboxTypeOK
<1>4. ASSUME NEW t \in transitions, NEW u \in t.rest, PostNotice(t, u)
      PROVE  OutboxInv'
  <2>1. u \in User
    BY DEF OwnInv, OwnTypeOK, Transition
  <2>2. t.id \in 1..begun /\ begun \in 0..MaxTransitions
    BY DEF OwnInv, OwnTypeOK, TransitionFacts
  <2>3. t.id \in Topic
    BY <2>2, OnboardingAssumption DEF OnboardingAssumption
  <2>4. QED
    BY <1>4, <2>1, <2>3, PostKeeps DEF PostNotice
<1>5. ASSUME NEW t \in transitions, TransitionLost(t) PROVE OutboxInv'
  <2>1. faults' \in 0..MaxFaults
    BY <1>5, FaultWithin DEF TransitionLost, OutboxInv, OutboxTypeOK
  <2>2. QED
    BY <1>5, <2>1, OutboxAside DEF TransitionLost, OutboxInv, OutboxTypeOK
<1>6. CASE SenderNext
  BY <1>6, StartKeeps, SenderKeeps DEF SenderNext, Schedule
<1>7. ASSUME NEW t \in transitions,
             TransitionUpdate(t) \/ TransitionAudit(t) \/ ReadRecipients(t)
      PROVE  UNCHANGED outboxVars
  BY <1>7 DEF TransitionUpdate, TransitionAudit, ReadRecipients
<1>8. ASSUME NEW a \in Account,
             \/ CreateAccount(a)
             \/ \E to \in OnboardingStatus, reasoned \in BOOLEAN :
                  TransitionBegin(a, to, reasoned)
      PROVE  UNCHANGED outboxVars
  BY <1>8 DEF CreateAccount, TransitionBegin
<1>9. CASE UNCHANGED vars
  BY <1>1, <1>9 DEF vars
<1>10. QED
  BY <1>1, <1>2, <1>3, <1>4, <1>5, <1>6, <1>7, <1>8, <1>9
  DEF Next, TransitionStep

-----------------------------------------------------------------------------
(* A transition that goes on, or is gone, with what is known of it.        *)
LEMMA TransitionsStay ==
  ASSUME OwnInv, NEW t \in transitions, NEW t1,
         t1.id = t.id /\ t1.acct = t.acct /\ t1.to = t.to,
         t1.pc \in {"audited", "posting"} => t.id \in audited',
         transitions' \subseteq (transitions \ {t}) \cup {t1},
         t1 \in Transition, begun' = begun,
         audited \subseteq audited', entered \subseteq entered'
  PROVE  /\ transitions' \subseteq Transition
         /\ \A x \in transitions' : TransitionFacts(x)'
  BY DEF OwnInv, OwnTypeOK, TransitionFacts

(* Onboarding's invariant, whichever transitions overlap.                  *)
LEMMA OwnKept ==
  ASSUME OnboardingInv, [Next]_vars
  PROVE  OwnInv'
<1> USE DEF OnboardingInv
<1>1. CASE UNCHANGED ownVars
  BY <1>1 DEF ownVars, OwnInv, OwnTypeOK, TransitionFacts, History
<1>2. ASSUME NEW a \in Account, CreateAccount(a) PROVE OwnInv'
  <2>1. OwnTypeOK'
    BY <1>2 DEF CreateAccount, OwnInv, OwnTypeOK, OnboardingStatus
  <2>2. \A t \in transitions' : TransitionFacts(t)'
    BY <1>2 DEF CreateAccount, OwnInv, TransitionFacts
  <2>3. History'
    BY <1>2 DEF CreateAccount, OwnInv, OwnTypeOK, History, NotifiableStatuses
  <2>4. QED
    BY <2>1, <2>2, <2>3 DEF OwnInv
<1>3. ASSUME NEW a \in Account, NEW to \in OnboardingStatus,
             NEW reasoned \in BOOLEAN, TransitionBegin(a, to, reasoned)
      PROVE  OwnInv'
  <2> DEFINE t1 == [id |-> begun + 1, acct |-> a, to |-> to, pc |-> "read",
                    rest |-> {}]
  <2>1. begun' = begun + 1 /\ begun' \in 1..MaxTransitions
    BY <1>3, OnboardingAssumption
    DEF OnboardingAssumption, TransitionBegin, OwnInv, OwnTypeOK
  <2>2. begun \in Nat /\ begun' \in Nat
    BY <2>1 DEF OwnInv, OwnTypeOK
  <2>3. transitions' = transitions \cup {t1} /\ t1 \in Transition
    BY <1>3, <2>1, <2>2 DEF TransitionBegin, Transition
  <2>4. to \in NotifiableStatuses => <<a, "UNDER_REVIEW">> \in entered
    <3>1. /\ onboarding[a] \in OnboardingStatus
          /\ to \in OnboardingTransitions[onboarding[a]]
      BY <1>3 DEF TransitionBegin, IsLegalOnboardingTransition, OwnInv, OwnTypeOK
    <3>2. to \in NotifiableStatuses =>
            onboarding[a] \in {"UNDER_REVIEW", "APPROVED", "SUSPENDED"}
      BY <3>1 DEF OnboardingTransitions, OnboardingStatus, NotifiableStatuses
    <3>3. QED
      BY <3>2 DEF OwnInv, History, NotifiableStatuses
  <2>5. /\ t1.id \in 1..begun' /\ t1.pc = "read"
        /\ t1.to \in NotifiableStatuses =>
             <<t1.acct, "UNDER_REVIEW">> \in entered
    BY <2>1, <2>2, <2>4
  <2> HIDE DEF t1
  <2>6. UNCHANGED <<onboarding, entered, audited, lost>>
    BY <1>3 DEF TransitionBegin
  <2>7. OwnTypeOK'
    BY <2>1, <2>3, <2>6 DEF OwnInv, OwnTypeOK
  <2>8. ASSUME NEW t \in transitions' PROVE TransitionFacts(t)'
    BY <2>1, <2>2, <2>3, <2>5, <2>6 DEF OwnInv, TransitionFacts
  <2>9. History'
    BY <2>6 DEF OwnInv, History
  <2>10. QED
    BY <2>7, <2>8, <2>9 DEF OwnInv
<1>4. ASSUME NEW t \in transitions, TransitionUpdate(t) PROVE OwnInv'
  <2> DEFINE t1 == [t EXCEPT !.pc = "updated"]
  <2>1. t \in Transition /\ TransitionFacts(t)
    BY DEF OwnInv, OwnTypeOK
  <2>2. /\ t1 \in Transition /\ t1.pc = "updated"
        /\ t1.id = t.id /\ t1.acct = t.acct /\ t1.to = t.to
    BY <2>1 DEF Transition
  <2>3. /\ transitions' \subseteq Transition
        /\ \A x \in transitions' : TransitionFacts(x)'
    BY <1>4, <2>2, TransitionsStay DEF TransitionUpdate, Goes
  <2>4. OwnTypeOK'
    BY <1>4, <2>1, <2>3 DEF TransitionUpdate, OwnInv, OwnTypeOK, Transition
  <2>5. History'
    BY <1>4, <2>1
    DEF TransitionUpdate, OwnInv, OwnTypeOK, History, TransitionFacts, Transition
  <2>6. QED
    BY <2>3, <2>4, <2>5 DEF OwnInv
<1>5. ASSUME NEW t \in transitions, TransitionAudit(t) PROVE OwnInv'
  <2> DEFINE t1 == [t EXCEPT !.pc = "audited"]
  <2>1. t \in Transition /\ t.id \in 1..begun /\ begun \in 0..MaxTransitions
    BY DEF OwnInv, OwnTypeOK, TransitionFacts
  <2>2. t1 \in Transition /\ t1.id = t.id /\ t1.acct = t.acct /\ t1.to = t.to
    BY <2>1 DEF Transition
  <2>3. t.id \in Topic
    BY <2>1, OnboardingAssumption DEF OnboardingAssumption
  <2>4. /\ transitions' \subseteq Transition
        /\ \A x \in transitions' : TransitionFacts(x)'
    BY <1>5, <2>2, TransitionsStay DEF TransitionAudit, Goes
  <2>5. QED
    BY <1>5, <2>3, <2>4 DEF TransitionAudit, OwnInv, OwnTypeOK, History
<1>6. ASSUME NEW t \in transitions, NEW rest \in SUBSET User,
             PostingTo(t, rest), t.pc \in {"audited", "posting"},
             UNCHANGED <<onboarding, entered, audited, begun, lost>>
      PROVE  OwnInv'
  <2> DEFINE t1 == [t EXCEPT !.pc = "posting", !.rest = rest]
  <2>1. t \in Transition /\ TransitionFacts(t)
    BY DEF OwnInv, OwnTypeOK
  <2>2. /\ t1 \in Transition
        /\ t1.id = t.id /\ t1.acct = t.acct /\ t1.to = t.to
        /\ t.id \in audited
    BY <1>6, <2>1 DEF Transition, TransitionFacts
  <2>3. transitions' \subseteq (transitions \ {t}) \cup {t1}
    BY <1>6 DEF PostingTo
  <2>4. /\ transitions' \subseteq Transition
        /\ \A x \in transitions' : TransitionFacts(x)'
    BY <1>6, <2>2, <2>3, TransitionsStay
  <2>5. QED
    BY <1>6, <2>4 DEF OwnInv, OwnTypeOK, History
<1>7. ASSUME NEW t \in transitions, ReadRecipients(t) PROVE OwnInv'
  <2> DEFINE rest == IF t.to \in NotifiableStatuses THEN ActiveUsersOf(t.acct)
                     ELSE {}
  <2>1. rest \in SUBSET User
    BY DEF ActiveUsersOf
  <2>2. PostingTo(t, rest)
    BY <1>7 DEF ReadRecipients
  <2> HIDE DEF rest
  <2>3. QED
    BY <1>6, <1>7, <2>1, <2>2 DEF ReadRecipients
<1>8. ASSUME NEW t \in transitions, NEW u \in t.rest, PostNotice(t, u)
      PROVE  OwnInv'
  <2>1. t.rest \ {u} \in SUBSET User
    BY DEF OwnInv, OwnTypeOK, Transition
  <2>2. QED
    BY <1>6, <1>8, <2>1 DEF PostNotice
<1>9. ASSUME NEW t \in transitions, TransitionLost(t) PROVE OwnInv'
  <2>1. t.id \in 1..begun /\ begun \in 0..MaxTransitions
    BY DEF OwnInv, OwnTypeOK, TransitionFacts
  <2>2. t.id \in Topic
    BY <2>1, OnboardingAssumption DEF OnboardingAssumption
  <2>3. QED
    BY <1>9, <2>2
    DEF TransitionLost, OwnInv, OwnTypeOK, TransitionFacts, History
<1>10. ASSUME NEW u \in User, InviteUser(u) \/ RemoveUser(u)
       PROVE  UNCHANGED ownVars
  BY <1>10 DEF InviteUser, RemoveUser
<1>11. CASE SenderNext
  BY <1>1, <1>11 DEF SenderNext
<1>12. CASE UNCHANGED vars
  BY <1>1, <1>12 DEF vars
<1>13. QED
  BY <1>1, <1>2, <1>3, <1>4, <1>5, <1>7, <1>8, <1>9, <1>10, <1>11, <1>12
  DEF Next, TransitionStep

(* A notice is only posted by a call that has written its audit row.       *)
LEMMA NoticesKept ==
  ASSUME OnboardingInv, [Next]_vars
  PROVE  NoticeIsAudited'
<1> USE DEF OnboardingInv
<1>1. notices \in Seq(Row)
  BY DEF OutboxInv, OutboxTypeOK
<1>2. CASE UNCHANGED notices /\ audited \subseteq audited'
  BY <1>2 DEF NoticeIsAudited
<1>3. ASSUME NEW t \in transitions, NEW u \in t.rest, PostNotice(t, u)
      PROVE  NoticeIsAudited'
  <2>1. u \in User /\ t \in Transition /\ TransitionFacts(t)
    BY DEF OwnInv, OwnTypeOK, Transition
  <2>2. t.id \in audited
    BY <1>3, <2>1 DEF PostNotice, TransitionFacts
  <2>3. t.id \in Topic /\ Post(u, t.id) /\ audited' = audited
    BY <1>3, <2>2 DEF PostNotice, OwnInv, OwnTypeOK
  <2>4. /\ DOMAIN notices' = DOMAIN notices \cup {Len(notices')}
        /\ notices'[Len(notices')].about = t.id
        /\ \A m \in DOMAIN notices : notices'[m] = notices[m]
    BY <1>1, <2>1, <2>3, RowPosted
  <2>5. QED
    BY <2>2, <2>3, <2>4 DEF NoticeIsAudited
<1>4. ASSUME NEW x \in senders, NEW n \in x.todo, NEW st \in {"SENT", "FAILED"},
             SetStatus(n, st), audited' = audited
      PROVE  NoticeIsAudited'
  <2>1. n \in DOMAIN notices
    BY DEF OutboxInv, RunFacts
  <2>2. /\ DOMAIN notices' = DOMAIN notices
        /\ \A m \in DOMAIN notices : notices'[m].about = notices[m].about
    BY <1>1, <1>4, <2>1, StatusWritten
  <2>3. QED
    BY <1>4, <2>2 DEF NoticeIsAudited
<1>5. ASSUME NEW x \in senders, SenderStep(x) \/ SenderFault(x), audited' = audited
      PROVE  NoticeIsAudited'
  <2>1. CASE Mark(x)
    <3> DEFINE st == IF x.accepted THEN "SENT" ELSE "FAILED"
    <3>1. x.at \in x.todo /\ SetStatus(x.at, st)
      BY <2>1 DEF Mark, OutboxInv, RunFacts
    <3>2. QED
      BY <1>4, <1>5, <3>1
  <2>2. ASSUME NEW n \in x.todo, RecipientMissing(x, n) PROVE NoticeIsAudited'
    BY <1>4, <1>5, <2>2 DEF RecipientMissing
  <2>3. ASSUME NEW n \in x.todo, Send(x, n) \/ SendThrows(x, n)
        PROVE  UNCHANGED notices
    BY <2>3 DEF Send, SendThrows
  <2>4. QED
    BY <1>2, <1>5, <2>1, <2>2, <2>3 DEF SenderStep, SenderFault, SenderLost
<1>6. CASE SenderNext
  <2>1. audited' = audited
    BY <1>6 DEF SenderNext, ownVars
  <2>2. CASE Schedule
    BY <1>2, <2>1, <2>2 DEF Schedule, SenderStart
  <2>3. QED
    BY <1>5, <1>6, <2>1, <2>2 DEF SenderNext
<1>7. ASSUME NEW t \in transitions,
             \/ TransitionUpdate(t) \/ TransitionAudit(t)
             \/ ReadRecipients(t) \/ TransitionLost(t)
      PROVE  UNCHANGED notices /\ audited \subseteq audited'
  BY <1>7 DEF TransitionUpdate, TransitionAudit, ReadRecipients, TransitionLost,
              outboxVars
<1>8. ASSUME NEW a \in Account,
             \/ CreateAccount(a)
             \/ \E to \in OnboardingStatus, reasoned \in BOOLEAN :
                  TransitionBegin(a, to, reasoned)
      PROVE  UNCHANGED notices /\ audited \subseteq audited'
  BY <1>8 DEF CreateAccount, TransitionBegin, outboxVars
<1>9. ASSUME NEW u \in User, InviteUser(u) \/ RemoveUser(u)
      PROVE  UNCHANGED notices /\ audited \subseteq audited'
  BY <1>9 DEF InviteUser, RemoveUser, ownVars
<1>10. CASE UNCHANGED vars
  BY <1>2, <1>10 DEF vars, ownVars, outboxVars
<1>11. QED
  BY <1>2, <1>3, <1>6, <1>7, <1>8, <1>9, <1>10 DEF Next, TransitionStep

LEMMA OnboardingStep == OnboardingInv /\ [Next]_vars => OnboardingInv'
  BY OutboxKept, OwnKept, NoticesKept DEF OnboardingInv

LEMMA OnboardingInvariant == Spec => []OnboardingInv
  BY OnboardingInit, OnboardingStep, PTL DEF Spec

-----------------------------------------------------------------------------
(* Accounts, users, notices, transitions and sender runs keep their types. *)
THEOREM OnboardingTypeCorrect == Spec => []OnboardingTypeOK
<1>1. OnboardingInv => OnboardingTypeOK
  BY DEF OnboardingInv, OutboxInv, OwnInv, OwnTypeOK, OnboardingTypeOK
<1>2. QED
  BY <1>1, OnboardingInvariant, PTL

(* A row marked SENT was accepted by the provider, though runs overlap,    *)
(* overwrite each other's marks or are cut off anywhere.                   *)
THEOREM SentMeansDelivered == Spec => []SentWasDelivered
<1>1. OnboardingInv => SentWasDelivered
  BY DEF OnboardingInv, OutboxInv
<1>2. QED
  BY <1>1, OnboardingInvariant, PTL

(* Transitions that overwrite each other's status never bring an account   *)
(* to a decision without a review.                                         *)
THEOREM DecidedAfterReview == Spec => []ReviewedBeforeApproved
<1>1. OnboardingInv => ReviewedBeforeApproved
  BY DEF OnboardingInv, OwnInv, OwnTypeOK, History, ReviewedBeforeApproved,
         NotifiableStatuses
<1>2. QED
  BY <1>1, OnboardingInvariant, PTL

(* Whatever is mailed about an account is in the audit log.                *)
THEOREM NoticesAreAudited == Spec => []NoticeIsAudited
<1>1. OnboardingInv => NoticeIsAudited
  BY DEF OnboardingInv
<1>2. QED
  BY <1>1, OnboardingInvariant, PTL

-----------------------------------------------------------------------------
(* One sender run at a time.  Mails sent whose row no run is about to mark *)
(* were left behind by a fault each; a mail that goes out again is one of  *)
(* them, or its row would not be PENDING.                                  *)
Loose == {n \in Pending : n \in delivered /\ \A x \in senders : x.at # n}

AloneInv ==
  /\ \A x, y \in senders : x = y
  /\ \A x \in senders : x.todo \subseteq Pending
  /\ repeats + Cardinality(Loose) <= faults

LEMMA LooseIsFinite == ASSUME OutboxInv PROVE IsFiniteSet(Loose)
<1>1. DOMAIN notices = 1..Len(notices) /\ Len(notices) \in Nat
  BY LenProperties DEF OutboxInv, OutboxTypeOK
<1>2. Loose \subseteq 1..Len(notices)
  BY <1>1 DEF Loose, Pending
<1>3. IsFiniteSet(1..Len(notices))
  BY <1>1, FS_Interval
<1>4. QED
  BY <1>2, <1>3, FS_Subset

(* How the count of loose rows follows the set.                            *)
LEMMA LooseCount ==
  ASSUME OutboxInv, NEW T, NEW n
  PROVE  /\ Cardinality(Loose) \in Nat
         /\ T \subseteq Loose =>
              Cardinality(T) \in Nat /\ Cardinality(T) <= Cardinality(Loose)
         /\ T \subseteq Loose \cup {n} =>
              Cardinality(T) \in Nat /\ Cardinality(T) <= Cardinality(Loose) + 1
         /\ T \subseteq Loose \ {n} /\ n \in Loose =>
              Cardinality(T) \in Nat /\ Cardinality(T) + 1 <= Cardinality(Loose)
<1>1. IsFiniteSet(Loose) /\ Cardinality(Loose) \in Nat
  BY LooseIsFinite, FS_CardinalityType
<1>2. /\ IsFiniteSet(Loose \cup {n})
      /\ Cardinality(Loose \cup {n}) <= Cardinality(Loose) + 1
  BY <1>1, FS_AddElement
<1>3. /\ IsFiniteSet(Loose \ {n})
      /\ n \in Loose => Cardinality(Loose \ {n}) = Cardinality(Loose) - 1
  BY <1>1, FS_RemoveElement
<1>4. ASSUME T \subseteq Loose
      PROVE  Cardinality(T) \in Nat /\ Cardinality(T) <= Cardinality(Loose)
  BY <1>1, <1>4, FS_Subset, FS_CardinalityType
<1>5. ASSUME T \subseteq Loose \cup {n}
      PROVE  Cardinality(T) \in Nat /\ Cardinality(T) <= Cardinality(Loose) + 1
  <2>1. Cardinality(T) \in Nat /\ Cardinality(T) <= Cardinality(Loose \cup {n})
    BY <1>2, <1>5, FS_Subset, FS_CardinalityType
  <2>2. Cardinality(Loose \cup {n}) \in Nat
    BY <1>2, FS_CardinalityType
  <2>3. QED
    BY <1>1, <1>2, <2>1, <2>2
<1>6. ASSUME T \subseteq Loose \ {n}, n \in Loose
      PROVE  Cardinality(T) \in Nat /\ Cardinality(T) + 1 <= Cardinality(Loose)
  <2>1. Cardinality(T) \in Nat /\ Cardinality(T) <= Cardinality(Loose \ {n})
    BY <1>3, <1>6, FS_Subset, FS_CardinalityType
  <2>2. QED
    BY <1>1, <1>3, <1>6, <2>1
<1>7. QED
  BY <1>1, <1>4, <1>5, <1>6

(* A step that loosens no row, or one for a fault, or sends a loose one.   *)
LEMMA CountKept ==
  ASSUME OutboxInv, AloneInv, NEW n,
         \/ /\ Loose' \subseteq Loose
            /\ repeats' = repeats /\ faults' \in {faults, faults + 1}
         \/ /\ Loose' \subseteq Loose \cup {n}
            /\ repeats' = repeats /\ faults' = faults + 1
         \/ /\ Loose' \subseteq Loose /\ n \in Loose
            /\ repeats' = repeats + 1 /\ faults' = faults + 1
         \/ /\ Loose' \subseteq Loose \ {n} /\ n \in Loose
            /\ repeats' = repeats + 1 /\ faults' = faults
  PROVE  repeats' + Cardinality(Loose') <= faults'
<1>1. repeats \in Nat /\ faults \in Nat
  BY DEF OutboxInv, OutboxTypeOK
<1>2. repeats + Cardinality(Loose) <= faults
  BY DEF AloneInv
<1> DEFINE T == Loose'
<1> HIDE DEF T
<1>3. /\ Cardinality(Loose) \in Nat
      /\ T \subseteq Loose =>
           Cardinality(T) \in Nat /\ Cardinality(T) <= Cardinality(Loose)
      /\ T \subseteq Loose \cup {n} =>
           Cardinality(T) \in Nat /\ Cardinality(T) <= Cardinality(Loose) + 1
      /\ T \subseteq Loose \ {n} /\ n \in Loose =>
           Cardinality(T) \in Nat /\ Cardinality(T) + 1 <= Cardinality(Loose)
  BY LooseCount
<1>4. repeats' + Cardinality(T) <= faults'
  BY <1>1, <1>2, <1>3 DEF T
<1>5. QED
  BY <1>4 DEF T

(* Rows count from 1; a run that is at 0 is at none.                       *)
LEMMA RowsArePositive == ASSUME OutboxInv PROVE \A n \in Pending : n # 0
  BY LenProperties DEF OutboxInv, OutboxTypeOK, Pending

(* While the run is at no row, its end loosens only what was just sent.    *)
LEMMA LooseAtRest ==
  ASSUME OutboxInv, NEW x \in senders, \A y \in senders : y = x, x.at = 0,
         UNCHANGED Pending
  PROVE  Loose' \subseteq Loose \cup (delivered' \ delivered)
  BY RowsArePositive DEF Loose

(* A row that is closed leaves the others PENDING, and no row loose.       *)
LEMMA ClosedAlone ==
  ASSUME OutboxInv, AloneInv, NEW x \in senders, NEW n \in x.todo,
         NEW st \in {"SENT", "FAILED"}, SetStatus(n, st), DoneWith(x, n),
         x.at \in {0, n}, UNCHANGED <<delivered, repeats, faults>>
  PROVE  AloneInv'
<1>1. n \in DOMAIN notices /\ notices \in Seq(Row)
  BY DEF OutboxInv, OutboxTypeOK, RunFacts
<1>2. /\ DOMAIN notices' = DOMAIN notices /\ notices'[n].status = st
      /\ \A m \in DOMAIN notices : m # n => notices'[m] = notices[m]
  BY <1>1, StatusWritten
<1>3. Pending' = Pending \ {n}
  BY <1>1, <1>2 DEF Pending
<1>4. \A y \in senders : y = x
  BY DEF AloneInv
<1>5. x \in Run
  BY DEF OutboxInv, OutboxTypeOK
<1>6. \A y \in senders' : y.todo = x.todo \ {n}
  BY <1>4, <1>5 DEF DoneWith, Run
<1>7. \A y, z \in senders' : y = z
  BY <1>4 DEF DoneWith
<1>8. Loose' \subseteq Loose
  BY <1>3, <1>4, RowsArePositive DEF Loose
<1>9. repeats' + Cardinality(Loose') <= faults'
  BY <1>8, CountKept
<1>10. QED
  BY <1>3, <1>6, <1>7, <1>9 DEF AloneInv

(* A step of the only run.                                                 *)
LEMMA SenderAlone ==
  ASSUME OutboxInv, AloneInv, NEW x \in senders, SenderStep(x) \/ SenderFault(x)
  PROVE  AloneInv'
<1>1. /\ x \in Run /\ RunFacts(x) /\ x.todo \subseteq Pending
      /\ \A y \in senders : y = x
  BY DEF OutboxInv, OutboxTypeOK, AloneInv
<1>2. CASE Mark(x)
  <2> DEFINE st == IF x.accepted THEN "SENT" ELSE "FAILED"
  <2>1. x.at \in x.todo /\ SetStatus(x.at, st) /\ DoneWith(x, x.at)
    BY <1>1, <1>2 DEF Mark, RunFacts
  <2>2. QED
    BY <1>2, <2>1, ClosedAlone DEF Mark
<1>3. ASSUME NEW n \in x.todo, RecipientMissing(x, n) PROVE AloneInv'
  BY <1>3, ClosedAlone DEF RecipientMissing, NextIn
<1>4. ASSUME NEW n \in x.todo, Send(x, n) PROVE AloneInv'
  <2>1. PICK ok \in BOOLEAN :
          /\ IF ok THEN Accept(n) ELSE UNCHANGED <<delivered, repeats>>
          /\ senders' = (senders \ {x}) \cup
                          {[x EXCEPT !.at = n, !.accepted = ok]}
    BY <1>4 DEF Send
  <2>2. n \in Pending /\ n \in DOMAIN notices /\ n # 0
    BY <1>1 DEF Pending, Run
  <2>3. /\ \A y \in senders' : y.at = n /\ y.todo = x.todo
        /\ \A y, z \in senders' : y = z
        /\ \E y \in senders' : y.at = n
    <3> DEFINE y1 == [x EXCEPT !.at = n, !.accepted = ok]
    <3>1. y1.at = n /\ y1.todo = x.todo
      BY <1>1 DEF Run
    <3>2. senders' = {y1}
      BY <1>1, <2>1
    <3> HIDE DEF y1
    <3>3. QED
      BY <3>1, <3>2
  <2>4. UNCHANGED <<Pending, faults>> /\ x.at = 0
    BY <1>4 DEF Send, NextIn, Pending
  <2>5. n \in Loose <=> n \in delivered
    BY <1>1, <2>2, <2>4 DEF Loose
  <2>6. Loose' \subseteq Loose \ {n}
    <3>1. delivered' \subseteq delivered \cup {n}
      BY <2>1 DEF Accept
    <3>2. QED
      BY <1>1, <2>3, <2>4, <3>1, RowsArePositive DEF Loose
  <2>7. repeats' + Cardinality(Loose') <= faults'
    <3>1. CASE ok /\ n \in delivered
      BY <2>1, <2>4, <2>5, <2>6, <3>1, CountKept DEF Accept
    <3>2. CASE ~ (ok /\ n \in delivered)
      BY <2>1, <2>4, <2>6, <3>2, CountKept DEF Accept
    <3>3. QED
      BY <3>1, <3>2
  <2>8. QED
    BY <1>1, <2>3, <2>4, <2>7 DEF AloneInv
<1>5. ASSUME NEW n \in x.todo, SendThrows(x, n) PROVE AloneInv'
  <2>1. senders' = {} /\ UNCHANGED Pending /\ faults' = faults + 1 /\ x.at = 0
    BY <1>1, <1>5 DEF SendThrows, NextIn, Pending
  <2>2. n \in Pending /\ n # 0
    BY <1>1 DEF Run
  <2>3. n \in Loose <=> n \in delivered
    BY <1>1, <2>1, <2>2 DEF Loose
  <2>4. CASE UNCHANGED <<delivered, repeats>>
    <3>1. Loose' \subseteq Loose
      BY <1>1, <2>1, <2>4, LooseAtRest
    <3>2. QED
      BY <2>1, <2>4, <3>1, CountKept DEF AloneInv
  <2>5. CASE Accept(n)
    <3>1. Loose' \subseteq Loose \cup {n}
      BY <1>1, <2>1, <2>5, LooseAtRest DEF Accept
    <3>2. repeats' + Cardinality(Loose') <= faults'
      <4>1. CASE n \in delivered
        BY <2>1, <2>3, <2>5, <3>1, <4>1, CountKept DEF Accept
      <4>2. CASE n \notin delivered
        BY <2>1, <2>5, <3>1, <4>2, CountKept DEF Accept
      <4>3. QED
        BY <4>1, <4>2
    <3>3. QED
      BY <2>1, <3>2 DEF AloneInv
  <2>6. QED
    BY <1>5, <2>4, <2>5 DEF SendThrows
<1>6. CASE SenderLost(x)
  <2>1. /\ senders' = {} /\ UNCHANGED <<Pending, delivered, repeats>>
        /\ faults' = faults + 1
    BY <1>1, <1>6 DEF SenderLost, Pending
  <2>2. Loose' \subseteq Loose \cup {x.at}
    BY <1>1, <2>1 DEF Loose
  <2>3. repeats' + Cardinality(Loose') <= faults'
    BY <2>1, <2>2, CountKept
  <2>4. QED
    BY <2>1, <2>3 DEF AloneInv
<1>7. QED
  BY <1>2, <1>3, <1>4, <1>5, <1>6 DEF SenderStep, SenderFault

(* A run starts only when there is none.                                   *)
LEMMA StartAlone ==
  ASSUME OutboxInv, AloneInv, Overlap = FALSE, NEW s \in Sender, SenderStart(s)
  PROVE  AloneInv'
<1> DEFINE x1 == [slot |-> s, todo |-> Oldest(BatchSize, Pending), at |-> 0,
                  accepted |-> FALSE]
<1>1. x1.todo \subseteq Pending
  BY DEF Oldest
<1>2. senders' = {x1} /\ senders = {}
  BY DEF SenderStart
<1> HIDE DEF x1
<1>3. UNCHANGED <<Pending, delivered, repeats, faults>>
  BY DEF SenderStart, Pending
<1>4. Loose' \subseteq Loose
  BY <1>2, <1>3 DEF Loose
<1>5. repeats' + Cardinality(Loose') <= faults'
  BY <1>3, <1>4, CountKept
<1>6. QED
  BY <1>1, <1>2, <1>3, <1>5 DEF AloneInv

(* A step that leaves the rows and the runs to themselves.                 *)
LEMMA AsideAlone ==
  ASSUME OutboxInv, AloneInv, UNCHANGED <<notices, delivered, repeats, senders>>,
         faults' \in {faults, faults + 1}
  PROVE  AloneInv'
<1>1. UNCHANGED <<Pending, Loose>>
  BY DEF Pending, Loose
<1>2. repeats' + Cardinality(Loose') <= faults'
  BY <1>1, CountKept
<1>3. QED
  BY <1>1, <1>2 DEF AloneInv

(* A new row was not delivered yet.                                        *)
LEMMA PostAlone ==
  ASSUME OutboxInv, AloneInv, NEW u \in User, NEW topic \in Topic,
         Post(u, topic), UNCHANGED <<delivered, repeats, senders, faults>>
  PROVE  AloneInv'
<1>1. notices \in Seq(Row) /\ delivered \subseteq DOMAIN notices
  BY DEF OutboxInv, OutboxTypeOK
<1>2. /\ DOMAIN notices' = DOMAIN notices \cup {Len(notices')}
      /\ Len(notices') = Len(notices) + 1
      /\ \A m \in DOMAIN notices : notices'[m] = notices[m]
  BY <1>1, RowPosted
<1>3. Pending \subseteq Pending' /\ Pending' \subseteq Pending \cup {Len(notices')}
  BY <1>2 DEF Pending
<1>4. Len(notices') \notin DOMAIN notices
  BY <1>1, <1>2, LenProperties
<1>5. Loose' \subseteq Loose
  BY <1>1, <1>3, <1>4 DEF Loose
<1>6. repeats' + Cardinality(Loose') <= faults'
  BY <1>5, CountKept
<1>7. QED
  BY <1>3, <1>6 DEF AloneInv

LEMMA AloneKept ==
  ASSUME OnboardingInv, AloneInv, Overlap = FALSE, [Next]_vars
  PROVE  AloneInv'
<1>1. OutboxInv /\ OwnInv
  BY DEF OnboardingInv
<1>2. ASSUME UNCHANGED outboxVars PROVE AloneInv'
  BY <1>1, <1>2, AsideAlone DEF outboxVars
<1>3. ASSUME NEW u \in User, InviteUser(u) \/ RemoveUser(u) PROVE AloneInv'
  BY <1>1, <1>3, AsideAlone DEF InviteUser, RemoveUser
<1>4. ASSUME NEW t \in transitions, NEW u \in t.rest, PostNotice(t, u)
      PROVE  AloneInv'
  <2>1. u \in User
    BY <1>1 DEF OwnInv, OwnTypeOK, Transition
  <2>2. t.id \in audited /\ audited \subseteq Topic
    BY <1>1, <1>4 DEF PostNotice, OwnInv, OwnTypeOK, TransitionFacts
  <2>3. QED
    BY <1>1, <1>4, <2>1, <2>2, PostAlone DEF PostNotice
<1>5. ASSUME NEW t \in transitions, TransitionLost(t) PROVE AloneInv'
  BY <1>1, <1>5, AsideAlone DEF TransitionLost
<1>6. ASSUME NEW t \in transitions,
             TransitionUpdate(t) \/ TransitionAudit(t) \/ ReadRecipients(t)
      PROVE  UNCHANGED outboxVars
  BY <1>6 DEF TransitionUpdate, TransitionAudit, ReadRecipients
<1>7. ASSUME NEW a \in Account,
             \/ CreateAccount(a)
             \/ \E to \in OnboardingStatus, reasoned \in BOOLEAN :
                  TransitionBegin(a, to, reasoned)
      PROVE  UNCHANGED outboxVars
  BY <1>7 DEF CreateAccount, TransitionBegin
<1>8. CASE SenderNext
  BY <1>1, <1>8, StartAlone, SenderAlone DEF SenderNext, Schedule
<1>9. CASE UNCHANGED vars
  BY <1>2, <1>9 DEF vars
<1>10. QED
  BY <1>2, <1>3, <1>4, <1>5, <1>6, <1>7, <1>8, <1>9 DEF Next, TransitionStep

LEMMA AloneInvariant ==
  ASSUME Overlap = FALSE
  PROVE  Spec => []AloneInv
<1>1. Init => AloneInv
  <2> SUFFICES ASSUME Init PROVE AloneInv
    OBVIOUS
  <2>1. senders = {} /\ Loose = {} /\ repeats = 0 /\ faults = 0
    BY DEF Init, OutboxInit, Loose, Pending
  <2>2. QED
    BY <2>1, FS_EmptySet DEF AloneInv
<1>2. OnboardingInv /\ AloneInv /\ [Next]_vars => AloneInv'
  BY AloneKept
<1>3. QED
  BY <1>1, <1>2, OnboardingInvariant, PTL DEF Spec

(* When sender runs do not overlap, nobody gets a mail twice but for a     *)
(* fault between send() and the update, and once for each.                 *)
THEOREM RepeatsAreFaults ==
  ASSUME Overlap = FALSE
  PROVE  Spec => []RepeatsNeedFaults
<1>1. OnboardingInv /\ AloneInv => RepeatsNeedFaults
  <2> SUFFICES ASSUME OnboardingInv, AloneInv PROVE RepeatsNeedFaults
    OBVIOUS
  <2>1. Cardinality(Loose) \in Nat /\ repeats \in Nat /\ faults \in Nat
    BY LooseCount DEF OnboardingInv, OutboxInv, OutboxTypeOK
  <2>2. QED
    BY <2>1 DEF AloneInv, RepeatsNeedFaults
<1>2. QED
  BY <1>1, OnboardingInvariant, AloneInvariant, PTL

-----------------------------------------------------------------------------
(* A step of the only run delivers or closes a letter, or does nothing to  *)
(* the letters.                                                            *)
LEMMA SenderContract ==
  ASSUME OutboxInv, AloneInv, NEW x \in senders, SenderStep(x) \/ SenderFault(x)
  PROVE  [Contract!ContractNext]_<<notices, delivered>>
<1>1. RunFacts(x) /\ \A n \in x.todo : Contract!Waiting(n)
  BY DEF OutboxInv, AloneInv, Pending, Contract!Waiting
<1>2. CASE Mark(x)
  <2>1. x.at \in x.todo /\ x.at \in DOMAIN notices
    BY <1>1, <1>2 DEF Mark, RunFacts
  <2>2. Contract!CloseLetter(x.at)
    BY <1>1, <1>2, <2>1
    DEF Mark, RunFacts, SetStatus, Contract!CloseLetter
  <2>3. QED
    BY <2>1, <2>2 DEF Contract!ContractNext, Contract!CloseSome
<1>3. ASSUME NEW n \in x.todo, RecipientMissing(x, n)
      PROVE  Contract!ContractNext
  <2>1. n \in DOMAIN notices /\ Contract!CloseLetter(n)
    BY <1>1, <1>3 DEF RecipientMissing, RunFacts, SetStatus, Contract!CloseLetter
  <2>2. QED
    BY <2>1 DEF Contract!ContractNext, Contract!CloseSome
<1>4. ASSUME NEW n \in x.todo, Send(x, n) \/ SendThrows(x, n)
      PROVE  [Contract!ContractNext]_<<notices, delivered>>
  <2>1. UNCHANGED <<notices, delivered>> \/ Contract!DeliverLetter(n)
    BY <1>1, <1>4 DEF Send, SendThrows, Accept, Contract!DeliverLetter
  <2>2. n \in DOMAIN notices
    BY <1>1 DEF RunFacts
  <2>3. QED
    BY <2>1, <2>2 DEF Contract!ContractNext
<1>5. CASE SenderLost(x)
  BY <1>5 DEF SenderLost
<1>6. QED
  BY <1>2, <1>3, <1>4, <1>5 DEF SenderStep, SenderFault

(* The outbox keeps the safety half of its contract: every step of the     *)
(* system posts, delivers or closes one letter, or touches none, so a      *)
(* closed letter is never closed again and SENT only once delivered.  That *)
(* closing goes on is left to the run.                                     *)
THEOREM OutboxKeepsContract ==
  ASSUME Overlap = FALSE
  PROVE  Spec => /\ Contract!ContractInit
                 /\ [][Contract!ContractNext]_<<notices, delivered>>
<1>1. Init => Contract!ContractInit
  BY DEF Init, OutboxInit, Contract!ContractInit
<1>2. ASSUME OnboardingInv, AloneInv, [Next]_vars
      PROVE  [Contract!ContractNext]_<<notices, delivered>>
  <2>1. OutboxInv /\ OwnInv
    BY <1>2 DEF OnboardingInv
  <2>2. ASSUME NEW t \in transitions, NEW u \in t.rest, PostNotice(t, u)
        PROVE  Contract!ContractNext
    <3>1. u \in User
      BY <2>1 DEF OwnInv, OwnTypeOK, Transition
    <3>2. t.id \in audited /\ audited \subseteq Topic
      BY <2>1, <2>2 DEF PostNotice, OwnInv, OwnTypeOK, TransitionFacts
    <3>3. notices \in Seq(Row) /\ Post(u, t.id) /\ UNCHANGED delivered
      BY <2>1, <2>2 DEF PostNotice, OutboxInv, OutboxTypeOK
    <3>4. Contract!PostLetter
      BY <3>1, <3>2, <3>3, RowPosted DEF Contract!PostLetter
    <3>5. QED
      BY <3>4 DEF Contract!ContractNext
  <2>3. ASSUME NEW t \in transitions,
               \/ TransitionUpdate(t) \/ TransitionAudit(t)
               \/ ReadRecipients(t) \/ TransitionLost(t)
        PROVE  UNCHANGED <<notices, delivered>>
    BY <2>3 DEF TransitionUpdate, TransitionAudit, ReadRecipients,
                TransitionLost, outboxVars
  <2>4. ASSUME NEW a \in Account,
               \/ CreateAccount(a)
               \/ \E to \in OnboardingStatus, reasoned \in BOOLEAN :
                    TransitionBegin(a, to, reasoned)
        PROVE  UNCHANGED <<notices, delivered>>
    BY <2>4 DEF CreateAccount, TransitionBegin, outboxVars
  <2>5. ASSUME NEW u \in User, InviteUser(u) \/ RemoveUser(u)
        PROVE  UNCHANGED <<notices, delivered>>
    BY <2>5 DEF InviteUser, RemoveUser
  <2>6. CASE SenderNext
    <3>1. ASSUME NEW s \in Sender, SenderStart(s)
          PROVE  UNCHANGED <<notices, delivered>>
      BY <3>1 DEF SenderStart
    <3>2. QED
      BY <1>2, <2>1, <2>6, <3>1, SenderContract DEF SenderNext, Schedule
  <2>7. CASE UNCHANGED vars
    BY <2>7 DEF vars, outboxVars
  <2>8. QED
    BY <1>2, <2>2, <2>3, <2>4, <2>5, <2>6, <2>7 DEF Next, TransitionStep
<1>3. QED
  BY <1>1, <1>2, OnboardingInvariant, AloneInvariant, PTL DEF Spec
=============================================================================
