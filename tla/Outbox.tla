------------------------------- MODULE Outbox -------------------------------
(***************************************************************************)
(* NotificationsService: domain services append PENDING rows to the        *)
(* Notification table, and processPending, which the notification-sender   *)
(* Lambda calls every five minutes, works through the oldest of them.      *)
(*                                                                         *)
(* A sender run is one processPending call inside one API replica.  It     *)
(* reads its batch once, and then sends and updates row by row, outside    *)
(* any transaction.                                                        *)
(***************************************************************************)
EXTENDS Integers, FiniteSets, Sequences

CONSTANTS
  User,       \* AppUser rows that may be created
  Topic,      \* what a notification is about
  Sender,     \* slots for sender runs in flight
  BatchSize,  \* processPending's limit
  Overlap,    \* a run may start while another is still in flight
  MaxFaults   \* bound on throwing providers, lost replicas and lost calls

ASSUME OutboxAssumption ==
  /\ BatchSize \in Nat \ {0}
  /\ Overlap \in BOOLEAN
  /\ MaxFaults \in Nat

VARIABLES
  users,      \* the AppUser table: NONE, ACTIVE, or GONE once deleted
  notices,    \* the Notification table in the order of createdAt
  delivered,  \* rows whose mail the provider accepted at least once
  repeats,    \* how often it accepted a mail it had accepted before
  senders,    \* the sender runs in flight
  faults      \* faults so far

outboxVars == <<users, notices, delivered, repeats, senders, faults>>

Row == [to: User, about: Topic, status: {"PENDING", "SENT", "FAILED"}]

(* A run: the rows of its batch still to do, and, between send() and the   *)
(* update, the row it is at and the provider's answer.                     *)
Run == [slot: Sender, todo: SUBSET (Nat \ {0}), at: Nat, accepted: BOOLEAN]

OutboxTypeOK ==
  /\ users \in [User -> {"NONE", "ACTIVE", "GONE"}]
  /\ notices \in Seq(Row)
  /\ delivered \subseteq DOMAIN notices
  /\ repeats \in Nat
  /\ senders \subseteq Run
  /\ faults \in 0..MaxFaults

Active(u) == users[u] = "ACTIVE"

OutboxInit ==
  /\ users = [u \in User |-> "NONE"] /\ notices = << >> /\ delivered = {}
  /\ repeats = 0 /\ senders = {} /\ faults = 0

-----------------------------------------------------------------------------
(* notify(), as notifyUsersFor... calls it for each user it read.          *)
Post(u, topic) ==
  notices' = Append(notices, [to |-> u, about |-> topic, status |-> "PENDING"])

Pending == {n \in DOMAIN notices : notices[n].status = "PENDING"}

(* findMany with orderBy createdAt and take.                               *)
Oldest(k, S) == {n \in S : Cardinality({m \in S : m < n}) < k}

SenderStart(s) ==
  /\ Overlap \/ senders = {}
  /\ \A x \in senders : x.slot # s
  /\ Pending # {}
  /\ senders' = senders \cup
       {[slot |-> s, todo |-> Oldest(BatchSize, Pending), at |-> 0,
         accepted |-> FALSE]}
  /\ UNCHANGED <<users, notices, delivered, repeats, faults>>

(* The loop's next row.                                                    *)
NextIn(x, n) == n \in x.todo /\ x.at = 0 /\ \A m \in x.todo : n <= m

(* The run goes on without row n, or returns when that was the last.       *)
DoneWith(x, n) ==
  senders' = (senders \ {x}) \cup
    {y \in {[x EXCEPT !.todo = @ \ {n}, !.at = 0, !.accepted = FALSE]} :
       y.todo # {}}

SetStatus(n, status) == notices' = [notices EXCEPT ![n].status = status]

(* Mutant: the loop skips a row without recipient.                         *)
RecipientSkipped(x, n) ==
  /\ NextIn(x, n) /\ ~ Active(notices[n].to)
  /\ DoneWith(x, n)
  /\ UNCHANGED <<users, notices, delivered, repeats, faults>>

RecipientMissing(x, n) ==
  /\ NextIn(x, n) /\ ~ Active(notices[n].to)
  /\ SetStatus(n, "FAILED")
  /\ DoneWith(x, n)
  /\ UNCHANGED <<users, delivered, repeats, faults>>

Accept(n) ==
  /\ delivered' = delivered \cup {n}
  /\ repeats' = IF n \in delivered THEN repeats + 1 ELSE repeats

(* The provider accepts the mail, or answers that it will not.             *)
Send(x, n) ==
  /\ NextIn(x, n) /\ Active(notices[n].to)
  /\ \E ok \in BOOLEAN :
       /\ IF ok THEN Accept(n) ELSE UNCHANGED <<delivered, repeats>>
       /\ senders' = (senders \ {x}) \cup
                       {[x EXCEPT !.at = n, !.accepted = ok]}
  /\ UNCHANGED <<users, notices, faults>>

(* Mutant: the provider's answer is not looked at.                         *)
MarkSentAlways(x) ==
  /\ x.at # 0
  /\ SetStatus(x.at, "SENT")
  /\ DoneWith(x, x.at)
  /\ UNCHANGED <<users, delivered, repeats, faults>>

(* Mutant: only a refusal is written back.                                 *)
MarkRefused(x) ==
  /\ x.at # 0
  /\ IF x.accepted THEN UNCHANGED notices ELSE SetStatus(x.at, "FAILED")
  /\ DoneWith(x, x.at)
  /\ UNCHANGED <<users, delivered, repeats, faults>>

(* Mutant: a status the column does not have.                              *)
MarkDelivered(x) ==
  /\ x.at # 0
  /\ SetStatus(x.at, IF x.accepted THEN "DELIVERED" ELSE "FAILED")
  /\ DoneWith(x, x.at)
  /\ UNCHANGED <<users, delivered, repeats, faults>>

(* The row is updated by id, whatever its status has become.               *)
Mark(x) ==
  /\ x.at # 0
  /\ SetStatus(x.at, IF x.accepted THEN "SENT" ELSE "FAILED")
  /\ DoneWith(x, x.at)
  /\ UNCHANGED <<users, delivered, repeats, faults>>

(* send() throws, before or after the mail went out: the run ends, and the *)
(* rest of its batch stays PENDING.                                        *)
SendThrows(x, n) ==
  /\ faults < MaxFaults
  /\ NextIn(x, n) /\ Active(notices[n].to)
  /\ Accept(n) \/ UNCHANGED <<delivered, repeats>>
  /\ senders' = senders \ {x}
  /\ faults' = faults + 1
  /\ UNCHANGED <<users, notices>>

(* The replica, its database connection or the run itself is lost.         *)
SenderLost(x) ==
  /\ faults < MaxFaults
  /\ senders' = senders \ {x}
  /\ faults' = faults + 1
  /\ UNCHANGED <<users, notices, delivered, repeats>>

SenderStep(x) ==
  \/ Mark(x)
  \/ \E n \in x.todo : RecipientMissing(x, n) \/ Send(x, n)

SenderFault(x) ==
  \/ SenderLost(x)
  \/ \E n \in x.todo : SendThrows(x, n)

Schedule  == \E s \in Sender : SenderStart(s)
RunSenders == \E x \in senders : SenderStep(x)

(* EventBridge keeps calling, and a run that is in flight gets on.         *)
OutboxFairness ==
  WF_outboxVars(Schedule) /\ WF_outboxVars(RunSenders)

-----------------------------------------------------------------------------
(* A row is SENT only if the provider accepted its mail, however many      *)
(* sender runs overlap and whichever of them are cut off.                  *)
SentWasDelivered ==
  \A n \in DOMAIN notices : notices[n].status = "SENT" => n \in delivered

(* Nobody gets a mail twice unless a run was cut off between send() and    *)
(* the update: as often as that happened, and no oftener.  Only when runs  *)
(* do not overlap.                                                         *)
RepeatsNeedFaults == repeats <= faults

(* Every row is closed in the end, whatever becomes of its recipient.      *)
Unhandled(u, topic) ==
  \E n \in Pending : notices[n].to = u /\ notices[n].about = topic

EveryNoticeHandled ==
  \A u \in User, topic \in Topic :
    Unhandled(u, topic) ~> ~ Unhandled(u, topic)
=============================================================================
