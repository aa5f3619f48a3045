----------------------------- MODULE Onboarding -----------------------------
(***************************************************************************)
(* OnboardingService.transition over the accounts of Brokers and Machinery *)
(* Companies, and the outbox it writes its decisions to.                   *)
(*                                                                         *)
(* A transition reads the account, checks the pair of statuses, and then   *)
(* updates the account by id, writes an audit row, reads the recipients    *)
(* and inserts their notifications, each a query of its own outside any    *)
(* transaction.                                                            *)
(***************************************************************************)
EXTENDS Outbox

CONSTANTS
  Account,         \* Brokers and Machinery Companies
  AccountOf,       \* the account a user is invited to
  Concurrent,      \* bound on transitions in flight
  MaxTransitions   \* bound on transitions begun

ASSUME OnboardingAssumption ==
  /\ AccountOf \in [User -> Account]
  /\ Concurrent \in Nat
  /\ MaxTransitions \in Nat
  /\ Topic = 1..MaxTransitions

OnboardingStatus == {"INVITED", "DOCS_SUBMITTED", "UNDER_REVIEW", "APPROVED",
                     "REJECTED", "SUSPENDED"}

OnboardingTransitions ==
  [s \in OnboardingStatus |->
     CASE s = "INVITED"        -> {"DOCS_SUBMITTED"}
       [] s = "DOCS_SUBMITTED" -> {"UNDER_REVIEW"}
       [] s = "UNDER_REVIEW"   -> {"APPROVED", "REJECTED", "DOCS_SUBMITTED"}
       [] s = "APPROVED"       -> {"SUSPENDED"}
       [] s = "SUSPENDED"      -> {"APPROVED"}
       [] s = "REJECTED"       -> {"DOCS_SUBMITTED"}]

NotifiableStatuses == {"APPROVED", "REJECTED", "SUSPENDED"}

VARIABLES
  onboarding,   \* onboardingStatus of an account, NONE before it is created
  entered,      \* history: <<account, status>> pairs ever written
  audited,      \* transitions with an AuditLog row
  begun,        \* number of transitions begun
  transitions,  \* the transitions in flight
  lost          \* history: transitions cut off after they took effect

ownVars == <<onboarding, entered, audited, begun, transitions, lost>>
vars == <<ownVars, outboxVars>>

Transition == [id: Nat, acct: Account, to: OnboardingStatus,
               pc: {"read", "updated", "audited", "posting"},
               rest: SUBSET User]

OnboardingTypeOK ==
  /\ OutboxTypeOK
  /\ onboarding \in [Account -> OnboardingStatus \cup {"NONE"}]
  /\ entered \subseteq Account \X OnboardingStatus
  /\ begun \in 0..MaxTransitions
  /\ transitions \subseteq Transition
  /\ audited \subseteq Topic
  /\ lost \subseteq Topic

Init ==
  /\ OutboxInit
  /\ onboarding = [a \in Account |-> "NONE"]
  /\ entered = {} /\ audited = {} /\ begun = 0
  /\ transitions = {} /\ lost = {}

-----------------------------------------------------------------------------
(* POST /brokers and /machinery-companies: the column defaults to INVITED. *)
CreateAccount(a) ==
  /\ onboarding[a] = "NONE"
  /\ onboarding' = [onboarding EXCEPT ![a] = "INVITED"]
  /\ entered' = entered \cup {<<a, "INVITED">>}
  /\ UNCHANGED <<audited, begun, transitions, lost, outboxVars>>

(* POST /admin/users, for an account that exists.                          *)
InviteUser(u) ==
  /\ users[u] = "NONE" /\ onboarding[AccountOf[u]] # "NONE"
  /\ users' = [users EXCEPT ![u] = "ACTIVE"]
  /\ UNCHANGED <<ownVars, notices, delivered, repeats, senders, faults>>

(* A user is deleted by hand: no handler does it, processPending expects   *)
(* it.                                                                     *)
RemoveUser(u) ==
  /\ faults < MaxFaults
  /\ Active(u)
  /\ users' = [users EXCEPT ![u] = "GONE"]
  /\ faults' = faults + 1
  /\ UNCHANGED <<ownVars, notices, delivered, repeats, senders>>

-----------------------------------------------------------------------------
(* transition().                                                           *)

IsLegalOnboardingTransition(from, to) ==
  from # "NONE" /\ to \in OnboardingTransitions[from]

NeedsReason(to) == to \in {"REJECTED", "SUSPENDED"}

(* Mutant: any account may enter any status.                               *)
TransitionBeginUnchecked(a, to, reasoned) ==
  /\ begun < MaxTransitions /\ Cardinality(transitions) < Concurrent
  /\ onboarding[a] # "NONE" /\ to # "INVITED"
  /\ NeedsReason(to) => reasoned
  /\ begun' = begun + 1
  /\ transitions' = transitions \cup
       {[id |-> begun', acct |-> a, to |-> to, pc |-> "read", rest |-> {}]}
  /\ UNCHANGED <<onboarding, entered, audited, lost, outboxVars>>

(* It reads the account and passes both checks.                            *)
TransitionBegin(a, to, reasoned) ==
  /\ begun < MaxTransitions /\ Cardinality(transitions) < Concurrent
  /\ IsLegalOnboardingTransition(onboarding[a], to)
  /\ NeedsReason(to) => reasoned
  /\ begun' = begun + 1
  /\ transitions' = transitions \cup
       {[id |-> begun', acct |-> a, to |-> to, pc |-> "read", rest |-> {}]}
  /\ UNCHANGED <<onboarding, entered, audited, lost, outboxVars>>

Goes(t, pc) == transitions' = (transitions \ {t}) \cup {[t EXCEPT !.pc = pc]}

(* The call is left with these notifications to insert, or returns.        *)
PostingTo(t, rest) ==
  transitions' = (transitions \ {t}) \cup
    {x \in {[t EXCEPT !.pc = "posting", !.rest = rest]} : rest # {}}

(* The update selects the account by id and overwrites its status.         *)
TransitionUpdate(t) ==
  /\ t.pc = "read"
  /\ onboarding' = [onboarding EXCEPT ![t.acct] = t.to]
  /\ entered' = entered \cup {<<t.acct, t.to>>}
  /\ Goes(t, "updated")
  /\ UNCHANGED <<audited, begun, lost, outboxVars>>

TransitionAudit(t) ==
  /\ t.pc = "updated"
  /\ audited' = audited \cup {t.id}
  /\ Goes(t, "audited")
  /\ UNCHANGED <<onboarding, entered, begun, lost, outboxVars>>

ActiveUsersOf(a) == {u \in User : AccountOf[u] = a /\ Active(u)}

(* Mutant: only an approval is announced.                                  *)
ReadApproved(t) ==
  /\ t.pc = "audited"
  /\ PostingTo(t, IF t.to = "APPROVED" THEN ActiveUsersOf(t.acct) ELSE {})
  /\ UNCHANGED <<onboarding, entered, audited, begun, lost, outboxVars>>

(* notifyUsersForBroker and notifyUsersForMachineryCompany read the        *)
(* recipients; for any other status the call returns.                      *)
ReadRecipients(t) ==
  /\ t.pc = "audited"
  /\ PostingTo(t, IF t.to \in NotifiableStatuses
                  THEN ActiveUsersOf(t.acct) ELSE {})
  /\ UNCHANGED <<onboarding, entered, audited, begun, lost, outboxVars>>

(* Promise.all: the inserts reach the table in any order.                  *)
PostNotice(t, u) ==
  /\ t.pc = "posting" /\ u \in t.rest
  /\ Post(u, t.id)
  /\ PostingTo(t, t.rest \ {u})
  /\ UNCHANGED <<onboarding, entered, audited, begun, lost, users, delivered,
                 repeats, senders, faults>>

(* A query throws or the replica dies.  Nothing repeats the call: the same *)
(* transition asked for again is refused, its status having been entered.  *)
TransitionLost(t) ==
  /\ faults < MaxFaults
  /\ transitions' = transitions \ {t}
  /\ lost' = lost \cup {t.id}
  /\ faults' = faults + 1
  /\ UNCHANGED <<onboarding, entered, audited, begun, users, notices,
                 delivered, repeats, senders>>

TransitionStep(t) ==
  \/ TransitionUpdate(t) \/ TransitionAudit(t) \/ ReadRecipients(t)
  \/ \E u \in t.rest : PostNotice(t, u)

SenderNext ==
  /\ UNCHANGED ownVars
  /\ \/ Schedule
     \/ \E x \in senders : SenderStep(x) \/ SenderFault(x)

Next ==
  \/ \E a \in Account :
       \/ CreateAccount(a)
       \/ \E to \in OnboardingStatus, reasoned \in BOOLEAN :
            TransitionBegin(a, to, reasoned)
  \/ \E u \in User : InviteUser(u) \/ RemoveUser(u)
  \/ \E t \in transitions : TransitionStep(t) \/ TransitionLost(t)
  \/ SenderNext

(* A request that has begun is carried on by its replica.                  *)
Spec ==
  /\ Init /\ [][Next]_vars
  /\ OutboxFairness
  /\ \A i \in Topic :
       WF_vars(\E t \in transitions : t.id = i /\ TransitionStep(t))

-----------------------------------------------------------------------------
(* An account that has been approved, suspended or rejected was under      *)
(* review before, whichever transitions read one status and overwrote each *)
(* other's.                                                                *)
ReviewedBeforeApproved ==
  \A a \in Account :
    onboarding[a] \in NotifiableStatuses => <<a, "UNDER_REVIEW">> \in entered

(* Nobody is told of a decision the audit log does not have.               *)
NoticeIsAudited ==
  \A n \in DOMAIN notices : notices[n].about \in audited

(* A decision that reached the audit log is mailed, or given up on by the  *)
(* sender, for each user of the account, unless its call is cut off or the *)
(* user deleted.                                                           *)
Decided(i, u) ==
  \E t \in transitions :
    t.id = i /\ t.pc = "audited" /\ t.to \in NotifiableStatuses
      /\ u \in ActiveUsersOf(t.acct)

Announced(i, u) ==
  \E n \in DOMAIN notices :
    notices[n].to = u /\ notices[n].about = i /\ notices[n].status # "PENDING"

DecisionAnnounced ==
  \A i \in Topic, u \in User :
    Decided(i, u) ~> (Announced(i, u) \/ i \in lost \/ ~ Active(u))

Contract == INSTANCE OutboxContract WITH letters <- notices

(* The outbox keeps its contract, whatever the providers and replicas do,  *)
(* as long as sender runs do not overlap.                                  *)
ImplementsOutbox == Contract!ContractSpec
=============================================================================
