--------------------------- MODULE NotifierProofs ---------------------------
(***************************************************************************)
(* The notifier's ledger holds through restarts, lost answers and changed  *)
(* subscriptions, for any reminders, Earn notices, epoch rolls, attempts   *)
(* and bounds.  All four results rest on one inductive invariant: the send *)
(* in flight is of a notice that is still open, whatever a poll tried has  *)
(* a row or is in flight, and a roll about to be remembered still waits in *)
(* the poll or has its row.                                                *)
(***************************************************************************)
EXTENDS Notifier, TLAPS

\* The rows of the table "sent" and the poll in memory.
LedgerType == [Keys -> [status : Statuses, attempts : Nat]]
PollType ==
  [phase : Phases, todo : SUBSET Keys, sending : Keys \cup {None}, arrived : BOOLEAN, now : Nat,
   seen : SUBSET Wallets, listed : SUBSET Keys, attempted : SUBSET Keys, strategies : BOOLEAN,
   roll : Nat]
SubsType == [Wallets -> [on : BOOLEAN, prefs : SUBSET Keys]]

TypeOK ==
  /\ clock \in Nat /\ funded \in BOOLEAN /\ visible \subseteq EarnNotices /\ epoch \in Nat
  /\ subs \in SubsType
  /\ ledger \in LedgerType /\ envelope \subseteq Keys /\ lastEpoch \in Nat
  /\ poll \in PollType
  /\ delivered \in [Keys -> Nat]
  /\ faults \in Nat /\ edits \in Nat

HasRow(k) == ledger[k].status # "none"

\* What is at the provider is open, and only a poll under way sends.
SendingIsOpen ==
  /\ poll.sending # None => ~Done(poll.sending)
  /\ poll.phase = "idle" => poll.sending = None
  /\ poll.arrived => poll.sending # None

\* An attempt leaves a row; what this poll tried has one, unless it is in flight.
AttemptsLeaveRows ==
  /\ \A k \in Keys : ledger[k].attempts > 0 => HasRow(k)
  /\ \A k \in poll.attempted : k = poll.sending \/ HasRow(k)

\* The notice of the roll about to be remembered waits, is in flight or has its row.
RollIsUnderWay ==
  poll.phase = "roll" /\ lastEpoch \notin {0, poll.roll} =>
    LET notice == Rolls[poll.roll - 1]
    IN  notice \in poll.listed => notice \in poll.todo \/ notice = poll.sending \/ HasRow(notice)

\* Deliveries of a notice, but for one that is settled or just arrived, are faults.
DeliveriesAreCounted ==
  \A k \in Keys :
    delivered[k] <= faults + (IF Done(k) \/ (k = poll.sending /\ poll.arrived) THEN 1 ELSE 0)

Inv == SendingIsOpen /\ AttemptsLeaveRows /\ RollIsUnderWay /\ DeliveriesAreCounted /\ RetriesHaveTheirMessage

IInv == TypeOK /\ Inv


LEMMA InitIInv == Init => IInv
<1> SUFFICES ASSUME Init PROVE IInv
  OBVIOUS
<1>1. TypeOK
  BY DEF Init, TypeOK, SubsType, LedgerType, PollType, NoPoll, Phases, Statuses
<1>2. Inv
  BY DEF Init, Inv, SendingIsOpen, AttemptsLeaveRows, RollIsUnderWay, DeliveriesAreCounted,
         RetriesHaveTheirMessage, Retryable, NoPoll, HasRow, Done
<1> QED BY <1>1, <1>2 DEF IInv

(***************************************************************************)
(* The world and the subscribers change nothing the invariant speaks of.   *)
(***************************************************************************)
LEMMA WorldStep ==
  ASSUME IInv, Tick \/ DealCloses \/ Snapshot \/ EpochRolls \/ Edit \/ UNCHANGED vars
  PROVE  IInv'
<1>1. UNCHANGED <<store, poll, delivered, faults>>
  BY DEF Tick, DealCloses, Snapshot, EpochRolls, Edit, vars, store
<1>2. TypeOK'
  <2>1. clock' \in Nat /\ funded' \in BOOLEAN /\ visible' \subseteq EarnNotices /\ epoch' \in Nat
    <3>1. CASE Snapshot
      <4>1. PICK e \in Shown : visible' = visible \cup {e} \/ visible' = visible \ {e}
        BY <3>1 DEF Snapshot
      <4> QED BY <3>1, <4>1, ConstantsAssumption DEF Snapshot, IInv, TypeOK
    <3>2. CASE ~Snapshot
      <4>1. CASE Tick
        BY <4>1 DEF IInv, TypeOK, Tick
      <4>2. CASE DealCloses
        BY <4>2 DEF IInv, TypeOK, DealCloses
      <4>3. CASE EpochRolls
        BY <4>3 DEF IInv, TypeOK, EpochRolls
      <4>4. CASE Edit \/ UNCHANGED vars
        BY <4>4 DEF IInv, TypeOK, Edit, vars, world
      <4> QED BY <3>2, <4>1, <4>2, <4>3, <4>4
    <3> QED BY <3>1, <3>2
  <2>2. subs' \in SubsType /\ edits' \in Nat
    <3>1. CASE Edit
      <4>1. PICK w \in Editors, on \in BOOLEAN, prefs \in {{}, Keys} :
              subs' = [subs EXCEPT ![w] = [on |-> on, prefs |-> prefs]]
        BY <3>1 DEF Edit
      <4>2. [on |-> on, prefs |-> prefs] \in [on : BOOLEAN, prefs : SUBSET Keys]
        OBVIOUS
      <4> HIDE DEF Keys
      <4>3. edits' \in Nat
        BY <3>1 DEF Edit, IInv, TypeOK
      <4> QED BY <4>1, <4>2, <4>3 DEF IInv, TypeOK, SubsType
    <3>2. CASE ~Edit
      BY <3>2 DEF IInv, TypeOK, Tick, DealCloses, Snapshot, EpochRolls, vars
    <3> QED BY <3>1, <3>2
  <2> QED BY <1>1, <2>1, <2>2 DEF IInv, TypeOK, store
<1>3. Inv'
  BY <1>1 DEF IInv, Inv, SendingIsOpen, AttemptsLeaveRows, RollIsUnderWay, DeliveriesAreCounted,
              RetriesHaveTheirMessage, Retryable, HasRow, Done, store
<1> QED BY <1>2, <1>3 DEF IInv

(***************************************************************************)
(* The provider.                                                           *)
(***************************************************************************)
LEMMA ArriveStep == ASSUME IInv, Arrive PROVE IInv'
<1>1. TypeOK'
  <2>1. poll' \in PollType /\ poll.sending \in Keys
    BY DEF IInv, TypeOK, Arrive, PollType
  <2>2. delivered' \in [Keys -> Nat]
    BY <2>1 DEF IInv, TypeOK, Arrive
  <2> QED BY <2>1, <2>2 DEF IInv, TypeOK, Arrive, world, store
<1>2. SendingIsOpen'
  BY DEF IInv, TypeOK, Inv, SendingIsOpen, Arrive, PollType, store, Done
<1>3. AttemptsLeaveRows' /\ RollIsUnderWay' /\ RetriesHaveTheirMessage'
  BY DEF IInv, TypeOK, Inv, AttemptsLeaveRows, RollIsUnderWay, RetriesHaveTheirMessage, Retryable,
         Arrive, PollType, store, HasRow
<1>4. DeliveriesAreCounted'
  BY DEF IInv, TypeOK, Inv, DeliveriesAreCounted, SendingIsOpen, Arrive, PollType, store, Done
<1> QED BY <1>1, <1>2, <1>3, <1>4 DEF IInv, Inv

\* What record() leaves of a ledger.
LEMMA RecordedRows ==
  ASSUME TypeOK, NEW K, NEW status \in Statuses
  PROVE  /\ Recorded(K, status) \in LedgerType
         /\ \A k \in Keys :
              /\ Recorded(K, status)[k].status = IF k \in K THEN status ELSE ledger[k].status
              /\ Recorded(K, status)[k].attempts = IF k \in K THEN ledger[k].attempts + 1 ELSE ledger[k].attempts
BY DEF TypeOK, LedgerType, Recorded

LEMMA AnsweredStep == ASSUME IInv, Answered PROVE IInv'
<1>1. /\ ledger' \in LedgerType
      /\ \A k \in Keys :
           /\ ledger'[k].status = IF k = poll.sending THEN "sent" ELSE ledger[k].status
           /\ ledger'[k].attempts = IF k = poll.sending THEN ledger[k].attempts + 1 ELSE ledger[k].attempts
           /\ ledger[k].attempts \in Nat
  BY RecordedRows DEF IInv, TypeOK, LedgerType, Answered, Statuses
<1>p. /\ poll'.sending = None /\ poll'.arrived = FALSE
      /\ UNCHANGED <<poll.phase, poll.todo, poll.listed, poll.attempted, poll.roll>>
  BY DEF IInv, TypeOK, PollType, Answered
<1>2. TypeOK'
  BY <1>1 DEF IInv, TypeOK, Answered, PollType, world
<1>3. SendingIsOpen'
  BY DEF IInv, TypeOK, Inv, SendingIsOpen, Answered, PollType
<1>4. AttemptsLeaveRows'
  BY <1>1, <1>p DEF IInv, TypeOK, Inv, AttemptsLeaveRows, PollType, HasRow
<1>5. RollIsUnderWay'
  BY <1>1, <1>p DEF IInv, TypeOK, Inv, RollIsUnderWay, Answered, PollType, HasRow
<1>6. DeliveriesAreCounted'
  BY <1>1, <1>p DEF IInv, TypeOK, Inv, DeliveriesAreCounted, Answered, Done
<1>7. RetriesHaveTheirMessage'
  BY <1>1 DEF IInv, TypeOK, Inv, RetriesHaveTheirMessage, Retryable, Answered
<1> QED BY <1>2, <1>3, <1>4, <1>5, <1>6, <1>7 DEF IInv, Inv

LEMMA SendFailedStep == ASSUME IInv, SendFailed PROVE IInv'
<1>1. /\ ledger' \in LedgerType
      /\ \A k \in Keys :
           /\ ledger'[k].status = IF k = poll.sending THEN "failed" ELSE ledger[k].status
           /\ ledger'[k].attempts = IF k = poll.sending THEN ledger[k].attempts + 1 ELSE ledger[k].attempts
           /\ ledger[k].attempts \in Nat
  BY RecordedRows DEF IInv, TypeOK, LedgerType, SendFailed, Statuses
<1>p. /\ poll'.sending = None /\ poll'.arrived = FALSE
      /\ UNCHANGED <<poll.phase, poll.todo, poll.listed, poll.attempted, poll.roll>>
  BY DEF IInv, TypeOK, PollType, SendFailed
<1>2. TypeOK'
  <2>1. poll' \in PollType /\ poll.sending \in Keys
    BY DEF IInv, TypeOK, SendFailed, PollType
  <2>2. faults' \in Nat
    BY DEF IInv, TypeOK, SendFailed, Fault
  <2> QED BY <1>1, <2>1, <2>2 DEF IInv, TypeOK, SendFailed, world
<1>3. SendingIsOpen'
  BY DEF IInv, TypeOK, Inv, SendingIsOpen, SendFailed, PollType
<1>4. AttemptsLeaveRows'
  BY <1>1, <1>p DEF IInv, TypeOK, Inv, AttemptsLeaveRows, PollType, HasRow
<1>5. RollIsUnderWay'
  BY <1>1, <1>p DEF IInv, TypeOK, Inv, RollIsUnderWay, SendFailed, PollType, HasRow
<1>6. DeliveriesAreCounted'
  BY <1>1, <1>p DEF IInv, TypeOK, Inv, DeliveriesAreCounted, SendingIsOpen, SendFailed, Fault, Done
<1>7. RetriesHaveTheirMessage'
  BY <1>1 DEF IInv, TypeOK, Inv, RetriesHaveTheirMessage, Retryable, SendFailed
<1> QED BY <1>2, <1>3, <1>4, <1>5, <1>6, <1>7 DEF IInv, Inv

(***************************************************************************)
(* The phases of a poll.                                                   *)
(***************************************************************************)
\* A step that leaves the ledger and the messages alone keeps the invariant if the
\* poll it leaves still has the notice in flight, what it tried and the roll.
LEMMA PollMoves ==
  ASSUME IInv, UNCHANGED <<world, store, subs, delivered, edits>>, faults' \in Nat, faults' >= faults,
         poll' \in PollType, poll'.sending = poll.sending, poll'.arrived = poll.arrived,
         poll'.attempted \subseteq poll.attempted, poll.sending = None \/ poll'.phase # "idle",
         RollIsUnderWay'
  PROVE  IInv'
<1>1. TypeOK'
  BY DEF IInv, TypeOK, world, store
<1>2. SendingIsOpen' /\ AttemptsLeaveRows' /\ RetriesHaveTheirMessage'
  BY DEF IInv, Inv, SendingIsOpen, AttemptsLeaveRows, RetriesHaveTheirMessage, Retryable, Done, HasRow, store
<1>3. DeliveriesAreCounted'
  <2>1. SUFFICES ASSUME NEW k \in Keys
                 PROVE  delivered'[k] <= faults' + (IF Done(k)' \/ (k = poll'.sending /\ poll'.arrived) THEN 1 ELSE 0)
    BY DEF DeliveriesAreCounted
  <2>2. Done(k)' <=> Done(k)
    BY DEF Done, store
  <2>3. delivered[k] <= faults + (IF Done(k) \/ (k = poll.sending /\ poll.arrived) THEN 1 ELSE 0)
    BY DEF IInv, Inv, DeliveriesAreCounted
  <2>4. delivered[k] \in Nat /\ faults \in Nat
    BY DEF IInv, TypeOK
  <2> HIDE DEF Keys
  <2> QED BY <2>2, <2>3, <2>4
<1> QED BY <1>1, <1>2, <1>3 DEF IInv, Inv

\* A poll that is not about to remember a roll has none under way.
LEMMA NoRollPhase == ASSUME poll'.phase # "roll" PROVE RollIsUnderWay'
BY DEF RollIsUnderWay

LEMMA PollStartStep == ASSUME IInv, PollStart PROVE IInv'
<1>1. /\ poll'.phase = "retry" /\ poll'.sending = None /\ poll'.arrived = FALSE /\ poll'.attempted = {}
      /\ poll' \in PollType
  <2>1. RetryPass(FALSE) \subseteq Keys
    BY DEF RetryPass, Retryable
  <2> QED BY <2>1 DEF IInv, TypeOK, PollStart, NoPoll, PollType, Phases
<1>2. poll.sending = None /\ poll.arrived = FALSE
  BY DEF IInv, TypeOK, PollType, Inv, SendingIsOpen, PollStart
<1>3. UNCHANGED <<world, store, subs, delivered, faults, edits>>
  BY DEF PollStart
<1>4. faults' \in Nat /\ faults' >= faults
  BY <1>3 DEF IInv, TypeOK
<1> QED BY <1>1, <1>2, <1>3, <1>4, PollMoves, NoRollPhase

\* The end of a poll, planned or not, with nothing at the provider.
LEMMA PollEnds ==
  ASSUME IInv, NoRewards \/ IndexerDown PROVE IInv'
<1>1. poll' = NoPoll /\ UNCHANGED <<world, store, subs, delivered, edits>> /\ faults' \in {faults, faults + 1}
  BY DEF NoRewards, IndexerDown, Fault
<1>2. poll.sending = None /\ poll.arrived = FALSE
  BY DEF IInv, TypeOK, PollType, Inv, SendingIsOpen, NoRewards, IndexerDown, Through
<1>3. poll'.phase = "idle" /\ poll'.sending = None /\ poll'.arrived = FALSE /\ poll'.attempted = {} /\ poll' \in PollType
  BY <1>1 DEF NoPoll, PollType, Phases
<1>4. faults' \in Nat /\ faults' >= faults
  BY <1>1 DEF IInv, TypeOK
<1> QED BY <1>1, <1>2, <1>3, <1>4, PollMoves, NoRollPhase

\* A restart forgets what is at the provider: it counts as a fault.
LEMMA RestartStep == ASSUME IInv, Restart PROVE IInv'
<1>1. poll'.phase = "idle" /\ poll'.sending = None /\ poll'.arrived = FALSE /\ poll'.attempted = {} /\ poll' \in PollType
  BY DEF Restart, NoPoll, PollType, Phases
<1>2. faults \in Nat /\ faults' = faults + 1 /\ UNCHANGED <<world, store, subs, delivered, edits>>
  BY DEF Restart, Fault, IInv, TypeOK
<1>3. TypeOK'
  BY <1>1, <1>2 DEF IInv, TypeOK, world, store
<1>4. SendingIsOpen' /\ AttemptsLeaveRows' /\ RollIsUnderWay' /\ RetriesHaveTheirMessage'
  BY <1>1, <1>2 DEF IInv, Inv, SendingIsOpen, AttemptsLeaveRows, RollIsUnderWay, RetriesHaveTheirMessage, Retryable, HasRow, store
<1>5. DeliveriesAreCounted'
  <2>1. SUFFICES ASSUME NEW k \in Keys PROVE delivered'[k] <= faults'
    BY <1>1, <1>2, <2>1 DEF DeliveriesAreCounted, IInv, TypeOK
  <2>2. delivered[k] <= faults + 1 /\ delivered[k] \in Nat
    BY <1>2 DEF IInv, TypeOK, Inv, DeliveriesAreCounted
  <2> HIDE DEF Keys
  <2> QED BY <1>2, <2>2
<1> QED BY <1>3, <1>4, <1>5 DEF IInv, Inv

\* The phases that load what the next one works on, or nothing.
LEMMA LoadStep ==
  ASSUME IInv, LoadStrategies \/ RetryClaims \/ NoDeals \/ LenderNotice \/ EndDeals
  PROVE  IInv'
<1>1. UNCHANGED <<world, store, subs, delivered, edits>> /\ faults' \in Nat /\ faults' >= faults
  BY DEF LoadStrategies, RetryClaims, NoDeals, LenderNotice, EndDeals, Fault, NoFault, IInv, TypeOK
<1>2. poll.sending = None /\ poll.phase # "idle"
  BY DEF LoadStrategies, RetryClaims, NoDeals, LenderNotice, EndDeals, Through
<1>3. /\ poll' \in PollType
      /\ UNCHANGED <<poll.sending, poll.arrived, poll.attempted>>
      /\ poll'.phase # "roll"
  <2>1. CASE LoadStrategies
    <3>1. visible \cap poll.listed \in SUBSET Keys
      BY DEF Keys, IInv, TypeOK
    <3> HIDE DEF Keys
    <3>2. \/ poll' = [poll EXCEPT !.phase = "earn", !.strategies = TRUE, !.todo = visible \cap poll.listed]
          \/ poll' = [poll EXCEPT !.phase = "deals"]
      BY <2>1 DEF LoadStrategies
    <3>3. poll \in PollType
      BY DEF IInv, TypeOK
    <3> DEFINE seen == visible \cap poll.listed
    <3> HIDE DEF seen
    <3>4. CASE poll' = [poll EXCEPT !.phase = "earn", !.strategies = TRUE, !.todo = seen]
      BY <3>1, <3>3, <3>4 DEF PollType, Phases, seen
    <3>5. CASE poll' = [poll EXCEPT !.phase = "deals"]
      BY <3>3, <3>5 DEF PollType, Phases
    <3> QED BY <3>2, <3>4, <3>5 DEF seen
  <2>2. CASE RetryClaims
    <3>1. RetryPass(TRUE) \subseteq Keys
      BY DEF RetryPass, Retryable
    <3> QED BY <2>2, <3>1 DEF RetryClaims, IInv, TypeOK, PollType, Phases
  <2>3. CASE NoDeals \/ EndDeals
    BY <2>3 DEF NoDeals, EndDeals, IInv, TypeOK, PollType, Phases
  <2>4. CASE LenderNotice
    <3> DEFINE due == {k \in {"claimable"} : /\ poll.strategies /\ k \in poll.listed
                                             /\ poll.now >= GraceEnd /\ ~Done(k)}
    <3>1. due \in SUBSET Keys
      BY DEF Keys
    <3>2. poll' = [poll EXCEPT !.phase = "lender", !.todo = due]
      BY <2>4 DEF LenderNotice
    <3> HIDE DEF due
    <3> QED BY <3>1, <3>2 DEF IInv, TypeOK, PollType, Phases
  <2> QED BY <2>1, <2>2, <2>3, <2>4
<1> QED BY <1>1, <1>2, <1>3, PollMoves, NoRollPhase

\* The pool is read: the roll's notice is put where the phase will find it.
LEMMA LoadPoolStep == ASSUME IInv, LoadPool PROVE IInv'
<1> DEFINE due == IF lastEpoch \in {0, epoch} THEN {} ELSE {Rolls[epoch - 1]} \cap poll.listed
<1>1. poll' = [poll EXCEPT !.phase = "roll", !.roll = epoch, !.todo = due]
  BY DEF LoadPool
<1>2. due \in SUBSET Keys /\ epoch \in Nat /\ poll \in PollType
  BY DEF IInv, TypeOK, PollType
<1>3. UNCHANGED <<world, store, subs, delivered, edits>> /\ faults' \in Nat /\ faults' >= faults /\ poll.sending = None
  BY DEF LoadPool, IInv, TypeOK, Through
<1> HIDE DEF due
<1>4. /\ poll' \in PollType
      /\ UNCHANGED <<poll.sending, poll.arrived, poll.attempted, poll.listed>>
      /\ poll'.phase = "roll" /\ poll'.roll = epoch /\ poll'.todo = due
  BY <1>1, <1>2 DEF PollType, Phases
<1>5. RollIsUnderWay'
  BY <1>3, <1>4 DEF RollIsUnderWay, due, store
<1> QED BY <1>3, <1>4, <1>5, PollMoves

LEMMA RememberEpochStep == ASSUME IInv, RememberEpoch PROVE IInv'
<1>1. poll' = NoPoll /\ lastEpoch' = poll.roll /\ UNCHANGED <<world, ledger, envelope, subs, delivered, faults, edits>>
  BY DEF RememberEpoch
<1>2. poll.sending = None /\ poll.arrived = FALSE
  BY DEF IInv, TypeOK, PollType, Inv, SendingIsOpen, RememberEpoch, Through
<1>3. /\ poll'.phase = "idle" /\ poll'.sending = None /\ poll'.arrived = FALSE /\ poll'.attempted = {}
      /\ poll' \in PollType
  BY <1>1 DEF NoPoll, PollType, Phases
<1>4. TypeOK'
  BY <1>1, <1>3 DEF IInv, TypeOK, PollType, world
<1>5. SendingIsOpen' /\ AttemptsLeaveRows' /\ RollIsUnderWay' /\ RetriesHaveTheirMessage'
  BY <1>1, <1>3 DEF IInv, Inv, SendingIsOpen, AttemptsLeaveRows, RollIsUnderWay, RetriesHaveTheirMessage, Retryable, HasRow
<1>6. DeliveriesAreCounted'
  BY <1>1, <1>2, <1>3 DEF IInv, Inv, DeliveriesAreCounted, Done
<1> QED BY <1>4, <1>5, <1>6 DEF IInv, Inv

\* Skipping notices while nothing is at the provider, and going on with the poll.
LEMMA SkipStep ==
  ASSUME IInv, NEW K \in SUBSET Keys, ledger' = Recorded(K, "skipped"),
         envelope \ K \subseteq envelope', envelope' \subseteq Keys,
         UNCHANGED <<world, lastEpoch, subs, delivered, faults, edits>>,
         poll.sending = None, poll'.sending = None, poll' \in PollType, poll'.arrived = FALSE,
         poll'.attempted \subseteq poll.attempted, poll'.phase # "roll"
  PROVE  IInv'
<1>1. /\ ledger' \in LedgerType
      /\ \A k \in Keys :
           /\ ledger'[k].status = IF k \in K THEN "skipped" ELSE ledger[k].status
           /\ ledger'[k].attempts = IF k \in K THEN ledger[k].attempts + 1 ELSE ledger[k].attempts
           /\ ledger[k].attempts \in Nat
  BY RecordedRows DEF IInv, TypeOK, LedgerType, Statuses
<1>2. TypeOK'
  BY <1>1 DEF IInv, TypeOK, world
<1>3. SendingIsOpen' /\ RollIsUnderWay'
  BY DEF SendingIsOpen, RollIsUnderWay
<1>4. AttemptsLeaveRows'
  <2>1. poll.attempted \subseteq Keys
    BY DEF IInv, TypeOK, PollType
  <2> HIDE DEF Keys
  <2> QED BY <1>1, <2>1 DEF IInv, Inv, AttemptsLeaveRows, HasRow
<1>5. RetriesHaveTheirMessage'
  BY <1>1 DEF IInv, Inv, RetriesHaveTheirMessage, Retryable
<1>6. DeliveriesAreCounted'
  <2>1. SUFFICES ASSUME NEW k \in Keys
                 PROVE  delivered'[k] <= faults' + (IF Done(k)' \/ (k = poll'.sending /\ poll'.arrived) THEN 1 ELSE 0)
    BY DEF DeliveriesAreCounted
  <2>2. Done(k) => Done(k)'
    BY <1>1 DEF Done
  <2>3. delivered[k] <= faults + (IF Done(k) THEN 1 ELSE 0)
    BY DEF IInv, Inv, DeliveriesAreCounted, SendingIsOpen
  <2>4. delivered[k] \in Nat /\ faults \in Nat
    BY DEF IInv, TypeOK
  <2> HIDE DEF Keys
  <2> QED BY <2>2, <2>3, <2>4
<1> QED BY <1>2, <1>3, <1>4, <1>5, <1>6 DEF IInv, Inv

LEMMA LoadDealsStep == ASSUME IInv, LoadDeals PROVE IInv'
<1> DEFINE on == "borrower" \in poll.seen
           todo == IF on THEN Send(poll.now, poll.listed) ELSE {}
<1>1. todo \in SUBSET Keys /\ Skip(poll.now, poll.listed) \in SUBSET Keys
  BY DEF Send, Skip, Sendable, Reached, Keys
<1>2. poll' = [poll EXCEPT !.phase = "borrower", !.todo = todo] /\ poll.sending = None /\ poll.phase # "idle"
      /\ UNCHANGED <<world, envelope, lastEpoch, subs, delivered, faults, edits>>
      /\ ledger' = IF on THEN Recorded(Skip(poll.now, poll.listed), "skipped") ELSE ledger
  BY DEF LoadDeals, Through
<1> HIDE DEF todo, on
<1>3. poll' \in PollType /\ UNCHANGED <<poll.sending, poll.arrived, poll.attempted>> /\ poll'.phase = "borrower"
  BY <1>1, <1>2 DEF IInv, TypeOK, PollType, Phases
<1>4. poll.arrived = FALSE /\ envelope \subseteq Keys /\ faults \in Nat
  BY <1>2 DEF IInv, TypeOK, PollType, Inv, SendingIsOpen
<1>5. CASE on
  BY <1>1, <1>2, <1>3, <1>4, <1>5, SkipStep
<1>6. CASE ~on
  BY <1>2, <1>3, <1>4, <1>6, PollMoves, NoRollPhase DEF store
<1> QED BY <1>5, <1>6

\* deliver: a notice that is settled, tried or given up is passed over and has its
\* row; any other goes to the provider and is open.
LEMMA DeliverStep ==
  ASSUME IInv, NEW k \in Keys, Deliver(k), poll.sending = None, poll.phase # "idle",
         UNCHANGED <<world, store, subs, delivered, faults, edits>>
  PROVE  IInv'
<1>1. poll \in PollType /\ faults \in Nat /\ k # None
  BY ConstantsAssumption DEF IInv, TypeOK
<1> HIDE DEF Keys
<1>2. poll.arrived = FALSE
  BY <1>1 DEF IInv, Inv, SendingIsOpen, PollType
<1>3. CASE Blocked(k)
  <2>1. poll' = [poll EXCEPT !.todo = @ \ {k}]
    BY <1>3 DEF Deliver
  <2>2. /\ poll' \in PollType /\ poll'.todo = poll.todo \ {k}
        /\ UNCHANGED <<poll.phase, poll.sending, poll.arrived, poll.attempted, poll.listed, poll.roll>>
    BY <1>1, <2>1 DEF PollType
  <2>3. HasRow(k)
    <3>1. ledger[k].attempts \in Nat /\ MaxAttempts > 0 /\ MaxAttempts \in Nat
      BY ConstantsAssumption DEF IInv, TypeOK, LedgerType
    <3>2. Done(k) => HasRow(k)
      BY DEF Done, HasRow
    <3>3. k \in poll.attempted => HasRow(k)
      BY <1>1 DEF IInv, Inv, AttemptsLeaveRows
    <3>4. ledger[k].attempts >= MaxAttempts => HasRow(k)
      BY <3>1 DEF IInv, Inv, AttemptsLeaveRows
    <3> QED BY <1>3, <3>2, <3>3, <3>4 DEF Blocked
  <2>4. RollIsUnderWay'
    BY <2>2, <2>3 DEF IInv, Inv, RollIsUnderWay, HasRow, store
  <2> QED BY <1>1, <2>2, <2>4, PollMoves
<1>4. CASE ~Blocked(k)
  <2>1. poll' = [poll EXCEPT !.todo = @ \ {k}, !.attempted = @ \cup {k}, !.sending = k]
    BY <1>4 DEF Deliver
  <2>2. /\ poll' \in PollType /\ poll'.todo = poll.todo \ {k} /\ poll'.sending = k
        /\ poll'.attempted = poll.attempted \cup {k}
        /\ UNCHANGED <<poll.phase, poll.arrived, poll.listed, poll.roll>>
    BY <1>1, <2>1 DEF PollType
  <2>3. TypeOK'
    BY <2>2 DEF IInv, TypeOK, world, store
  <2>4. SendingIsOpen'
    BY <1>1, <1>2, <1>4, <2>2 DEF SendingIsOpen, Blocked, Done, store
  <2>5. AttemptsLeaveRows'
    <3>1. poll.attempted \subseteq Keys
      BY <1>1 DEF PollType
    <3>2. UNCHANGED ledger
      BY DEF store
    <3>3. \A j \in Keys : ledger'[j].attempts > 0 => HasRow(j)'
      BY <3>2 DEF IInv, Inv, AttemptsLeaveRows, HasRow
    <3>4. \A j \in poll.attempted : HasRow(j)
      BY <3>1, ConstantsAssumption DEF IInv, Inv, AttemptsLeaveRows
    <3>5. \A j \in poll'.attempted : j = poll'.sending \/ HasRow(j)'
      BY <2>2, <3>2, <3>4 DEF HasRow
    <3> QED BY <3>3, <3>5 DEF AttemptsLeaveRows
  <2>6. RollIsUnderWay'
    <3>1. None \notin poll.listed
      BY <1>1, ConstantsAssumption DEF PollType
    <3> QED BY <2>2, <3>1 DEF IInv, Inv, RollIsUnderWay, HasRow, store
  <2>7. RetriesHaveTheirMessage'
    BY DEF IInv, Inv, RetriesHaveTheirMessage, Retryable, store
  <2>8. DeliveriesAreCounted'
    BY <1>2, <2>2 DEF IInv, Inv, DeliveriesAreCounted, Done, store
  <2> QED BY <2>3, <2>4, <2>5, <2>6, <2>7, <2>8 DEF IInv, Inv
<1> QED BY <1>3, <1>4

LEMMA ItemStep == ASSUME IInv, NEW k \in Keys, Item(k) PROVE IInv'
BY DeliverStep DEF Item

LEMMA RetryStep == ASSUME IInv, NEW k \in Keys, Retry(k) PROVE IInv'
<1>1. poll.sending = None /\ poll.phase \in {"retry", "retryClaim"} /\ poll \in PollType
  BY DEF Retry, IInv, TypeOK
<1>2. poll.arrived = FALSE
  BY <1>1 DEF IInv, Inv, SendingIsOpen, PollType
<1>3. CASE k \in envelope /\ Wants(k)
  <2>1. Deliver(k) /\ UNCHANGED <<world, store, subs, delivered, faults, edits>>
    BY <1>3 DEF Retry, store
  <2> QED BY <1>1, <2>1, DeliverStep
<1>4. CASE k \in envelope /\ ~Wants(k)
  <2>1. /\ ledger' = Recorded({k}, "skipped") /\ envelope' = envelope \ {k}
        /\ poll' = [poll EXCEPT !.todo = @ \ {k}]
        /\ UNCHANGED <<world, lastEpoch, subs, delivered, faults, edits>>
    BY <1>4 DEF Retry
  <2>2. poll' \in PollType /\ UNCHANGED <<poll.phase, poll.sending, poll.arrived, poll.attempted>>
    BY <1>1, <2>1 DEF PollType
  <2>3. envelope' \subseteq Keys /\ envelope \ {k} \subseteq envelope' /\ {k} \in SUBSET Keys
    BY <2>1 DEF IInv, TypeOK
  <2> HIDE DEF Keys
  <2> QED BY <1>1, <1>2, <2>1, <2>2, <2>3, SkipStep
<1>5. CASE k \notin envelope
  <2>1. poll' = [poll EXCEPT !.todo = @ \ {k}] /\ UNCHANGED <<world, store, subs, delivered, faults, edits>>
    BY <1>5 DEF Retry, store
  <2>2. poll' \in PollType /\ UNCHANGED <<poll.phase, poll.sending, poll.arrived, poll.attempted>>
    BY <1>1, <2>1 DEF PollType
  <2>3. faults \in Nat
    BY DEF IInv, TypeOK
  <2> QED BY <1>1, <2>1, <2>2, <2>3, PollMoves, NoRollPhase
<1> QED BY <1>3, <1>4, <1>5

LEMMA StepIInv == ASSUME IInv, [Next]_vars PROVE IInv'
<1>1. CASE PollStep
  <2>1. CASE Answered
    BY <2>1, AnsweredStep
  <2>2. CASE LoadStrategies \/ RetryClaims \/ NoDeals \/ LenderNotice \/ EndDeals
    BY <2>2, LoadStep
  <2>3. CASE LoadDeals
    BY <2>3, LoadDealsStep
  <2>4. CASE LoadPool
    BY <2>4, LoadPoolStep
  <2>5. CASE NoRewards
    BY <2>5, PollEnds
  <2>6. CASE RememberEpoch
    BY <2>6, RememberEpochStep
  <2>7. CASE \E k \in Keys : Retry(k) \/ Item(k)
    BY <2>7, RetryStep, ItemStep
  <2> QED BY <1>1, <2>1, <2>2, <2>3, <2>4, <2>5, <2>6, <2>7 DEF PollStep
<1>2. CASE PollStart
  BY <1>2, PollStartStep
<1>3. CASE Arrive
  BY <1>3, ArriveStep
<1>4. CASE SendFailed
  BY <1>4, SendFailedStep
<1>5. CASE IndexerDown
  BY <1>5, PollEnds
<1>6. CASE Restart
  BY <1>6, RestartStep
<1>7. CASE Tick \/ DealCloses \/ Snapshot \/ EpochRolls \/ Edit \/ UNCHANGED vars
  BY <1>7, WorldStep
<1> QED BY <1>1, <1>2, <1>3, <1>4, <1>5, <1>6, <1>7 DEF Next

(***************************************************************************)
(* The results.                                                            *)
(***************************************************************************)
\* The invariant every step of the poller, the provider, the world and a restart keeps.
THEOREM PollerInductive == Spec => []IInv
<1> QED BY InitIInv, StepIInv, PTL DEF Spec

\* Every row that a later poll may retry still has its message (poller.ts:250-252).
THEOREM MessagesOutliveTheirSource == Spec => []RetriesHaveTheirMessage
<1>1. IInv => RetriesHaveTheirMessage
  BY DEF IInv, Inv
<1> QED BY <1>1, PollerInductive, PTL

\* A step never delivers or reopens what is settled (poller.ts:274).
LEMMA SettledStays ==
  ASSUME IInv, [Next]_vars, NEW k \in Keys, Done(k)
  PROVE  delivered'[k] = delivered[k] /\ Done(k)'
<1>1. delivered'[k] = delivered[k]
  <2>1. CASE Arrive
    BY <2>1 DEF Arrive, IInv, TypeOK, Inv, SendingIsOpen
  <2>2. CASE ~Arrive
    <3>1. UNCHANGED delivered
      BY <2>2 DEF Next, PollStep, PollStart, Answered, LoadStrategies, RetryClaims, LoadDeals, NoDeals,
           LenderNotice, EndDeals, LoadPool, NoRewards, RememberEpoch, Retry, Item, SendFailed, IndexerDown,
           Restart, Tick, DealCloses, Snapshot, EpochRolls, Edit, vars
    <3> QED BY <3>1
  <2> QED BY <2>1, <2>2
<1>2. Done(k)'
  <2>1. CASE Answered
    BY <2>1, RecordedRows DEF Answered, Done, IInv, Statuses
  <2>2. CASE SendFailed
    BY <2>2, RecordedRows DEF SendFailed, Done, IInv, Statuses, Inv, SendingIsOpen
  <2>3. CASE LoadDeals
    BY <2>3, RecordedRows DEF LoadDeals, Done, IInv, Statuses
  <2>4. ASSUME NEW j \in Keys, Retry(j) PROVE Done(k)'
    BY <2>4, RecordedRows DEF Retry, Done, IInv, Statuses
  <2>5. CASE UNCHANGED ledger
    BY <2>5 DEF Done
  <2>6. CASE ~(Answered \/ SendFailed \/ LoadDeals \/ \E j \in Keys : Retry(j))
    <3>1. UNCHANGED ledger
      BY <2>6 DEF Next, PollStep, PollStart, Arrive, LoadStrategies, RetryClaims, NoDeals,
           LenderNotice, EndDeals, LoadPool, NoRewards, RememberEpoch, Item, IndexerDown,
           Restart, Tick, DealCloses, Snapshot, EpochRolls, Edit, vars, store
    <3> QED BY <2>5, <3>1
  <2> QED BY <2>1, <2>2, <2>3, <2>4, <2>6
<1> QED BY <1>1, <1>2

\* Only RememberEpoch stores an epoch, when nothing of the roll is left to send.
LEMMA RollStays ==
  ASSUME IInv, [Next]_vars, lastEpoch # 0, lastEpoch' # lastEpoch, Rolls[lastEpoch' - 1] \in poll.listed
  PROVE  ledger[Rolls[lastEpoch' - 1]].status # "none"
<1>1. RememberEpoch
  BY DEF Next, PollStep, PollStart, Arrive, Answered, LoadStrategies, RetryClaims, LoadDeals, NoDeals,
         LenderNotice, EndDeals, LoadPool, NoRewards, Retry, Item, SendFailed, IndexerDown,
         Restart, Tick, DealCloses, Snapshot, EpochRolls, Edit, vars, store
<1>2. poll.phase = "roll" /\ poll.todo = {} /\ poll.sending = None /\ lastEpoch' = poll.roll
  BY <1>1 DEF RememberEpoch, Through
<1>3. Rolls[poll.roll - 1] # None
  BY <1>2, ConstantsAssumption DEF IInv, TypeOK, PollType
<1> QED BY <1>2, <1>3 DEF IInv, Inv, RollIsUnderWay, HasRow

\* What is settled is never delivered again, a remembered epoch has its notice in the
\* ledger, and a notice comes at most once more than there were faults.
THEOREM NoticesAreExact == Spec => NothingTwiceNothingLost
<1>1. IInv /\ [Next]_vars =>
        [\A k \in Keys : Done(k) => delivered'[k] = delivered[k] /\ Done(k)']_vars
  BY SettledStays
<1>2. IInv /\ [Next]_vars =>
        [/\ lastEpoch # 0 /\ lastEpoch' # lastEpoch
         /\ Rolls[lastEpoch' - 1] \in poll.listed
         => ledger[Rolls[lastEpoch' - 1]].status # "none"]_vars
  BY RollStays
<1>3. IInv => RepeatsAreFaults
  <2>1. SUFFICES ASSUME IInv, NEW k \in Keys PROVE delivered[k] <= faults + 1
    BY DEF RepeatsAreFaults
  <2>2. delivered[k] \in Nat /\ faults \in Nat
    BY <2>1 DEF IInv, TypeOK
  <2>3. delivered[k] <= faults + (IF Done(k) \/ (k = poll.sending /\ poll.arrived) THEN 1 ELSE 0)
    BY <2>1 DEF IInv, Inv, DeliveriesAreCounted
  <2> HIDE DEF Keys
  <2> QED BY <2>2, <2>3
<1> QED BY <1>1, <1>2, <1>3, PollerInductive, PTL
        DEF Spec, NothingTwiceNothingLost, SettledIsFinal, RollIsAnnounced
=============================================================================
