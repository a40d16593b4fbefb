------------------------------ MODULE Notifier ------------------------------
(* The notifier's Poller (poller.ts) with its SQLite ledger (db.ts) and the *)
(* reminder rule (schedule.ts): one deal with a borrower and a lender, the   *)
(* Earn notices of one strategy, and the weekly epoch roll.  A poll is a     *)
(* sequence of awaits; subscriptions change, the deal closes, the provider   *)
(* fails or loses its answer and the process restarts between any two.       *)
EXTENDS Naturals, FiniteSets, Sequences

CONSTANTS Offset,       \* seconds before expiry of each T-x reminder
          Expiry, GraceEnd,
          EarnNotices,  \* notices an Earn snapshot may show
          Rolls,        \* Rolls[n]: the notice of the roll to epoch n + 1
          MaxAttempts,  \* MAX_SEND_ATTEMPTS
          MaxTime,      \* bound of the clock
          MaxFaults,    \* bound: failed sends, lost answers, restarts, indexer errors
          MaxEdits,     \* bound: changes of subscriptions
          Editors,      \* bound: the wallets that change theirs
          Shown,        \* bound: the notices an Earn snapshot does show
          MaxRolls      \* bound: epoch rolls

Early == DOMAIN Offset
Reminders == Early \cup {"expiry"}
RollKeys == {Rolls[n] : n \in DOMAIN Rolls}
Keys == Reminders \cup {"claimable"} \cup EarnNotices \cup RollKeys
Wallets == {"borrower", "lender", "curator", "holder"}
Statuses == {"none", "sent", "skipped", "failed"}
None == "none"

ASSUME ConstantsAssumption ==
    /\ Offset \in [Early -> Nat \ {0}] /\ Expiry \in Nat /\ GraceEnd \in Nat
    /\ Expiry <= GraceEnd /\ MaxAttempts \in Nat \ {0}
    /\ MaxTime \in Nat /\ MaxFaults \in Nat /\ MaxEdits \in Nat /\ MaxRolls \in 0 .. Len(Rolls)
    /\ Shown \subseteq EarnNotices /\ None \notin Keys

VARIABLES clock, funded, visible, epoch,    \* the world the indexer reports
          subs,                             \* SQLite: subscriptions
          ledger, envelope, lastEpoch,      \* SQLite: sent, kv
          poll,                             \* the poll in progress, in memory
          delivered,                        \* how often each notice reached its reader
          faults, edits

world == <<clock, funded, visible, epoch>>
store == <<ledger, envelope, lastEpoch>>
vars == <<clock, funded, visible, epoch, subs, ledger, envelope, lastEpoch, poll, delivered, faults, edits>>

WalletOf(k) == IF k \in Reminders THEN "borrower" ELSE IF k = "claimable" THEN "lender"
               ELSE IF k \in EarnNotices THEN "curator" ELSE "holder"

Phases == {"idle", "retry", "strategies", "earn", "retryClaim", "deals", "borrower",
           "lender", "pool", "roll"}

\* sending: the notice at the provider; arrived: the provider has passed it on.
NoPoll == [phase |-> "idle", todo |-> {}, sending |-> None, arrived |-> FALSE, now |-> 0,
           seen |-> {}, listed |-> {}, attempted |-> {}, strategies |-> FALSE, roll |-> 0]

Init ==
    /\ clock = 0 /\ funded = TRUE /\ visible = {} /\ epoch = 1
    /\ subs = [w \in Wallets |-> [on |-> TRUE, prefs |-> Keys]]
    /\ ledger = [k \in Keys |-> [status |-> "none", attempts |-> 0]]
    /\ envelope = {} /\ lastEpoch = 0
    /\ poll = NoPoll
    /\ delivered = [k \in Keys |-> 0]
    /\ faults = 0 /\ edits = 0

-----------------------------------------------------------------------------
\* The ledger

Done(k) == ledger[k].status \in {"sent", "skipped"}
Retryable == {k \in Keys : ledger[k].status = "failed" /\ ledger[k].attempts < MaxAttempts}

\* record(): a new row, or the old one with one attempt more.
Recorded(K, status) ==
    [k \in Keys |-> IF k \in K THEN [status |-> status, attempts |-> ledger[k].attempts + 1]
                    ELSE ledger[k]]

Wants(k) == subs[WalletOf(k)].on /\ k \in subs[WalletOf(k)].prefs

Fault == faults < MaxFaults /\ faults' = faults + 1
NoFault == UNCHANGED faults

-----------------------------------------------------------------------------
\* dueReminders

TriggerAt(k) == Expiry - (IF k \in Early THEN Offset[k] ELSE 0)

Reached(now) == {k \in Reminders : TriggerAt(k) <= now /\ ~Done(k)}

Sendable(now, prefs) ==
    {k \in Reached(now) : k \in prefs /\ IF k = "expiry" THEN now >= Expiry ELSE now < Expiry}

\* The latest reached reminder, if any.
Send(now, prefs) ==
    {k \in Sendable(now, prefs) : \A x \in Sendable(now, prefs) : TriggerAt(x) <= TriggerAt(k)}

\* Mutant: overtaken reminders are left open.
SkipNone(now, prefs) == {}

Skip(now, prefs) == Reached(now) \ Send(now, prefs)

-----------------------------------------------------------------------------
\* deliver

\* Mutant: deliver does not ask the ledger whether the notice is settled.
BlockedUnlessTried(k) == k \in poll.attempted \/ ledger[k].attempts >= MaxAttempts

\* Already settled, already tried in this poll, or given up: nothing happens.
Blocked(k) == Done(k) \/ k \in poll.attempted \/ ledger[k].attempts >= MaxAttempts

Deliver(k) ==
    poll' = IF Blocked(k)
            THEN [poll EXCEPT !.todo = @ \ {k}]
            ELSE [poll EXCEPT !.todo = @ \ {k}, !.attempted = @ \cup {k}, !.sending = k]

\* The provider passes the message on, before or after it answers.
Arrive ==
    /\ poll.sending # None /\ ~poll.arrived
    /\ delivered' = [delivered EXCEPT ![poll.sending] = @ + 1]
    /\ poll' = [poll EXCEPT !.arrived = TRUE]
    /\ UNCHANGED <<world, store, subs, faults, edits>>

Answered ==
    /\ poll.sending # None /\ poll.arrived
    /\ ledger' = Recorded({poll.sending}, "sent")
    /\ envelope' = envelope \ {poll.sending}
    /\ poll' = [poll EXCEPT !.sending = None, !.arrived = FALSE]
    /\ UNCHANGED <<world, lastEpoch, subs, delivered, faults, edits>>

\* Mutant: a failed message is recorded but not kept.
SendFailedUnsaved ==
    /\ poll.sending # None /\ Fault
    /\ ledger' = Recorded({poll.sending}, "failed")
    /\ poll' = [poll EXCEPT !.sending = None, !.arrived = FALSE]
    /\ UNCHANGED <<world, envelope, lastEpoch, subs, delivered, edits>>

\* No Telegram chat, an error, or no answer within 15 s, whatever arrived.
SendFailed ==
    /\ poll.sending # None /\ Fault
    /\ ledger' = Recorded({poll.sending}, "failed")
    /\ envelope' = envelope \cup {poll.sending}
    /\ poll' = [poll EXCEPT !.sending = None, !.arrived = FALSE]
    /\ UNCHANGED <<world, lastEpoch, subs, delivered, edits>>

-----------------------------------------------------------------------------
\* pollOnce: its phases in order.  A phase ends when its items are through.

Through(phase) == poll.phase = phase /\ poll.todo = {} /\ poll.sending = None

\* The rows one pass of retryFailed looks at.
RetryPass(strategies) == {k \in Retryable : (k = "claimable") = strategies}

PollStart ==
    /\ poll.phase = "idle"
    /\ poll' = [NoPoll EXCEPT !.phase = "retry", !.now = clock, !.todo = RetryPass(FALSE),
                              !.seen = {w \in Wallets : subs[w].on},
                              !.listed = {k \in Keys : Wants(k)}]
    /\ UNCHANGED <<world, store, subs, delivered, faults, edits>>

\* A failed row whose reader still wants it is sent again; otherwise it ends.
Retry(k) ==
    /\ poll.phase \in {"retry", "retryClaim"} /\ poll.sending = None
    /\ k \in poll.todo
    /\ \/ /\ k \in envelope /\ Wants(k)
          /\ Deliver(k)
          /\ UNCHANGED <<ledger, envelope>>
       \/ /\ k \in envelope /\ ~Wants(k)
          /\ ledger' = Recorded({k}, "skipped")
          /\ envelope' = envelope \ {k}
          /\ poll' = [poll EXCEPT !.todo = @ \ {k}]
       \/ /\ k \notin envelope
          /\ poll' = [poll EXCEPT !.todo = @ \ {k}]
          /\ UNCHANGED <<ledger, envelope>>
    /\ UNCHANGED <<world, lastEpoch, subs, delivered, faults, edits>>

\* Items of the other phases go straight to deliver.
Item(k) ==
    /\ poll.phase \in {"earn", "borrower", "lender", "roll"} /\ poll.sending = None
    /\ k \in poll.todo
    /\ Deliver(k)
    /\ UNCHANGED <<world, store, subs, delivered, faults, edits>>

\* earnNotices: the whole snapshot is read before anything is sent.
LoadStrategies ==
    /\ Through("retry")
    /\ \/ /\ poll' = [poll EXCEPT !.phase = "earn", !.strategies = TRUE,
                                  !.todo = visible \cap poll.listed]
          /\ NoFault
       \/ poll' = [poll EXCEPT !.phase = "deals"] /\ Fault
    /\ UNCHANGED <<world, store, subs, delivered, edits>>

RetryClaims ==
    /\ Through("earn")
    /\ poll' = [poll EXCEPT !.phase = "retryClaim", !.todo = RetryPass(TRUE)]
    /\ UNCHANGED <<world, store, subs, delivered, faults, edits>>

\* reminders: the funded deals, the skipped reminders, the one to send.
LoadDeals ==
    /\ Through("retryClaim") \/ Through("deals")
    /\ funded
    /\ LET prefs == poll.listed
           on == "borrower" \in poll.seen
       IN /\ ledger' = IF on THEN Recorded(Skip(poll.now, prefs), "skipped") ELSE ledger
          /\ poll' = [poll EXCEPT !.phase = "borrower",
                                  !.todo = IF on THEN Send(poll.now, prefs) ELSE {}]
    /\ UNCHANGED <<world, envelope, lastEpoch, subs, delivered, faults, edits>>

NoDeals ==
    /\ Through("retryClaim") \/ Through("deals")
    /\ ~funded
    /\ poll' = [poll EXCEPT !.phase = "pool"]
    /\ UNCHANGED <<world, store, subs, delivered, faults, edits>>

\* The lender hears after the grace, unless strategies could not be read.
LenderNotice ==
    /\ Through("borrower")
    /\ poll' = [poll EXCEPT !.phase = "lender",
                            !.todo = {k \in {"claimable"} : /\ poll.strategies /\ k \in poll.listed
                                                            /\ poll.now >= GraceEnd /\ ~Done(k)}]
    /\ UNCHANGED <<world, store, subs, delivered, faults, edits>>

EndDeals ==
    /\ Through("lender")
    /\ poll' = [poll EXCEPT !.phase = "pool"]
    /\ UNCHANGED <<world, store, subs, delivered, faults, edits>>

\* Mutant: the epoch is remembered before its notice goes out.
LoadPoolRemembers ==
    /\ Through("pool")
    /\ poll.listed \cap RollKeys # {}
    /\ lastEpoch' = epoch
    /\ poll' = [poll EXCEPT !.phase = "roll", !.roll = epoch,
                            !.todo = IF lastEpoch \in {0, epoch} THEN {}
                                     ELSE {Rolls[epoch - 1]} \cap poll.listed]
    /\ UNCHANGED <<world, ledger, envelope, subs, delivered, faults, edits>>

\* rewardNotices: the first epoch seen is only remembered, a later one announced.
LoadPool ==
    /\ Through("pool")
    /\ poll.listed \cap RollKeys # {}
    /\ poll' = [poll EXCEPT !.phase = "roll", !.roll = epoch,
                            !.todo = IF lastEpoch \in {0, epoch} THEN {}
                                     ELSE {Rolls[epoch - 1]} \cap poll.listed]
    /\ UNCHANGED <<world, store, subs, delivered, faults, edits>>

\* Nobody wants reward notices: the pool is not even read.
NoRewards ==
    /\ Through("pool")
    /\ poll.listed \cap RollKeys = {}
    /\ poll' = NoPoll
    /\ UNCHANGED <<world, store, subs, delivered, faults, edits>>

RememberEpoch ==
    /\ Through("roll")
    /\ lastEpoch' = poll.roll
    /\ poll' = NoPoll
    /\ UNCHANGED <<world, ledger, envelope, subs, delivered, faults, edits>>

\* The indexer does not answer: the poll ends (the pool: the rewards part).
IndexerDown ==
    /\ Through("retryClaim") \/ Through("deals") \/ Through("pool")
    /\ Fault
    /\ poll' = NoPoll
    /\ UNCHANGED <<world, store, subs, delivered, edits>>

\* SIGTERM or a crash: index.ts exits at once, also in the middle of a send.
Restart ==
    /\ poll.phase # "idle" /\ Fault
    /\ poll' = NoPoll
    /\ UNCHANGED <<world, store, subs, delivered, edits>>

-----------------------------------------------------------------------------
\* The world and the subscribers

Tick == /\ clock < MaxTime
        /\ clock' = clock + 1
        /\ UNCHANGED <<funded, visible, epoch, store, subs, poll, delivered, faults, edits>>

DealCloses == /\ funded
              /\ funded' = FALSE
              /\ UNCHANGED <<clock, visible, epoch, store, subs, poll, delivered, faults, edits>>

\* A notice enters an Earn snapshot, and leaves it when it is overtaken.
Snapshot == /\ \E e \in Shown :
                  \/ e \notin visible /\ clock = 0 /\ visible' = visible \cup {e}
                  \/ e \in visible /\ clock > 0 /\ visible' = visible \ {e}
            /\ UNCHANGED <<clock, funded, epoch, store, subs, poll, delivered, faults, edits>>

EpochRolls == /\ epoch <= MaxRolls
              /\ epoch' = epoch + 1
              /\ UNCHANGED <<clock, funded, visible, store, subs, poll, delivered, faults, edits>>

\* POST and DELETE /notify, between any two awaits of a poll.
Edit == /\ edits < MaxEdits /\ edits' = edits + 1
        /\ \E w \in Editors, on \in BOOLEAN, prefs \in {{}, Keys} :
              subs' = [subs EXCEPT ![w] = [on |-> on, prefs |-> prefs]]
        /\ UNCHANGED <<world, store, poll, delivered, faults>>

PollStep == \/ Answered \/ LoadStrategies \/ RetryClaims \/ LoadDeals \/ NoDeals
            \/ LenderNotice \/ EndDeals \/ LoadPool \/ NoRewards \/ RememberEpoch
            \/ \E k \in Keys : Retry(k) \/ Item(k)

Next == PollStart \/ Arrive \/ PollStep \/ SendFailed \/ IndexerDown \/ Restart
        \/ Tick \/ DealCloses \/ Snapshot \/ EpochRolls \/ Edit

Spec == Init /\ [][Next]_vars

\* The interval timer starts polls, a send is answered or times out.
Fairness == WF_vars(PollStart) /\ WF_vars(PollStep) /\ WF_vars(Arrive)
FairSpec == Spec /\ Fairness

-----------------------------------------------------------------------------
\* Properties

\* Once a notice is recorded as sent or skipped no later poll, retry or
\* restart delivers it again (poller.ts:274).
SettledIsFinal ==
    [][\A k \in Keys : Done(k) => delivered'[k] = delivered[k] /\ Done(k)']_vars

\* Every row that may be retried still has its message, so that it can be sent
\* after its source is gone (poller.ts:250-252, 299).
RetriesHaveTheirMessage == Retryable \subseteq envelope

\* An epoch is remembered only when its notice to those who wanted it is settled or has a row to
\* retry: a restart between the notice and lastEpoch repeats the question, not the notice.
RollIsAnnounced ==
    [][/\ lastEpoch # 0 /\ lastEpoch' # lastEpoch
       /\ Rolls[lastEpoch' - 1] \in poll.listed
       => ledger[Rolls[lastEpoch' - 1]].status # "none"]_vars

\* A reader gets the same notice again only after a fault: a send that failed or whose
\* answer was lost although it had arrived, or a restart before it was recorded.
RepeatsAreFaults == \A k \in Keys : delivered[k] <= faults + 1

\* What is settled is never delivered again, an epoch is remembered only with its notice
\* in the ledger, and no notice comes twice without a fault (poller.ts:274, :230).
NothingTwiceNothingLost == SettledIsFinal /\ RollIsAnnounced /\ []RepeatsAreFaults

\* schedule.ts:5-6: "Only the latest reached reminder is sent; earlier ones [...]
\* are marked skipped so they never go out late."
NeverLate ==
    [][\A k \in Early : delivered'[k] > delivered[k] =>
         \A x \in Reminders : TriggerAt(x) > TriggerAt(k) => poll.now < TriggerAt(x)]_vars

Ended(k) == Done(k) \/ ledger[k].attempts >= MaxAttempts

\* In the end no notice is open: a failed one has been retried until it ended, whether
\* or not its source is still there, and every due reminder has been sent, skipped or given
\* up, unless the deal closed or the reader left first.  Said once for all, since notices
\* that have ended stay ended and the edits, faults and the clock are bounded.
NoticesEnd ==
    <>[](/\ \A k \in Keys : ledger[k].status = "failed" => Ended(k)
         /\ \A k \in Reminders : funded /\ clock >= TriggerAt(k) /\ subs["borrower"].on => Ended(k))
=============================================================================
