------------------------------ MODULE KeeperEarn ------------------------------
(* The keeper's Earn job (jobs/earn.ts) on the strategy it serves.  A tick reads *)
(* one snapshot off the indexer, and every call it then plans from it is a       *)
(* transaction of its own, simulated and mined on the strategy as it is by then. *)
(* A call that fails or reverts waits for its retry time; a wallet that cannot   *)
(* send ends the tick.  Batches hold one loan, and previews need no tolerance.   *)
EXTENDS HybridVault

CONSTANTS
  REWARD_MIN, INVEST_MIN,   \* EARN_REWARD_MIN_RAW, EARN_INVEST_MIN_RAW
  MaxFailures               \* bound: calls that are refused or lost

VARIABLES
  tick,      \* the tick in progress: its snapshot, the phase, what that has left, what was planned
  waiting,   \* calls before their retry time
  failed     \* calls that were refused or lost so far

keeperEarnVars == <<vars, tick, waiting, failed>>

Resting == [at |-> "rest"]

\* fetchEarnInput: totals, loans and approvals of one block.
Snapshot ==
  [paused |-> v.paused, funded |-> v.funded, settled |-> v.terminal, withdrawn |-> v.withdrawn,
   overdue |-> v.overdue, deal |-> core.deal, approvals |-> v.approvals,
   credit |-> core.credit, reward |-> core.reward,
   cash |-> v.cash, reserveAssets |-> ReserveValue(World), limit |-> reserve.limit,
   pending |-> v.pendingShares, spare |-> Over(FreeLiquidity(World), PendingRequestAssets(World))]

LoanOf(s, d) == [term |-> Terms[d].term] @@ s.deal[d]
Resolved(s, d) == d \in s.withdrawn \/ s.deal[d].state \in {"REPAID", "DEFAULTED", "CANCELLED"}
Finalizable(s, d) == s.deal[d].state = "ACTIVE" /\ GraceOver(LoanOf(s, d))

\* The loans each of the first phases calls for; the clock is the chain's own.
Expired(s) == {d \in s.funded \ (s.settled \cup s.withdrawn) :
                 s.deal[d].state = "FUNDING" /\ now >= Terms[d].deadline}
\* Mutant: a defaulted loan is left to others.
ToSettleResolved(s) == {d \in s.funded \ s.settled : Resolved(s, d)}

ToSettle(s) == {d \in s.funded \ s.settled : Resolved(s, d) \/ Finalizable(s, d)}
ToMark(s) == {d \in s.funded \ (s.settled \cup s.overdue \cup s.withdrawn) :
                s.deal[d].state = "ACTIVE" /\ now >= s.deal[d].fundedAt + Terms[d].term /\ ~Finalizable(s, d)}
Rewarding(s) == {d \in s.funded \ s.withdrawn :
                   s.deal[d].state \notin {"FUNDING", "CANCELLED"} /\ s.reward[d] >= REWARD_MIN /\ s.reward[d] > 0}

\* Mutant: a reported zero is believed.
ServableReported(s) == s.cash + Atmost(s.limit, s.reserveAssets)

\* What the queue may be served from: cash and what the reserve releases, where
\* a reported zero is a reserve that reports nothing.
Servable(s) ==
  s.cash + (IF s.limit > 0 THEN Atmost(s.limit, s.reserveAssets) ELSE s.reserveAssets)

\* The approvals the liquidity that no request claims suffices for, one after the other.
Fundable(s) ==
  LET live == {d \in Deals \ s.funded : s.approvals[d].principal # 0 /\ s.approvals[d].validUntil > now}
      plan(d, p) == IF s.approvals[d].principal > p.left THEN p
                    ELSE [left |-> p.left - s.approvals[d].principal, deals |-> p.deals \cup {d}]
  IN  FoldSet(plan, [left |-> s.spare, deals |-> {}], live).deals

Idle(s) == Over(s.cash, SumOver(Fundable(s), [d \in Deals |-> s.approvals[d].principal]))

Each(name, S) == SetToSeq({[name |-> name, on |-> d] : d \in S})
One(name, n, planned) == IF planned THEN <<[name |-> name, on |-> n]>> ELSE <<>>

\* The calls of a phase, in the mandated order.
Plan(s, phase) ==
  CASE phase = 1 -> Each("cancelFunding", Expired(s))
    [] phase = 2 -> Each("settle", ToSettle(s))
    [] phase = 3 -> Each("markOverdue", ToMark(s))
    [] phase = 4 -> One("harvestCash", 0, s.credit > 0)
    [] phase = 5 -> Each("harvestRewards", Rewarding(s))
    [] phase = 6 -> One("serveRequests", Servable(s), s.pending > 0 /\ Servable(s) > 0)
    [] phase = 7 -> IF s.paused THEN <<>>
                    ELSE One("investReserve", Idle(s), Idle(s) >= INVEST_MIN) \o Each("fund", Fundable(s))

NextPhase(s, from) ==
  LET planned == {p \in from .. 7 : Plan(s, p) # <<>>}
  IN  IF planned = {} THEN 0 ELSE Min(planned)

\* The failure key of a call.
Key(c) == IF c.name \in {"serveRequests", "investReserve"} THEN [c EXCEPT !.on = 0] ELSE c

\* The transaction of a call; one that cannot be taken reverts.
Mined(c) ==
  \/ c.name = "cancelFunding" /\ now >= Terms[c.on].deadline /\ Cancel(c.on)
  \/ c.name = "settle" /\ Settle
  \/ c.name = "markOverdue" /\ MarkOverdue(c.on)
  \/ c.name = "harvestCash" /\ Harvest
  \/ c.name = "harvestRewards" /\ HarvestRewards(c.on)
  \/ c.name = "serveRequests" /\ ServeRequests(MaxRequests, c.on)
  \/ c.name = "investReserve" /\ InvestReserve(c.on)
  \/ c.name = "fund" /\ Fund(c.on)

EarnInit == Init /\ tick = Resting /\ waiting = {} /\ failed = 0

\* The failures a complete tick leaves: those of what it planned again, and of
\* what a pause keeps it from planning.
Kept(w, s, planned) ==
  {k \in w : k \in planned \/ (s.paused /\ k.name \in {"investReserve", "fund"})}

TickBegins ==
  LET phase == NextPhase(Snapshot, 1)
  IN  /\ tick = Resting
      /\ IF phase = 0 THEN waiting' = Kept(waiting, Snapshot, {}) /\ UNCHANGED tick
         ELSE /\ tick' = [at |-> "busy", snap |-> Snapshot, phase |-> phase,
                          calls |-> Plan(Snapshot, phase), planned |-> {}]
              /\ UNCHANGED waiting
      /\ UNCHANGED <<vars, failed>>

\* On to the next call, with w waiting.
Proceed(w) ==
  LET t == [tick EXCEPT !.calls = Tail(@), !.planned = @ \cup ({Key(Head(tick.calls))} \cap w)]
      phase == NextPhase(t.snap, t.phase + 1)
  IN  IF t.calls # <<>> THEN tick' = t /\ waiting' = w
      ELSE IF phase # 0 THEN tick' = [t EXCEPT !.phase = phase, !.calls = Plan(t.snap, phase)] /\ waiting' = w
      ELSE tick' = Resting /\ waiting' = Kept(w, t.snap, t.planned)

Calling == IF tick = Resting THEN <<>> ELSE <<Head(tick.calls)>>

\* The clock is asked again before an approval is used.
Current(c) == c.name = "fund" => tick.snap.approvals[c.on].validUntil > now
Due(c) == Current(c) /\ Key(c) \notin waiting

\* An approval that has ended is no longer planned; other calls are passed over
\* until their retry time.
PassesOver(c) ==
  /\ ~Due(c)
  /\ Proceed(IF Current(c) THEN waiting ELSE waiting \ {Key(c)})
  /\ UNCHANGED <<vars, failed>>

\* Sent and mined; a harvest whose cash stays behind is a failure all the same.
Sends(c) ==
  /\ Due(c)
  /\ Mined(c)
  /\ Proceed(IF c.name = "harvestCash" /\ core'.credit > 0 THEN waiting \cup {Key(c)} ELSE waiting \ {Key(c)})
  /\ UNCHANGED failed

Reverts(c) ==
  /\ Due(c) /\ ~ENABLED Mined(c)
  /\ Proceed(waiting \cup {Key(c)})
  /\ UNCHANGED <<vars, failed>>

\* The call fails and the tick goes on; or the wallet is stopped, or the process
\* dies, and the tick ends with a transaction that may have been mined or not.
Fails(c) ==
  /\ Due(c) /\ failed < MaxFailures
  /\ failed' = failed + 1
  /\ \/ Proceed(waiting \cup {Key(c)}) /\ UNCHANGED vars
     \/ /\ UNCHANGED vars \/ Mined(c)
        /\ tick' = Resting
        /\ waiting' \in {waiting, waiting \cup {Key(c)}}

TickCalls == \E c \in ToSet(Calling) : PassesOver(c) \/ Sends(c) \/ Reverts(c) \/ Fails(c)

RetryTime == /\ waiting # {} /\ \E k \in waiting : waiting' = waiting \ {k}
             /\ UNCHANGED <<vars, tick, failed>>

\* What is left to the others: holders, the curator, borrowers and time.
Others ==
  /\ \/ DoDeposit \/ DoRequestRedeem \/ DoApproveLoan \/ DoWithdrawCommitment
     \/ \E d \in Listed : OthersFill(d) \/ Repay(d)
     \/ DoEarnReward
     \/ Tick
  /\ UNCHANGED <<tick, waiting, failed>>

EarnNext == Others \/ TickBegins \/ TickCalls \/ RetryTime

Keys == [name : {"cancelFunding", "settle", "markOverdue", "harvestRewards", "fund"}, on : Deals]
          \cup [name : {"harvestCash", "serveRequests", "investReserve"}, on : {0}]

\* The scheduler's timer begins a tick whenever one is due, its calls are finite
\* and each of them ends, and every retry time comes.  Said of states, since a
\* tick that is not at rest can always go on: this is weak fairness of TickBegins,
\* TickCalls and RetryTime.
EarnFairness ==
  /\ WF_vars(Tick)
  /\ []<>(tick # Resting \/ (waiting = {} /\ NextPhase(Snapshot, 1) = 0))
  /\ []<>(tick = Resting)
  /\ \A k \in Keys : []<>(k \notin waiting)

EarnSpec == EarnInit /\ [][EarnNext]_keeperEarnVars /\ EarnFairness

Waiting(id) == id \in DOMAIN v.requests /\ v.requests[id].shares # 0
NothingToServe == v.cash + ReserveValue(World) = 0

\* Every queued redemption ends: it is served at last, also behind others, in
\* part at first, after a default or a failed call, or when it has become worth
\* nothing, unless the strategy holds nothing to serve it from (earn.ts:186).
RequestsEnd == \A id \in 1 .. MaxRequests : Waiting(id) ~> ~Waiting(id) \/ NothingToServe

\* Every funded position leaves the book, repaid, refunded or defaulted.
PositionsRetire == \A d \in Deals : d \in v.funded ~> d \in v.terminal

\* Nobody's money stays in the queue or in a loan for ever, although the keeper
\* works from a snapshot that its own calls and others make stale.
EverythingEnds == RequestsEnd /\ PositionsRetire
=============================================================================
