---------------------------- MODULE KeeperEpochs ----------------------------
(***************************************************************************)
(* The keeper's epoch jobs (services/keeper): "epoch" releases and rolls   *)
(* over the weeks of Emissions, and "rates", which holds the owner's key,  *)
(* posts the reward rates of the running and the coming week in            *)
(* DealRewards.  A posted rate is inherited by every later week until      *)
(* another posting, so a positive one is only safe in front of a zero.     *)
(* Both terms share one rate; a market is the pool's spot price and the    *)
(* average of the last day, 0 when the history has a gap.                  *)
(***************************************************************************)
EXTENDS Integers, FiniteSets

CONSTANTS
  WEEKS, EPOCH, REGISTRATION_GRACE, EpochLookback,
  StartEpoch, Lead,                \* ratesStartEpoch; the day before an epoch opens
  LenderShare, Shares,             \* the configured split and those an owner may post
  Prices, WeeklyRates,             \* what a budget divided by its fees can come to
  TARGET_BPS, MAX_POST_BPS, REFRESH_BPS, STOP_BPS, MAX_SHARE_BPS,
  Jobs,                            \* of "epoch", "rates"
  MaxDown, MaxMoves, MaxManual, MaxFaults   \* bounds

VARIABLES
  now,
  released, rolledOver, finalized, \* Emissions
  posted,                          \* DealRewards._rates
  byHand,                          \* epochs last posted by the owner, not by the job
  owned,                           \* the keeper's wallet is the owner
  market,                          \* [spot, twap]
  seenEpoch, retryAfter, done,     \* the epoch job: last look, back-off of the rollovers and (at
                                   \* WEEKS) of finalize, its finalize went through
  epochRun, ratesRun,              \* one run of each job: step and locals
  moves, manual, faults

emissionsVars == <<released, rolledOver, finalized>>
epochJobVars == <<seenEpoch, retryAfter, done, epochRun>>
worldVars == <<now, owned, market>>
boundVars == <<moves, manual, faults>>
keeperEpochVars == <<now, released, rolledOver, finalized, posted, byHand, owned, market,
                     seenEpoch, retryAfter, done, epochRun, ratesRun, moves, manual, faults>>

Epochs == 0 .. WEEKS - 1
Least(a, b) == IF a < b THEN a ELSE b
CurrentEpoch == Least(now \div EPOCH, WEEKS)
EpochStart(e) == e * EPOCH
NoRates == [set |-> FALSE, rate |-> 0, price |-> 0, share |-> 0]
EpochIdle == [step |-> "idle", actions |-> {}, epoch |-> 0, clean |-> TRUE]
RatesIdle == [step |-> "idle", current |-> 0, targets |-> {}, epoch |-> 0, expected |-> NoRates,
              value |-> NoRates, stop |-> 0, why |-> "none"]

Init ==
  /\ now = 0 /\ released = {} /\ rolledOver = {} /\ finalized = FALSE
  /\ posted = [e \in Epochs |-> NoRates] /\ byHand = {} /\ owned = TRUE
  /\ market \in {[spot |-> p, twap |-> p] : p \in Prices}
  /\ seenEpoch = 0 /\ retryAfter = [e \in 0 .. WEEKS |-> 0] /\ done = FALSE
  /\ epochRun = EpochIdle /\ ratesRun = RatesIdle
  /\ moves = 0 /\ manual = 0 /\ faults = 0

-----------------------------------------------------------------------------
\* The contracts.

CanRelease(e) == e \in Epochs /\ now >= EpochStart(e) /\ e \notin released
CanRollover(e) == e \in released \ rolledOver /\ now >= EpochStart(e + 1) + REGISTRATION_GRACE
CanFinalize == /\ now >= EpochStart(WEEKS) + REGISTRATION_GRACE
               /\ Epochs \subseteq released /\ Epochs \subseteq rolledOver

Can(a) == CASE a[1] = "release" -> CanRelease(a[2])
            [] a[1] = "rollover" -> CanRollover(a[2])
            [] OTHER -> CanFinalize
Apply(a) ==
  /\ released' = IF a[1] = "release" THEN released \cup {a[2]} ELSE released
  /\ rolledOver' = IF a[1] = "rollover" THEN rolledOver \cup {a[2]} ELSE rolledOver
  /\ finalized' = (finalized \/ a[1] = "finalize")

\* The posting of the latest epoch up to e.
Effective(rates, e) ==
  LET set == {i \in 0 .. e : i \in Epochs /\ rates[i].set}
  IN  IF set = {} THEN NoRates ELSE rates[CHOOSE i \in set : \A k \in set : k <= i]
Positive(r) == r.set /\ r.rate > 0
\* What a fee earns at the spot price, in BPS of the fee.
Value(r, spot) == IF Positive(r) THEN Least(r.rate, MAX_SHARE_BPS \div r.price) * spot ELSE 0

CanPost(e) == e >= CurrentEpoch

-----------------------------------------------------------------------------
\* The world: time, the market, the owner's own postings, anyone's releases.

LastTick == EpochStart(WEEKS) + REGISTRATION_GRACE + IF "epoch" \in Jobs THEN MaxFaults + 1 ELSE 0
JobsStand == UNCHANGED <<seenEpoch, retryAfter, done, epochRun, ratesRun>>

\* Bound: the keeper is never away for more than MaxDown epochs.
Tick ==
  /\ now < LastTick
  /\ "epoch" \in Jobs => Least((now + 1) \div EPOCH, WEEKS) <= seenEpoch + MaxDown
  /\ now' = now + 1
  /\ UNCHANGED <<emissionsVars, posted, byHand, owned, market, boundVars>> /\ JobsStand
Move ==
  /\ moves < MaxMoves /\ moves' = moves + 1
  /\ market' \in [spot : Prices, twap : Prices \cup {0}] /\ market' # market
  /\ UNCHANGED <<now, emissionsVars, posted, byHand, owned, manual, faults>> /\ JobsStand
ByHand(e, rate, share) ==
  /\ "rates" \in Jobs /\ manual < MaxManual /\ manual' = manual + 1
  /\ CanPost(e)
  /\ posted' = [posted EXCEPT ![e] = [set |-> TRUE, rate |-> rate, price |-> market.spot, share |-> share]]
  /\ byHand' = byHand \cup {e}
  /\ UNCHANGED <<worldVars, emissionsVars, moves, faults>> /\ JobsStand
HandOver ==
  /\ "rates" \in Jobs /\ manual < MaxManual /\ manual' = manual + 1
  /\ owned' = ~owned
  /\ UNCHANGED <<now, market, emissionsVars, posted, byHand, moves, faults>> /\ JobsStand
Anyone(a) ==
  /\ "epoch" \in Jobs /\ manual < MaxManual /\ manual' = manual + 1
  /\ Can(a) /\ Apply(a)
  /\ UNCHANGED <<worldVars, posted, byHand, moves, faults>> /\ JobsStand

-----------------------------------------------------------------------------
\* The epoch job.

EpochWindow ==
  LET last == IF CurrentEpoch < WEEKS THEN CurrentEpoch ELSE WEEKS - 1
  IN  {e \in Epochs : last - EpochLookback <= e /\ e <= last}

\* Mutant: an epoch before the current one is only rolled over.
DecideForward ==
  {<<"release", CurrentEpoch>> : e \in {CurrentEpoch} \cap (Epochs \ released)}
  \cup {<<"rollover", e>> : e \in
         {i \in EpochWindow \ rolledOver : /\ now >= EpochStart(i + 1) + REGISTRATION_GRACE
                                           /\ retryAfter[i] <= now}}
  \cup (IF /\ now >= EpochStart(WEEKS) + REGISTRATION_GRACE
           /\ ~done /\ retryAfter[WEEKS] <= now THEN {<<"finalize", WEEKS>>} ELSE {})

Decide ==
  {<<"release", e>> : e \in EpochWindow \ released}
  \cup {<<"rollover", e>> : e \in
         {i \in EpochWindow \ rolledOver : /\ now >= EpochStart(i + 1) + REGISTRATION_GRACE
                                           /\ retryAfter[i] <= now}}
  \cup (IF /\ now >= EpochStart(WEEKS) + REGISTRATION_GRACE
           /\ ~done /\ retryAfter[WEEKS] <= now THEN {<<"finalize", WEEKS>>} ELSE {})

\* Releases first, then rollovers, then finalize; the oldest epoch first.
Rank(a) == (CASE a[1] = "release" -> 0 [] a[1] = "rollover" -> 1 [] OTHER -> 2) * (WEEKS + 1) + a[2]

EpochLook ==
  /\ "epoch" \in Jobs /\ epochRun.step = "idle"
  /\ Decide # {} \/ seenEpoch < CurrentEpoch
  /\ IF Decide = {} THEN seenEpoch' = CurrentEpoch /\ UNCHANGED epochRun
     ELSE /\ epochRun' = [EpochIdle EXCEPT !.step = "send", !.actions = Decide, !.epoch = CurrentEpoch]
          /\ UNCHANGED seenEpoch
  /\ UNCHANGED <<worldVars, emissionsVars, posted, byHand, retryAfter, done, ratesRun, boundVars>>

\* A call is simulated, so what the contract would refuse is not sent but, if it
\* is a rollover or the finalize, put off.  A failure goes on with the next action; a refusal ends the run.
EpochSend(outcome) ==
  /\ epochRun.step = "send"
  /\ outcome # "sent" => faults < MaxFaults
  /\ faults' = IF outcome = "sent" THEN faults ELSE faults + 1
  /\ LET a == CHOOSE b \in epochRun.actions : \A c \in epochRun.actions : Rank(b) <= Rank(c)
         accepted == outcome = "sent" /\ Can(a)
         rest == IF outcome = "refused" THEN {} ELSE epochRun.actions \ {a}
         clean == epochRun.clean /\ outcome = "sent"
     IN  /\ IF accepted THEN Apply(a) ELSE UNCHANGED emissionsVars
         /\ done' = (done \/ (accepted /\ a[1] = "finalize"))
         /\ retryAfter' = IF outcome = "sent" /\ ~Can(a) /\ a[1] # "release"
                          THEN [retryAfter EXCEPT ![a[2]] = Least(now + 1, LastTick)] ELSE retryAfter
         /\ epochRun' = IF rest = {} THEN EpochIdle ELSE [epochRun EXCEPT !.actions = rest, !.clean = clean]
         /\ seenEpoch' = IF rest = {} /\ clean THEN epochRun.epoch ELSE seenEpoch
  /\ UNCHANGED <<worldVars, posted, byHand, ratesRun, moves, manual>>

-----------------------------------------------------------------------------
\* The rates job.

Healthy == market.twap # 0 /\ market.spot * 100 <= market.twap * 120
Downside == market.spot * 100 < market.twap * 80

RatesStand == UNCHANGED <<worldVars, emissionsVars, seenEpoch, retryAfter, done, epochRun, moves, manual>>
NoPost == UNCHANGED <<posted, byHand>>
NoFault == UNCHANGED faults
GoRates(run) == ratesRun' = run /\ NoPost /\ NoFault /\ RatesStand
Throw == GoRates(RatesIdle)

Eligible(current) == {e \in {current, current + 1} : e >= StartEpoch /\ e < WEEKS}
Excess(current, bps) == {e \in Eligible(current) : Value(Effective(posted, e), market.spot) >= bps}

\* A positive posting beyond next week would get past the stop.
Unexpected(current) == \E e \in Epochs : e > current + 1 /\ Positive(posted[e])

Targets(current) ==
  {e \in Eligible(current) :
     \/ e = StartEpoch /\ ~posted[e].set
     \/ ~Positive(posted[e]) /\ EpochStart(e) - now <= Lead
     \/ e \in Excess(current, REFRESH_BPS)}

Active(current) == {e \in Eligible(current) : Positive(posted[e])}

\* Mutant: the stop only looks at what is posted now.
StopEpochActive(current, targets) ==
  LET all == Active(current) \cup {current}
  IN  1 + CHOOSE e \in all : \A k \in all : k <= e

StopEpoch(current, targets) ==
  LET all == Active(current) \cup targets \cup {current}
  IN  1 + CHOOSE e \in all : \A k \in all : k <= e

Zero(share) == [set |-> TRUE, rate |-> 0, price |-> market.spot, share |-> share]

RatesLook ==
  /\ "rates" \in Jobs /\ ratesRun.step = "idle"
  /\ CurrentEpoch < WEEKS /\ CurrentEpoch + 1 >= StartEpoch
  /\ owned /\ ~Unexpected(CurrentEpoch)
  /\ GoRates(IF Healthy
             THEN [RatesIdle EXCEPT !.step = "plan", !.current = CurrentEpoch]
             ELSE [RatesIdle EXCEPT !.step = "brake", !.current = CurrentEpoch,
                                    !.targets = Excess(CurrentEpoch, STOP_BPS)])

\* An unsound history stops a runaway rate and nothing else.
Brake ==
  /\ ratesRun.step = "brake"
  /\ IF ratesRun.targets = {} THEN Throw
     ELSE LET e == CHOOSE i \in ratesRun.targets : \A k \in ratesRun.targets : i <= k
          IN  GoRates([ratesRun EXCEPT !.step = "check", !.why = "brake", !.targets = @ \ {e}, !.epoch = e,
                         !.expected = posted[e], !.value = Zero(Effective(posted, e).share)])

Plan ==
  /\ ratesRun.step = "plan"
  /\ LET current == ratesRun.current
         targets == Targets(current)
         stop == StopEpoch(current, targets)
         run == [ratesRun EXCEPT !.targets = targets, !.stop = stop]
         zeroNeeded == /\ Active(current) \cup targets # {}
                       /\ stop < WEEKS /\ (~posted[stop].set \/ Positive(posted[stop]))
     IN  GoRates(IF zeroNeeded
                 THEN [run EXCEPT !.step = "check", !.why = "stop", !.epoch = stop,
                                  !.expected = posted[stop], !.value = Zero(LenderShare)]
                 ELSE [run EXCEPT !.step = "target"])

\* What the proposal comes to: the week's budget over its fees, never above the
\* target share of a fee at the higher of the two prices.
RateFrom(weekly, price) == Least(weekly, TARGET_BPS \div price)
Proposed(weekly) ==
  LET price == IF market.spot > market.twap THEN market.spot ELSE market.twap
  IN  [set |-> TRUE, rate |-> RateFrom(weekly, price), price |-> price, share |-> LenderShare]
Bounded(r) == IF r.price = 0 THEN 0 ELSE Least(r.rate, MAX_SHARE_BPS \div r.price)

Target(weekly) ==
  /\ ratesRun.step = "target" /\ ratesRun.targets # {}
  /\ LET e == CHOOSE i \in ratesRun.targets : \A k \in ratesRun.targets : i <= k
         value == Proposed(weekly)
         existing == Effective(posted, e)
     IN  IF \/ ~Healthy \/ (Downside /\ Bounded(value) > Bounded(existing))
            \/ (Positive(existing) /\ existing.share # LenderShare)
         THEN Throw
         ELSE GoRates([ratesRun EXCEPT !.step = IF posted[e] = value THEN "target" ELSE "check",
                         !.why = "target", !.targets = @ \ {e}, !.epoch = e,
                         !.expected = posted[e], !.value = value])

TargetsDone == ratesRun.step = "target" /\ ratesRun.targets = {} /\ Throw

StopStands == ratesRun.stop < WEEKS => posted[ratesRun.stop].set /\ ~Positive(posted[ratesRun.stop])

\* Everything a posting rests on is read again before it is signed.
Check ==
  /\ ratesRun.step = "check"
  /\ IF /\ posted[ratesRun.epoch] = ratesRun.expected
        /\ CurrentEpoch = ratesRun.current /\ owned
        /\ ratesRun.why = "target" =>
             /\ StopStands
             /\ Value(ratesRun.value, market.spot) <= MAX_POST_BPS /\ Healthy
     THEN GoRates([ratesRun EXCEPT !.step = "send"])
     ELSE Throw

\* setEpochRates lands and is read back, or is refused; when the answer is lost,
\* or the owner's posting is read back instead, the run ends whether it landed or not.
Posted == /\ posted' = [posted EXCEPT ![ratesRun.epoch] = ratesRun.value]
          /\ byHand' = byHand \ {ratesRun.epoch}
Land ==
  /\ ratesRun.step = "send"
  /\ IF owned /\ CanPost(ratesRun.epoch)
     THEN /\ Posted
          /\ ratesRun' = [ratesRun EXCEPT !.step = IF ratesRun.why = "brake" THEN "brake" ELSE "target"]
     ELSE NoPost /\ ratesRun' = RatesIdle
  /\ NoFault /\ RatesStand
Lost(landed) ==
  /\ ratesRun.step = "send" /\ faults < MaxFaults /\ faults' = faults + 1
  /\ IF landed /\ owned /\ CanPost(ratesRun.epoch) THEN Posted ELSE NoPost
  /\ ratesRun' = RatesIdle /\ RatesStand

\* An RPC failure, a missing sample or a restart ends the run anywhere.
Break ==
  /\ faults < MaxFaults /\ faults' = faults + 1
  /\ \/ ratesRun.step # "idle" /\ ratesRun' = RatesIdle /\ UNCHANGED epochRun
     \/ epochRun.step # "idle" /\ epochRun' = EpochIdle /\ UNCHANGED ratesRun
  /\ UNCHANGED <<worldVars, emissionsVars, posted, byHand, seenEpoch, retryAfter, done, moves, manual>>

RatesRuns == RatesLook \/ Brake \/ Plan \/ (\E w \in WeeklyRates : Target(w)) \/ TargetsDone
             \/ Check \/ Land
EpochRuns == EpochLook \/ EpochSend("sent")

Next ==
  \/ Tick \/ Move \/ HandOver \/ Break \/ RatesRuns \/ EpochRuns
  \/ \E e \in Epochs, r \in WeeklyRates \cup {0}, s \in Shares : ByHand(e, r, s)
  \/ \E a \in {"release", "rollover"} \X Epochs \cup {<<"finalize", WEEKS>>} : Anyone(a)
  \/ \E o \in {"failed", "refused"} : EpochSend(o)
  \/ \E b \in BOOLEAN : Lost(b)

Spec == Init /\ [][Next]_keeperEpochVars
\* The scheduler runs each job again and again; block time passes.
Fairness ==
  IF "epoch" \in Jobs THEN WF_keeperEpochVars(EpochRuns) /\ WF_keeperEpochVars(Tick)
  ELSE WF_keeperEpochVars(RatesRuns)
FairSpec == Spec /\ Fairness

-----------------------------------------------------------------------------
TypeOK ==
  /\ now \in 0 .. LastTick
  /\ released \cup rolledOver \cup byHand \subseteq Epochs
  /\ \A e \in Epochs : posted[e].set => posted[e].price \in Prices
  /\ ratesRun.step \in {"idle", "plan", "brake", "target", "check", "send"}

(* What the job posts runs out: a positive rate of the job is inherited by at *)
(* most one epoch before a posting, a zero or the end follows, whatever fails *)
(* or passes between two postings (rates.ts:1).                               *)
RatesRunOut ==
  \A e \in Epochs \ byHand :
    Positive(posted[e]) => \E s \in {e + 1, e + 2} : s >= WEEKS \/ posted[s].set

NoExcess ==
  LET bps == IF Healthy THEN REFRESH_BPS ELSE STOP_BPS
  IN  Excess(CurrentEpoch, bps) = {}
MayNotAct ==
  \/ ~owned \/ CurrentEpoch = WEEKS \/ Unexpected(CurrentEpoch)
  \/ \E e \in Eligible(CurrentEpoch) : Effective(posted, e).share # LenderShare

(* While the job may act, a reward worth more than the stop share of its fee, *)
(* or with a sound history more than the refresh share, does not last; far    *)
(* below the average the job may only reduce, and an epoch it would have to   *)
(* raise can keep it from the next.                                           *)
Reasonable == MayNotAct \/ NoExcess \/ (Healthy /\ Downside)
ExcessEnds == <>[]Reasonable

(* Every epoch is released and rolled over and the schedule finalized, as     *)
(* long as no outage outlasts the epochs the job looks back.                  *)
EpochsAreClosed == <>finalized
=============================================================================
