----------------------------- MODULE KeeperDeals -----------------------------
(***************************************************************************)
(* The keeper's own deals (services/keeper): "backstop" turns what is left *)
(* of an epoch's deal budget into rewards of its own wallet by listing,    *)
(* funding, registering and reclaiming a deal with itself; "register"      *)
(* registers whatever deal was funded; "streamerDeposit" hands the wallet's *)
(* sGAGE to the streamer.  The three run concurrently on one memory, which *)
(* any of them writes to disk as it ends.  The vault, the registry and the *)
(* rewards are reduced to what these calls see of them; a deal pledges one *)
(* unit of collateral, and a drip is one amount.                           *)
(***************************************************************************)
EXTENDS Integers, Sequences, FiniteSets, FiniteSetsExt, TLC

CONSTANTS
  WEEKS, EPOCH, Window, Grace,
  ClaimGrace,              \* of the vault: a lender claims this long after the term
  Budgets,                 \* what the two buckets of each epoch can have left
  RateChoices,             \* [rate, price, share] of both buckets
  UNIT, WAD, BPS, MAX_SHARE, FEE_BPS,
  MinSgage, MinDeposit, RegisterMaxPerRun,
  Funds, Collateral,       \* what the wallet holds
  Jobs,                    \* of "backstop", "register", "streamerDeposit"
  Horizon, MaxDeals, MaxFaults, MaxCrashes, MaxOthers   \* bounds

VARIABLES
  now, remaining, rolledOver, rates, paused,
  deals,                   \* the keeper's deals, by id
  wallet, owed,            \* [usdg, coll]: held, and credited in the vault
  sgage, pot,              \* sGAGE of the wallet, and given to the streamer
  memory, saved,           \* backstop records and known registrations; keeper-state.json
  run, registering,        \* one run of "backstop" and of "register"
  faults, crashes, others

marketVars == <<now, remaining, rolledOver, rates, paused>>
vaultVars == <<deals, wallet, owed, sgage, pot>>
boundVars == <<faults, crashes, others>>
keeperDealVars == <<marketVars, vaultVars, memory, saved, run, registering, boundVars>>

Buckets == {7, 21}
Epochs == 0 .. WEEKS - 1
Ids == 1 .. Len(deals)
\* Seven days are one epoch.
Term(bucket) == (bucket \div 7) * EPOCH
Later == Min({now + 1, Horizon})
CurrentEpoch == Min({now \div EPOCH, WEEKS})
CeilDiv(a, b) == (a + b - 1) \div b

Forget == [rec |-> <<>>, known |-> {}, retryAfter |-> [d \in 1 .. MaxDeals |-> 0]]
Rest == [step |-> "idle", current |-> 0, phase |-> "idle", queue |-> {}, plan |-> <<>>,
         deal |-> 0, call |-> "none"]

Init ==
  /\ now = 0 /\ remaining \in [Epochs -> Budgets] /\ rolledOver = {}
  /\ rates \in RateChoices /\ paused = FALSE
  /\ deals = <<>> /\ wallet = [usdg |-> Funds, coll |-> Collateral] /\ owed = [usdg |-> 0, coll |-> 0]
  /\ sgage = 0 /\ pot = 0
  /\ memory = Forget /\ saved = Forget /\ run = Rest /\ registering = {}
  /\ faults = 0 /\ crashes = 0 /\ others = 0

-----------------------------------------------------------------------------
\* The contracts.

Funded(d) == deals[d].epoch # -1

\* DealRewards._reward.
Reward(d) ==
  LET deal == deals[d]
      raw == (deal.fee * rates.rate) \div UNIT
      cap == ((deal.fee * WAD * MAX_SHARE) \div BPS) \div rates.price
  IN  IF deal.epoch >= WEEKS \/ deal.epoch \in rolledOver THEN 0
      ELSE Min({raw, cap, remaining[deal.epoch][deal.bucket]})

Split == rates.share \notin {0, BPS}

\* Both parties of a keeper's deal share one drip id: a split grant reverts.
CanRegister(d) ==
  /\ Funded(d) /\ deals[d].granted = -1
  /\ ~(Split /\ deals[d].lender = "keeper" /\ Reward(d) > 0)

Allowed(call, d) ==
  CASE call = "cancel" -> deals[d].state = "listed"
    [] call = "fund" -> deals[d].state = "listed" /\ ~paused /\ wallet.usdg >= deals[d].price
    [] call = "register" -> CanRegister(d)
    [] call = "reclaim" -> deals[d].state = "funded" /\ wallet.usdg >= deals[d].price
    [] OTHER -> TRUE

FundBy(d, lender) ==
  /\ deals' = [deals EXCEPT ![d].state = "funded", ![d].epoch = CurrentEpoch, ![d].lender = lender,
                                ![d].claimableAt = now + Term(deals[d].bucket) + ClaimGrace]
  /\ owed' = [owed EXCEPT !.usdg = @ + deals[d].price - deals[d].fee]
  /\ wallet' = IF lender = "keeper" THEN [wallet EXCEPT !.usdg = @ - deals[d].price] ELSE wallet
  /\ UNCHANGED <<remaining, sgage, pot>>

RegisterIt(d) ==
  /\ deals' = [deals EXCEPT ![d].granted = Reward(d), ![d].drip = IF deals[d].lender = "keeper" THEN Reward(d) ELSE 0]
  /\ remaining' = IF Reward(d) = 0 THEN remaining
                  ELSE [remaining EXCEPT ![deals[d].epoch][deals[d].bucket] = @ - Reward(d)]
  /\ UNCHANGED <<wallet, owed, sgage, pot>>

Effect(call, d) ==
  \/ /\ call = "cancel"
     /\ deals' = [deals EXCEPT ![d].state = "cancelled"] /\ owed' = [owed EXCEPT !.coll = @ + 1]
     /\ UNCHANGED <<remaining, wallet, sgage, pot>>
  \/ call = "fund" /\ FundBy(d, "keeper")
  \/ call = "register" /\ RegisterIt(d)
  \/ /\ call = "withdrawUSDG"
     /\ wallet' = [wallet EXCEPT !.usdg = @ + owed.usdg] /\ owed' = [owed EXCEPT !.usdg = 0]
     /\ UNCHANGED <<remaining, deals, sgage, pot>>
  \/ /\ call = "reclaim"
     /\ deals' = [deals EXCEPT ![d].state = "reclaimed"]
     /\ wallet' = [wallet EXCEPT !.usdg = @ - deals[d].price]
     /\ owed' = [usdg |-> owed.usdg + IF deals[d].lender = "keeper" THEN deals[d].price ELSE 0,
                 coll |-> owed.coll + 1]
     /\ UNCHANGED <<remaining, sgage, pot>>
  \/ /\ call = "withdrawERC20"
     /\ wallet' = [wallet EXCEPT !.coll = @ + owed.coll] /\ owed' = [owed EXCEPT !.coll = 0]
     /\ UNCHANGED <<remaining, deals, sgage, pot>>

-----------------------------------------------------------------------------
\* Time and everybody else.

Others == others < MaxOthers /\ others' = others + 1 /\ UNCHANGED <<faults, crashes>>
KeeperStands == UNCHANGED <<memory, saved, run, registering>>

Tick ==
  /\ now < Horizon /\ now' = now + 1
  /\ UNCHANGED <<remaining, rolledOver, rates, paused, vaultVars, boundVars>> /\ KeeperStands
\* The epoch job of the keeper, or anyone.
Rollover(e) ==
  /\ e \notin rolledOver /\ now >= (e + 1) * EPOCH + Grace
  /\ rolledOver' = rolledOver \cup {e} /\ remaining' = [remaining EXCEPT ![e] = [b \in Buckets |-> 0]]
  /\ UNCHANGED <<now, rates, paused, vaultVars, boundVars>> /\ KeeperStands
\* Somebody else's deal takes some of a budget.
Reserve(b) ==
  /\ Others /\ CurrentEpoch < WEEKS /\ remaining[CurrentEpoch][b] > 0
  /\ remaining' = [remaining EXCEPT ![CurrentEpoch][b] = @ - 1]
  /\ UNCHANGED <<now, rolledOver, rates, paused, vaultVars>> /\ KeeperStands
FundByOther(d) ==
  /\ Others /\ deals[d].state = "listed" /\ ~paused
  /\ FundBy(d, "other")
  /\ UNCHANGED <<now, rolledOver, rates, paused>> /\ KeeperStands
\* A rival lender takes the collateral of a deal the keeper has not reclaimed in
\* time.  A deal the keeper lent itself nobody claims: no job calls claim.
ClaimByOther(d) ==
  /\ deals[d].state = "funded" /\ deals[d].lender = "other" /\ now >= deals[d].claimableAt
  /\ deals' = [deals EXCEPT ![d].state = "claimed"]
  /\ UNCHANGED <<marketVars, wallet, owed, sgage, pot, boundVars>> /\ KeeperStands
RegisterByOther(d) ==
  /\ Others /\ CanRegister(d) /\ RegisterIt(d)
  /\ UNCHANGED <<now, rolledOver, rates, paused>> /\ KeeperStands
Govern ==
  /\ Others
  /\ \/ paused' = ~paused /\ UNCHANGED rates
     \/ rates' \in RateChoices \ {rates} /\ UNCHANGED paused
  /\ UNCHANGED <<now, remaining, rolledOver, vaultVars>> /\ KeeperStands

-----------------------------------------------------------------------------
\* What a call of the sender comes to: mined, refused in simulation, or lost on
\* the way with or without having been mined.

Outcomes == {"sent", "reverted", "failed", "lost"}
Sender(allowed, effect, outcome) ==
  /\ outcome \in {"failed", "lost"} => faults < MaxFaults
  /\ IF outcome = "reverted" THEN ~allowed ELSE outcome = "failed" \/ allowed
  /\ IF outcome \in {"sent", "lost"} THEN effect ELSE UNCHANGED <<remaining, vaultVars>>
  /\ faults' = IF outcome \in {"failed", "lost"} THEN faults + 1 ELSE faults
  /\ UNCHANGED <<now, rolledOver, rates, paused, crashes, others>>
Reads == UNCHANGED <<marketVars, vaultVars, boundVars>>

\* The end of any run writes the whole memory.
Save == saved' = IF crashes < MaxCrashes THEN memory' ELSE Forget
Keep == UNCHANGED saved

-----------------------------------------------------------------------------
\* "backstop".

\* Mutant: the divisions round down.
SizeFloor(left) ==
  LET need == Max({(left * UNIT) \div rates.rate, (left * rates.price * BPS) \div (MAX_SHARE * WAD)})
      price == (need * BPS) \div FEE_BPS
  IN  [price |-> price, fee |-> (price * FEE_BPS) \div BPS]

\* The smallest asking price whose fee reserves all that is left.
Size(left) ==
  LET need == Max({CeilDiv(left * UNIT, rates.rate), CeilDiv(left * rates.price * BPS, MAX_SHARE * WAD)})
      price == CeilDiv(need * BPS, FEE_BPS)
  IN  [price |-> price, fee |-> (price * FEE_BPS) \div BPS]

Phase ==
  LET next == (CurrentEpoch + 1) * EPOCH
  IN  IF CurrentEpoch >= WEEKS THEN "idle"
      ELSE IF now >= next - Window THEN "fund"
      ELSE IF CurrentEpoch > 0 /\ now < CurrentEpoch * EPOCH + Grace THEN "grace" ELSE "idle"

Records == DOMAIN memory.rec
Open == {d \in Records : ~memory.rec[d].done}
Covered(e) == {deals[d].bucket : d \in {x \in Records : memory.rec[x].epoch = e}}

\* Mutant: a run outside the window does nothing.
StartInWindow ==
  /\ "backstop" \in Jobs /\ run.step = "idle"
  /\ Phase = "fund"
  /\ run' = [Rest EXCEPT !.step = "next", !.current = CurrentEpoch, !.phase = Phase,
               !.queue = {d \in Open : memory.rec[d].retryAfter <= now}]
  /\ UNCHANGED <<memory, saved, registering>> /\ Reads

\* A run with nothing open and outside the window ends as it began.
Start ==
  /\ "backstop" \in Jobs /\ run.step = "idle"
  /\ Open # {} \/ Phase = "fund"
  /\ run' = [Rest EXCEPT !.step = "next", !.current = CurrentEpoch, !.phase = Phase,
               !.queue = {d \in Open : memory.rec[d].retryAfter <= now}]
  /\ UNCHANGED <<memory, saved, registering>> /\ Reads

NextOpen ==
  /\ run.step = "next" /\ run.queue # {}
  /\ run' = [run EXCEPT !.step = "look", !.deal = Min(run.queue), !.queue = @ \ {Min(run.queue)}]
  /\ UNCHANGED <<memory, saved, registering>> /\ Reads

\* One deal for every bucket with a remainder, if the wallet can pay for all of them.
PlanFor(e) ==
  LET planned == {b \in Buckets \ Covered(e) : remaining[e][b] > 0}
      need == MapThenSumSet(LAMBDA b : Size(remaining[e][b]).price + Size(remaining[e][b]).fee, planned)
      sized == <<[bucket |-> 7, size |-> Size(remaining[e][7])],
                 [bucket |-> 21, size |-> Size(remaining[e][21])]>>
  IN  IF \/ remaining[e][7] + remaining[e][21] <= MinSgage
         \/ Split \/ paused \/ wallet.usdg < need \/ wallet.coll < Cardinality(planned)
      THEN <<>>
      ELSE SelectSeq(sized, LAMBDA p : p.bucket \in planned)

EndRun == run' = Rest /\ UNCHANGED memory /\ Save

\* The run looked at the clock when it started, and looks at nothing else twice.
Plan ==
  /\ run.step = "next" /\ run.queue = {} /\ run.plan = <<>>
  /\ IF run.phase = "fund" /\ PlanFor(run.current) # <<>>
     THEN run' = [run EXCEPT !.phase = "planned", !.plan = PlanFor(run.current)] /\ UNCHANGED <<memory, saved>>
     ELSE EndRun
  /\ UNCHANGED registering /\ Reads

ListEffect(p) ==
  /\ deals' = Append(deals, [state |-> "listed", bucket |-> p.bucket, fee |-> p.size.fee,
                price |-> p.size.price, for |-> run.current, sizedAt |-> rates, epoch |-> -1, lender |-> "none",
                claimableAt |-> 0, granted |-> -1, drip |-> 0])
  /\ wallet' = [wallet EXCEPT !.coll = @ - 1]
  /\ UNCHANGED <<remaining, owed, sgage, pot>>

\* A listing that is not confirmed ends the run, recorded nowhere.
List(outcome) ==
  /\ run.step = "next" /\ run.queue = {} /\ run.plan # <<>> /\ Len(deals) < MaxDeals
  /\ LET p == run.plan[1]
     IN  /\ Sender(~paused /\ wallet.coll > 0, ListEffect(p), outcome)
         /\ IF outcome = "sent"
            THEN /\ memory' = [memory EXCEPT !.rec =
                       (Len(deals) + 1 :> [epoch |-> run.current, done |-> FALSE, retryAfter |-> 0]) @@ @]
                 /\ run' = [run EXCEPT !.step = "look", !.deal = Len(deals) + 1, !.plan = Tail(@)]
                 /\ Keep
            ELSE EndRun
  /\ UNCHANGED registering

\* What a tracked deal needs next.
\* Mutant: a deal that was claimed needs nothing any more.
CallForClaimed(d) ==
  CASE deals[d].state = "listed" -> IF memory.rec[d].epoch < run.current THEN "cancel" ELSE "fund"
    [] deals[d].state = "funded" ->
         IF deals[d].granted = -1 THEN "register" ELSE IF owed.usdg > 0 THEN "withdrawUSDG" ELSE "reclaim"
    [] deals[d].state # "claimed" /\ owed.usdg > 0 -> "withdrawUSDG"
    [] deals[d].state # "claimed" /\ owed.coll > 0 -> "withdrawERC20"
    [] OTHER -> "none"

CallForUsdg(d) ==
  CASE deals[d].state = "listed" -> IF memory.rec[d].epoch < run.current THEN "cancel" ELSE "fund"
    [] deals[d].state = "funded" ->
         IF deals[d].granted = -1 THEN "register" ELSE IF owed.usdg > 0 THEN "withdrawUSDG" ELSE "reclaim"
    [] owed.usdg > 0 -> "withdrawUSDG"
    [] OTHER -> "none"

CallFor(d) ==
  CASE deals[d].state = "listed" -> IF memory.rec[d].epoch < run.current THEN "cancel" ELSE "fund"
    [] deals[d].state = "funded" ->
         IF deals[d].granted = -1 THEN "register" ELSE IF owed.usdg > 0 THEN "withdrawUSDG" ELSE "reclaim"
    [] owed.usdg > 0 -> "withdrawUSDG"
    [] owed.coll > 0 -> "withdrawERC20"
    [] OTHER -> "none"

Look ==
  /\ run.step = "look"
  /\ IF CallFor(run.deal) = "none"
     THEN /\ memory' = [memory EXCEPT !.rec[run.deal].done = TRUE]
          /\ run' = [run EXCEPT !.step = "next", !.deal = 0]
     ELSE /\ run' = [run EXCEPT !.step = "call", !.call = CallFor(run.deal)]
          /\ UNCHANGED memory
  /\ Keep /\ UNCHANGED registering /\ Reads

\* The deal is left at its first step that is not confirmed; a registration
\* somebody else made counts.
Call(outcome) ==
  /\ run.step = "call"
  /\ LET d == run.deal
         known == run.call = "register" /\ (outcome = "sent" \/ (outcome = "reverted" /\ deals[d].granted # -1))
     IN  /\ Sender(Allowed(run.call, d), Effect(run.call, d), outcome)
         /\ run' = IF outcome = "sent" \/ known THEN [run EXCEPT !.step = "look", !.call = "none"]
                   ELSE [run EXCEPT !.step = "next", !.call = "none", !.deal = 0]
         /\ memory' = CASE known -> [memory EXCEPT !.known = @ \cup {d}]
                        [] run.call = "register" /\ outcome = "reverted" /\ ~known ->
                             [memory EXCEPT !.rec[d].retryAfter = Later]
                        [] OTHER -> memory
  /\ Keep /\ UNCHANGED registering

-----------------------------------------------------------------------------
\* "register": the first few funded deals not known to be registered.

Candidates ==
  LET all == {d \in Ids \ memory.known : Funded(d) /\ memory.retryAfter[d] <= now}
  IN  {d \in all : Cardinality({x \in all : x < d}) < RegisterMaxPerRun}

RegisterLook ==
  /\ "register" \in Jobs /\ registering = {} /\ Candidates # {}
  /\ memory' = [memory EXCEPT !.known = @ \cup {d \in Candidates : deals[d].granted # -1}]
  /\ registering' = {d \in Candidates : deals[d].granted = -1}
  /\ IF registering' = {} THEN Save ELSE Keep
  /\ UNCHANGED run /\ Reads

RegisterSend(outcome) ==
  /\ registering # {}
  /\ LET d == Min(registering)
     IN  /\ Sender(CanRegister(d), RegisterIt(d), outcome)
         /\ memory' = CASE outcome = "sent" \/ (outcome = "reverted" /\ deals[d].granted # -1) ->
                             [memory EXCEPT !.known = @ \cup {d}]
                        [] outcome = "reverted" /\ deals[d].granted = -1 ->
                             [memory EXCEPT !.retryAfter[d] = Later]
                        [] OTHER -> memory
         /\ registering' = registering \ {d}
         /\ IF registering' = {} THEN Save ELSE Keep
  /\ UNCHANGED run
RegisterRefused ==
  /\ registering # {} /\ faults < MaxFaults /\ faults' = faults + 1
  /\ registering' = {} /\ UNCHANGED <<memory, run>> /\ Save
  /\ UNCHANGED <<marketVars, vaultVars, crashes, others>>

-----------------------------------------------------------------------------
\* "streamerDeposit": claim what the wallet's own deals earned, deposit it all.

DripsDue == {d \in Records : deals[d].drip > 0}
Stream == "streamerDeposit" \in Jobs /\ CurrentEpoch + 1 < WEEKS
Claim(outcome) ==
  /\ Stream /\ DripsDue # {}
  /\ Sender(TRUE,
            /\ sgage' = sgage + MapThenSumSet(LAMBDA d : deals[d].drip, DripsDue)
            /\ deals' = [d \in Ids |-> IF d \in DripsDue THEN [deals[d] EXCEPT !.drip = 0] ELSE deals[d]]
            /\ UNCHANGED <<remaining, wallet, owed, pot>>, outcome)
  /\ UNCHANGED <<memory, run, registering>> /\ Save
Deposit(outcome) ==
  /\ Stream /\ sgage > 0 /\ sgage >= MinDeposit
  /\ Sender(TRUE, pot' = pot + sgage /\ sgage' = 0 /\ UNCHANGED <<remaining, deals, wallet, owed>>, outcome)
  /\ UNCHANGED <<memory, run, registering>> /\ Save

-----------------------------------------------------------------------------
\* A read that fails ends the run; a restart finds the file as it was last written.
Break ==
  /\ faults < MaxFaults /\ faults' = faults + 1
  /\ run.step # "idle" /\ EndRun
  /\ UNCHANGED <<marketVars, vaultVars, registering, crashes, others>>
Crash ==
  /\ crashes < MaxCrashes /\ crashes' = crashes + 1
  /\ memory' = saved /\ run' = Rest /\ registering' = {}
  /\ saved' = IF crashes' < MaxCrashes THEN saved ELSE Forget
  /\ UNCHANGED <<marketVars, vaultVars, faults, others>>

Backstops == Start \/ NextOpen \/ Plan \/ List("sent") \/ List("reverted") \/ Look
             \/ Call("sent") \/ Call("reverted")
Registers == RegisterLook \/ RegisterSend("sent") \/ RegisterSend("reverted")

Next ==
  \/ Tick \/ Govern \/ Start \/ NextOpen \/ Plan \/ Look \/ RegisterLook \/ RegisterRefused \/ Break \/ Crash
  \/ \E e \in Epochs : Rollover(e)
  \/ \E b \in Buckets : Reserve(b)
  \/ \E d \in Ids : FundByOther(d) \/ ClaimByOther(d) \/ RegisterByOther(d)
  \/ \E o \in Outcomes : List(o) \/ Call(o) \/ RegisterSend(o) \/ Claim(o) \/ Deposit(o)

Spec == Init /\ [][Next]_keeperDealVars
\* The scheduler starts every job again and again; block time passes.
Fairness ==
  /\ WF_keeperDealVars(Tick) /\ WF_keeperDealVars(Backstops) /\ WF_keeperDealVars(Registers)
  /\ WF_keeperDealVars(\E e \in Epochs : Rollover(e))
  /\ WF_keeperDealVars(Claim("sent")) /\ WF_keeperDealVars(Deposit("sent"))
FairSpec == Spec /\ Fairness

-----------------------------------------------------------------------------
TypeOK ==
  /\ wallet.usdg \in Nat /\ owed.usdg \in Nat /\ wallet.coll \in 0 .. Collateral
  /\ \A d \in Ids : deals[d].state \in {"listed", "funded", "reclaimed", "claimed", "cancelled"}
  /\ Records \subseteq Ids /\ run.step \in {"idle", "next", "look", "call"}

FeesPaid == MapThenSumSet(LAMBDA d : deals[d].fee, {d \in Ids : Funded(d)})

Claimed == {d \in Ids : deals[d].state = "claimed"}
SoldFor == MapThenSumSet(LAMBDA d : deals[d].price, Claimed)

(* When every deal the keeper ever listed is closed, it has paid the fees of   *)
(* the funded deals and has all its collateral back, except what a rival lent  *)
(* on and claimed after the term: there it keeps the price instead.  Nothing   *)
(* stays behind in the vault and nothing is paid twice, whoever lent and       *)
(* claimed, whatever failed in between (backstop.ts:7, 269).                   *)
CostsTheFeeOrTheCollateral ==
  Ids = Records /\ Open = {} =>
    wallet = [usdg |-> Funds - FeesPaid + SoldFor, coll |-> Collateral - Cardinality(Claimed)]

(* A keeper's deal that is registered before its epoch is rolled over uses up  *)
(* the bucket it was sized for, and is never reclaimed before (backstop.ts:10). *)
ReservesTheRemainder ==
  \A d \in Ids :
    /\ deals[d].granted # -1 /\ deals[d].epoch = deals[d].for /\ deals[d].sizedAt = rates
         => remaining[deals[d].for][deals[d].bucket] = 0
    /\ deals[d].state = "reclaimed" => deals[d].granted # -1

BackstopsAreExact == CostsTheFeeOrTheCollateral /\ ReservesTheRemainder

(* Every deal on record is closed and every funded one registered, be it with  *)
(* nothing once its epoch is rolled over, whatever fails and whoever acts.     *)
Closed ==
  /\ Open = {}
  /\ "register" \in Jobs => \A d \in Ids : Funded(d) => deals[d].granted # -1
BackstopsEnd == <>[]Closed
=============================================================================
