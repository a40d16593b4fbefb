----------------------------- MODULE KeeperScan -----------------------------
(***************************************************************************)
(* The keeper's scanning jobs (services/keeper): the hourly checkpoint,    *)
(* the swap watcher and the streamer's boundary passes.  They run          *)
(* concurrently and share one inventory of liquidity positions, built from *)
(* event logs behind cursors and written to disk as a whole whenever any   *)
(* of them ends.  One block of the chain holds one event; a batch holds    *)
(* one position.                                                           *)
(***************************************************************************)
EXTENDS Integers, Sequences, FiniteSets

CONSTANTS
  Positions, OtherPools,   \* token ids; those of pools that are not scored
  Jobs,                    \* of "checkpoint", "swapWatch", "boundary"
  EPOCH, LeadSeconds, WEEKS,
  MaxEvents, MaxFaults, MaxCrashes   \* bounds

VARIABLES
  chain,     \* the blocks: [kind, id, weighed]; the head is the last one
  weight,    \* positions with positive weight in LPRewards
  fresh,     \* positions checkpointed since the last swap
  now,
  state,     \* KeeperState in memory
  saved,     \* keeper-state.json
  job,       \* the run of each job: step and locals
  misread,   \* positions whose pool key once could not be read
  faults, crashes

chainVars == <<chain, weight, fresh, now>>
scanVars == <<chain, weight, fresh, now, state, saved, job, misread, faults, crashes>>

Height == Len(chain)
Blocks(from, to) == {chain[i] : i \in from .. to}
Ids(blocks, kind) == {b.id : b \in {c \in blocks : c.kind = kind}}
Minted == Ids(Blocks(1, Height), "mint")
Liquid == Minted \ Ids(Blocks(1, Height), "burn")
LogsOfWeight(from, to) == {b.id : b \in {c \in Blocks(from, to) : c.weighed}}
Last(kind) == LET at == {i \in 1 .. Height : chain[i].kind = kind}
              IN  IF at = {} THEN 0 ELSE CHOOSE i \in at : \A k \in at : k <= i

EmptyState ==
  [positionCursor |-> 1, inPool |-> {}, notInPool |-> {}, burned |-> {},
   swapCursor |-> 0, lastPre |-> -1, lastPost |-> -1]

Idle == [step |-> "idle", from |-> 0, to |-> 0, known |-> {}, unknown |-> {}, todo |-> {},
         tried |-> {}, owed |-> {}, until |-> 0, pass |-> "none", boundary |-> -1]

Init ==
  /\ chain = <<>> /\ weight = {} /\ fresh = {} /\ now = 0
  /\ state = EmptyState /\ saved = EmptyState
  /\ job = [j \in Jobs |-> Idle]
  /\ misread = {} /\ faults = 0 /\ crashes = 0

-----------------------------------------------------------------------------
\* The chain: positions come and go and the pool is traded in.

Events == Cardinality({i \in 1 .. Height : chain[i].kind # "weigh"})
Block(kind, p, weighed) == chain' = Append(chain, [kind |-> kind, id |-> p, weighed |-> weighed])
KeeperStands == UNCHANGED <<state, saved, job, misread, faults, crashes>>

\* The hook weighs a position as it is added and as it is burned; the removal
\* callback may fail, and a position out of range weighs nothing.
Mint(p, weighs) ==
  /\ Events < MaxEvents /\ p \notin Minted /\ (weighs => p \notin OtherPools)
  /\ Block("mint", p, weighs)
  /\ weight' = IF weighs THEN weight \cup {p} ELSE weight
  /\ fresh' = fresh \cup {p}
  /\ UNCHANGED now /\ KeeperStands
Burn(p, callbackWorks) ==
  /\ Events < MaxEvents /\ p \in Liquid
  /\ Block("burn", p, FALSE)
  /\ weight' = IF callbackWorks THEN weight \ {p} ELSE weight
  /\ UNCHANGED <<fresh, now>> /\ KeeperStands
Swap ==
  /\ Events < MaxEvents
  /\ Block("swap", 0, FALSE)
  /\ fresh' = {}
  /\ UNCHANGED <<weight, now>> /\ KeeperStands
Pass ==
  /\ "boundary" \in Jobs /\ now < WEEKS * EPOCH
  /\ now' = now + 1
  /\ UNCHANGED <<chain, weight, fresh>> /\ KeeperStands

-----------------------------------------------------------------------------
\* One run of a job.

At(j, step) == job[j].step = step
Go(j, run) == job' = [job EXCEPT ![j] = run]
Mind(update) == state' = update
Read == UNCHANGED <<chain, weight, fresh, now>>

\* Whatever ends a run writes the whole shared state; nobody reads the file
\* again once the last crash is over.
Save == saved' = IF crashes < MaxCrashes THEN state' ELSE EmptyState
End(j) == Save /\ Go(j, Idle)
EndAsIs(j) == UNCHANGED state /\ End(j)
Throw(j) ==
  /\ faults < MaxFaults /\ faults' = faults + 1
  /\ EndAsIs(j) /\ Read /\ UNCHANGED <<misread, crashes>>

NoFault == UNCHANGED <<faults, crashes>>
OwnSteps == Read /\ UNCHANGED <<saved, misread>> /\ NoFault

\* Reads of many positions are one multicall whose failures are tolerated.
ReadKeys(unread) == OtherPools \cup unread \cup Ids(Blocks(1, Height), "burn")
ReadLiquidity(unread) == IF unread THEN {} ELSE Liquid
Swapped(from) == \E i \in from .. Height : i > 0 /\ chain[i].kind = "swap"

Scoring(j) == [Idle EXCEPT !.step = "scan"]

StartCheckpoint(j) ==
  /\ j = "checkpoint" /\ At(j, "idle")
  /\ Go(j, Scoring(j)) /\ UNCHANGED state /\ OwnSteps

\* The swaps since the cursor; the first run begins at the head.
StartSwapWatch(j) ==
  /\ j = "swapWatch" /\ At(j, "idle")
  /\ LET from == IF state.swapCursor = 0 THEN Height ELSE state.swapCursor
     IN  IF Height < from THEN EndAsIs(j)
         ELSE IF Swapped(from)
         THEN Go(j, [Scoring(j) EXCEPT !.until = Height + 1]) /\ UNCHANGED <<state, saved>>
         ELSE Mind([state EXCEPT !.swapCursor = Height + 1]) /\ End(j)
  /\ Read /\ UNCHANGED misread /\ NoFault

DuePass ==
  LET last == (now \div EPOCH) * EPOCH
      next == last + EPOCH
  IN  IF LeadSeconds <= 0 \/ now >= WEEKS * EPOCH THEN {}
      ELSE IF now >= next - LeadSeconds /\ state.lastPre # next THEN {<<"pre", next>>}
      ELSE IF now < last + LeadSeconds /\ state.lastPost # last THEN {<<"post", last>>} ELSE {}

StartBoundary(j) ==
  /\ j = "boundary" /\ At(j, "idle")
  /\ \E due \in DuePass : Go(j, [Scoring(j) EXCEPT !.pass = due[1], !.boundary = due[2]])
  /\ UNCHANGED state /\ OwnSteps

\* The transfers from the cursor to the head, read before they are applied.
InPoolNow == state.inPool \ state.burned
Scan(j) ==
  /\ At(j, "scan")
  /\ Go(j, IF Height >= state.positionCursor
           THEN [job[j] EXCEPT !.step = "apply", !.owed = Liquid \ OtherPools,
                   !.from = state.positionCursor, !.to = Height]
           ELSE [job[j] EXCEPT !.step = "rewards", !.owed = Liquid \ OtherPools, !.known = InPoolNow])
  /\ UNCHANGED state /\ OwnSteps

\* Mutant: the cursor moves before the new positions are classified.
ApplyTransfersCursor(j) ==
  /\ At(j, "apply")
  /\ LET logs == Blocks(job[j].from, job[j].to)
         gone == Ids(logs, "burn")
     IN  /\ Mind([state EXCEPT !.burned = (@ \ Ids(logs, "mint")) \cup gone,
                    !.positionCursor = job[j].to + 1])
         /\ Go(j, [job[j] EXCEPT !.step = "classify",
                     !.unknown = (Ids(logs, "mint") \ gone) \ (state.inPool \cup state.notInPool)])
  /\ OwnSteps

\* A burned id is dropped; a new one must be classified before the cursor moves.
ApplyTransfers(j) ==
  /\ At(j, "apply")
  /\ LET logs == Blocks(job[j].from, job[j].to)
         gone == Ids(logs, "burn")
     IN  /\ Mind([state EXCEPT !.burned = (@ \ Ids(logs, "mint")) \cup gone])
         /\ Go(j, [job[j] EXCEPT !.step = "classify",
                     !.unknown = (Ids(logs, "mint") \ gone) \ (state.inPool \cup state.notInPool)])
  /\ OwnSteps

\* A key that cannot be read counts as another pool's, for good.
Classify(j, unread) ==
  /\ At(j, "classify")
  /\ unread # {} => unread = job[j].unknown \ misread /\ faults < MaxFaults
  /\ faults' = IF unread = {} THEN faults ELSE faults + 1
  /\ misread' = misread \cup unread
  /\ LET ours == job[j].unknown \ ReadKeys(unread)
     IN  Mind([state EXCEPT !.inPool = @ \cup ours, !.notInPool = @ \cup (job[j].unknown \ ours),
                 !.positionCursor = job[j].to + 1])
  /\ Go(j, [job[j] EXCEPT !.step = "rewards", !.unknown = {}, !.from = 0, !.to = 0,
              !.known = state'.inPool \ state'.burned])
  /\ Read /\ UNCHANGED <<saved, crashes>>

\* The positions LPRewards ever weighed, burned or not; its own cursor only
\* spares reading the same logs again.
RewardPositions(j) ==
  /\ At(j, "rewards")
  /\ Go(j, [job[j] EXCEPT !.step = "weigh", !.known = @ \cup LogsOfWeight(1, Height)])
  /\ UNCHANGED state /\ OwnSteps

\* Live is what has weight or liquidity, burned or not; a liquidity that cannot
\* be read counts as none.
Weigh(j, unread) ==
  /\ At(j, "weigh")
  /\ unread => faults < MaxFaults
  /\ faults' = IF unread THEN faults + 1 ELSE faults
  /\ LET live == job[j].known \cap (weight \cup ReadLiquidity(unread))
     IN  Go(j, [job[j] EXCEPT !.step = "send", !.todo = live, !.known = {},
                  !.owed = ((@ \cap ReadLiquidity(unread)) \cup (@ \cap weight)) \ misread])
  /\ UNCHANGED <<state, saved, misread, crashes>> /\ Read

\* LPRewards.checkpointMany, or LPStreamer's, which leaves the weights alone.
Checkpointed(j, p) ==
  IF j = "boundary" THEN UNCHANGED <<chain, weight, fresh>>
  ELSE /\ fresh' = fresh \cup {p}
       /\ weight' = IF p \in Liquid THEN weight \cup {p} ELSE weight \ {p}
       /\ IF p \in Liquid \ weight THEN Block("weigh", p, TRUE) ELSE UNCHANGED chain

Send(j, p, outcome) ==
  /\ At(j, "send") /\ p \in job[j].todo
  /\ outcome # "sent" => faults < MaxFaults
  /\ faults' = IF outcome = "sent" THEN faults ELSE faults + 1
  /\ IF outcome = "sent" THEN Checkpointed(j, p) ELSE UNCHANGED <<chain, weight, fresh>>
  /\ Go(j, [job[j] EXCEPT !.todo = @ \ {p}, !.tried = @ \cup {p}])
  /\ UNCHANGED <<now, state, saved, misread, crashes>>

\* A refusal ends the pass.  The watcher takes that for a pass all the same; a
\* boundary pass stays due.
Refused(j, p) ==
  /\ At(j, "send") /\ p \in job[j].todo /\ faults < MaxFaults
  /\ faults' = faults + 1
  /\ Mind(IF j = "swapWatch" THEN [state EXCEPT !.swapCursor = job[j].until] ELSE state)
  /\ End(j) /\ Read /\ UNCHANGED <<misread, crashes>>

Finish(j) ==
  /\ At(j, "send") /\ job[j].todo = {}
  /\ Mind(CASE j = "swapWatch" -> [state EXCEPT !.swapCursor = job[j].until]
            [] job[j].pass = "pre" -> [state EXCEPT !.lastPre = job[j].boundary]
            [] job[j].pass = "post" -> [state EXCEPT !.lastPost = job[j].boundary]
            [] OTHER -> state)
  /\ End(j) /\ Read /\ UNCHANGED misread /\ NoFault

Fail(j) == ~At(j, "idle") /\ ~At(j, "send") /\ Throw(j)

\* A restart finds the file as some job last left it.
Crash ==
  /\ crashes < MaxCrashes /\ crashes' = crashes + 1
  /\ state' = saved /\ saved' = IF crashes' < MaxCrashes THEN saved ELSE EmptyState
  /\ job' = [j \in Jobs |-> Idle]
  /\ Read /\ UNCHANGED <<misread, faults>>

Run(j) ==
  \/ Scan(j) \/ ApplyTransfers(j) \/ Classify(j, {}) \/ RewardPositions(j)
  \/ Weigh(j, FALSE) \/ (\E p \in job[j].todo : Send(j, p, "sent")) \/ Finish(j)
Begin(j) == StartCheckpoint(j) \/ StartSwapWatch(j) \/ StartBoundary(j)

Next ==
  \/ \E p \in Positions, b \in BOOLEAN : Mint(p, b) \/ Burn(p, b)
  \/ Swap \/ Pass \/ Crash
  \/ \E j \in Jobs :
       \/ Begin(j) \/ Run(j) \/ Fail(j) \/ Weigh(j, TRUE)
       \/ Classify(j, job[j].unknown \ misread)
       \/ \E p \in job[j].todo : Send(j, p, "failed") \/ Refused(j, p)

Spec == Init /\ [][Next]_scanVars
\* The interval timer starts every job again and again; an RPC call ends or fails.
Fairness == \A j \in Jobs : WF_scanVars(Run(j)) /\ WF_scanVars(Begin(j))
FairSpec == Spec /\ Fairness

-----------------------------------------------------------------------------
TypeOK ==
  /\ weight \cup fresh \cup misread \subseteq Positions
  /\ now \in 0 .. WEEKS * EPOCH
  /\ state.positionCursor \in 1 .. Height + 1 /\ state.swapCursor \in 0 .. Height + 1
  /\ state.inPool \cap OtherPools = {}

(* A run of any job that ends well has tried to checkpoint every scored      *)
(* position that was in the pool when it looked and still is, whatever the   *)
(* other jobs did to the shared inventory meanwhile and however the last     *)
(* process ended (checkpoint.ts:2).                                          *)
PassIsComplete == \A j \in Jobs : Finish(j) => job[j].owed \subseteq job[j].tried
PassesAreComplete == [][PassIsComplete]_scanVars

(* Once the pool is quiet every position has been checkpointed since the     *)
(* last swap, and a burned one whose removal callback failed has lost its    *)
(* weight (checkpoint.ts:12-14).                                             *)
CaughtUp ==
  /\ (Liquid \ OtherPools) \ misread \subseteq weight \cap fresh
  /\ weight \subseteq Liquid
WeightsCatchUp == <>[]CaughtUp

(* The swap cursor passes a swap only when every position with weight has    *)
(* been checkpointed since (swap-watch.ts:48).                               *)
SwapsAreAnswered ==
  0 < Last("swap") /\ Last("swap") < state.swapCursor => weight \cap Liquid \subseteq fresh
=============================================================================
