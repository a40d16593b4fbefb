------------------------- MODULE TransactionJournal -------------------------
(* The keeper's one way to the chain: makeSender (sender.ts), which runs the *)
(* calls of concurrent jobs one at a time through a promise queue, and the   *)
(* TransactionJournal (transaction-journal.ts), a file that names the one    *)
(* signed transaction whose fate is not known yet.  The process may crash    *)
(* between any two awaits; the RPC node may fail, lose an answer or lag      *)
(* behind; the wallet may be used from elsewhere.  Each action runs from one *)
(* await of the source to the next.                                          *)
EXTENDS Naturals, Sequences, FiniteSets

CONSTANTS Callers,      \* jobs that call execute() or recoverPending()
          MaxSends,     \* bound: transactions signed in a behaviour
          MaxFaults,    \* bound: crashes, RPC errors, lost answers, stale receipts
          MaxForeign,   \* bound: transactions of the same wallet sent elsewhere
          Lagging       \* may the RPC node answer from an old block?

ASSUME BoundsAssumption ==
    /\ MaxSends \in Nat /\ MaxFaults \in Nat /\ MaxForeign \in Nat
    /\ Lagging \in BOOLEAN

VARIABLES disk,         \* the journal file: a transaction or NoTx
          queue,        \* the promise queue; its head is running
          job,          \* what each caller's request is doing
          issued,       \* transactions signed so far: 1 .. issued
          nonceOf,      \* the nonce each one was signed with
          sent,         \* those a node has accepted at least once
          fate,         \* what the chain did with each
          count,        \* the wallet's transaction count on the chain
          foreign,      \* the nonces used up by transactions from elsewhere
          faults

chain == <<sent, fate, count, foreign>>
vars == <<disk, queue, job, issued, nonceOf, sent, fate, count, foreign, faults>>

Txs == 1 .. MaxSends
NoTx == 0
Fates == {"unmined", "success", "reverted"}

Places == {"idle", "read", "known", "count", "broadcast", "wait",
           "simulate", "nonces", "estimate", "sign"}
Stages == {"only", "before", "own"}     \* recoverPending, execute's own recovery, send's recovery
Outcomes == {"none", "sent", "failed", "declined", "recovered"}

Job == [at : Places, stage : Stages, out : Outcomes, held : Txs \cup {NoTx},
        own : Txs \cup {NoTx}, nonce : Nat]

Idle(out, own) == [at |-> "idle", stage |-> "only", out |-> out, held |-> NoTx,
                   own |-> own, nonce |-> 0]

TypeOK ==
    /\ disk \in Txs \cup {NoTx}
    /\ queue \in Seq(Callers)
    /\ job \in [Callers -> Job]
    /\ issued \in 0 .. MaxSends
    /\ nonceOf \in [Txs -> Nat]
    /\ sent \in SUBSET Txs
    /\ fate \in [Txs -> Fates]
    /\ count \in Nat /\ foreign \in SUBSET Nat /\ faults \in Nat

Init ==
    /\ disk = NoTx /\ queue = <<>> /\ job = [j \in Callers |-> Idle("none", NoTx)]
    /\ issued = 0 /\ nonceOf = [k \in Txs |-> 0]
    /\ sent = {} /\ fate = [k \in Txs |-> "unmined"]
    /\ count = 0 /\ foreign = {} /\ faults = 0

-----------------------------------------------------------------------------
\* The promise queue.

\* Mutant: calls do not wait for the one before them.
TurnUnserialised(j) == queue # <<>> /\ job[j].at # "idle"

Turn(j) == queue # <<>> /\ Head(queue) = j

Fault == faults < MaxFaults /\ faults' = faults + 1
NoFault == UNCHANGED faults

GoTo(j, place) == job' = [job EXCEPT ![j].at = place] /\ UNCHANGED queue

Return(j, out) == /\ job' = [job EXCEPT ![j] = Idle(out, job[j].own)]
                  /\ queue' = Tail(queue)

\* execute (stage "before") or recoverPending (stage "only") joins the queue.
Request(j, stage) ==
    /\ job[j].at = "idle"
    /\ job' = [job EXCEPT ![j] = [Idle("none", NoTx) EXCEPT !.at = "read", !.stage = stage]]
    /\ queue' = Append(queue, j)
    /\ UNCHANGED <<disk, issued, nonceOf, chain, faults>>

-----------------------------------------------------------------------------
\* TransactionJournal.recover

\* recover resolved with nothing to recover, or with a receipt it has cleared.
\* Mutant of it: a call takes the receipt of the recovered transaction for its own.
RecoveredAsOwn(j, receipt) ==
    IF job[j].stage = "before" /\ receipt = "unmined"
    THEN GoTo(j, "simulate")
    ELSE Return(j, IF receipt = "success" THEN "sent" ELSE "failed")

Recovered(j, receipt) ==
    \/ job[j].stage = "before" /\ GoTo(j, "simulate")
    \/ job[j].stage = "only" /\ Return(j, "recovered")
    \/ job[j].stage = "own" /\ Return(j, IF receipt = "success" THEN "sent" ELSE "failed")

NothingPending(j) ==
    /\ Turn(j) /\ job[j].at = "read"
    /\ disk = NoTx
    /\ Recovered(j, "unmined")
    /\ UNCHANGED <<disk, issued, nonceOf, chain, faults>>

\* The receipt is there: the file is cleared before anything else happens.
Settle(j, k) ==
    /\ fate[k] # "unmined"
    /\ disk' = NoTx
    /\ Recovered(j, fate[k])

ReceiptFound(j) ==
    /\ Turn(j) /\ job[j].at = "read"
    /\ disk # NoTx
    /\ Settle(j, disk)
    /\ UNCHANGED <<issued, nonceOf, chain, faults>>

\* The node has no receipt: it is not mined, or the node is behind.
ReceiptMissing(j) ==
    /\ Turn(j) /\ job[j].at = "read"
    /\ disk # NoTx
    /\ \/ fate[disk] = "unmined" /\ NoFault
       \/ Lagging /\ fate[disk] # "unmined" /\ Fault
    /\ job' = [job EXCEPT ![j].at = "known", ![j].held = disk]
    /\ UNCHANGED <<disk, queue, issued, nonceOf, chain>>

\* getTransaction: a node may know an accepted transaction, or have dropped it.
Known(j) ==
    /\ Turn(j) /\ job[j].at = "known"
    /\ job[j].held \in sent
    /\ GoTo(j, "wait")
    /\ UNCHANGED <<disk, issued, nonceOf, chain, faults>>

\* Mutant: an unknown transaction is waited for, not sent again.
UnknownWaits(j) ==
    /\ Turn(j) /\ job[j].at = "known"
    /\ fate[job[j].held] = "unmined" \/ Lagging
    /\ GoTo(j, "wait")
    /\ UNCHANGED <<disk, issued, nonceOf, chain, faults>>

Unknown(j) ==
    /\ Turn(j) /\ job[j].at = "known"
    /\ fate[job[j].held] = "unmined" \/ Lagging
    /\ GoTo(j, "count")
    /\ UNCHANGED <<disk, issued, nonceOf, chain, faults>>

\* The transaction counts a node may report.
Counts == IF Lagging THEN 0 .. count ELSE {count}

NonceFree(j) ==
    /\ Turn(j) /\ job[j].at = "count"
    /\ \E c \in Counts : c <= nonceOf[job[j].held]
    /\ GoTo(j, "broadcast")
    /\ UNCHANGED <<disk, issued, nonceOf, chain, faults>>

\* journal-nonce-consumed: the journal stays, recovery is blocked.
NonceConsumed(j) ==
    /\ Turn(j) /\ job[j].at = "count"
    /\ \E c \in Counts : c > nonceOf[job[j].held]
    /\ Return(j, "failed")
    /\ UNCHANGED <<disk, issued, nonceOf, chain, faults>>

\* sendRawTransaction of the same signed bytes.  A lost answer throws after
\* the node has taken the transaction; a used nonce is refused.
Broadcast(j) ==
    /\ Turn(j) /\ job[j].at = "broadcast"
    /\ nonceOf[job[j].held] >= count
    /\ sent' = sent \cup {job[j].held}
    /\ \/ GoTo(j, "wait") /\ NoFault
       \/ Return(j, "failed") /\ Fault
    /\ UNCHANGED <<disk, issued, nonceOf, fate, count, foreign>>

BroadcastRefused(j) ==
    /\ Turn(j) /\ job[j].at = "broadcast"
    /\ nonceOf[job[j].held] < count
    /\ Return(j, "failed")
    /\ UNCHANGED <<disk, issued, nonceOf, chain, faults>>

\* waitForTransactionReceipt, then save(null).
Confirmed(j) ==
    /\ Turn(j) /\ job[j].at = "wait"
    /\ Settle(j, job[j].held)
    /\ UNCHANGED <<issued, nonceOf, chain, faults>>

\* viem's wait also ends when it sees the nonce mined in another transaction
\* of the wallet.  It then answers with that one's receipt, of any status, and
\* nobody compares the hashes (sender.ts:192-200).
Replaced(j) ==
    /\ Turn(j) /\ job[j].at = "wait"
    /\ fate[job[j].held] = "unmined" /\ nonceOf[job[j].held] < count
    /\ disk' = NoTx
    /\ \E receipt \in {"success", "reverted"} : Recovered(j, receipt)
    /\ UNCHANGED <<issued, nonceOf, chain, faults>>

\* Mutant: the wait's timeout gives the transaction up.
TimedOutClears(j) ==
    /\ Turn(j) /\ job[j].at = "wait"
    /\ disk' = NoTx
    /\ Return(j, "failed")
    /\ UNCHANGED <<issued, nonceOf, chain, faults>>

\* No receipt within 60 s: the journal stays, and says so to the next call.
TimedOut(j) ==
    /\ Turn(j) /\ job[j].at = "wait"
    /\ Return(j, "failed")
    /\ UNCHANGED <<disk, issued, nonceOf, chain, faults>>

-----------------------------------------------------------------------------
\* executeOne after its recovery

\* The simulation reverts, sendIf says no, or this is a dry run.
Decline(j) ==
    /\ Turn(j) /\ job[j].at \in {"simulate", "nonces", "estimate"}
    /\ Return(j, "declined")
    /\ UNCHANGED <<disk, issued, nonceOf, chain, faults>>

Simulate(j) ==
    /\ Turn(j) /\ job[j].at = "simulate"
    /\ issued < MaxSends
    /\ GoTo(j, "nonces")
    /\ UNCHANGED <<disk, issued, nonceOf, chain, faults>>

\* The "pending" count adds the accepted transactions a node still holds.
PendingCounts ==
    Counts \cup {count + 1 : k \in {x \in sent : fate[x] = "unmined" /\ nonceOf[x] = count}}

ReadNonces(j) ==
    /\ Turn(j) /\ job[j].at = "nonces"
    /\ \E latest \in Counts, pending \in PendingCounts :
          \/ latest # pending /\ Return(j, "failed")
          \/ /\ latest = pending
             /\ job' = [job EXCEPT ![j].at = "estimate", ![j].nonce = pending]
             /\ UNCHANGED queue
    /\ UNCHANGED <<disk, issued, nonceOf, chain, faults>>

\* journal.send looks at the file, then awaits the chain id and the signature.
CheckJournal(j) ==
    /\ Turn(j) /\ job[j].at = "estimate"
    /\ \/ disk = NoTx /\ GoTo(j, "sign")
       \/ disk # NoTx /\ Return(j, "failed")
    /\ UNCHANGED <<disk, issued, nonceOf, chain, faults>>

\* The signed transaction is on disk before any node sees it.
Sign(j) ==
    /\ Turn(j) /\ job[j].at = "sign"
    /\ issued < MaxSends
    /\ issued' = issued + 1
    /\ nonceOf' = [nonceOf EXCEPT ![issued + 1] = job[j].nonce]
    /\ disk' = issued + 1
    /\ job' = [job EXCEPT ![j].at = "read", ![j].stage = "own", ![j].own = issued + 1]
    /\ UNCHANGED <<queue, chain, faults>>

\* Mutant: a failed call drops its journal entry.
ThrowForgets(j) ==
    /\ Turn(j) /\ Fault
    /\ job[j].at = "read" => disk # NoTx
    /\ disk' = NoTx
    /\ Return(j, "failed")
    /\ UNCHANGED <<issued, nonceOf, chain>>

\* Any await may throw an RPC error.
Throw(j) ==
    /\ Turn(j) /\ Fault
    /\ job[j].at = "read" => disk # NoTx
    /\ Return(j, "failed")
    /\ UNCHANGED <<disk, issued, nonceOf, chain>>

-----------------------------------------------------------------------------
\* The process and the chain

\* Everything but the file is lost; the process starts again.
Crash ==
    /\ Fault
    /\ queue' = <<>>
    /\ job' = [j \in Callers |-> Idle("none", NoTx)]
    /\ UNCHANGED <<disk, issued, nonceOf, chain>>

\* The transaction an accepted nonce admits is mined.
Mine ==
    /\ \E k \in sent, f \in Fates \ {"unmined"} :
          /\ fate[k] = "unmined" /\ nonceOf[k] = count
          /\ fate' = [fate EXCEPT ![k] = f]
    /\ count' = count + 1
    /\ UNCHANGED <<disk, queue, job, issued, nonceOf, sent, foreign, faults>>

\* The wallet's owner sends a transaction of his own, which takes the nonce.
ForeignUse ==
    /\ Cardinality(foreign) < MaxForeign
    /\ foreign' = foreign \cup {count}
    /\ count' = count + 1
    /\ UNCHANGED <<disk, queue, job, issued, nonceOf, sent, fate, faults>>

Recover(j) == \/ NothingPending(j) \/ ReceiptFound(j) \/ ReceiptMissing(j)
              \/ Known(j) \/ Unknown(j) \/ NonceFree(j) \/ NonceConsumed(j)
              \/ Broadcast(j) \/ BroadcastRefused(j) \/ Confirmed(j) \/ Replaced(j)
              \/ TimedOut(j)

Execute(j) == Decline(j) \/ Simulate(j) \/ ReadNonces(j) \/ CheckJournal(j) \/ Sign(j)

Next ==
    \/ \E j \in Callers : \/ \E stage \in {"only", "before"} : Request(j, stage)
                          \/ Recover(j) \/ Execute(j) \/ Throw(j)
    \/ Crash \/ Mine \/ ForeignUse

Spec == Init /\ [][Next]_vars

\* Awaits end (viem's transport times out, the wait after 60 s), the scheduler
\* keeps calling recoverPending, and the chain mines what a node has accepted.
Fairness ==
    /\ WF_vars(Mine)
    /\ \A j \in Callers : WF_vars(Recover(j) \/ Execute(j)) /\ WF_vars(Request(j, "only"))

FairSpec == Spec /\ Fairness

-----------------------------------------------------------------------------
\* Properties

\* May this transaction still change the chain?
Live(k) == k \in sent /\ fate[k] = "unmined" /\ nonceOf[k] >= count

\* No crash, lost answer or lagging node ever leaves a transaction that may
\* still be mined without the journal naming it (transaction-journal.ts:45:
\* saved before broadcast, cleared only on a receipt).
OnlyTheJournalIsLive == \A k \in Txs : Live(k) => k = disk

\* Accepted, but the wallet's owner used its nonce: it can never be mined.
Overtaken(k) == /\ k \in sent /\ fate[k] = "unmined"
                /\ nonceOf[k] < count /\ nonceOf[k] \in foreign

\* A call that reports "sent" signed a transaction of its own, which either was
\* mined and succeeded or was overtaken by the wallet's owner and never will be:
\* a receipt of an earlier call, a reverted or a pending transaction never passes
\* for it (sender.ts:174-200).  Where the wallet is the keeper's alone, "sent"
\* therefore means done.
SentIsSettled ==
    \A j \in Callers : job[j].out = "sent" =>
        /\ job[j].own # NoTx
        /\ fate[job[j].own] = "success" \/ Overtaken(job[j].own)

\* From its simulation to its signature a call can not be overtaken by an
\* earlier transaction of this keeper: what it simulated against stands.
NothingLandsAfterSimulation ==
    \A j \in Callers : job[j].at \in {"nonces", "estimate", "sign"} =>
        /\ disk = NoTx
        /\ \A k \in Txs : ~Live(k)

\* What became of a transaction: one that is signed and whose nonce is used up
\* without it is void.
Decided == [k \in Txs |-> IF k <= issued /\ fate[k] = "unmined" /\ nonceOf[k] < count
                          THEN "void" ELSE fate[k]]

\* The wallet as the jobs see it: one transaction after the other, the next one
\* when the last one has taken effect or never can.
Wallet == INSTANCE WalletLog WITH inflight <- disk, fate <- Decided
ImplementsWalletLog == Wallet!Spec

\* Nobody else takes the nonce of a transaction that is signed: no foreign use of
\* the wallet, and no node that lags behind while the nonce is read.
NoncesAreOwn == \A k \in Txs : k <= issued /\ fate[k] = "unmined" => nonceOf[k] >= count

\* As long as that is so (a nonce once taken stays so) every journal entry is
\* resolved, whatever was lost on the way, and every call of every job is answered
\* (transaction-journal.ts:34, sender.ts:209-214).
JournalResolves ==
    []<>NoncesAreOwn =>
        /\ []<>(disk = NoTx)
        /\ \A j \in Callers : []<>(job[j].at = "idle")
=============================================================================
