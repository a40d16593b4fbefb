----------------------- MODULE TransactionJournalProofs -----------------------
(* Proofs about TransactionJournal for any callers and any bounds.  The       *)
(* inductive invariant says who owns the file: only the head of the promise   *)
(* queue has started, what it holds in memory is what the file names, and     *)
(* nothing but the file's transaction can still be mined.                     *)
EXTENDS TransactionJournal, SequenceTheorems, TLAPS

\* Past its first synchronous step; a queued request that waits is not.
Started(j) == /\ job[j].at # "idle"
              /\ job[j].at = "read" => job[j].stage = "own"

Recovering == {"known", "count", "broadcast", "wait"}
Preparing == {"simulate", "nonces", "estimate", "sign"}

OnlyHeadStarted == \A j \in Callers : Started(j) => Turn(j)

HeldIsDisk == \A j \in Callers :
    job[j].at \in Recovering => job[j].held = disk /\ disk # NoTx

PreparesOnEmpty == \A j \in Callers : job[j].at \in Preparing => disk = NoTx

OwnIsDisk == \A j \in Callers :
    job[j].stage = "own" => /\ job[j].at \in Recovering \cup {"read"}
                            /\ job[j].own = disk /\ disk # NoTx

OutcomeAtTheEnd == \A j \in Callers : job[j].at # "idle" => job[j].out = "none"

FreshIsUnused ==
    /\ disk <= issued
    /\ \A k \in Txs : k > issued => k \notin sent /\ fate[k] = "unmined"
    /\ disk # NoTx => disk \in 1 .. issued

IInv == /\ TypeOK /\ OnlyHeadStarted /\ HeldIsDisk /\ PreparesOnEmpty /\ OwnIsDisk
        /\ OutcomeAtTheEnd /\ FreshIsUnused /\ OnlyTheJournalIsLive

\* The initial state: nothing queued, nothing signed.
LEMMA InitInv == Init => IInv
  <1> SUFFICES ASSUME Init PROVE IInv OBVIOUS
  <1>1. TypeOK
    BY BoundsAssumption DEF Init, TypeOK, Idle, Job, Places, Stages, Outcomes, Txs, NoTx, Fates
  <1>2. OnlyHeadStarted /\ HeldIsDisk /\ PreparesOnEmpty /\ OwnIsDisk /\ OutcomeAtTheEnd
    BY DEF Init, Idle, OnlyHeadStarted, Started, HeldIsDisk, PreparesOnEmpty, OwnIsDisk,
           OutcomeAtTheEnd, Recovering, Preparing
  <1>3. FreshIsUnused /\ OnlyTheJournalIsLive
    BY DEF Init, FreshIsUnused, OnlyTheJournalIsLive, Live, Txs, NoTx
  <1> QED BY <1>1, <1>2, <1>3 DEF IInv

\* The queue is a sequence of callers: what its head and tail are.
LEMMA HeadOfQueue ==
  ASSUME NEW S, NEW q \in Seq(S), NEW x \in S
  PROVE  /\ Append(q, x) \in Seq(S)
         /\ q # <<>> => Append(q, x) # <<>> /\ Head(Append(q, x)) = Head(q)
         /\ q # <<>> => Tail(q) \in Seq(S)
  BY AppendProperties, HeadTailAppend, HeadTailProperties

\* A step of the caller whose turn it is that ends its request: nobody else
\* has started, and its memory is dropped.
LEMMA ReturnKeeps ==
  ASSUME IInv, NEW j \in Callers, Turn(j), NEW out \in Outcomes, Return(j, out)
  PROVE  /\ queue' \in Seq(Callers)
         /\ job' \in [Callers -> Job]
         /\ \A i \in Callers : i # j => job'[i] = job[i] /\ ~Started(i)
         /\ job'[j] = Idle(out, job[j].own)
  <1>1. queue' \in Seq(Callers)
    BY HeadOfQueue DEF IInv, TypeOK, Turn, Return
  <1>2. Idle(out, job[j].own) \in Job
    BY DEF IInv, TypeOK, Idle, Job, Places, Stages, Txs, NoTx
  <1>3. job' \in [Callers -> Job] /\ job'[j] = Idle(out, job[j].own)
    BY <1>2 DEF Return, IInv, TypeOK
  <1>4. \A i \in Callers : i # j => job'[i] = job[i] /\ ~Started(i)
    BY DEF Return, IInv, TypeOK, OnlyHeadStarted, Turn
  <1> QED BY <1>1, <1>3, <1>4

\* A step of the caller whose turn it is that moves it to another place.
LEMMA GoToKeeps ==
  ASSUME IInv, NEW j \in Callers, Turn(j), NEW place \in Places, GoTo(j, place)
  PROVE  /\ queue' = queue
         /\ job' \in [Callers -> Job]
         /\ \A i \in Callers : i # j => job'[i] = job[i] /\ ~Started(i)
         /\ job'[j] = [job[j] EXCEPT !.at = place]
  <1>1. [job[j] EXCEPT !.at = place] \in Job
    BY DEF IInv, TypeOK, Job
  <1>2. job' \in [Callers -> Job] /\ job'[j] = [job[j] EXCEPT !.at = place]
    BY <1>1 DEF GoTo, IInv, TypeOK
  <1>3. \A i \in Callers : i # j => job'[i] = job[i] /\ ~Started(i)
    BY DEF GoTo, IInv, TypeOK, OnlyHeadStarted, Turn
  <1> QED BY <1>2, <1>3 DEF GoTo

\* Such a step that touches nothing else keeps the invariant.
LEMMA QuietReturn ==
  ASSUME IInv, NEW j \in Callers, Turn(j), NEW out \in Outcomes \ {"sent"}, Return(j, out),
         UNCHANGED <<disk, issued, nonceOf, chain>>, faults' \in Nat
  PROVE  IInv'
  <1>1. /\ queue' \in Seq(Callers)
        /\ job' \in [Callers -> Job]
        /\ \A i \in Callers : i # j => job'[i] = job[i] /\ ~Started(i)
        /\ job'[j] = Idle(out, job[j].own)
    BY ReturnKeeps
  <1>2. TypeOK'
    BY <1>1 DEF IInv, TypeOK, chain
  <1>3. OnlyHeadStarted'
    BY <1>1 DEF OnlyHeadStarted, Started, Idle
  <1>4. HeldIsDisk' /\ PreparesOnEmpty' /\ OwnIsDisk'
    <2>1. HeldIsDisk'
      BY <1>1 DEF IInv, HeldIsDisk, Idle, Recovering, Preparing
    <2>2. PreparesOnEmpty'
      BY <1>1 DEF IInv, PreparesOnEmpty, Idle, Recovering, Preparing
    <2>3. OwnIsDisk'
      BY <1>1 DEF IInv, OwnIsDisk, Idle, Recovering, Preparing
    <2> QED BY <2>1, <2>2, <2>3
  <1>5. FreshIsUnused' /\ OnlyTheJournalIsLive'
    BY DEF IInv, FreshIsUnused, OnlyTheJournalIsLive, Live, chain
  <1>6. OutcomeAtTheEnd'
    BY <1>1 DEF IInv, OutcomeAtTheEnd, Idle
  <1> QED BY <1>2, <1>3, <1>4, <1>5, <1>6 DEF IInv

LEMMA QuietGoTo ==
  ASSUME IInv, NEW j \in Callers, Turn(j), NEW place \in Recovering \cup Preparing, GoTo(j, place),
         UNCHANGED <<disk, issued, nonceOf, chain>>, faults' \in Nat, job[j].at # "idle",
         place \in Recovering => job[j].held = disk /\ disk # NoTx,
         place \in Preparing => disk = NoTx /\ job[j].stage # "own"
  PROVE  IInv'
  <1>0. place \in Places BY DEF Recovering, Preparing, Places
  <1>1. /\ queue' = queue
        /\ job' \in [Callers -> Job]
        /\ \A i \in Callers : i # j => job'[i] = job[i] /\ ~Started(i)
        /\ job'[j] = [job[j] EXCEPT !.at = place]
    BY <1>0, GoToKeeps
  <1>a. job[j] \in Job BY DEF IInv, TypeOK
  <1>b. /\ job'[j].at = place /\ job'[j].stage = job[j].stage /\ job'[j].out = job[j].out
        /\ job'[j].held = job[j].held /\ job'[j].own = job[j].own
    BY <1>1, <1>a DEF Job
  <1>2. TypeOK'
    BY <1>1 DEF IInv, TypeOK, chain
  <1>3. OnlyHeadStarted'
    BY <1>1 DEF OnlyHeadStarted, Started, Turn
  <1>4. HeldIsDisk' /\ PreparesOnEmpty'
    BY <1>1, <1>b DEF IInv, HeldIsDisk, PreparesOnEmpty, Recovering, Preparing
  <1>5. OwnIsDisk'
    BY <1>1, <1>b DEF IInv, OwnIsDisk, Recovering, Preparing
  <1>6. FreshIsUnused' /\ OnlyTheJournalIsLive'
    BY DEF IInv, FreshIsUnused, OnlyTheJournalIsLive, Live, chain
  <1>7. OutcomeAtTheEnd'
    BY <1>1, <1>b DEF IInv, OutcomeAtTheEnd
  <1> QED BY <1>2, <1>3, <1>4, <1>5, <1>6, <1>7 DEF IInv

\* Nobody but the head is past its first step, so at the head nobody else
\* holds the journal's transaction.
LEMMA SettleInv ==
  ASSUME IInv, NEW j \in Callers, Turn(j), Started(j) \/ job[j].at = "read", disk # NoTx,
         disk' = NoTx, ~Live(disk), NEW receipt \in Fates, Recovered(j, receipt),
         job[j].at \notin Preparing, UNCHANGED <<issued, nonceOf, chain, faults>>
  PROVE  IInv'
  <1>1. CASE job[j].stage = "before" /\ GoTo(j, "simulate")
    <2>1. /\ queue' = queue
          /\ job' \in [Callers -> Job]
          /\ \A i \in Callers : i # j => job'[i] = job[i] /\ ~Started(i)
          /\ job'[j] = [job[j] EXCEPT !.at = "simulate"]
      BY <1>1, GoToKeeps DEF Places
    <2>2. job[j] \in Job BY DEF IInv, TypeOK
    <2>3. /\ job'[j].at = "simulate" /\ job'[j].stage = "before" /\ job'[j].out = job[j].out
          /\ job'[j].own = job[j].own
      BY <2>1, <2>2, <1>1 DEF Job
    <2>4. TypeOK'
      BY <2>1 DEF IInv, TypeOK, chain, Txs, NoTx
    <2>5. OnlyHeadStarted'
      BY <2>1 DEF OnlyHeadStarted, Started, Turn
    <2>6. HeldIsDisk' /\ PreparesOnEmpty' /\ OwnIsDisk'
      <3>1. HeldIsDisk'
        BY <2>1, <2>3 DEF IInv, HeldIsDisk, Started, Recovering, Preparing
      <3>2. PreparesOnEmpty'
        BY <2>1, <2>3 DEF IInv, PreparesOnEmpty, Started, Recovering, Preparing
      <3>3. ASSUME NEW i \in Callers PROVE job'[i].stage # "own"
        <4>1. CASE i = j
          BY <2>3, <4>1
        <4>2. CASE i # j
          <5>1. job'[i] = job[i] /\ ~Started(i)
            BY <2>1, <4>2
          <5> QED BY <5>1 DEF IInv, OwnIsDisk, Started, Recovering
        <4> QED BY <4>1, <4>2
      <3>4. OwnIsDisk'
        BY <3>3 DEF OwnIsDisk
      <3> QED BY <3>1, <3>2, <3>4
    <2>7. FreshIsUnused' /\ OnlyTheJournalIsLive'
      BY DEF IInv, TypeOK, FreshIsUnused, OnlyTheJournalIsLive, Live, chain, NoTx, Txs
    <2>8. OutcomeAtTheEnd'
      <3>1. job[j].at # "idle" BY DEF Started
      <3> QED BY <2>1, <2>3, <3>1 DEF IInv, OutcomeAtTheEnd
    <2> QED BY <2>4, <2>5, <2>6, <2>7, <2>8 DEF IInv
  <1>2. ASSUME NEW out \in Outcomes, Return(j, out) PROVE IInv'
    <2>1. /\ queue' \in Seq(Callers)
          /\ job' \in [Callers -> Job]
          /\ \A i \in Callers : i # j => job'[i] = job[i] /\ ~Started(i)
          /\ job'[j] = Idle(out, job[j].own)
      BY <1>2, ReturnKeeps
    <2>2. TypeOK'
      BY <2>1 DEF IInv, TypeOK, chain, Txs, NoTx
    <2>3. OnlyHeadStarted'
      BY <2>1 DEF OnlyHeadStarted, Started, Idle
    <2>4. HeldIsDisk' /\ PreparesOnEmpty' /\ OwnIsDisk'
      <3>1. HeldIsDisk'
        BY <2>1 DEF IInv, HeldIsDisk, Started, Idle, Recovering, Preparing
      <3>2. PreparesOnEmpty'
        BY <2>1 DEF IInv, PreparesOnEmpty, Started, Idle, Recovering, Preparing
      <3>3. OwnIsDisk'
        BY <2>1 DEF IInv, OwnIsDisk, Started, Idle, Recovering, Preparing
      <3> QED BY <3>1, <3>2, <3>3
    <2>5. FreshIsUnused' /\ OnlyTheJournalIsLive'
      BY DEF IInv, TypeOK, FreshIsUnused, OnlyTheJournalIsLive, Live, chain, NoTx, Txs
    <2>6. OutcomeAtTheEnd'
      BY <2>1, <1>2 DEF IInv, OutcomeAtTheEnd, Idle
    <2> QED BY <2>2, <2>3, <2>4, <2>5, <2>6 DEF IInv
  <1>3. CASE job[j].stage = "only" /\ Return(j, "recovered")
    BY <1>2, <1>3 DEF Outcomes
  <1>4. CASE job[j].stage = "own" /\ Return(j, IF receipt = "success" THEN "sent" ELSE "failed")
    BY <1>2, <1>4 DEF Outcomes
  <1> QED BY <1>1, <1>3, <1>4 DEF Recovered

\* The steps of a caller, action by action.
LEMMA RecoverInv ==
  ASSUME IInv, NEW j \in Callers, Recover(j)
  PROVE  IInv'
  <1> USE DEF IInv
  <1>a. faults \in Nat BY DEF TypeOK
  <1>h. Turn(j) BY DEF Recover, NothingPending, ReceiptFound, ReceiptMissing, Known, Unknown,
                     NonceFree, NonceConsumed, Broadcast, BroadcastRefused, Confirmed, Replaced,
                     TimedOut
  <1>b. job[j].at \in Recovering => job[j].held = disk /\ disk # NoTx /\ Started(j)
    BY DEF HeldIsDisk, Started, Recovering
  <1>1. CASE NothingPending(j)
    <2>1. job[j].stage # "own" BY <1>1 DEF NothingPending, OwnIsDisk
    <2>2. CASE job[j].stage = "before" /\ GoTo(j, "simulate")
      BY <1>1, <1>a, <1>h, <2>1, <2>2, QuietGoTo DEF NothingPending, Preparing, Recovering
    <2>3. CASE job[j].stage = "only" /\ Return(j, "recovered")
      BY <1>1, <1>a, <1>h, <2>3, QuietReturn DEF NothingPending, Outcomes
    <2> QED BY <1>1, <2>1, <2>2, <2>3 DEF NothingPending, Recovered
  <1>2. CASE ReceiptFound(j)
    BY <1>2, <1>h, SettleInv DEF ReceiptFound, Settle, Live, TypeOK, Preparing, Txs, NoTx
  <1>3. CASE ReceiptMissing(j)
    <2>1. [job[j] EXCEPT !.at = "known", !.held = disk] \in Job
      BY <1>3 DEF ReceiptMissing, TypeOK, Job, Places
    <2>2. /\ job' \in [Callers -> Job] /\ queue' = queue
          /\ job'[j] = [job[j] EXCEPT !.at = "known", !.held = disk]
          /\ \A i \in Callers : i # j => job'[i] = job[i] /\ ~Started(i)
      BY <1>3, <1>h, <2>1 DEF ReceiptMissing, TypeOK, OnlyHeadStarted, Turn
    <2>3. job[j] \in Job BY DEF TypeOK
    <2>4. /\ job'[j].at = "known" /\ job'[j].held = disk /\ job'[j].stage = job[j].stage
          /\ job'[j].own = job[j].own /\ job'[j].out = job[j].out
      BY <2>2, <2>3 DEF Job
    <2>5. /\ UNCHANGED <<disk, queue, issued, nonceOf, chain>> /\ faults' \in Nat /\ disk # NoTx
          /\ job[j].at = "read"
      BY <1>3, <1>a DEF ReceiptMissing, Fault, NoFault
    <2>6. TypeOK' BY <2>2, <2>5 DEF TypeOK, chain
    <2>7. OnlyHeadStarted' BY <2>2, <1>h DEF OnlyHeadStarted, Started, Turn
    <2>8. HeldIsDisk' /\ PreparesOnEmpty'
      BY <2>2, <2>4, <2>5 DEF HeldIsDisk, PreparesOnEmpty, Recovering, Preparing
    <2>9. OwnIsDisk' BY <2>2, <2>4, <2>5 DEF OwnIsDisk, Recovering
    <2>10. FreshIsUnused' /\ OnlyTheJournalIsLive'
      BY <2>5 DEF FreshIsUnused, OnlyTheJournalIsLive, Live, chain
    <2>11. OutcomeAtTheEnd'
      BY <2>2, <2>4, <2>5 DEF OutcomeAtTheEnd
    <2> QED BY <2>6, <2>7, <2>8, <2>9, <2>10, <2>11
  <1>4. CASE Known(j)
    BY <1>4, <1>a, <1>b, <1>h, QuietGoTo DEF Known, Recovering, Preparing
  <1>5. CASE Unknown(j)
    BY <1>5, <1>a, <1>b, <1>h, QuietGoTo DEF Unknown, Recovering, Preparing
  <1>6. CASE NonceFree(j)
    BY <1>6, <1>a, <1>b, <1>h, QuietGoTo DEF NonceFree, Recovering, Preparing
  <1>7. CASE NonceConsumed(j)
    BY <1>7, <1>a, <1>h, QuietReturn DEF NonceConsumed, Outcomes
  <1>8. CASE Broadcast(j)
    <2>1. /\ job[j].held = disk /\ disk # NoTx /\ sent' = sent \cup {disk}
          /\ faults' \in Nat /\ UNCHANGED <<disk, issued, nonceOf, fate, count, foreign>>
      BY <1>8, <1>a, <1>b DEF Broadcast, Recovering, Fault, NoFault
    <2>2. FreshIsUnused' /\ OnlyTheJournalIsLive'
      BY <2>1 DEF FreshIsUnused, OnlyTheJournalIsLive, Live, TypeOK, Txs, NoTx
    <2>3. sent' \in SUBSET Txs
      BY <2>1 DEF TypeOK
    <2>4. CASE GoTo(j, "wait")
      <3>1. /\ queue' = queue /\ job' \in [Callers -> Job]
            /\ \A i \in Callers : i # j => job'[i] = job[i] /\ ~Started(i)
            /\ job'[j] = [job[j] EXCEPT !.at = "wait"]
        BY <2>4, <1>h, GoToKeeps DEF Places
      <3>2. job[j] \in Job BY DEF TypeOK
      <3>3. /\ job'[j].at = "wait" /\ job'[j].held = job[j].held /\ job'[j].stage = job[j].stage
            /\ job'[j].own = job[j].own /\ job'[j].out = job[j].out
        BY <3>1, <3>2 DEF Job
      <3>4. TypeOK' BY <2>1, <2>3, <3>1 DEF TypeOK
      <3>5. OnlyHeadStarted' BY <3>1, <1>h DEF OnlyHeadStarted, Started, Turn
      <3>6. HeldIsDisk' /\ PreparesOnEmpty'
        BY <2>1, <3>1, <3>3 DEF HeldIsDisk, PreparesOnEmpty, Recovering, Preparing
      <3>7. OwnIsDisk'
        <4>1. \A i \in Callers : job'[i].stage = job[i].stage /\ job'[i].own = job[i].own
          BY <3>1, <3>3
        <4>2. \A i \in Callers : job'[i].at = job[i].at \/ job'[i].at = "wait"
          BY <3>1, <3>3
        <4> QED BY <2>1, <4>1, <4>2 DEF OwnIsDisk, Recovering
      <3>8. OutcomeAtTheEnd'
        BY <1>8, <3>1, <3>3 DEF OutcomeAtTheEnd, Broadcast
      <3> QED BY <2>2, <3>4, <3>5, <3>6, <3>7, <3>8
    <2>5. CASE Return(j, "failed")
      <3>1. /\ queue' \in Seq(Callers) /\ job' \in [Callers -> Job]
            /\ \A i \in Callers : i # j => job'[i] = job[i] /\ ~Started(i)
            /\ job'[j] = Idle("failed", job[j].own)
        BY <2>5, <1>h, ReturnKeeps DEF Outcomes
      <3>2. TypeOK' BY <2>1, <2>3, <3>1 DEF TypeOK
      <3>3. OnlyHeadStarted' BY <3>1 DEF OnlyHeadStarted, Started, Idle
      <3>4. HeldIsDisk' /\ PreparesOnEmpty' /\ OwnIsDisk'
        <4>1. HeldIsDisk'
          BY <2>1, <3>1 DEF HeldIsDisk, Idle, Recovering, Preparing
        <4>2. PreparesOnEmpty'
          BY <2>1, <3>1 DEF PreparesOnEmpty, Idle, Recovering, Preparing
        <4>3. OwnIsDisk'
          BY <2>1, <3>1 DEF OwnIsDisk, Idle, Recovering, Preparing
        <4> QED BY <4>1, <4>2, <4>3
      <3>5. OutcomeAtTheEnd'
        BY <3>1 DEF OutcomeAtTheEnd, Idle
      <3> QED BY <2>2, <3>2, <3>3, <3>4, <3>5
    <2> QED BY <1>8, <2>4, <2>5 DEF Broadcast
  <1>9. CASE BroadcastRefused(j)
    BY <1>9, <1>a, <1>h, QuietReturn DEF BroadcastRefused, Outcomes
  <1>10. CASE Confirmed(j)
    <2>1. job[j].held = disk /\ disk # NoTx /\ Started(j) /\ job[j].at \notin Preparing
      BY <1>10, <1>b DEF Confirmed, Recovering, Preparing
    <2> QED BY <1>10, <1>h, <2>1, SettleInv DEF Confirmed, Settle, Live, TypeOK, Txs, NoTx
  <1>11. CASE TimedOut(j)
    BY <1>11, <1>a, <1>h, QuietReturn DEF TimedOut, Outcomes
  <1>12. CASE Replaced(j)
    <2>1. job[j].held = disk /\ disk # NoTx /\ Started(j) /\ job[j].at \notin Preparing
      BY <1>12, <1>b DEF Replaced, Recovering, Preparing
    <2>2. disk \in Txs /\ nonceOf[disk] \in Nat /\ count \in Nat
      BY <2>1 DEF TypeOK
    <2>3. ~Live(disk)
      BY <1>12, <2>1, <2>2 DEF Replaced, Live
    <2>4. PICK receipt \in {"success", "reverted"} : Recovered(j, receipt)
      BY <1>12 DEF Replaced
    <2> QED BY <1>12, <1>h, <2>1, <2>3, <2>4, SettleInv DEF Replaced, Fates
  <1> QED BY <1>1, <1>2, <1>3, <1>4, <1>5, <1>6, <1>7, <1>8, <1>9, <1>10, <1>11, <1>12 DEF Recover

LEMMA ExecuteInv ==
  ASSUME IInv, NEW j \in Callers, Execute(j)
  PROVE  IInv'
  <1> USE DEF IInv
  <1>a. faults \in Nat BY DEF TypeOK
  <1>h. Turn(j) BY DEF Execute, Decline, Simulate, ReadNonces, CheckJournal, Sign
  <1>b. job[j].at \in Preparing => disk = NoTx /\ job[j].stage # "own"
    BY DEF PreparesOnEmpty, OwnIsDisk, Preparing, Recovering
  <1>1. CASE Decline(j)
    BY <1>1, <1>a, <1>h, QuietReturn DEF Decline, Outcomes
  <1>2. CASE Simulate(j)
    BY <1>2, <1>a, <1>b, <1>h, QuietGoTo DEF Simulate, Preparing, Recovering
  <1>3. CASE ReadNonces(j)
    <2>0. UNCHANGED <<disk, issued, nonceOf, chain, faults>> /\ job[j].at = "nonces"
      BY <1>3 DEF ReadNonces
    <2>1. CASE Return(j, "failed")
      BY <2>0, <2>1, <1>a, <1>h, QuietReturn DEF Outcomes
    <2>2. ASSUME NEW n \in Nat, queue' = queue,
                 job' = [job EXCEPT ![j].at = "estimate", ![j].nonce = n]
          PROVE  IInv'
      <3>1. [job[j] EXCEPT !.at = "estimate", !.nonce = n] \in Job
        BY DEF TypeOK, Job, Places
      <3>2. /\ job' \in [Callers -> Job]
            /\ job'[j] = [job[j] EXCEPT !.at = "estimate", !.nonce = n]
            /\ \A i \in Callers : i # j => job'[i] = job[i] /\ ~Started(i)
        BY <2>2, <1>h, <3>1 DEF TypeOK, OnlyHeadStarted, Turn
      <3>3. job[j] \in Job BY DEF TypeOK
      <3>4. /\ job'[j].at = "estimate" /\ job'[j].stage = job[j].stage
            /\ job'[j].own = job[j].own /\ job'[j].out = job[j].out
        BY <3>2, <3>3 DEF Job
      <3>5. TypeOK' BY <2>0, <2>2, <3>2 DEF TypeOK, chain
      <3>6. OnlyHeadStarted' BY <2>2, <3>2, <1>h DEF OnlyHeadStarted, Started, Turn
      <3>7. HeldIsDisk' /\ PreparesOnEmpty' /\ OwnIsDisk'
        <4>1. HeldIsDisk'
          BY <2>0, <1>b, <3>2, <3>4 DEF HeldIsDisk, Recovering, Preparing
        <4>2. PreparesOnEmpty'
          BY <2>0, <1>b, <3>2, <3>4 DEF PreparesOnEmpty, Recovering, Preparing
        <4>3. OwnIsDisk'
          BY <2>0, <1>b, <3>2, <3>4 DEF OwnIsDisk, Recovering, Preparing
        <4> QED BY <4>1, <4>2, <4>3
      <3>8. FreshIsUnused' /\ OnlyTheJournalIsLive'
        BY <2>0 DEF FreshIsUnused, OnlyTheJournalIsLive, Live, chain
      <3>9. OutcomeAtTheEnd'
        BY <2>0, <3>2, <3>4 DEF OutcomeAtTheEnd
      <3> QED BY <3>5, <3>6, <3>7, <3>8, <3>9
    <2>3. PendingCounts \subseteq Nat
      BY DEF PendingCounts, Counts, TypeOK
    <2> QED BY <1>3, <2>1, <2>2, <2>3 DEF ReadNonces
  <1>4. CASE CheckJournal(j)
    <2>1. CASE GoTo(j, "sign")
      BY <1>4, <1>a, <1>b, <1>h, <2>1, QuietGoTo DEF CheckJournal, Preparing, Recovering
    <2>2. CASE Return(j, "failed")
      BY <1>4, <1>a, <1>h, <2>2, QuietReturn DEF CheckJournal, Outcomes
    <2> QED BY <1>4, <2>1, <2>2 DEF CheckJournal
  <1>5. CASE Sign(j)
    <2> DEFINE k == issued + 1
    <2>1. /\ disk = NoTx /\ k \in Txs /\ issued' = k /\ disk' = k
          /\ nonceOf' = [nonceOf EXCEPT ![k] = job[j].nonce]
          /\ UNCHANGED <<queue, chain, faults>>
      BY <1>5, <1>b, BoundsAssumption DEF Sign, Preparing, TypeOK, Txs
    <2>2. [job[j] EXCEPT !.at = "read", !.stage = "own", !.own = k] \in Job
      BY <2>1 DEF TypeOK, Job, Places, Stages
    <2>3. /\ job' \in [Callers -> Job]
          /\ job'[j] = [job[j] EXCEPT !.at = "read", !.stage = "own", !.own = k]
          /\ \A i \in Callers : i # j => job'[i] = job[i] /\ ~Started(i)
      BY <1>5, <1>h, <2>2 DEF Sign, TypeOK, OnlyHeadStarted, Turn
    <2>4. job[j] \in Job BY DEF TypeOK
    <2>5. /\ job'[j].at = "read" /\ job'[j].stage = "own" /\ job'[j].own = k
          /\ job'[j].out = job[j].out
      BY <2>3, <2>4 DEF Job
    <2>6. TypeOK'
      <3>1. job[j].nonce \in Nat BY <2>4 DEF Job
      <3>2. nonceOf' \in [Txs -> Nat] BY <2>1, <3>1 DEF TypeOK
      <3>3. issued' \in 0 .. MaxSends BY <2>1, BoundsAssumption DEF Txs
      <3> QED BY <2>1, <2>3, <3>2, <3>3 DEF TypeOK, chain
    <2>7. OnlyHeadStarted' BY <2>1, <2>3, <1>h DEF OnlyHeadStarted, Started, Turn
    <2>8. HeldIsDisk' /\ PreparesOnEmpty' /\ OwnIsDisk'
      <3>1. k # NoTx BY <2>1, BoundsAssumption DEF Txs, NoTx
      <3>2. \A i \in Callers : i # j => /\ job[i].at \notin Recovering \cup Preparing
                                        /\ job[i].stage # "own"
        BY <2>1, <2>3 DEF Started, Recovering, Preparing, OwnIsDisk
      <3> QED BY <2>1, <2>3, <2>5, <3>1, <3>2
            DEF HeldIsDisk, PreparesOnEmpty, OwnIsDisk, Recovering, Preparing
    <2>9. FreshIsUnused'
      BY <2>1, BoundsAssumption DEF FreshIsUnused, TypeOK, chain, Txs
    <2>10. OnlyTheJournalIsLive'
      BY <2>1, BoundsAssumption DEF FreshIsUnused, OnlyTheJournalIsLive, Live, TypeOK, chain, Txs, NoTx
    <2>11. OutcomeAtTheEnd'
      BY <1>5, <2>3, <2>5 DEF Sign, OutcomeAtTheEnd
    <2> QED BY <2>6, <2>7, <2>8, <2>9, <2>10, <2>11
  <1> QED BY <1>1, <1>2, <1>3, <1>4, <1>5 DEF Execute

LEMMA RequestInv ==
  ASSUME IInv, NEW j \in Callers, NEW stage \in {"only", "before"}, Request(j, stage)
  PROVE  IInv'
  <1> USE DEF IInv
  <1>1. [Idle("none", NoTx) EXCEPT !.at = "read", !.stage = stage] \in Job
    BY DEF Idle, Job, Places, Stages, Outcomes, Txs, NoTx
  <1>2. /\ job' \in [Callers -> Job]
        /\ job'[j] = [Idle("none", NoTx) EXCEPT !.at = "read", !.stage = stage]
        /\ \A i \in Callers : i # j => job'[i] = job[i]
    BY <1>1 DEF Request, TypeOK
  <1>3. /\ job'[j].at = "read" /\ job'[j].stage = stage /\ job'[j].out = "none"
    BY <1>2 DEF Idle
  <1>4. UNCHANGED <<disk, issued, nonceOf, chain, faults>> BY DEF Request
  <1>5. queue' = Append(queue, j) /\ queue' \in Seq(Callers)
    BY HeadOfQueue DEF Request, TypeOK
  <1>6. TypeOK' BY <1>2, <1>4, <1>5 DEF TypeOK, chain
  <1>7. OnlyHeadStarted'
    <2> SUFFICES ASSUME NEW i \in Callers, Started(i)' PROVE Turn(i)'
      BY DEF OnlyHeadStarted
    <2>1. i # j BY <1>3 DEF Started
    <2>2. Turn(i) BY <1>2, <2>1 DEF OnlyHeadStarted, Started
    <2> QED BY <1>5, <2>2, HeadOfQueue DEF Turn, TypeOK
  <1>a. job'[j].at \notin Recovering \cup Preparing /\ job'[j].stage # "own"
    BY <1>3 DEF Recovering, Preparing
  <1>b. HeldIsDisk' /\ PreparesOnEmpty' /\ OwnIsDisk'
    <2>1. HeldIsDisk'
      BY <1>2, <1>4, <1>a DEF HeldIsDisk
    <2>2. PreparesOnEmpty'
      BY <1>2, <1>4, <1>a DEF PreparesOnEmpty
    <2>3. OwnIsDisk'
      BY <1>2, <1>4, <1>a DEF OwnIsDisk
    <2> QED BY <2>1, <2>2, <2>3
  <1>8. OutcomeAtTheEnd'
    BY <1>2, <1>3 DEF OutcomeAtTheEnd
  <1>9. FreshIsUnused' /\ OnlyTheJournalIsLive'
    BY <1>4 DEF FreshIsUnused, OnlyTheJournalIsLive, Live, chain
  <1> QED BY <1>6, <1>7, <1>b, <1>8, <1>9

\* The one transaction the chain can still mine is the journal's.
LEMMA MineInv ==
  ASSUME IInv, Mine
  PROVE  /\ IInv'
         /\ disk # NoTx /\ fate[disk] = "unmined"
         /\ \E f \in Fates \ {"unmined"} : fate' = [fate EXCEPT ![disk] = f]
  <1> USE DEF IInv
  <1>1. PICK k \in sent, f \in Fates \ {"unmined"} :
          /\ fate[k] = "unmined" /\ nonceOf[k] = count
          /\ fate' = [fate EXCEPT ![k] = f]
    BY DEF Mine
  <1>2. k \in Txs /\ count \in Nat BY DEF TypeOK
  <1>3. k = disk BY <1>1, <1>2 DEF OnlyTheJournalIsLive, Live
  <1>4. disk # NoTx BY <1>2, <1>3 DEF Txs, NoTx
  <1>5. UNCHANGED <<disk, queue, job, issued, nonceOf, sent, foreign, faults>> /\ count' = count + 1
    BY DEF Mine
  <1>6. TypeOK'
    <2>1. fate' \in [Txs -> Fates] BY <1>1, <1>2 DEF TypeOK
    <2> QED BY <1>5, <2>1 DEF TypeOK
  <1>7. OnlyHeadStarted' BY <1>5 DEF OnlyHeadStarted, Started, Turn
  <1>8. HeldIsDisk' /\ PreparesOnEmpty' /\ OwnIsDisk' /\ OutcomeAtTheEnd'
    <2>1. HeldIsDisk'
      BY <1>5 DEF HeldIsDisk
    <2>2. PreparesOnEmpty'
      BY <1>5 DEF PreparesOnEmpty
    <2>3. OwnIsDisk'
      BY <1>5 DEF OwnIsDisk
    <2>4. OutcomeAtTheEnd'
      BY <1>5 DEF OutcomeAtTheEnd
    <2> QED BY <2>1, <2>2, <2>3, <2>4
  <1>9. FreshIsUnused'
    BY <1>1, <1>2, <1>5 DEF FreshIsUnused, TypeOK, Txs
  <1>10. OnlyTheJournalIsLive'
    BY <1>1, <1>2, <1>5 DEF OnlyTheJournalIsLive, Live, TypeOK
  <1> QED BY <1>1, <1>3, <1>4, <1>6, <1>7, <1>8, <1>9, <1>10

LEMMA StepInv == IInv /\ [Next]_vars => IInv'
  <1> SUFFICES ASSUME IInv, [Next]_vars PROVE IInv' OBVIOUS
  <1>1. ASSUME NEW j \in Callers, NEW stage \in {"only", "before"}, Request(j, stage) PROVE IInv'
    BY <1>1, RequestInv
  <1>2. ASSUME NEW j \in Callers, Recover(j) PROVE IInv'
    BY <1>2, RecoverInv
  <1>3. ASSUME NEW j \in Callers, Execute(j) PROVE IInv'
    BY <1>3, ExecuteInv
  <1>4. ASSUME NEW j \in Callers, Throw(j) PROVE IInv'
    <2>1. faults' \in Nat BY <1>4 DEF Throw, Fault, IInv, TypeOK
    <2> QED BY <1>4, <2>1, QuietReturn DEF Throw, Outcomes
  <1>5. CASE Crash
    <2>1. /\ queue' = <<>> /\ job' = [i \in Callers |-> Idle("none", NoTx)]
          /\ UNCHANGED <<disk, issued, nonceOf, chain>> /\ faults' \in Nat
      BY <1>5 DEF Crash, Fault, IInv, TypeOK
    <2>2. Idle("none", NoTx) \in Job
      BY DEF Idle, Job, Places, Stages, Outcomes, Txs, NoTx
    <2>3. TypeOK' BY <2>1, <2>2 DEF IInv, TypeOK, chain
    <2>4. /\ OnlyHeadStarted' /\ HeldIsDisk' /\ PreparesOnEmpty' /\ OwnIsDisk'
          /\ OutcomeAtTheEnd'
      BY <2>1 DEF OnlyHeadStarted, Started, HeldIsDisk, PreparesOnEmpty, OwnIsDisk, OutcomeAtTheEnd,
                  Idle, Recovering, Preparing
    <2>5. FreshIsUnused' /\ OnlyTheJournalIsLive'
      BY <2>1 DEF IInv, FreshIsUnused, OnlyTheJournalIsLive, Live, chain
    <2> QED BY <2>3, <2>4, <2>5 DEF IInv
  <1>6. CASE Mine
    BY <1>6, MineInv
  <1>7. CASE ForeignUse
    <2> USE <1>7 DEF IInv, ForeignUse
    <2>1. TypeOK' BY DEF TypeOK
    <2>2. OnlyHeadStarted' BY DEF OnlyHeadStarted, Started, Turn
    <2>3. HeldIsDisk' /\ PreparesOnEmpty' /\ OwnIsDisk' /\ OutcomeAtTheEnd'
      <3>1. HeldIsDisk'
        BY DEF HeldIsDisk
      <3>2. PreparesOnEmpty'
        BY DEF PreparesOnEmpty
      <3>3. OwnIsDisk'
        BY DEF OwnIsDisk
      <3>4. OutcomeAtTheEnd'
        BY DEF OutcomeAtTheEnd
      <3> QED BY <3>1, <3>2, <3>3, <3>4
    <2>4. FreshIsUnused' BY DEF FreshIsUnused
    <2>5. OnlyTheJournalIsLive' BY DEF OnlyTheJournalIsLive, Live, TypeOK
    <2> QED BY <2>1, <2>2, <2>3, <2>4, <2>5
  <1>8. CASE UNCHANGED vars
    BY <1>8 DEF vars, chain, IInv, TypeOK, OnlyHeadStarted, Started, Turn, HeldIsDisk, PreparesOnEmpty,
                OwnIsDisk, OutcomeAtTheEnd, FreshIsUnused, OnlyTheJournalIsLive, Live
  <1> QED BY <1>1, <1>2, <1>3, <1>4, <1>5, <1>6, <1>7, <1>8 DEF Next

THEOREM JournalInductive == Spec => []IInv
  BY InitInv, StepInv, PTL DEF Spec

\* Type correctness.
THEOREM JournalTypeCorrect == Spec => []TypeOK
  <1>1. IInv => TypeOK BY DEF IInv
  <1> QED BY <1>1, JournalInductive, PTL

\* Nothing outside the journal can still be mined, for any number of callers,
\* crashes, lost answers, foreign transactions and stale reads.
THEOREM JournalIsComplete == Spec => []OnlyTheJournalIsLive
  <1>1. IInv => OnlyTheJournalIsLive BY DEF IInv
  <1> QED BY <1>1, JournalInductive, PTL

\* A call signs against the state it simulated on, as far as the keeper's own
\* transactions go.
THEOREM SimulationStands == Spec => []NothingLandsAfterSimulation
  <1>1. IInv => NothingLandsAfterSimulation
    BY DEF IInv, NothingLandsAfterSimulation, PreparesOnEmpty, Preparing, OnlyTheJournalIsLive, Txs, NoTx
  <1> QED BY <1>1, JournalInductive, PTL

-----------------------------------------------------------------------------
(* What the chain has decided.  A step of the sender, of the chain or of the  *)
(* wallet's owner is of one of six kinds as far as transactions go.           *)

\* A signed transaction that the journal no longer names is mined or its nonce
\* is used up.
IssuedAreDecided == \A k \in Txs :
    k <= issued /\ k # disk => fate[k] # "unmined" \/ nonceOf[k] < count

\* What a call waits for, a node has accepted.
WaitsForSent == \A j \in Callers : job[j].at = "wait" => job[j].held \in sent

\* Only the owner takes the nonce of an accepted transaction.
TakenByOwner == \A k \in sent :
    fate[k] = "unmined" /\ nonceOf[k] < count => nonceOf[k] \in foreign

JInv == IInv /\ IssuedAreDecided /\ WaitsForSent /\ TakenByOwner /\ SentIsSettled

Quiet == UNCHANGED <<disk, issued, nonceOf, chain>>
Closes == /\ disk # NoTx /\ disk' = NoTx
          /\ fate[disk] # "unmined" \/ nonceOf[disk] < count
          /\ UNCHANGED <<issued, nonceOf, chain>>
Accepts == /\ disk # NoTx /\ nonceOf[disk] >= count
           /\ sent' = sent \cup {disk}
           /\ UNCHANGED <<disk, issued, nonceOf, fate, count, foreign>>
Signs == /\ disk = NoTx /\ issued + 1 \in Txs /\ fate[issued + 1] = "unmined"
         /\ issued' = issued + 1 /\ disk' = issued + 1
         /\ \E n \in Nat : nonceOf' = [nonceOf EXCEPT ![issued + 1] = n]
         /\ UNCHANGED chain
Mines == /\ disk \in sent /\ fate[disk] = "unmined" /\ nonceOf[disk] = count
         /\ \E f \in {"success", "reverted"} : fate' = [fate EXCEPT ![disk] = f]
         /\ count' = count + 1
         /\ UNCHANGED <<disk, issued, nonceOf, sent, foreign>>
IsTaken == /\ foreign' = foreign \cup {count} /\ count' = count + 1
           /\ UNCHANGED <<disk, issued, nonceOf, sent, fate>>

LEMMA Kinds ==
  ASSUME IInv, [Next]_vars
  PROVE  Quiet \/ Closes \/ Accepts \/ Signs \/ Mines \/ IsTaken
  <1> USE DEF IInv
  <1>1. ASSUME NEW j \in Callers, Recover(j) PROVE Quiet \/ Closes \/ Accepts
    <2>1. job[j].at \in Recovering => job[j].held = disk /\ disk # NoTx
      BY DEF HeldIsDisk
    <2>2. CASE ReceiptFound(j)
      BY <2>2 DEF ReceiptFound, Settle, Closes
    <2>3. CASE Confirmed(j)
      BY <2>1, <2>3 DEF Confirmed, Settle, Closes, Recovering
    <2>4. CASE Replaced(j)
      BY <2>1, <2>4 DEF Replaced, Closes, Recovering
    <2>5. CASE Broadcast(j)
      BY <2>1, <2>5 DEF Broadcast, Accepts, Recovering
    <2>6. CASE \/ NothingPending(j) \/ ReceiptMissing(j) \/ Known(j) \/ Unknown(j) \/ NonceFree(j)
               \/ NonceConsumed(j) \/ BroadcastRefused(j) \/ TimedOut(j)
      BY <2>6 DEF NothingPending, ReceiptMissing, Known, Unknown, NonceFree, NonceConsumed,
                  BroadcastRefused, TimedOut, Quiet
    <2> QED BY <1>1, <2>2, <2>3, <2>4, <2>5, <2>6 DEF Recover
  <1>2. ASSUME NEW j \in Callers, Execute(j) PROVE Quiet \/ Signs
    <2>1. CASE Sign(j)
      <3>1. disk = NoTx BY <2>1 DEF Sign, PreparesOnEmpty, Preparing
      <3>2. issued + 1 \in Txs /\ fate[issued + 1] = "unmined"
        BY <2>1, BoundsAssumption DEF Sign, FreshIsUnused, TypeOK, Txs
      <3>3. job[j].nonce \in Nat BY DEF TypeOK, Job
      <3> QED BY <2>1, <3>1, <3>2, <3>3 DEF Sign, Signs
    <2>2. CASE Decline(j) \/ Simulate(j) \/ ReadNonces(j) \/ CheckJournal(j)
      BY <2>2 DEF Decline, Simulate, ReadNonces, CheckJournal, Quiet
    <2> QED BY <1>2, <2>1, <2>2 DEF Execute
  <1>3. CASE Mine
    <2>1. PICK k \in sent, f \in Fates \ {"unmined"} :
            /\ fate[k] = "unmined" /\ nonceOf[k] = count
            /\ fate' = [fate EXCEPT ![k] = f]
      BY <1>3 DEF Mine
    <2>2. k = disk BY <2>1 DEF OnlyTheJournalIsLive, Live, TypeOK
    <2>3. f \in {"success", "reverted"} BY DEF Fates
    <2> QED BY <1>3, <2>1, <2>2, <2>3 DEF Mine, Mines
  <1>4. CASE ForeignUse
    BY <1>4 DEF ForeignUse, IsTaken
  <1>5. CASE \/ \E j \in Callers : \/ \E stage \in {"only", "before"} : Request(j, stage)
                                  \/ Throw(j)
             \/ Crash \/ UNCHANGED vars
    BY <1>5 DEF Request, Throw, Crash, vars, chain, Quiet
  <1> QED BY <1>1, <1>2, <1>3, <1>4, <1>5 DEF Next

\* What is settled stays so, and whatever the journal lets go of is decided.
LEMMA ChainInv ==
  ASSUME JInv, [Next]_vars
  PROVE  /\ IssuedAreDecided' /\ TakenByOwner'
         /\ \A k \in Txs : fate[k] = "success" \/ Overtaken(k) => fate'[k] = "success" \/ Overtaken(k)'
  <1> DEFINE Stays == \A k \in Txs : fate[k] = "success" \/ Overtaken(k)
                                     => fate'[k] = "success" \/ Overtaken(k)'
  <1> USE DEF JInv, IInv
  <1>0. /\ disk \in Txs \cup {NoTx} /\ issued \in Nat /\ nonceOf \in [Txs -> Nat] /\ sent \in SUBSET Txs
        /\ fate \in [Txs -> Fates] /\ count \in Nat /\ foreign \in SUBSET Nat /\ NoTx \notin Txs
    BY BoundsAssumption DEF TypeOK, Txs, NoTx
  <1>1. CASE Quiet \/ Closes
    BY <1>0, <1>1 DEF Quiet, Closes, chain, IssuedAreDecided, TakenByOwner, Overtaken
  <1>2. CASE Accepts
    BY <1>0, <1>2 DEF Accepts, IssuedAreDecided, TakenByOwner, Overtaken
  <1>3. CASE Signs
    <2>1. \A k \in Txs : k # issued + 1 => nonceOf'[k] = nonceOf[k]
      BY <1>0, <1>3 DEF Signs
    <2>2. \A k \in Txs : k <= issued' /\ k # disk' => k <= issued /\ k # disk
      BY <1>0, <1>3 DEF Signs, Txs
    <2>3. issued + 1 \notin sent /\ fate[issued + 1] = "unmined"
      BY <1>0, <1>3 DEF Signs, FreshIsUnused
    <2>4. UNCHANGED <<sent, fate, count, foreign>> /\ disk' = issued + 1
      BY <1>3 DEF Signs, chain
    <2>5. IssuedAreDecided' BY <1>0, <2>1, <2>2, <2>4 DEF IssuedAreDecided
    <2>6. TakenByOwner' BY <1>0, <2>1, <2>3, <2>4 DEF TakenByOwner
    <2>7. Stays BY <1>0, <2>1, <2>3, <2>4 DEF Overtaken
    <2> QED BY <2>5, <2>6, <2>7
  <1>4. CASE Mines
    <2>1. PICK f \in {"success", "reverted"} : fate' = [fate EXCEPT ![disk] = f]
      BY <1>4 DEF Mines
    <2>2. /\ \A k \in Txs : fate'[k] = IF k = disk THEN f ELSE fate[k]
          /\ f # "unmined" /\ count' = count + 1 /\ UNCHANGED <<disk, issued, nonceOf, sent, foreign>>
          /\ fate[disk] = "unmined" /\ nonceOf[disk] = count /\ disk \in Txs
      BY <1>0, <1>4, <2>1 DEF Mines
    <2>3. IssuedAreDecided' BY <1>0, <2>2 DEF IssuedAreDecided
    <2>4. TakenByOwner'
      <3> SUFFICES ASSUME NEW k \in sent, fate'[k] = "unmined", nonceOf[k] < count + 1
                   PROVE  nonceOf[k] \in foreign
        BY <2>2 DEF TakenByOwner
      <3>1. k # disk /\ fate[k] = "unmined" /\ k \in Txs BY <1>0, <2>2
      <3>2. nonceOf[k] < count BY <1>0, <3>1 DEF OnlyTheJournalIsLive, Live
      <3> QED BY <3>1, <3>2 DEF TakenByOwner
    <2>5. Stays BY <1>0, <2>2 DEF Overtaken
    <2> QED BY <2>3, <2>4, <2>5
  <1>5. CASE IsTaken
    <2>1. /\ count' = count + 1 /\ foreign' = foreign \cup {count}
          /\ UNCHANGED <<disk, issued, nonceOf, sent, fate>>
      BY <1>5 DEF IsTaken
    <2>2. IssuedAreDecided' BY <1>0, <2>1 DEF IssuedAreDecided
    <2>3. TakenByOwner'
      <3> SUFFICES ASSUME NEW k \in sent, fate[k] = "unmined", nonceOf[k] < count + 1
                   PROVE  nonceOf[k] \in foreign \cup {count}
        BY <2>1 DEF TakenByOwner
      <3>1. nonceOf[k] < count \/ nonceOf[k] = count BY <1>0
      <3> QED BY <3>1 DEF TakenByOwner
    <2>4. Stays BY <1>0, <2>1 DEF Overtaken
    <2> QED BY <2>2, <2>3, <2>4
  <1> QED BY Kinds, <1>1, <1>2, <1>3, <1>4, <1>5

\* A call comes to wait only for what a node has accepted.
LEMMA WaitInv ==
  ASSUME JInv, [Next]_vars
  PROVE  WaitsForSent'
  <1> USE DEF JInv, IInv
  <1>1. SUFFICES ASSUME NEW i \in Callers, job'[i].at = "wait"
                 PROVE  job'[i].held \in sent'
    BY DEF WaitsForSent
  <1>2. sent \subseteq sent'
    BY Kinds DEF Quiet, Closes, Accepts, Signs, Mines, IsTaken, chain
  <1>3. job[i] \in Job /\ job \in [Callers -> Job]
    BY DEF TypeOK
  <1>4. CASE job'[i].at = job[i].at /\ job'[i].held = job[i].held
    BY <1>1, <1>2, <1>4 DEF WaitsForSent
  <1>5. ASSUME NEW j \in Callers, Recover(j) PROVE job'[i].held \in sent'
    <2>1. ASSUME NEW out, Return(j, out) PROVE i # j /\ job'[i] = job[i]
      BY <1>1, <1>3, <2>1 DEF Return, Idle
    <2>2. ASSUME NEW place, GoTo(j, place), place # "wait" PROVE i # j /\ job'[i] = job[i]
      BY <1>1, <1>3, <2>2 DEF GoTo, Job
    <2>3. ASSUME NEW receipt, Recovered(j, receipt) PROVE i # j /\ job'[i] = job[i]
      BY <2>1, <2>2, <2>3 DEF Recovered
    <2>4. ASSUME GoTo(j, "wait"), job[j].held \in sent' PROVE job'[i].held \in sent'
      <3>1. CASE i = j BY <1>3, <2>4, <3>1 DEF GoTo, Job
      <3>2. CASE i # j BY <1>3, <1>4, <2>4, <3>2 DEF GoTo
      <3> QED BY <3>1, <3>2
    <2>5. CASE NothingPending(j) \/ ReceiptFound(j) \/ Confirmed(j) \/ Replaced(j)
      BY <1>4, <2>3, <2>5 DEF NothingPending, ReceiptFound, Confirmed, Replaced, Settle
    <2>6. CASE ReceiptMissing(j)
      <3>1. i # j BY <1>1, <1>3, <2>6 DEF ReceiptMissing, Job
      <3> QED BY <1>3, <1>4, <2>6, <3>1 DEF ReceiptMissing
    <2>7. CASE Known(j)
      BY <1>2, <2>4, <2>7 DEF Known
    <2>8. CASE Broadcast(j)
      BY <1>4, <2>1, <2>4, <2>8 DEF Broadcast
    <2>9. CASE Unknown(j) \/ NonceFree(j)
      BY <1>4, <2>2, <2>9 DEF Unknown, NonceFree
    <2>10. CASE NonceConsumed(j) \/ BroadcastRefused(j) \/ TimedOut(j)
      BY <1>4, <2>1, <2>10 DEF NonceConsumed, BroadcastRefused, TimedOut
    <2> QED BY <1>5, <2>5, <2>6, <2>7, <2>8, <2>9, <2>10 DEF Recover
  <1>6. ASSUME NEW j \in Callers, Execute(j) \/ Throw(j) PROVE job'[i].held \in sent'
    <2>1. ASSUME NEW out, Return(j, out) PROVE i # j /\ job'[i] = job[i]
      BY <1>1, <1>3, <2>1 DEF Return, Idle
    <2>2. ASSUME NEW place, GoTo(j, place), place # "wait" PROVE i # j /\ job'[i] = job[i]
      BY <1>1, <1>3, <2>2 DEF GoTo, Job
    <2>3. CASE Decline(j) \/ Throw(j)
      BY <1>4, <2>1, <2>3 DEF Decline, Throw
    <2>4. CASE Simulate(j) \/ CheckJournal(j)
      BY <1>4, <2>1, <2>2, <2>4 DEF Simulate, CheckJournal
    <2>5. CASE ReadNonces(j)
      <3>1. CASE Return(j, "failed") BY <1>4, <2>1, <3>1
      <3>2. ASSUME NEW n, job' = [job EXCEPT ![j].at = "estimate", ![j].nonce = n]
            PROVE  job'[i].held \in sent'
        <4>1. i # j BY <1>1, <1>3, <3>2 DEF Job
        <4> QED BY <1>3, <1>4, <3>2, <4>1
      <3> QED BY <2>5, <3>1, <3>2 DEF ReadNonces
    <2>6. CASE Sign(j)
      <3>1. i # j BY <1>1, <1>3, <2>6 DEF Sign, Job
      <3> QED BY <1>3, <1>4, <2>6, <3>1 DEF Sign
    <2> QED BY <1>6, <2>3, <2>4, <2>5, <2>6 DEF Execute
  <1>7. ASSUME NEW j \in Callers, NEW stage \in {"only", "before"}, Request(j, stage)
        PROVE  job'[i].held \in sent'
    <2>1. i # j BY <1>1, <1>3, <1>7 DEF Request, Idle
    <2> QED BY <1>3, <1>4, <1>7, <2>1 DEF Request
  <1>8. CASE Crash
    BY <1>1, <1>8 DEF Crash, Idle
  <1>9. CASE Mine \/ ForeignUse \/ UNCHANGED vars
    BY <1>4, <1>9 DEF Mine, ForeignUse, vars
  <1> QED BY <1>5, <1>6, <1>7, <1>8, <1>9 DEF Next

\* "sent" is reported of the journal's own transaction, at the moment its nonce
\* is decided, or was reported before.
LEMMA ReportInv ==
  ASSUME JInv, [Next]_vars
  PROVE  SentIsSettled'
  <1> USE DEF JInv, IInv
  <1>0. \A k \in Txs : fate[k] = "success" \/ Overtaken(k) => fate'[k] = "success" \/ Overtaken(k)'
    BY ChainInv
  <1>1. SUFFICES ASSUME NEW i \in Callers, job'[i].out = "sent"
                 PROVE  \E k \in Txs : job'[i].own = k /\ (fate'[k] = "success" \/ Overtaken(k)')
    BY BoundsAssumption DEF SentIsSettled, Overtaken, Txs, NoTx
  <1>2. job[i] \in Job /\ job \in [Callers -> Job]
    BY DEF TypeOK
  <1> DEFINE Good == \E k \in Txs : job'[i].own = k /\ (fate'[k] = "success" \/ Overtaken(k)')
  <1> SUFFICES Good OBVIOUS
  <1> HIDE DEF Good
  <1>3. ASSUME job'[i].out = job[i].out, job'[i].own = job[i].own PROVE Good
    <2>1. job[i].own \in Txs /\ (fate[job[i].own] = "success" \/ Overtaken(job[i].own))
      BY <1>1, <1>2, <1>3 DEF SentIsSettled, Job
    <2> QED BY <1>0, <1>3, <2>1 DEF Good
  <1>4. ASSUME job'[i].own = disk, disk # NoTx, fate[disk] = "success" \/ Overtaken(disk) PROVE Good
    <2>1. disk \in Txs BY <1>4 DEF TypeOK
    <2> QED BY <1>0, <1>4, <2>1 DEF Good
  <1>5. ASSUME NEW j \in Callers, NEW out, Return(j, out), out # "sent" PROVE Good
    <2>1. i # j BY <1>1, <1>2, <1>5 DEF Return, Idle
    <2> QED BY <1>2, <1>3, <1>5, <2>1 DEF Return
  <1>6. ASSUME NEW j \in Callers, NEW place, GoTo(j, place) PROVE Good
    <2>1. job'[i].out = job[i].out /\ job'[i].own = job[i].own
      <3>1. CASE i = j BY <1>2, <1>6, <3>1 DEF GoTo, Job
      <3>2. CASE i # j BY <1>2, <1>6, <3>2 DEF GoTo
      <3> QED BY <3>1, <3>2
    <2> QED BY <1>3, <2>1
  <1>7. ASSUME NEW j \in Callers, NEW receipt, Recovered(j, receipt),
               receipt = "success" /\ job[j].stage = "own" =>
                  disk # NoTx /\ (fate[disk] = "success" \/ Overtaken(disk))
        PROVE  Good
    <2>1. CASE job[j].stage = "before" /\ GoTo(j, "simulate")
      BY <1>6, <2>1
    <2>2. CASE job[j].stage = "only" /\ Return(j, "recovered")
      BY <1>5, <2>2
    <2>3. CASE /\ job[j].stage = "own"
               /\ Return(j, IF receipt = "success" THEN "sent" ELSE "failed")
      <3>1. CASE receipt # "success" BY <1>5, <2>3, <3>1
      <3>2. CASE receipt = "success" /\ i # j
        BY <1>2, <1>3, <2>3, <3>2 DEF Return
      <3>3. CASE receipt = "success" /\ i = j
        <4>1. job'[i].own = job[i].own BY <1>2, <2>3, <3>3 DEF Return, Idle
        <4>2. job[i].own = disk BY <2>3, <3>3 DEF OwnIsDisk
        <4> QED BY <1>4, <1>7, <2>3, <3>3, <4>1, <4>2
      <3> QED BY <3>1, <3>2, <3>3
    <2> QED BY <1>7, <2>1, <2>2, <2>3 DEF Recovered
  <1>8. ASSUME NEW j \in Callers, Recover(j) PROVE Good
    <2>1. job[j].at = "wait" => job[j].held = disk /\ disk # NoTx /\ disk \in sent
      BY DEF HeldIsDisk, Recovering, WaitsForSent
    <2>2. CASE NothingPending(j)
      BY <1>7, <2>2 DEF NothingPending
    <2>3. CASE ReceiptFound(j)
      BY <1>7, <2>3 DEF ReceiptFound, Settle
    <2>4. CASE Confirmed(j)
      BY <1>7, <2>1, <2>4 DEF Confirmed, Settle
    <2>5. CASE Replaced(j)
      <3>1. Overtaken(disk) /\ disk # NoTx
        BY <2>1, <2>5 DEF Replaced, Overtaken, TakenByOwner
      <3>2. PICK receipt \in {"success", "reverted"} : Recovered(j, receipt)
        BY <2>5 DEF Replaced
      <3> QED BY <1>7, <3>1, <3>2
    <2>6. CASE ReceiptMissing(j)
      <3>1. job'[i].out = job[i].out /\ job'[i].own = job[i].own
        <4>1. CASE i = j BY <1>2, <2>6, <4>1 DEF ReceiptMissing, Job
        <4>2. CASE i # j BY <1>2, <2>6, <4>2 DEF ReceiptMissing
        <4> QED BY <4>1, <4>2
      <3> QED BY <1>3, <3>1
    <2>7. CASE Known(j) \/ Unknown(j) \/ NonceFree(j)
      BY <1>6, <2>7 DEF Known, Unknown, NonceFree
    <2>8. CASE Broadcast(j)
      BY <1>5, <1>6, <2>8 DEF Broadcast
    <2>9. CASE NonceConsumed(j) \/ BroadcastRefused(j) \/ TimedOut(j)
      BY <1>5, <2>9 DEF NonceConsumed, BroadcastRefused, TimedOut
    <2> QED BY <1>8, <2>2, <2>3, <2>4, <2>5, <2>6, <2>7, <2>8, <2>9 DEF Recover
  <1>9. ASSUME NEW j \in Callers, Execute(j) \/ Throw(j) PROVE Good
    <2>1. CASE Decline(j) \/ Throw(j)
      BY <1>5, <2>1 DEF Decline, Throw
    <2>2. CASE Simulate(j) \/ CheckJournal(j)
      BY <1>5, <1>6, <2>2 DEF Simulate, CheckJournal
    <2>3. CASE ReadNonces(j)
      <3>1. CASE Return(j, "failed") BY <1>5, <3>1
      <3>2. ASSUME NEW n, job' = [job EXCEPT ![j].at = "estimate", ![j].nonce = n] PROVE Good
        <4>1. job'[i].out = job[i].out /\ job'[i].own = job[i].own
          <5>1. CASE i = j BY <1>2, <3>2, <5>1 DEF Job
          <5>2. CASE i # j BY <1>2, <3>2, <5>2
          <5> QED BY <5>1, <5>2
        <4> QED BY <1>3, <4>1
      <3> QED BY <2>3, <3>1, <3>2 DEF ReadNonces
    <2>4. CASE Sign(j)
      <3>1. job[j].out = "none" BY <2>4 DEF Sign, OutcomeAtTheEnd
      <3>2. i # j BY <1>1, <1>2, <2>4, <3>1 DEF Sign, Job
      <3> QED BY <1>2, <1>3, <2>4, <3>2 DEF Sign
    <2> QED BY <1>9, <2>1, <2>2, <2>3, <2>4 DEF Execute
  <1>10. ASSUME NEW j \in Callers, NEW stage \in {"only", "before"}, Request(j, stage) PROVE Good
    <2>1. i # j BY <1>1, <1>2, <1>10 DEF Request, Idle
    <2> QED BY <1>2, <1>3, <1>10, <2>1 DEF Request
  <1>11. CASE Crash
    BY <1>1, <1>11 DEF Crash, Idle
  <1>12. CASE Mine \/ ForeignUse \/ UNCHANGED vars
    BY <1>3, <1>12 DEF Mine, ForeignUse, vars
  <1> QED BY <1>8, <1>9, <1>10, <1>11, <1>12 DEF Next

THEOREM SettledInductive == Spec => []JInv
  <1>1. Init => JInv
    <2> SUFFICES ASSUME Init PROVE JInv OBVIOUS
    <2>1. IssuedAreDecided /\ WaitsForSent /\ TakenByOwner /\ SentIsSettled
      BY DEF Init, Idle, IssuedAreDecided, WaitsForSent, TakenByOwner, SentIsSettled, Txs
    <2> QED BY <2>1, InitInv DEF JInv
  <1>2. JInv /\ [Next]_vars => JInv'
    BY StepInv, ChainInv, WaitInv, ReportInv DEF JInv
  <1> QED BY <1>1, <1>2, PTL DEF Spec

\* A call reported as sent had a transaction of its own, which succeeded or was
\* overtaken by the wallet's owner.
THEOREM SentIsTrue == Spec => []SentIsSettled
  <1>1. JInv => SentIsSettled BY DEF JInv
  <1> QED BY <1>1, SettledInductive, PTL

\* Every step of the sender is a step of WalletLog or leaves it alone.
LEMMA StepRefines ==
  ASSUME JInv, [Next]_vars
  PROVE  [Wallet!Next]_<<disk, Decided>>
  <1> USE DEF JInv, IInv
  <1>0. /\ disk \in Txs \cup {NoTx} /\ issued \in Nat /\ nonceOf \in [Txs -> Nat] /\ sent \in SUBSET Txs
        /\ fate \in [Txs -> Fates] /\ count \in Nat /\ NoTx \notin Txs
        /\ \A k \in Txs : k \in Int
    BY BoundsAssumption DEF TypeOK, Txs, NoTx
  <1>n. Wallet!NoTx = NoTx BY DEF Wallet!NoTx, NoTx
  <1>1. CASE Quiet
    BY <1>1 DEF Quiet, chain, Decided
  <1>2. CASE Closes
    <2>1. UNCHANGED Decided BY <1>2 DEF Closes, chain, Decided
    <2>2. disk \in Txs /\ (disk <= issued) BY <1>0, <1>2 DEF Closes, FreshIsUnused
    <2>3. Decided[disk] # "unmined" BY <1>0, <1>2, <2>2 DEF Closes, Decided
    <2> QED BY <1>2, <1>n, <2>1, <2>3 DEF Closes, Wallet!Close, Wallet!Next
  <1>3. CASE Accepts
    BY <1>3 DEF Accepts, Decided
  <1>4. CASE Signs
    <2> DEFINE s == issued + 1
    <2>1. /\ disk = NoTx /\ s \in Txs /\ fate[s] = "unmined" /\ issued' = s /\ disk' = s
          /\ UNCHANGED <<fate, count>>
      BY <1>4 DEF Signs, chain
    <2>2. PICK n \in Nat : nonceOf' = [nonceOf EXCEPT ![s] = n] BY <1>4 DEF Signs
    <2>3. Decided[s] = "unmined" BY <1>0, <2>1 DEF Decided
    <2>4. \A k \in Txs : k # s => Decided'[k] = Decided[k]
      <3> SUFFICES ASSUME NEW k \in Txs, k # s PROVE Decided'[k] = Decided[k] OBVIOUS
      <3>1. nonceOf'[k] = nonceOf[k] BY <1>0, <2>2
      <3>2. k <= issued' <=> k <= issued BY <1>0, <2>1
      <3> QED BY <2>1, <3>1, <3>2 DEF Decided
    <2>5. Decided'[s] = IF n < count THEN "void" ELSE "unmined"
      <3>1. nonceOf'[s] = n /\ s <= issued' BY <1>0, <2>1, <2>2
      <3> QED BY <2>1, <3>1 DEF Decided
    <2>6. DOMAIN Decided = Txs /\ DOMAIN Decided' = Txs /\ Decided' = [k \in Txs |-> Decided'[k]]
          /\ Decided = [k \in Txs |-> Decided[k]]
      BY DEF Decided
    <2>7. CASE n < count
      <3>1. Decided' = [Decided EXCEPT ![s] = "void"] BY <2>4, <2>5, <2>6, <2>7
      <3> QED BY <1>n, <2>1, <2>3, <3>1 DEF Wallet!Issue, Wallet!Next
    <2>8. CASE ~(n < count)
      <3>1. Decided' = Decided BY <2>3, <2>4, <2>5, <2>6, <2>8
      <3> QED BY <1>n, <2>1, <2>3, <3>1 DEF Wallet!Issue, Wallet!Next
    <2> QED BY <2>7, <2>8
  <1>5. CASE Mines
    <2>1. PICK f \in {"success", "reverted"} : fate' = [fate EXCEPT ![disk] = f]
      BY <1>5 DEF Mines
    <2>2. /\ disk \in Txs /\ disk # NoTx /\ fate[disk] = "unmined" /\ nonceOf[disk] = count
          /\ count' = count + 1 /\ UNCHANGED <<disk, issued, nonceOf>> /\ f # "unmined"
      BY <1>0, <1>5, <2>1 DEF Mines
    <2>3. Decided[disk] = "unmined" BY <1>0, <2>2 DEF Decided
    <2>4. ASSUME NEW k \in Txs PROVE Decided'[k] = IF k = disk THEN f ELSE Decided[k]
      <3>1. CASE k = disk BY <1>0, <2>1, <2>2, <3>1 DEF Decided
      <3>2. CASE k # disk
        <4>1. fate'[k] = fate[k] BY <1>0, <2>1, <3>2
        <4>2. k <= issued /\ fate[k] = "unmined" => (nonceOf[k] < count /\ nonceOf[k] < count + 1)
          BY <1>0, <3>2 DEF IssuedAreDecided
        <4> QED BY <2>2, <3>2, <4>1, <4>2 DEF Decided
      <3> QED BY <3>1, <3>2
    <2>5. Decided' = [k \in Txs |-> Decided'[k]] /\ Decided = [k \in Txs |-> Decided[k]]
      BY DEF Decided
    <2>6. Decided' = [Decided EXCEPT ![disk] = f] BY <2>2, <2>4, <2>5
    <2> QED BY <1>n, <2>2, <2>3, <2>6 DEF Wallet!TakeEffect, Wallet!Effects, Wallet!Next
  <1>6. CASE IsTaken
    <2>1. count' = count + 1 /\ UNCHANGED <<disk, issued, nonceOf, fate>> BY <1>6 DEF IsTaken
    <2>2. ASSUME NEW k \in Txs, k # disk PROVE Decided'[k] = Decided[k]
      <3>1. k <= issued /\ fate[k] = "unmined" => (nonceOf[k] < count /\ nonceOf[k] < count + 1)
        BY <1>0, <2>2 DEF IssuedAreDecided
      <3> QED BY <2>1, <3>1 DEF Decided
    <2>3. Decided' = [k \in Txs |-> Decided'[k]] /\ Decided = [k \in Txs |-> Decided[k]]
      BY DEF Decided
    <2>4. CASE disk \in Txs /\ fate[disk] = "unmined" /\ nonceOf[disk] = count
      <3>1. disk <= issued BY <2>4, <1>0 DEF FreshIsUnused
      <3>2. Decided[disk] = "unmined" /\ Decided'[disk] = "void"
        BY <1>0, <2>1, <2>4, <3>1 DEF Decided
      <3>3. Decided' = [Decided EXCEPT ![disk] = "void"] BY <2>2, <2>3, <3>2
      <3> QED BY <1>0, <1>n, <2>1, <2>4, <3>2, <3>3 DEF Wallet!Overtake, Wallet!Next
    <2>5. CASE disk \in Txs /\ ~(fate[disk] = "unmined" /\ nonceOf[disk] = count)
      <3>1. fate[disk] = "unmined" => (nonceOf[disk] < count + 1 <=> nonceOf[disk] < count)
        BY <1>0, <2>5
      <3>2. Decided'[disk] = Decided[disk] BY <2>1, <2>5, <3>1 DEF Decided
      <3>3. Decided' = Decided BY <2>2, <2>3, <3>2
      <3> QED BY <2>1, <3>3
    <2>6. CASE disk \notin Txs
      <3>1. Decided' = Decided BY <2>2, <2>3, <2>6
      <3> QED BY <2>1, <3>1
    <2> QED BY <2>4, <2>5, <2>6
  <1> QED BY Kinds, <1>1, <1>2, <1>3, <1>4, <1>5, <1>6

\* The sender and its journal implement WalletLog: one transaction after the
\* other, each with at most one effect, and none given up that may still have
\* one, whatever fails in between and whoever else uses the wallet.
THEOREM SenderRefinesWallet == Spec => ImplementsWalletLog
  <1>1. Init => Wallet!Init
    BY DEF Init, Wallet!Init, Wallet!NoTx, NoTx, Txs, Decided
  <1>2. JInv /\ [Next]_vars => [Wallet!Next]_<<disk, Decided>>
    BY StepRefines
  <1> QED BY <1>1, <1>2, SettledInductive, PTL DEF Spec, ImplementsWalletLog, Wallet!Spec
=============================================================================
