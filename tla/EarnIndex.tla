------------------------------ MODULE EarnIndex ------------------------------
(***************************************************************************)
(* What the indexer publishes of an Earn strategy (services/indexer:       *)
(* src/earn.ts, src/lib/earn-*.ts, src/api/earn.ts).  A handler reads the  *)
(* strategy as it is at the END of its event's block; the share ledger     *)
(* alone follows the events, by position in the block, because a pocket    *)
(* belongs to the holders at the write-down.  A publication stamps every   *)
(* answer of the API; an answer is put together from several queries.      *)
(* One loan, funded from the start; a share is worth price units, and      *)
(* performance history, lanes, tokens and approvals are left out.          *)
(***************************************************************************)
EXTENDS Integers, Sequences, FiniteSets, FiniteSetsExt, SequencesExt

CONSTANTS
  Accounts, Askers,       \* ordered, as addresses are; those the API is asked for
  Holdings,               \* the shares at the start
  Parts,                  \* of "shares", "queue", "rewards", "price", "loan"
  EXPIRY, GRACE,          \* of the loan, in blocks
  RECOVERED,              \* what a default brings, one pocket per currency
  LATE,                   \* what a late repayment brings
  EARN_ACCOUNT_REFRESH_BATCH,
  MaxTxs, MaxBlocks,      \* bounds
  FirstAsk                \* and the first block with a request to the API

VARIABLES
  chain,     \* the strategy and its loan
  block,     \* the open block: its number, events and transactions
  txs,
  db,        \* the tables
  truth,     \* the chain at the last publication, to compare with
  api        \* one request for an account; then is the truth at its stamp

earnIndexVars == <<chain, block, txs, db, truth, api>>

Total(c) == MapThenSumSet(LAMBDA a : c.shares[a], Accounts)
None == [a \in Accounts |-> 0]
Holders == {a \in Accounts : Holdings[a] > 0}
NoRow == [at |-> 0, shares |-> 0, locked |-> 0, paid |-> 0, owed |-> 0, index |-> 0]
NoPublication == [ready |-> TRUE, at |-> 0, price |-> 1, acc |-> 0]
Idle == [step |-> "idle"]
FirstLoan == [state |-> "ACTIVE", closedAt |-> 0, overdue |-> FALSE, settled |-> FALSE]
FirstTables ==
  [strategy |-> NoPublication, loan |-> FirstLoan,
   accounts |-> [a \in Accounts |-> [NoRow EXCEPT !.shares = Holdings[a]]], known |-> Holders,
   changes |-> [k \in 1 .. Cardinality(Holders) |-> LET a == SetToSortSeq(Holders, <)[k]
                                                    IN  [account |-> a, position |-> 0, balance |-> Holdings[a]]],
   writtenDownAt |-> 0, pockets |-> <<>>, claims |-> {}, cached |-> {}, progress |-> None,
   cursor |-> 0, requests |-> <<>>, count |-> 0]

Init ==
  /\ chain = [shares |-> Holdings, locked |-> None, paid |-> None,
              owed |-> None, index |-> None, acc |-> 0, price |-> 1, requests |-> <<>>,
              loan |-> FirstLoan,
              held |-> None, supply |-> 0, pockets |-> <<>>]
  /\ block = [n |-> 1, events |-> <<>>, txs |-> 0] /\ txs = 0
  /\ db = FirstTables
  /\ truth = chain /\ api = Idle

-----------------------------------------------------------------------------
(* The strategy: transactions of the open block.                               *)
Tx(c, events) ==
  /\ txs < MaxTxs /\ block.txs < 2 /\ txs' = txs + 1 /\ chain' = c
  /\ block' = [block EXCEPT !.events = @ \o events, !.txs = @ + 1]
  /\ UNCHANGED <<db, truth, api>>
Ev(is, a, i, n) == <<[is |-> is, account |-> a, id |-> i, shares |-> n]>>

IsImpaired(l) ==
  \/ l.state = "DEFAULTED"
  \/ l.state = "REPAID" /\ l.closedAt >= EXPIRY
  \/ l.state = "ACTIVE" /\ block.n >= EXPIRY
WriteDown(c) ==
  IF ~IsImpaired(c.loan) \/ c.loan.overdue \/ c.loan.settled THEN <<c, <<>>>>
  ELSE <<[c EXCEPT !.loan.overdue = TRUE, !.held = c.shares, !.supply = Total(c)], Ev("LoanOverdue", 0, 0, 0)>>
Finalize(c) ==
  IF c.loan.state = "ACTIVE" /\ block.n >= EXPIRY + GRACE
  THEN <<[c EXCEPT !.loan.state = "DEFAULTED"], Ev("Closed", 0, 0, 0)>> ELSE <<c, <<>>>>
SettleLoan(c) ==
  IF c.loan.settled \/ c.loan.state = "ACTIVE" THEN <<c, <<>>>>
  ELSE LET amounts == IF ~c.loan.overdue THEN <<>> ELSE IF c.loan.state = "DEFAULTED" THEN RECOVERED ELSE LATE
       IN  <<[c EXCEPT !.loan.settled = TRUE,
                       !.pockets = [i \in 1 .. Len(amounts) |-> [amount |-> amounts[i], claimed |-> {}]]],
             FlattenSeq([i \in 1 .. Len(amounts) |-> Ev("PocketCreated", 0, i, 0)]) \o Ev("Settled", 0, 0, 0)>>
\* _checkpoint: the state it leaves and the events it emits.
Checkpointed(c) ==
  LET w == WriteDown(c)
      f == Finalize(w[1])
      s == SettleLoan(f[1])
  IN  <<s[1], w[2] \o f[2] \o s[2]>>
Settled(c, a) == [c EXCEPT !.owed[a] = @ + c.shares[a] * (c.acc - c.index[a]), !.index[a] = c.acc]
After(events) == Checkpointed(chain)[2] \o events
Now == Checkpointed(chain)[1]
Free(c, a) == c.shares[a] - c.locked[a]

Deposit(a) == chain.shares[a] = 0 /\ Tx([Settled(Now, a) EXCEPT !.shares[a] = @ + 2], After(Ev("Deposited", a, 0, 2)))
\* All may leave while the loan is open: locked profit can cover it.
Redeem(a) == Free(chain, a) > 0 /\ Tx([Settled(Now, a) EXCEPT !.shares[a] = @ - 1], After(Ev("Withdrawn", a, 0, 1)))
RequestRedeem(a) ==
  /\ Free(chain, a) > 0
  /\ Tx([chain EXCEPT !.locked[a] = chain.shares[a],
                      !.requests = Append(@, [owner |-> a, shares |-> Free(chain, a), served |-> 0, cancelled |-> FALSE])],
        Ev("RedeemRequested", a, Len(chain.requests) + 1, 0))
CancelRequest(i) ==
  LET r == chain.requests[i]
  IN  r.shares > 0 /\ Tx([chain EXCEPT !.requests[i].shares = 0, !.requests[i].cancelled = TRUE, !.locked[r.owner] = @ - r.shares],
                         Ev("RequestCancelled", r.owner, i, 0))
\* One share of the oldest open request.
ServeRequest ==
  LET open == {i \in 1 .. Len(chain.requests) : chain.requests[i].shares > 0}
      i == Min(open)
      a == chain.requests[i].owner
  IN  /\ open # {}
      /\ Tx([Settled(Now, a) EXCEPT !.shares[a] = @ - 1, !.locked[a] = @ - 1, !.paid[a] = @ + chain.price,
                                    !.requests[i].shares = @ - 1, !.requests[i].served = @ + 1],
            After(Ev("RequestServed", a, i, 1)))
Claim(a) == chain.paid[a] > 0 /\ Tx([chain EXCEPT !.paid[a] = 0], Ev("Claimed", a, 0, 0))
ClaimPocket(a, i) ==
  /\ a \notin chain.pockets[i].claimed /\ chain.supply > 0
  /\ (chain.pockets[i].amount * chain.held[a]) \div chain.supply > 0
  /\ Tx([chain EXCEPT !.pockets[i].claimed = @ \cup {a}], Ev("PocketClaimed", a, i, 0))
HarvestRewards == chain.acc = 0 /\ chain.loan.state = "ACTIVE" /\ Tx([Now EXCEPT !.acc = @ + 1], After(Ev("RewardsHarvested", 0, 0, 0)))
Repay == chain.loan.state = "ACTIVE" /\ Tx([chain EXCEPT !.loan.state = "REPAID", !.loan.closedAt = block.n], Ev("Closed", 0, 0, 0))
\* Profit unlocks without an event.
Unlock == chain.price = 1 /\ chain' = [chain EXCEPT !.price = 2] /\ UNCHANGED <<block, txs, db, truth, api>>

-----------------------------------------------------------------------------
(* The handlers: t are the tables, n the block, and chain is its end.          *)
SyncAccount(t, a, n) ==
  [t EXCEPT !.known = @ \cup {a},
            !.accounts[a] = [at |-> n, shares |-> chain.shares[a], locked |-> chain.locked[a], paid |-> chain.paid[a],
                             owed |-> chain.owed[a], index |-> chain.index[a]]]
IsOpen(r) == r.status \in {"pending", "partial"}
SaveRequest(t, i, prior, row) ==
  [t EXCEPT !.requests = IF i <= Len(@) THEN [@ EXCEPT ![i] = row] ELSE Append(@, row),
            !.count = @ + (IF IsOpen(row) THEN 1 ELSE 0) - (IF IsOpen(prior) THEN 1 ELSE 0)]
SyncRequest(t, e) ==
  LET i == e.id
      prior == IF i <= Len(t.requests) THEN t.requests[i] ELSE [owner |-> 0, shares |-> 0, served |-> 0, status |-> "none"]
      left == chain.requests[i].shares
      served == prior.served + IF e.is = "RequestServed" THEN e.shares ELSE 0
      cancelled == e.is = "RequestCancelled" \/ prior.status = "cancelled"
      row == [owner |-> chain.requests[i].owner, shares |-> left, served |-> served,
              status |-> IF left > 0 THEN IF served > 0 THEN "partial" ELSE "pending"
                         ELSE IF cancelled THEN "cancelled" ELSE "served"]
  IN  SaveRequest(t, i, prior, row)
SyncLoan(t) == [t EXCEPT !.loan = chain.loan]
SyncLoans(t) == IF t.loan.settled THEN t ELSE SyncLoan(t)
\* The newest balance at or before a position of the share ledger.
SharesAt(t, a, position) ==
  LET older == {i \in 1 .. Len(t.changes) : t.changes[i].account = a /\ t.changes[i].position <= position}
  IN  IF older = {} THEN 0 ELSE t.changes[Max(older)].balance
ChangeShares(t, e, position) ==
  [t EXCEPT !.changes = Append(@, [account |-> e.account, position |-> position,
     balance |-> SharesAt(t, e.account, position) + IF e.is = "Deposited" THEN e.shares ELSE -e.shares])]
OpenPocketAtCreation(t, i, position) ==
  [t EXCEPT !.pockets = Append(@, [amount |-> chain.pockets[i].amount, snapshotPosition |-> position])]
OpenPocket(t, i, position) ==
  [t EXCEPT !.pockets = Append(@, [amount |-> chain.pockets[i].amount, snapshotPosition |-> t.writtenDownAt])]

\* One bounded page of the passive refresh: pockets of the accounts after the cursor.
NextPockets(t, a) ==
  LET next == SelectSeq([i \in 1 .. Len(t.pockets) |-> i], LAMBDA i : i > t.progress[a])
  IN  {next[k] : k \in 1 .. Min({Len(next), t.left})}
EntitlementLatest(t, a, i) == <<a, i, t.accounts[a].shares>>
Entitlement(t, a, i) == <<a, i, SharesAt(t, a, t.pockets[i].snapshotPosition)>>
Refresh(t, a) ==
  LET taken == NextPockets(t, a)
  IN  IF t.left = 0 THEN t
      ELSE [t EXCEPT !.cached = @ \cup {Entitlement(t, a, i) : i \in taken},
                     !.progress[a] = Max({@} \cup taken), !.left = @ - Cardinality(taken),
                     !.cursor = IF Cardinality(taken) = t.left THEN @ ELSE a]
SyncAccounts(t) ==
  LET waiting == SetToSortSeq({a \in t.known : a > t.cursor}, <)
      rows == SubSeq(waiting, 1, Min({Len(waiting), EARN_ACCOUNT_REFRESH_BATCH}))
      done == FoldLeft(Refresh, [left |-> EARN_ACCOUNT_REFRESH_BATCH] @@ t, rows)
  IN  [f \in DOMAIN t |-> IF f = "cursor" /\ done.left > 0 /\ Len(rows) < EARN_ACCOUNT_REFRESH_BATCH THEN 0 ELSE done[f]]
SyncStrategy(t, n) == [t EXCEPT !.strategy = [ready |-> FALSE, at |-> n, price |-> chain.price, acc |-> chain.acc]]
Publish(t, n) == [SyncAccounts(SyncStrategy(SyncLoans(t), n)) EXCEPT !.strategy.ready = TRUE]
\* The core's own event, of a loan that is not settled yet.
RefreshEarnCoreLoan(t, n) == IF t.loan.settled THEN t ELSE Publish(SyncLoan(t), n)

Handle(t, e, n, position) ==
  LET ledger == IF e.is \in {"Deposited", "Withdrawn", "RequestServed"} THEN ChangeShares(t, e, position)
                ELSE IF e.is = "LoanOverdue" THEN [t EXCEPT !.writtenDownAt = position]
                ELSE IF e.is = "PocketClaimed" THEN [t EXCEPT !.claims = @ \cup {<<e.account, e.id, position>>}]
                ELSE t
      pocket == IF e.is = "PocketCreated" THEN OpenPocket(ledger, e.id, position) ELSE ledger
      loan == IF e.is \in {"LoanOverdue", "PocketCreated", "Settled", "RewardsHarvested"} THEN SyncLoan(pocket) ELSE pocket
      request == IF e.is \in {"RedeemRequested", "RequestCancelled", "RequestServed"} THEN SyncRequest(loan, e) ELSE loan
  IN  Publish(IF e.account = 0 THEN request ELSE SyncAccount(request, e.account, n), n)

Position(n, i) == 10 * n + i
\* A pocket that nobody held when the loan was written down stops the indexer.
Throws == chain.supply = 0 /\ \E i \in 1 .. Len(block.events) : block.events[i].is = "PocketCreated"
IndexBlock(periodic) ==
  LET n == block.n
      Step(t, i) == IF block.events[i].is = "Closed" THEN RefreshEarnCoreLoan(t, n)
                    ELSE Handle(t, block.events[i], n, Position(n, i))
      handled == FoldLeft(Step, db, [i \in 1 .. Len(block.events) |-> i])
  IN  /\ n < MaxBlocks /\ ~Throws
      /\ db' = IF periodic THEN Publish(handled, n) ELSE handled
      /\ truth' = IF db'.strategy.at = n THEN chain ELSE truth
      /\ block' = [n |-> n + 1, events |-> <<>>, txs |-> 0]
      /\ UNCHANGED <<chain, txs, api>>

-----------------------------------------------------------------------------
(* The API: load the publication, read the account, check the publication.     *)
Entitlements(t, a, s) ==
  [i \in 1 .. Len(t.pockets) |->
    LET hit == {c \in t.cached : c[1] = a /\ c[2] = i}
        claims == {c \in t.claims : c[1] = a /\ c[2] = i}
    IN  [balanceAt |-> IF hit # {} THEN (CHOOSE c \in hit : TRUE)[3] ELSE SharesAt(t, a, t.pockets[i].snapshotPosition),
         claimed |-> \E c \in claims : c[3] < Position(s.at + 1, 0)]]
Queue(t) == SelectSeq([i \in 1 .. Len(t.requests) |-> i], LAMBDA i : IsOpen(t.requests[i]))
RequestRows(t, a) ==
  {[id |-> i, row |-> t.requests[i], position |-> IF IsOpen(t.requests[i]) THEN CHOOSE k \in 1 .. Len(Queue(t)) : Queue(t)[k] = i ELSE 0]
     : i \in {j \in 1 .. Len(t.requests) : t.requests[j].owner = a}}
\* projectEarnAccount: an account's row at a publication.
Project(row, s) == [shares |-> row.shares, locked |-> row.locked, paid |-> row.paid,
                    value |-> row.shares * s.price, rewards |-> row.owed + row.shares * (s.acc - row.index)]
Projectable(row, s) == row.at <= s.at /\ row.index <= s.acc
CheckRow(row, s) == row.at <= s.at

Load(a) ==
  /\ api.step = "idle" /\ db.strategy.ready /\ block.n >= FirstAsk
  /\ api' = [step |-> "row", account |-> a, current |-> db.strategy, then |-> truth]
  /\ UNCHANGED <<chain, block, txs, db, truth>>
ReadRow ==
  /\ api.step = "row"
  /\ api' = [step |-> "parts", row |-> db.accounts[api.account], found |-> api.account \in db.known] @@ api
  /\ UNCHANGED <<chain, block, txs, db, truth>>
Gather ==
  LET a == api.account
      void == [parts |-> <<>>, requests |-> {}]
  IN  /\ api.step = "parts"
      /\ api' = IF ~api.found THEN [step |-> "check"] @@ void @@ api
                ELSE IF ~Projectable(api.row, db.strategy) THEN [step |-> "failed"]
                ELSE [step |-> "check", parts |-> Entitlements(db, a, db.strategy), requests |-> RequestRows(db, a)] @@ api
      /\ UNCHANGED <<chain, block, txs, db, truth>>
Answer == [step |-> "answered", account |-> api.account, found |-> api.found, then |-> api.then,
           body |-> Project(api.row, api.current), parts |-> api.parts, requests |-> api.requests]
StableUnchecked(s) == TRUE
Stable(s) == db.strategy.at = s.at
Respond ==
  /\ api.step = "check"
  /\ api' = IF ~api.found \/ (CheckRow(api.row, api.current) /\ Projectable(api.row, api.current))
             THEN IF Stable(api.current) THEN Answer ELSE [step |-> "failed"]
             ELSE [step |-> "failed"]
  /\ UNCHANGED <<chain, block, txs, db, truth>>

Next ==
  \/ \E a \in Accounts :
       \/ "shares" \in Parts /\ (Deposit(a) \/ Redeem(a))
       \/ "queue" \in Parts /\ (RequestRedeem(a) \/ Claim(a))
       \/ "loan" \in Parts /\ \E i \in 1 .. Len(chain.pockets) : ClaimPocket(a, i)
  \/ "queue" \in Parts /\ ServeRequest
  \/ "queue" \in Parts /\ \E i \in 1 .. Len(chain.requests) : CancelRequest(i)
  \/ "rewards" \in Parts /\ HarvestRewards
  \/ "price" \in Parts /\ Unlock
  \/ "loan" \in Parts /\ Repay
  \/ IndexBlock(TRUE) \/ IndexBlock(FALSE)
  \/ \E a \in Askers : Load(a)
  \/ ReadRow \/ Gather \/ Respond

Spec == Init /\ [][Next]_earnIndexVars

-----------------------------------------------------------------------------
OwnTruth(c, a) ==
  [shares |-> c.shares[a], locked |-> c.locked[a], paid |-> c.paid[a], value |-> c.shares[a] * c.price,
   rewards |-> c.owed[a] + c.shares[a] * (c.acc - c.index[a])]
PartsTruth(c, a) == [i \in 1 .. Len(c.pockets) |-> [balanceAt |-> c.held[a], claimed |-> a \in c.pockets[i].claimed]]
StatusOf(r) == IF r.shares > 0 THEN IF r.served > 0 THEN "partial" ELSE "pending"
               ELSE IF r.cancelled THEN "cancelled" ELSE "served"
RequestsTruth(c, a) ==
  LET waiting == {i \in 1 .. Len(c.requests) : c.requests[i].shares > 0}
  IN  {[id |-> i, row |-> [owner |-> a, shares |-> c.requests[i].shares, served |-> c.requests[i].served,
                           status |-> StatusOf(c.requests[i])],
        position |-> IF i \in waiting THEN Cardinality({j \in waiting : j <= i}) ELSE 0]
         : i \in {j \in 1 .. Len(c.requests) : c.requests[j].owner = a}}

(* What is published is the strategy at the end of the published block, for    *)
(* every account, also one that no event named since and one whose pocket      *)
(* rights date from before it left (earn-account-state.ts:18-20, :41-42).      *)
PublishedIsTrue ==
  /\ \A a \in db.known : /\ Project(db.accounts[a], db.strategy) = OwnTruth(truth, a)
                         /\ Entitlements(db, a, db.strategy) = PartsTruth(truth, a)
                         /\ RequestRows(db, a) = RequestsTruth(truth, a)
  /\ \A a \in Accounts \ db.known : truth.shares[a] = 0 /\ truth.held[a] = 0
  /\ db.count = Cardinality({i \in 1 .. Len(truth.requests) : truth.requests[i].shares > 0})
  /\ db.loan = truth.loan

(* An answer given is the account at the block of its stamp, although its row, *)
(* its pockets and its requests are read one after the other while blocks are  *)
(* committed (api/earn.ts:28-43, earn-api.ts:154-157).                         *)
AnswersAreOfOneBlock ==
  api.step = "answered" =>
    /\ api.body = OwnTruth(api.then, api.account)
    /\ api.found => api.parts = PartsTruth(api.then, api.account) /\ api.requests = RequestsTruth(api.then, api.account)

EarnFollowsChain == PublishedIsTrue /\ AnswersAreOfOneBlock
=============================================================================
