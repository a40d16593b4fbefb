-------------------------- MODULE GageV2VaultProofs --------------------------
(***************************************************************************)
(* What holds of every V2 loan, for any accounts, loans, amounts, fees and *)
(* clock, in three parts: the loans and who holds what of them, the reward *)
(* ledger, and the running totals.                                         *)
(*                                                                         *)
(* None of the per-loan invariants is inductive alone: who holds           *)
(* the units of a defaulted loan can only be frozen because sales need an  *)
(* active one, an unwound account is paid out exactly because no claim was *)
(* marked before the unwind, and a listing starts clean because its id was *)
(* never issued.  LoanOK collects them per loan; IInv adds the types and   *)
(* the freshness of ids.                                                   *)
(***************************************************************************)
EXTENDS GageV2Vault, SumTheorems

(***************************************************************************)
(* Facts about _slice that the ledgers rest on, for every amount.          *)
(***************************************************************************)
\* A slice is a natural number, and never more than what is split.
LEMMA SliceNat ==
  ASSUME NEW total \in Nat, NEW i \in Slots
  PROVE  Slice(total, i) \in Nat /\ Slice(total, i) <= total
BY DEF Slice, Slots, UNITS

\* The share of a set of units is a natural number.
LEMMA ShareNat ==
  ASSUME NEW total \in Nat, NEW S
  PROVE  Share(total, S) \in Nat
BY SliceNat DEF Share, SumSlots, Slots

\* The four slices add up to exactly what is split: rounding loses nothing.
THEOREM SlicesSumToWhole ==
  ASSUME NEW total \in Nat
  PROVE  Share(total, Slots) = total
BY DEF Share, SumSlots, Slice, Slots, UNITS

\* The share of some units and the share of the others add up.
LEMMA ShareSplit ==
  ASSUME NEW total \in Nat, NEW S \in SUBSET Slots, NEW T \in SUBSET S
  PROVE  Share(total, S) = Share(total, T) + Share(total, S \ T)
<1> DEFINE part(X, i) == IF i \in X THEN Slice(total, i) ELSE 0
<1>1. \A i \in Slots : part(S, i) = part(T, i) + part(S \ T, i) /\ part(T, i) \in Nat /\ part(S \ T, i) \in Nat
  BY SliceNat
<1>2. \A X : Share(total, X) = part(X, 0) + part(X, 1) + part(X, 2) + part(X, 3)
  BY DEF Share, SumSlots, Slots
<1>3. 0 \in Slots /\ 1 \in Slots /\ 2 \in Slots /\ 3 \in Slots
  BY DEF Slots
<1> QED BY <1>1, <1>2, <1>3

(***************************************************************************)
(* The vault.                                                              *)
(***************************************************************************)
\* One loan: its record, unit table, right, account, asks and recovery flags.
LoanOK(l, units, owner, acct, ask, bids, paid) ==
  /\ l.originationFee <= l.principal
  /\ l.filled = UNITS - Units(Held(units, NoAccount))
  /\ l.state \in {"NONE", "CANCELLED"} => l.filled = 0
  /\ l.state = "FUNDING" => l.filled < UNITS
  /\ l.state \in {"ACTIVE", "REPAID", "DEFAULTED"} => l.filled = UNITS
  /\ owner # NoAccount <=> l.state \in OpenStates
  /\ l.state = "FUNDING" => owner = l.originator
  /\ ask.price # 0 => ask.poster = owner /\ l.state = "ACTIVE"
  /\ \A a \in Accounts : bids[a].price # 0 =>
       bids[a].slots \subseteq Held(units, a) /\ l.state \in {"ACTIVE", "REPAID", "DEFAULTED"}
  /\ l.state = "NONE" <=> acct.kind = "none"
  /\ l.state \in OpenStates => InCustody(acct)
  /\ acct.released => l.state \in {"REPAID", "CANCELLED"} /\ ~acct.recovered
  /\ acct.recovered => l.state \in {"REPAID", "DEFAULTED"}
  /\ acct.recovered /\ l.state = "REPAID" => \A x \in Assets : acct.balance[x] = 0
  /\ \A x \in Assets, a \in Accounts : paid[x][a] => l.state = "DEFAULTED" /\ acct.recovered
  /\ l.state = "DEFAULTED" /\ acct.recovered =>
       \A x \in Assets :
         acct.balance[x] =
           Share(acct.amounts[x], {i \in Slots : units[i] = NoAccount \/ ~paid[x][units[i]]})

Consistent(id) ==
  LoanOK(loans[id], lenders[id], right[id], account[id], asks[id], lenderAsks[id], recoveryClaimed[id])

LoansOK == \A id \in LoanIds : Consistent(id)

\* Identifiers from nextId on were never used.
FreshIds == \A id \in LoanIds : id >= nextId => loans[id].state = "NONE"

IInv == TypeOK /\ FreshIds /\ LoansOK

(***************************************************************************)
(* Arithmetic and slot tables.                                             *)
(***************************************************************************)
LEMMA FeeBound ==
  ASSUME NEW amount \in Nat, NEW bps \in 0 .. BPS
  PROVE  Registry!Fee(amount, bps) \in Nat /\ Registry!Fee(amount, bps) <= amount
<1>1. BPS \in Nat \ {0}
  BY VaultAssumption
<1>2. amount * bps \in Nat /\ amount * bps <= amount * BPS
  BY <1>1
<1>3. \A x \in Nat : (x \div BPS) \in Nat /\ (x <= amount * BPS => (x \div BPS) <= amount)
  BY <1>1
<1> QED BY <1>2, <1>3 DEF Registry!Fee

LEMMA UnitsRange ==
  ASSUME NEW S
  PROVE  Units(S) \in 0 .. 4
BY DEF Units, SumSlots, Slots

LEMMA UnitsSplit ==
  ASSUME NEW S \in SUBSET Slots, NEW T \in SUBSET S
  PROVE  Units(S) = Units(T) + Units(S \ T)
BY DEF Units, SumSlots, Slots

\* Units are 0 only of nothing, and 4 only of every slot.
LEMMA UnitsExtremes ==
  ASSUME NEW S \in SUBSET Slots
  PROVE  (Units(S) = 0 <=> S = {}) /\ (Units(S) = 4 <=> S = Slots)
<1>1. Slots = {0, 1, 2, 3}
  BY DEF Slots
<1>2. Units(S) = (IF 0 \in S THEN 1 ELSE 0) + (IF 1 \in S THEN 1 ELSE 0)
               + (IF 2 \in S THEN 1 ELSE 0) + (IF 3 \in S THEN 1 ELSE 0)
  BY <1>1 DEF Units, SumSlots
<1>3. S = {} <=> 0 \notin S /\ 1 \notin S /\ 2 \notin S /\ 3 \notin S
  BY <1>1
<1>4. S = Slots <=> 0 \in S /\ 1 \in S /\ 2 \in S /\ 3 \in S
  BY <1>1
<1> QED BY <1>2, <1>3, <1>4

\* A call that takes n of the empty units takes exactly n, all of them empty.
LEMMA NextSlotsCount ==
  ASSUME NEW id \in LoanIds, NEW n \in 1 .. 4, n <= Units(Empty(id))
  PROVE  NextSlots(id, n) \in SUBSET Empty(id) /\ Units(NextSlots(id, n)) = n
<1> DEFINE E == Empty(id)
           T == NextSlots(id, n)
<1>1. E \in SUBSET Slots /\ T \in SUBSET E
  BY DEF Empty, Held, NextSlots
<1>2. 0 \in Slots /\ 1 \in Slots /\ 2 \in Slots /\ 3 \in Slots
  BY DEF Slots
<1> DEFINE has(i) == IF i \in E THEN 1 ELSE 0
<1>3. Units(E) = has(0) + has(1) + has(2) + has(3)
  BY <1>2 DEF Units, SumSlots
<1>4. /\ Units({j \in E : j < 0}) = 0
      /\ Units({j \in E : j < 1}) = has(0)
      /\ Units({j \in E : j < 2}) = has(0) + has(1)
      /\ Units({j \in E : j < 3}) = has(0) + has(1) + has(2)
  BY <1>2 DEF Units, SumSlots
<1>5. /\ 0 \in T <=> 0 \in E
      /\ 1 \in T <=> 1 \in E /\ has(0) < n
      /\ 2 \in T <=> 2 \in E /\ has(0) + has(1) < n
      /\ 3 \in T <=> 3 \in E /\ has(0) + has(1) + has(2) < n
  BY <1>1, <1>2, <1>4 DEF NextSlots
<1>6. Units(T) = (IF 0 \in T THEN 1 ELSE 0) + (IF 1 \in T THEN 1 ELSE 0)
               + (IF 2 \in T THEN 1 ELSE 0) + (IF 3 \in T THEN 1 ELSE 0)
  BY <1>2 DEF Units, SumSlots
<1> HIDE DEF E, T
<1> QED BY <1>1, <1>3, <1>5, <1>6 DEF E, T

(***************************************************************************)
(* Initially.                                                              *)
(***************************************************************************)
LEMMA InitIInv == Init => IInv
<1> SUFFICES ASSUME Init PROVE IInv
  OBVIOUS
<1> USE VaultAssumption
<1>1. TypeOK
  <2>1. NoLoan \in LoanType
    BY DEF NoLoan, LoanType, States, OpenStates, UNITS
  <2>2. NoCollateral \in AccountType
    BY DEF NoCollateral, Initialized, AccountType
  <2>3. NoAsk \in AskType /\ NoLenderAsk \in LenderAskType
    BY DEF NoAsk, AskType, NoLenderAsk, LenderAskType
  <2>4. registry \in Registry!RegistryType /\ now = 1
    BY DEF Init, Registry!Init, Rewards!Init
  <2> QED BY <2>1, <2>2, <2>3, <2>4 DEF TypeOK, Init
<1>2. FreshIds
  BY DEF FreshIds, Init, NoLoan
<1>3. LoansOK
  <2> SUFFICES ASSUME NEW id \in LoanIds
               PROVE  Consistent(id)
    BY DEF LoansOK
  <2>1. Held(lenders[id], NoAccount) = Slots
    BY DEF Init, Held
  <2>2. Units(Held(lenders[id], NoAccount)) = 4
    BY <2>1, UnitsExtremes
  <2>3. /\ loans[id].state = "NONE" /\ loans[id].filled = 0 /\ right[id] = NoAccount
        /\ loans[id].originationFee <= loans[id].principal
        /\ account[id] = NoCollateral /\ asks[id].price = 0
        /\ \A a \in Accounts : lenderAsks[id][a].price = 0
    BY DEF Init, NoLoan, NoAsk, NoLenderAsk
  <2>4. account[id].kind = "none" /\ ~account[id].released /\ ~account[id].recovered
    BY <2>3 DEF NoCollateral, Initialized
  <2>5. \A x \in Assets, a \in Accounts : ~recoveryClaimed[id][x][a]
    BY DEF Init
  <2> QED BY <2>2, <2>3, <2>4, <2>5 DEF Consistent, LoanOK, OpenStates, UNITS
<1> QED BY <1>1, <1>2, <1>3 DEF IInv

(***************************************************************************)
(* What one operation leaves alone.  OnlyLoan(id): nothing that LoanOK     *)
(* reads changed for any other loan, and no id was issued.                 *)
(***************************************************************************)
Fields(j) == <<loans[j], lenders[j], right[j], account[j], asks[j], lenderAsks[j], recoveryClaimed[j]>>

OnlyLoan(id) == nextId' = nextId /\ \A j \in LoanIds \ {id} : Fields(j)' = Fields(j)

LEMMA OneLoanStep ==
  ASSUME IInv, NEW id \in LoanIds, OnlyLoan(id),
         loans[id].state # "NONE",
         Consistent(id)'
  PROVE  FreshIds' /\ LoansOK'
<1>1. FreshIds'
  BY DEF IInv, FreshIds, OnlyLoan, Fields
<1>2. LoansOK'
  <2> SUFFICES ASSUME NEW j \in LoanIds
               PROVE  Consistent(j)'
    BY DEF LoansOK
  <2>1. CASE j = id
    BY <2>1
  <2>2. CASE j # id
    BY <2>2 DEF IInv, LoansOK, Consistent, OnlyLoan, Fields
  <2> QED BY <2>1, <2>2
<1> QED BY <1>1, <1>2

(***************************************************************************)
(* Funding.                                                                *)
(***************************************************************************)
\* A call that takes n of the empty units puts lender, and nobody else, there.
LEMMA CommitTable ==
  ASSUME IInv, NEW id \in LoanIds, NEW n \in 1 .. UNITS, NEW lender \in Accounts, Commit(id, n, lender)
  PROVE  /\ lenders'[id] \in [Slots -> Accounts \cup {NoAccount}]
         /\ \A j \in LoanIds \ {id} : lenders'[j] = lenders[j]
         /\ Units(Held(lenders'[id], NoAccount)) = UNITS - (loans[id].filled + n)
         /\ lenders' \in [LoanIds -> [Slots -> Accounts \cup {NoAccount}]]
         /\ accountedCash' \in Nat
         /\ loans[id].state = "FUNDING"
<1> USE VaultAssumption
<1> DEFINE T == NextSlots(id, n)
           E == Empty(id)
<1>1. TypeOK /\ Consistent(id)
  BY DEF IInv, LoansOK
<1>2. E \in SUBSET Slots /\ Units(E) = UNITS - loans[id].filled
  <2>1. E = Held(lenders[id], NoAccount) /\ Units(E) \in 0 .. 4 /\ loans[id].filled \in 0 .. UNITS
    BY <1>1, UnitsRange DEF Empty, TypeOK, LoanType
  <2>2. E \in SUBSET Slots
    BY <2>1 DEF Held
  <2>3. loans[id].filled = UNITS - Units(Held(lenders[id], NoAccount))
    BY <1>1 DEF Consistent, LoanOK
  <2> HIDE DEF E
  <2> QED BY <2>1, <2>2, <2>3 DEF UNITS
<1>3. T \in SUBSET E /\ Units(T) = n
  BY <1>2, NextSlotsCount DEF Commit, UNITS
<1>4. Held(lenders'[id], NoAccount) = E \ T
  BY <1>1, <1>3 DEF Commit, Held, Empty, TypeOK
<1>5. Units(E) = n + Units(E \ T)
  BY <1>2, <1>3, UnitsSplit
<1>6. Share(loans[id].principal, T) \in Nat
  BY <1>1, ShareNat DEF TypeOK, LoanType
<1>7. Units(E \ T) \in 0 .. 4 /\ loans[id].filled \in 0 .. UNITS
  BY <1>1, UnitsRange DEF TypeOK, LoanType
<1> HIDE DEF T, E
<1>8. Units(Held(lenders'[id], NoAccount)) = UNITS - (loans[id].filled + n)
  BY <1>2, <1>4, <1>5, <1>7 DEF UNITS
<1> USE DEF T
<1>9. lenders' \in [LoanIds -> [Slots -> Accounts \cup {NoAccount}]]
  BY <1>1 DEF Commit, TypeOK
<1>10. accountedCash' \in Nat
  BY <1>1, <1>6 DEF Commit, ReceiveCash, TypeOK
<1> QED BY <1>1, <1>8, <1>9, <1>10 DEF Commit, TypeOK

LEMMA FundPartStep ==
  ASSUME IInv, NEW id \in LoanIds, NEW n \in UnitCounts, NEW lender \in Buyers, FundPart(id, n, lender)
  PROVE  IInv'
<1> USE VaultAssumption
<1>1. /\ n \in 1 .. UNITS /\ lender \in Accounts /\ Commit(id, n, lender)
      /\ TypeOK /\ Consistent(id)
  BY DEF IInv, LoansOK, FundPart
<1>2. /\ loans' = [loans EXCEPT ![id] = [loans[id] EXCEPT !.filled = loans[id].filled + n]]
      /\ loans \in [LoanIds -> LoanType]
      /\ loans[id].filled + n \in 0 .. UNITS /\ loans[id].filled + n < UNITS
  <2>1. loans \in [LoanIds -> LoanType] /\ loans[id].filled \in 0 .. UNITS /\ n \in 1 .. UNITS
    BY <1>1 DEF TypeOK, LoanType
  <2>2. loans[id].filled + n < UNITS
    BY DEF FundPart
  <2>3. loans' = [loans EXCEPT ![id] = [loans[id] EXCEPT !.filled = loans[id].filled + n]]
    BY <2>1 DEF FundPart
  <2> QED BY <2>1, <2>2, <2>3 DEF UNITS
<1>3. [loans[id] EXCEPT !.filled = loans[id].filled + n] \in LoanType
  BY <1>2 DEF LoanType
<1>4. loans' \in [LoanIds -> LoanType]
  BY <1>2, <1>3
<1>5. TypeOK'
  BY <1>1, <1>4, CommitTable DEF TypeOK, FundPart, rewardVars, marketVars
<1>6. OnlyLoan(id) /\ loans[id].state = "FUNDING"
  BY <1>1, <1>2, CommitTable DEF OnlyLoan, Fields, FundPart, marketVars
<1>7. Consistent(id)'
  <2>1. /\ loans'[id].state = "FUNDING" /\ loans'[id].filled = loans[id].filled + n
        /\ loans'[id].originator = loans[id].originator
        /\ loans'[id].originationFee = loans[id].originationFee /\ loans'[id].principal = loans[id].principal
        /\ right' = right /\ account' = account /\ asks' = asks
        /\ lenderAsks' = lenderAsks /\ recoveryClaimed' = recoveryClaimed
    BY <1>2, <1>6 DEF LoanType, FundPart, marketVars
  <2>2. Units(Held(lenders'[id], NoAccount)) = UNITS - loans'[id].filled
    BY <1>1, <2>1, CommitTable
  <2>3. loans'[id].filled = UNITS - Units(Held(lenders'[id], NoAccount))
    BY <1>2, <2>1, <2>2 DEF UNITS
  <2> QED BY <1>1, <1>2, <1>6, <2>1, <2>3 DEF Consistent, LoanOK, OpenStates
<1> QED BY <1>5, <1>6, <1>7, OneLoanStep DEF IInv

LEMMA CreditNat ==
  ASSUME NEW f \in [Accounts -> Nat], NEW a, NEW amount \in Nat
  PROVE  Credit(f, a, amount) \in [Accounts -> Nat]
<1>1. CASE a \in Accounts
  BY <1>1 DEF Credit
<1>2. CASE a \notin Accounts
  BY <1>2 DEF Credit
<1> QED BY <1>1, <1>2

LEMMA CreditUnitsNat ==
  ASSUME NEW f \in [Accounts -> Nat], NEW units, NEW total \in Nat
  PROVE  CreditUnits(f, units, total) \in [Accounts -> Nat]
BY ShareNat DEF CreditUnits

LEMMA WithdrawCommitmentStep ==
  ASSUME IInv, NEW id \in LoanIds, NEW a \in Accounts, WithdrawCommitment(id, a)
  PROVE  IInv'
<1> USE VaultAssumption
<1> DEFINE mine == Held(lenders[id], a)
           E == Empty(id)
           left == loans[id].filled - Units(mine)
<1>1. TypeOK /\ Consistent(id) /\ loans[id].state = "FUNDING"
  BY DEF IInv, LoansOK, WithdrawCommitment
<1>2. loans \in [LoanIds -> LoanType] /\ loans[id].filled \in 0 .. UNITS /\ loans[id].principal \in Nat
  BY <1>1 DEF TypeOK, LoanType
<1>3. mine \in SUBSET Slots /\ E \in SUBSET Slots /\ mine \cap E = {} /\ E = Held(lenders[id], NoAccount)
  BY DEF Held, Empty
<1>4. lenders' = [lenders EXCEPT ![id] = [i \in Slots |-> IF i \in mine THEN NoAccount ELSE @[i]]]
  BY DEF WithdrawCommitment
<1>5. lenders' \in [LoanIds -> [Slots -> Accounts \cup {NoAccount}]]
  BY <1>1, <1>4 DEF TypeOK
<1>6. Held(lenders'[id], NoAccount) = E \cup mine
  BY <1>1, <1>4 DEF Held, Empty, TypeOK
<1>7. Units(E \cup mine) = Units(mine) + Units(E)
  <2>1. (E \cup mine) \ mine = E
    BY <1>3
  <2> HIDE DEF mine, E
  <2> QED BY <1>3, <2>1, UnitsSplit
<1>8. Units(mine) \in 0 .. 4 /\ Units(E) \in 0 .. 4 /\ Units(E \cup mine) \in 0 .. 4
  BY UnitsRange
<1>9. loans[id].filled = UNITS - Units(E) /\ loans[id].filled < UNITS
  BY <1>1, <1>3 DEF Consistent, LoanOK
<1>10. left \in 0 .. UNITS /\ left < UNITS /\ left = UNITS - Units(Held(lenders'[id], NoAccount))
  <2> HIDE DEF mine, E
  <2> QED BY <1>2, <1>6, <1>7, <1>8, <1>9 DEF UNITS
<1>11. loans' = [loans EXCEPT ![id] = [loans[id] EXCEPT !.filled = left]]
  BY DEF WithdrawCommitment, Vacated
<1> HIDE DEF left
<1>12. [loans[id] EXCEPT !.filled = left] \in LoanType
  BY <1>2, <1>10 DEF LoanType
<1>13. cashCredit' \in [Accounts -> Nat]
  BY <1>1, <1>2, ShareNat, CreditNat DEF WithdrawCommitment, TypeOK
<1>14. loans' \in [LoanIds -> LoanType]
  BY <1>2, <1>11, <1>12
<1> HIDE DEF mine, E
<1>15. TypeOK'
  BY <1>1, <1>5, <1>13, <1>14 DEF TypeOK, WithdrawCommitment, rewardVars, marketVars
<1>16. OnlyLoan(id)
  BY <1>1, <1>4, <1>11 DEF OnlyLoan, Fields, WithdrawCommitment, marketVars
<1>17. Consistent(id)'
  <2>1. /\ loans'[id].state = "FUNDING" /\ loans'[id].filled = left
        /\ loans'[id].originator = loans[id].originator
        /\ loans'[id].originationFee = loans[id].originationFee /\ loans'[id].principal = loans[id].principal
        /\ right' = right /\ account' = account /\ asks' = asks
        /\ lenderAsks' = lenderAsks /\ recoveryClaimed' = recoveryClaimed
    BY <1>1, <1>2, <1>11 DEF LoanType, WithdrawCommitment, marketVars
  <2> QED BY <1>1, <1>10, <2>1 DEF Consistent, LoanOK, OpenStates
<1> QED BY <1>1, <1>15, <1>16, <1>17, OneLoanStep DEF IInv

\* Checked arithmetic keeps every bucket a natural number.
LEMMA ReleaseExposureType ==
  ASSUME TypeOK, NEW id \in LoanIds, NEW l, l.exposureKey = loans[id].exposureKey,
         l.exposureAmount = loans[id].exposureAmount, ReleaseExposure(l)
  PROVE  openExposure' \in [Keys -> Nat]
<1>1. loans[id].exposureAmount \in Nat /\ openExposure \in [Keys -> Nat]
  BY DEF TypeOK, LoanType
<1> DEFINE k == l.exposureKey
           amount == l.exposureAmount
<1>2. amount \in Nat /\ amount <= openExposure[k] /\ openExposure' = [openExposure EXCEPT ![k] = @ - amount]
  BY <1>1 DEF ReleaseExposure
<1> HIDE DEF k, amount
<1>3. CASE k \in Keys
  BY <1>1, <1>2, <1>3
<1>4. CASE k \notin Keys
  BY <1>1, <1>2, <1>4
<1> QED BY <1>3, <1>4

LEMMA CancelFundingStep ==
  ASSUME IInv, NEW id \in LoanIds, NEW a \in Accounts, CancelFunding(id, a)
  PROVE  IInv'
<1> USE VaultAssumption
<1> DEFINE l == [loans[id] EXCEPT !.filled = 0, !.state = "CANCELLED", !.closedAt = now,
                                  !.collateralBeneficiary = loans[id].originator]
<1>1. TypeOK /\ Consistent(id) /\ loans[id].state = "FUNDING"
  BY DEF IInv, LoansOK, CancelFunding
<1>2. loans \in [LoanIds -> LoanType] /\ loans[id] \in LoanType /\ now \in Nat /\ loans[id].principal \in Nat
  BY <1>1 DEF TypeOK, LoanType
<1>3. loans' = [loans EXCEPT ![id] = l]
  BY DEF CancelFunding
<1>4. l \in LoanType /\ l.filled = 0 /\ l.state = "CANCELLED"
  <2>1. "CANCELLED" \in States /\ 0 \in 0 .. UNITS
    BY DEF States, UNITS
  <2>2. loans[id].originator \in Accounts \cup {NoAccount}
    BY <1>2 DEF LoanType
  <2> QED BY <1>2, <2>1, <2>2 DEF LoanType
<1>5. l.originationFee = loans[id].originationFee /\ l.principal = loans[id].principal
  BY <1>2 DEF LoanType
<1> HIDE DEF l
<1>6. lenders' = [lenders EXCEPT ![id] = [i \in Slots |-> NoAccount]] /\ right' = [right EXCEPT ![id] = NoAccount]
  BY DEF CancelFunding, Burn
<1>7. lenders' \in [LoanIds -> [Slots -> Accounts \cup {NoAccount}]] /\ right' \in [LoanIds -> Accounts \cup {NoAccount}]
  BY <1>1, <1>6 DEF TypeOK
<1>8. cashCredit' \in [Accounts -> Nat] /\ openExposure' \in [Keys -> Nat]
  BY <1>1, <1>2, CreditUnitsNat, ReleaseExposureType DEF CancelFunding, TypeOK
<1>9. loans' \in [LoanIds -> LoanType]
  BY <1>2, <1>3, <1>4
<1>10. TypeOK'
  BY <1>1, <1>7, <1>8, <1>9 DEF TypeOK, CancelFunding, rewardVars, marketVars
<1>11. OnlyLoan(id)
  BY <1>1, <1>3, <1>6 DEF OnlyLoan, Fields, CancelFunding, marketVars
<1>12. Consistent(id)'
  <2>1. Held(lenders'[id], NoAccount) = Slots
    BY <1>1, <1>6 DEF Held, TypeOK
  <2>2. Units(Held(lenders'[id], NoAccount)) = 4
    BY <2>1, UnitsExtremes
  <2>3. loans'[id] = l /\ right'[id] = NoAccount
    BY <1>1, <1>3, <1>6 DEF TypeOK
  <2>4. account' = account /\ asks' = asks /\ lenderAsks' = lenderAsks /\ recoveryClaimed' = recoveryClaimed
    BY DEF CancelFunding, marketVars
  <2> QED BY <1>1, <1>4, <1>5, <2>2, <2>3, <2>4 DEF Consistent, LoanOK, OpenStates, InCustody, UNITS
<1> QED BY <1>1, <1>10, <1>11, <1>12, OneLoanStep DEF IInv

(***************************************************************************)
(* Closing.                                                                *)
(***************************************************************************)
LEMMA CloseStep ==
  ASSUME IInv, NEW id \in LoanIds, NEW l \in LoanType, Close(id, l),
         loans[id].state = "ACTIVE", l.state \in {"REPAID", "DEFAULTED"}, l.filled = loans[id].filled,
         l.originationFee = loans[id].originationFee, l.principal = loans[id].principal,
         l.exposureKey = loans[id].exposureKey, l.exposureAmount = loans[id].exposureAmount,
         cashCredit' \in [Accounts -> Nat], accountedCash' \in Nat
  PROVE  IInv'
<1> USE VaultAssumption
<1> DEFINE closed == [l EXCEPT !.closedAt = now]
<1>1. TypeOK /\ Consistent(id)
  BY DEF IInv, LoansOK
<1>2. loans' = [loans EXCEPT ![id] = closed] /\ now \in Nat /\ now' = now
  BY <1>1 DEF Close, Rewards!Close, TypeOK
<1>3. closed \in LoanType /\ closed.filled = loans[id].filled /\ closed.state = l.state
      /\ closed.originationFee = loans[id].originationFee /\ closed.principal = loans[id].principal
  BY <1>2 DEF LoanType
<1> HIDE DEF closed
<1>4. /\ right' = [right EXCEPT ![id] = NoAccount] /\ asks' = [asks EXCEPT ![id] = NoAsk]
      /\ nonces' = [nonces EXCEPT ![id] = @ + 1]
  BY DEF Close, Burn, ClearAsk
<1>5. NoAsk \in AskType /\ NoAsk.price = 0
  BY DEF NoAsk, AskType
<1>6. /\ right' \in [LoanIds -> Accounts \cup {NoAccount}] /\ asks' \in [LoanIds -> AskType]
      /\ nonces' \in [LoanIds -> Nat]
  BY <1>1, <1>4, <1>5 DEF TypeOK
<1>7. openExposure' \in [Keys -> Nat]
  BY <1>1, ReleaseExposureType DEF Close
<1>8. loans' \in [LoanIds -> LoanType]
  BY <1>1, <1>2, <1>3 DEF TypeOK
<1>9. TypeOK'
  BY <1>1, <1>2, <1>6, <1>7, <1>8 DEF TypeOK, Close
<1>10. OnlyLoan(id)
  BY <1>1, <1>2, <1>4 DEF OnlyLoan, Fields, Close
<1>11. Consistent(id)'
  <2>1. loans'[id] = closed /\ right'[id] = NoAccount /\ asks'[id] = NoAsk
    BY <1>1, <1>2, <1>4 DEF TypeOK
  <2>2. lenders' = lenders /\ account' = account /\ lenderAsks' = lenderAsks /\ recoveryClaimed' = recoveryClaimed
    BY DEF Close
  <2> QED BY <1>1, <1>3, <1>5, <2>1, <2>2 DEF Consistent, LoanOK, OpenStates, InCustody
<1> QED BY <1>9, <1>10, <1>11, OneLoanStep DEF IInv

LEMMA ReclaimStep ==
  ASSUME IInv, NEW id \in LoanIds, NEW a \in Accounts, Reclaim(id, a)
  PROVE  IInv'
<1> DEFINE l == [loans[id] EXCEPT !.state = "REPAID", !.collateralBeneficiary = a]
<1>1. TypeOK /\ loans[id] \in LoanType /\ loans[id].cap \in Nat /\ loans[id].state = "ACTIVE"
  BY DEF IInv, TypeOK, LoanType, Reclaim
<1>2. /\ l \in LoanType /\ l.state = "REPAID" /\ l.filled = loans[id].filled
      /\ l.exposureKey = loans[id].exposureKey /\ l.exposureAmount = loans[id].exposureAmount
      /\ l.originationFee = loans[id].originationFee /\ l.principal = loans[id].principal
  BY <1>1 DEF LoanType, States
<1>3. Close(id, l) /\ accountedCash' = accountedCash + loans[id].cap
      /\ cashCredit' = CreditUnits(cashCredit, lenders[id], loans[id].cap)
  BY DEF Reclaim, ReceiveCash
<1>4. cashCredit' \in [Accounts -> Nat] /\ accountedCash' \in Nat
  BY <1>1, <1>3, CreditUnitsNat DEF TypeOK
<1> HIDE DEF l
<1> QED BY <1>1, <1>2, <1>3, <1>4, CloseStep

LEMMA FinalizeDefaultStep ==
  ASSUME IInv, NEW id \in LoanIds, FinalizeDefault(id)
  PROVE  IInv'
<1> DEFINE l == [loans[id] EXCEPT !.state = "DEFAULTED"]
<1>1. TypeOK /\ loans[id] \in LoanType /\ loans[id].state = "ACTIVE"
  BY DEF IInv, TypeOK, FinalizeDefault
<1>2. /\ l \in LoanType /\ l.state = "DEFAULTED" /\ l.filled = loans[id].filled
      /\ l.exposureKey = loans[id].exposureKey /\ l.exposureAmount = loans[id].exposureAmount
      /\ l.originationFee = loans[id].originationFee /\ l.principal = loans[id].principal
  BY <1>1 DEF LoanType, States
<1>3. Close(id, l) /\ cashCredit' = cashCredit /\ accountedCash' = accountedCash
  BY DEF FinalizeDefault, cashVars
<1> HIDE DEF l
<1> QED BY <1>1, <1>2, <1>3, CloseStep DEF TypeOK

(***************************************************************************)
(* Collateral.  These steps change the account, and the last the flags.    *)
(***************************************************************************)
LEMMA AccountStep ==
  ASSUME IInv, NEW id \in LoanIds, UNCHANGED custodyFrame, loans[id].state # "NONE",
         \A j \in LoanIds \ {id} : account'[j] = account[j] /\ recoveryClaimed'[j] = recoveryClaimed[j],
         account' \in [LoanIds -> AccountType],
         recoveryClaimed' \in [LoanIds -> [Assets -> [Accounts -> BOOLEAN]]],
         Consistent(id)'
  PROVE  IInv'
<1>1. TypeOK'
  BY DEF IInv, TypeOK, custodyFrame, rewardVars, loanVars, marketVars, cashVars
<1>2. OnlyLoan(id)
  BY DEF OnlyLoan, Fields, custodyFrame, loanVars, marketVars
<1> QED BY <1>1, <1>2, OneLoanStep DEF IInv

LEMMA WithdrawCollateralStep ==
  ASSUME IInv, NEW id \in LoanIds, WithdrawCollateral(id)
  PROVE  IInv'
<1>1. TypeOK /\ Consistent(id) /\ loans[id].state \in {"REPAID", "CANCELLED"} /\ InCustody(account[id])
  BY DEF IInv, LoansOK, WithdrawCollateral, CanRelease
<1>2. account \in [LoanIds -> AccountType] /\ account[id] \in AccountType
  BY <1>1 DEF TypeOK
<1>3. account' = [account EXCEPT ![id] = Released(account[id])]
      /\ recoveryClaimed' = recoveryClaimed /\ UNCHANGED custodyFrame
  BY <1>2 DEF WithdrawCollateral
<1>4. /\ Released(account[id]) \in AccountType /\ Released(account[id]).kind = account[id].kind
      /\ Released(account[id]).recovered = account[id].recovered
  BY <1>2 DEF Released, AccountType
<1>5. account' \in [LoanIds -> AccountType] /\ account'[id] = Released(account[id])
  BY <1>2, <1>3, <1>4
<1>6. Consistent(id)'
  <2>1. UNCHANGED <<loans, lenders, right, asks, lenderAsks>>
    BY <1>3 DEF custodyFrame, loanVars, marketVars
  <2> QED BY <1>1, <1>3, <1>4, <1>5, <2>1 DEF Consistent, LoanOK, OpenStates, InCustody
<1> QED BY <1>1, <1>3, <1>5, <1>6, AccountStep DEF TypeOK

\* Whatever an unwind returns is one natural number per asset.
LEMMA UnwoundType ==
  ASSUME TypeOK, NEW id \in LoanIds, NEW amounts \in Unwound(id)
  PROVE  amounts \in [Assets -> Nat]
<1>1. account[id].raw \in Nat
  BY DEF TypeOK, AccountType
<1> QED BY <1>1, VaultAssumption DEF Unwound

\* Unwinding sets the recovered flag and leaves the amounts in the account.
LEMMA RecoveredType ==
  ASSUME NEW c \in AccountType, NEW amounts \in [Assets -> Nat]
  PROVE  /\ Recovered(c, amounts) \in AccountType
         /\ Recovered(c, amounts).kind = c.kind
         /\ Recovered(c, amounts).released = c.released
         /\ Recovered(c, amounts).recovered = TRUE
         /\ Recovered(c, amounts).amounts = amounts
         /\ Recovered(c, amounts).balance = amounts
BY DEF Recovered, AccountType

\* Paying an amount the account covers lowers that asset's balance only.
LEMMA PaidRecoveryType ==
  ASSUME NEW c \in AccountType, NEW x \in Assets, NEW amount \in Nat, CanPayRecovery(c, x, amount)
  PROVE  /\ PaidRecovery(c, x, amount) \in AccountType
         /\ PaidRecovery(c, x, amount).kind = c.kind
         /\ PaidRecovery(c, x, amount).released = c.released
         /\ PaidRecovery(c, x, amount).recovered = c.recovered
         /\ PaidRecovery(c, x, amount).amounts = c.amounts
         /\ PaidRecovery(c, x, amount).balance = [c.balance EXCEPT ![x] = c.balance[x] - amount]
<1>1. c.balance \in [Assets -> Nat] /\ amount <= c.balance[x]
  BY DEF AccountType, CanPayRecovery
<1> DEFINE b == [c.balance EXCEPT ![x] = c.balance[x] - amount]
<1>2. b \in [Assets -> Nat]
  BY <1>1
<1>3. PaidRecovery(c, x, amount) = [c EXCEPT !.balance = b]
  BY DEF PaidRecovery
<1> HIDE DEF b
<1>4. /\ [c EXCEPT !.balance = b] \in AccountType
      /\ [c EXCEPT !.balance = b].kind = c.kind /\ [c EXCEPT !.balance = b].released = c.released
      /\ [c EXCEPT !.balance = b].recovered = c.recovered /\ [c EXCEPT !.balance = b].amounts = c.amounts
      /\ [c EXCEPT !.balance = b].balance = b
  BY <1>2 DEF AccountType
<1> QED BY <1>3, <1>4 DEF b

LEMMA WithdrawRepaidUnderlyingStep ==
  ASSUME IInv, NEW id \in LoanIds, NEW amounts \in Unwound(id), WithdrawRepaidUnderlying(id, amounts)
  PROVE  IInv'
<1> DEFINE unwound == Recovered(account[id], amounts)
           half == PaidRecovery(unwound, 0, amounts[0])
           paid == PaidRecovery(half, 1, amounts[1])
<1>1. TypeOK /\ Consistent(id) /\ loans[id].state = "REPAID" /\ InCustody(account[id])
  BY DEF IInv, LoansOK, WithdrawRepaidUnderlying, CanRecover
<1>2. account \in [LoanIds -> AccountType] /\ account[id] \in AccountType /\ amounts \in [Assets -> Nat]
  BY <1>1, UnwoundType DEF TypeOK
<1>3. /\ CanPayRecovery(unwound, 0, amounts[0]) /\ CanPayRecovery(half, 1, amounts[1])
      /\ account' = [account EXCEPT ![id] = paid]
      /\ recoveryClaimed' = recoveryClaimed /\ UNCHANGED custodyFrame
  BY DEF WithdrawRepaidUnderlying
<1>4. /\ 0 \in Assets /\ 1 \in Assets /\ \A x \in Assets : x = 0 \/ x = 1
      /\ amounts[0] \in Nat /\ amounts[1] \in Nat
  BY <1>2 DEF Assets
<1>5. /\ unwound \in AccountType /\ unwound.recovered = TRUE /\ unwound.balance = amounts
      /\ unwound.kind = account[id].kind /\ unwound.released = account[id].released
  BY <1>2, RecoveredType
<1>6. /\ half \in AccountType /\ half.recovered = TRUE
      /\ half.balance = [unwound.balance EXCEPT ![0] = unwound.balance[0] - amounts[0]]
      /\ half.kind = account[id].kind /\ half.released = account[id].released
  <2>1. CanPayRecovery(unwound, 0, amounts[0])
    BY <1>3
  <2> HIDE DEF unwound
  <2> QED BY <1>4, <1>5, <2>1, PaidRecoveryType
<1>7. /\ paid \in AccountType /\ paid.recovered = TRUE
      /\ paid.balance = [half.balance EXCEPT ![1] = half.balance[1] - amounts[1]]
      /\ paid.kind = account[id].kind /\ paid.released = account[id].released
  <2>1. CanPayRecovery(half, 1, amounts[1])
    BY <1>3
  <2> HIDE DEF half
  <2> QED BY <1>4, <1>6, <2>1, PaidRecoveryType
<1> HIDE DEF unwound, half, paid
<1>8. half.balance[0] = 0 /\ half.balance[1] = amounts[1]
  BY <1>2, <1>4, <1>5, <1>6
<1>9. paid.balance[0] = 0 /\ paid.balance[1] = 0
  <2>1. half.balance \in [Assets -> Nat]
    BY <1>6 DEF AccountType
  <2> QED BY <1>2, <1>4, <1>7, <1>8, <2>1
<1>10. account' \in [LoanIds -> AccountType] /\ account'[id] = paid
  BY <1>2, <1>3, <1>7
<1>11. Consistent(id)'
  <2>1. UNCHANGED <<loans, lenders, right, asks, lenderAsks>>
    BY <1>3 DEF custodyFrame, loanVars, marketVars
  <2>2. \A x \in Assets : account'[id].balance[x] = 0
    BY <1>4, <1>9, <1>10
  <2> QED BY <1>1, <1>3, <1>7, <1>10, <2>1, <2>2 DEF Consistent, LoanOK, OpenStates, InCustody
<1> QED BY <1>1, <1>3, <1>10, <1>11, AccountStep DEF TypeOK

LEMMA RecoverDefaultStep ==
  ASSUME IInv, NEW id \in LoanIds, NEW a \in Accounts, NEW amounts \in Unwound(id),
         RecoverDefault(id, a, amounts)
  PROVE  IInv'
<1> DEFINE unwound == Recovered(account[id], amounts)
<1>1. TypeOK /\ Consistent(id) /\ loans[id].state = "DEFAULTED" /\ InCustody(account[id])
  BY DEF IInv, LoansOK, RecoverDefault, CanRecover
<1>2. account \in [LoanIds -> AccountType] /\ account[id] \in AccountType /\ amounts \in [Assets -> Nat]
  BY <1>1, UnwoundType DEF TypeOK
<1>3. account' = [account EXCEPT ![id] = unwound] /\ recoveryClaimed' = recoveryClaimed /\ UNCHANGED custodyFrame
  BY <1>2 DEF RecoverDefault
<1>4. /\ unwound \in AccountType /\ unwound.recovered = TRUE /\ unwound.balance = amounts
      /\ unwound.amounts = amounts
      /\ unwound.kind = account[id].kind /\ unwound.released = account[id].released
  BY <1>2, RecoveredType
<1> HIDE DEF unwound
<1>5. account' \in [LoanIds -> AccountType] /\ account'[id] = unwound
  BY <1>2, <1>3, <1>4
<1>6. \A x \in Assets, b \in Accounts : ~recoveryClaimed[id][x][b]
  BY <1>1 DEF Consistent, LoanOK, InCustody
<1>7. \A x \in Assets : amounts[x] = Share(amounts[x], Slots)
  BY <1>2, SlicesSumToWhole
<1>8. \A x \in Assets :
        {i \in Slots : lenders[id][i] = NoAccount \/ ~recoveryClaimed[id][x][lenders[id][i]]} = Slots
  BY <1>1, <1>6 DEF TypeOK
<1>9. Consistent(id)'
  <2>1. UNCHANGED <<loans, lenders, right, asks, lenderAsks>>
    BY <1>3 DEF custodyFrame, loanVars, marketVars
  <2> QED BY <1>1, <1>3, <1>4, <1>5, <1>7, <1>8, <2>1 DEF Consistent, LoanOK, OpenStates, InCustody
<1> QED BY <1>1, <1>3, <1>5, <1>9, AccountStep DEF TypeOK

LEMMA WithdrawRecoveryStep ==
  ASSUME IInv, NEW id \in LoanIds, NEW asset \in Assets, NEW a \in Accounts,
         WithdrawRecovery(id, asset, a)
  PROVE  IInv'
<1> USE VaultAssumption
<1> DEFINE mine == Held(lenders[id], a)
           amount == Share(account[id].amounts[asset], mine)
           paid == PaidRecovery(account[id], asset, amount)
           unpaid(x) == {i \in Slots : lenders[id][i] = NoAccount \/ ~recoveryClaimed[id][x][lenders[id][i]]}
<1>1. TypeOK /\ Consistent(id) /\ loans[id].state = "DEFAULTED" /\ account[id].recovered
  BY DEF IInv, LoansOK, WithdrawRecovery
<1>2. /\ account \in [LoanIds -> AccountType] /\ account[id] \in AccountType
      /\ account[id].amounts \in [Assets -> Nat] /\ account[id].balance \in [Assets -> Nat]
      /\ recoveryClaimed \in [LoanIds -> [Assets -> [Accounts -> BOOLEAN]]]
  BY <1>1 DEF TypeOK, AccountType
<1>3. /\ ~recoveryClaimed[id][asset][a] /\ CanPayRecovery(account[id], asset, amount)
      /\ recoveryClaimed' = [recoveryClaimed EXCEPT ![id][asset][a] = TRUE]
      /\ account' = [account EXCEPT ![id] = paid] /\ UNCHANGED custodyFrame
  BY <1>2 DEF WithdrawRecovery, MarkClaimed
<1>4. amount \in Nat
  BY <1>2, ShareNat
<1>5. mine \in SUBSET unpaid(asset) /\ unpaid(asset) \in SUBSET Slots
  BY <1>3 DEF Held
<1>6. {i \in Slots : lenders[id][i] = NoAccount \/ ~recoveryClaimed'[id][asset][lenders[id][i]]} = unpaid(asset) \ mine
  BY <1>1, <1>2, <1>3 DEF TypeOK, Held
<1>7. \A x \in Assets \ {asset} : recoveryClaimed'[id][x] = recoveryClaimed[id][x]
  BY <1>2, <1>3
<1>8. /\ paid \in AccountType /\ paid.recovered = account[id].recovered /\ paid.amounts = account[id].amounts
      /\ paid.balance = [account[id].balance EXCEPT ![asset] = account[id].balance[asset] - amount]
      /\ paid.kind = account[id].kind /\ paid.released = account[id].released
  <2> HIDE DEF amount
  <2> QED BY <1>2, <1>3, <1>4, PaidRecoveryType
<1>9. account[id].balance[asset] = amount + Share(account[id].amounts[asset], unpaid(asset) \ mine)
  <2>1. account[id].balance[asset] = Share(account[id].amounts[asset], unpaid(asset))
    BY <1>1 DEF Consistent, LoanOK
  <2>2. account[id].amounts[asset] \in Nat
    BY <1>2
  <2> HIDE DEF mine, unpaid
  <2> QED BY <1>5, <2>1, <2>2, ShareSplit
<1>10. Share(account[id].amounts[asset], unpaid(asset) \ mine) \in Nat
  BY <1>2, ShareNat
<1> HIDE DEF paid, amount, mine
<1>11. paid.balance[asset] = Share(account[id].amounts[asset], unpaid(asset) \ mine)
  <2>1. paid.balance[asset] = account[id].balance[asset] - amount
    BY <1>2, <1>8
  <2> QED BY <1>4, <1>9, <1>10, <2>1
<1>12. account' \in [LoanIds -> AccountType] /\ account'[id] = paid
  BY <1>2, <1>3, <1>8
<1>13. recoveryClaimed' \in [LoanIds -> [Assets -> [Accounts -> BOOLEAN]]]
  BY <1>2, <1>3
<1>14. \A x \in Assets :
         account'[id].balance[x] = Share(account'[id].amounts[x],
           {i \in Slots : lenders[id][i] = NoAccount \/ ~recoveryClaimed'[id][x][lenders[id][i]]})
  <2> TAKE x \in Assets
  <2>1. CASE x = asset
    <3>1. account'[id].balance[asset] = Share(account'[id].amounts[asset], unpaid(asset) \ mine)
      BY <1>8, <1>11, <1>12
    <3> QED BY <1>6, <2>1, <3>1
  <2>2. CASE x # asset
    <3>1. account[id].balance[x] = Share(account[id].amounts[x], unpaid(x))
      BY <1>1 DEF Consistent, LoanOK
    <3>2. account'[id].balance[x] = account[id].balance[x] /\ account'[id].amounts[x] = account[id].amounts[x]
      BY <1>2, <1>8, <1>12, <2>2
    <3>3. recoveryClaimed'[id][x] = recoveryClaimed[id][x]
      BY <1>7, <2>2
    <3> QED BY <3>1, <3>2, <3>3
  <2> QED BY <2>1, <2>2
<1>15. Consistent(id)'
  <2>1. UNCHANGED <<loans, lenders, right, asks, lenderAsks>>
    BY <1>3 DEF custodyFrame, loanVars, marketVars
  <2>2. loans'[id].state = "DEFAULTED" /\ account'[id].recovered /\ account'[id].kind = account[id].kind
        /\ account'[id].released = account[id].released
    BY <1>1, <1>8, <1>12, <2>1
  <2> HIDE DEF unpaid
  <2>3. ~account[id].released /\ account[id].kind # "none"
    BY <1>1 DEF Consistent, LoanOK
  <2>4. ~account'[id].released /\ account'[id].kind # "none"
    BY <2>2, <2>3
  <2>5. /\ loans[id].originationFee <= loans[id].principal
        /\ loans[id].filled = UNITS - Units(Held(lenders[id], NoAccount)) /\ loans[id].filled = UNITS
        /\ right[id] = NoAccount /\ asks[id].price = 0
        /\ \A b \in Accounts : lenderAsks[id][b].price # 0 => lenderAsks[id][b].slots \subseteq Held(lenders[id], b)
    BY <1>1 DEF Consistent, LoanOK, OpenStates
  <2>6. /\ loans'[id].originationFee <= loans'[id].principal
        /\ loans'[id].filled = UNITS - Units(Held(lenders'[id], NoAccount)) /\ loans'[id].filled = UNITS
        /\ right'[id] = NoAccount /\ asks'[id].price = 0
        /\ \A b \in Accounts : lenderAsks'[id][b].price # 0 => lenderAsks'[id][b].slots \subseteq Held(lenders'[id], b)
    BY <2>1, <2>5
  <2>7. \A x \in Assets : account'[id].balance[x] = Share(account'[id].amounts[x],
           {i \in Slots : lenders'[id][i] = NoAccount \/ ~recoveryClaimed'[id][x][lenders'[id][i]]})
    BY <1>14, <2>1
  <2> QED BY <2>2, <2>4, <2>6, <2>7 DEF Consistent, LoanOK, OpenStates
<1> QED BY <1>1, <1>3, <1>12, <1>13, <1>15, AccountStep

LEMMA AddLiquidityStep ==
  ASSUME IInv, NEW id \in LoanIds, NEW amount \in Drift, AddLiquidity(id, amount)
  PROVE  IInv'
<1> DEFINE c == [account[id] EXCEPT !.raw = account[id].raw + amount]
<1>1. TypeOK /\ Consistent(id) /\ InCustody(account[id]) /\ amount \in Nat
  BY VaultAssumption DEF IInv, LoansOK, AddLiquidity
<1>2. account \in [LoanIds -> AccountType] /\ account[id] \in AccountType /\ account[id].raw \in Nat
  BY <1>1 DEF TypeOK, AccountType
<1>3. account' = [account EXCEPT ![id] = c] /\ recoveryClaimed' = recoveryClaimed /\ UNCHANGED custodyFrame
  BY <1>2 DEF AddLiquidity
<1>4. /\ c \in AccountType /\ c.recovered = account[id].recovered /\ c.amounts = account[id].amounts
      /\ c.balance = account[id].balance /\ c.kind = account[id].kind /\ c.released = account[id].released
  <2>1. account[id].raw + amount \in Nat
    BY <1>1, <1>2
  <2> QED BY <1>2, <2>1 DEF AccountType
<1> HIDE DEF c
<1>5. account' \in [LoanIds -> AccountType] /\ account'[id] = c
  BY <1>2, <1>3, <1>4
<1>6. Consistent(id)' /\ loans[id].state # "NONE"
  <2>1. UNCHANGED <<loans, lenders, right, asks, lenderAsks>>
    BY <1>3 DEF custodyFrame, loanVars, marketVars
  <2> QED BY <1>1, <1>3, <1>4, <1>5, <2>1 DEF Consistent, LoanOK, OpenStates, InCustody
<1> QED BY <1>1, <1>3, <1>5, <1>6, AccountStep DEF TypeOK

(***************************************************************************)
(* Activation and listing.                                                 *)
(***************************************************************************)
LEMMA FundLastStep ==
  ASSUME IInv, NEW id \in LoanIds, NEW n \in UnitCounts, NEW lender \in Buyers, FundLast(id, n, lender)
  PROVE  IInv'
<1> USE VaultAssumption
<1> DEFINE l == [loans[id] EXCEPT !.filled = UNITS, !.state = "ACTIVE", !.fundedAt = now]
<1>1. n \in 1 .. UNITS /\ lender \in Accounts /\ Commit(id, n, lender) /\ TypeOK /\ Consistent(id)
  BY DEF IInv, LoansOK, FundLast
<1>2. loans[id].state = "FUNDING" /\ loans[id] \in LoanType /\ now \in Nat /\ now' = now
  BY <1>1 DEF Commit, TypeOK, FundLast, Rewards!Activate
<1>3. l \in LoanType /\ l.filled = UNITS /\ l.state = "ACTIVE"
      /\ l.originationFee = loans[id].originationFee /\ l.principal = loans[id].principal
  <2>1. "ACTIVE" \in States /\ UNITS \in 0 .. UNITS
    BY DEF States, OpenStates, UNITS
  <2> QED BY <1>2, <2>1 DEF LoanType
<1>4. loans' = [loans EXCEPT ![id] = l] /\ loans[id].filled + n = UNITS
  BY DEF FundLast
<1> HIDE DEF l
<1>5. loans' \in [LoanIds -> LoanType] /\ loans'[id] = l
  BY <1>1, <1>3, <1>4 DEF TypeOK
<1>6. cashCredit' \in [Accounts -> Nat]
  <2>1. loans[id].principal \in Nat /\ loans[id].originationFee \in Nat /\ cashCredit \in [Accounts -> Nat]
    BY <1>1 DEF TypeOK, LoanType
  <2>2. loans[id].originationFee <= loans[id].principal
    BY <1>1 DEF Consistent, LoanOK
  <2>3. loans[id].principal - loans[id].originationFee \in Nat
    BY <2>1, <2>2
  <2> QED BY <2>1, <2>3, CreditNat DEF FundLast, ActivationCredits
<1>7. TypeOK'
  BY <1>1, <1>2, <1>5, <1>6, CommitTable DEF TypeOK, FundLast, rewardVars, marketVars
<1>8. OnlyLoan(id)
  BY <1>1, <1>4, CommitTable DEF OnlyLoan, Fields, FundLast, marketVars
<1>9. Consistent(id)'
  <2>1. UNCHANGED <<right, account, asks, lenderAsks, recoveryClaimed>>
    BY DEF FundLast, marketVars
  <2>2. Units(Held(lenders'[id], NoAccount)) = 0
    BY <1>1, <1>4, CommitTable DEF UNITS
  <2>3. loans'[id].filled = UNITS - Units(Held(lenders'[id], NoAccount)) /\ loans'[id].state = "ACTIVE" /\ loans'[id].filled = UNITS
    BY <1>3, <1>5, <2>2 DEF UNITS
  <2> QED BY <1>1, <1>2, <1>3, <1>5, <2>1, <2>3 DEF Consistent, LoanOK, OpenStates
<1> QED BY <1>2, <1>7, <1>8, <1>9, OneLoanStep DEF IInv

\* The reward of a listing is a natural number, and its fee fits in the principal.
LEMMA QuoteNat ==
  ASSUME registry \in Registry!RegistryType, NEW principal \in Nat
  PROVE  LET fee == Registry!Fee(principal, registry.feeBps)
         IN  /\ fee \in Nat /\ fee <= principal
             /\ Registry!QuoteLender(fee) \in Nat /\ Registry!QuoteBorrower(fee) \in Nat
<1> USE VaultAssumption
<1> DEFINE fee == Registry!Fee(principal, registry.feeBps)
<1>1. registry.feeBps \in 0 .. BPS /\ registry.rate \in Nat
  BY DEF Registry!RegistryType
<1>2. fee \in Nat /\ fee <= principal
  BY <1>1, FeeBound
<1> HIDE DEF fee
<1>3. fee * registry.rate \in Nat
  BY <1>1, <1>2
<1> DEFINE total == fee * registry.rate
<1>4. Registry!Fee(total, LenderShare) \in Nat /\ Registry!Fee(total, LenderShare) <= total
  BY <1>3, FeeBound
<1> HIDE DEF total
<1>5. total - Registry!Fee(total, LenderShare) \in Nat
  BY <1>3, <1>4 DEF total
<1>6. Registry!QuoteLender(fee) \in Nat /\ Registry!QuoteBorrower(fee) \in Nat
  BY <1>4, <1>5 DEF Registry!QuoteLender, Registry!QuoteBorrower, total
<1> QED BY <1>2, <1>6 DEF fee

LEMMA ListStep ==
  ASSUME IInv, NEW b \in Borrowers, NEW x \in Listings, List(b, x)
  PROVE  IInv'
<1> USE VaultAssumption
<1>1. TypeOK /\ nextId \in LoanIds
  BY DEF IInv, List
<1> PICK id \in LoanIds : id = nextId
  BY <1>1
<1>2. Consistent(id) /\ loans[id].state = "NONE"
  BY <1>1 DEF IInv, LoansOK, FreshIds, TypeOK
<1> DEFINE fee == Registry!Fee(x.principal, registry.feeBps)
           br == IF x.withRewards THEN Registry!QuoteBorrower(fee) ELSE 0
           lr == IF x.withRewards THEN Registry!QuoteLender(fee) ELSE 0
           l == Listed(b, x)
<1>3. /\ x.principal \in Nat /\ x.cap \in Nat /\ x.term \in Terms /\ x.term \in Nat /\ x.window \in Nat
      /\ x.kind \in {"ERC20", "LP"} /\ x.key \in Keys /\ x.raw \in Nat /\ b \in Accounts
  OBVIOUS
<1>4. fee \in Nat /\ fee <= x.principal /\ br \in Nat /\ lr \in Nat
  BY <1>1, <1>3, QuoteNat DEF TypeOK
<1> DEFINE due == now + x.window
<1>5. due \in Nat
  BY <1>1, <1>3 DEF TypeOK
<1>6. /\ loans' = [loans EXCEPT ![id] = l] /\ account' = [account EXCEPT ![id] = Initialized(x.kind, x.raw)]
      /\ right' = [right EXCEPT ![id] = b] /\ nextId' = nextId + 1
      /\ UNCHANGED <<registry, rewardVars, lenders, marketVars, cashVars, recoveryClaimed>>
  BY DEF List
<1> HIDE DEF fee, br, lr, due
<1>7. /\ l \in LoanType /\ l.state = "FUNDING" /\ l.filled = 0 /\ l.originator = b
      /\ l.originationFee <= l.principal
  <2>1. l = [state |-> "FUNDING", originator |-> b, collateralBeneficiary |-> NoAccount,
             filled |-> 0, term |-> x.term, fundingDeadline |-> due, fundedAt |-> 0, closedAt |-> 0,
             principal |-> x.principal, cap |-> x.cap, originationFee |-> fee,
             borrowerReward |-> br, lenderReward |-> lr, exposureKey |-> x.key, exposureAmount |-> x.raw]
    BY DEF Listed, due, fee, br, lr
  <2>2. "FUNDING" \in States /\ 0 \in 0 .. UNITS
    BY DEF States, OpenStates, UNITS
  <2> HIDE DEF l
  <2> QED BY <1>3, <1>4, <1>5, <2>1, <2>2 DEF LoanType
<1> HIDE DEF l
<1> DEFINE c == Initialized(x.kind, x.raw)
<1>8. /\ c \in AccountType /\ c.kind \in {"ERC20", "LP"} /\ c.released = FALSE /\ c.recovered = FALSE
  BY <1>3 DEF Initialized, AccountType
<1> HIDE DEF c
<1>9. /\ loans' \in [LoanIds -> LoanType] /\ loans'[id] = l
      /\ account' \in [LoanIds -> AccountType] /\ account'[id] = c
      /\ right' \in [LoanIds -> Accounts \cup {NoAccount}] /\ right'[id] = b
  BY <1>1, <1>3, <1>6, <1>7, <1>8 DEF TypeOK, c
<1>10. openExposure' \in [Keys -> Nat]
  BY <1>1, <1>3 DEF List, AddExposure, TypeOK
<1>11. TypeOK'
  BY <1>1, <1>6, <1>9, <1>10 DEF TypeOK, rewardVars, marketVars, cashVars
<1>12. \A j \in LoanIds \ {id} : Fields(j)' = Fields(j)
  BY <1>1, <1>6 DEF Fields, TypeOK, marketVars
<1>13. Consistent(id)'
  <2>1. UNCHANGED <<lenders, asks, lenderAsks, recoveryClaimed>>
    BY <1>6 DEF marketVars
  <2>2. ~c.released /\ ~c.recovered /\ InCustody(c) /\ c.kind # "none" /\ b # NoAccount
    BY <1>3, <1>8 DEF InCustody
  <2>3. /\ 0 = UNITS - Units(Held(lenders[id], NoAccount)) /\ asks[id].price = 0
        /\ \A a \in Accounts : lenderAsks[id][a].price = 0
        /\ \A y \in Assets, a \in Accounts : ~recoveryClaimed[id][y][a]
    BY <1>2 DEF Consistent, LoanOK
  <2> QED BY <1>7, <1>9, <2>1, <2>2, <2>3 DEF Consistent, LoanOK, OpenStates, UNITS
<1>14. LoansOK'
  BY <1>12, <1>13 DEF IInv, LoansOK, Consistent, Fields
<1>15. FreshIds'
  BY <1>1, <1>6, <1>12, <1>2 DEF IInv, FreshIds, Fields, TypeOK
<1> QED BY <1>11, <1>14, <1>15 DEF IInv

(***************************************************************************)
(* The two marketplaces.                                                   *)
(***************************************************************************)
LEMMA SetAskStep ==
  ASSUME IInv, NEW id \in LoanIds, NEW price \in Prices, NEW life \in AskLives, SetAsk(id, price, now + life)
  PROVE  IInv'
<1> USE VaultAssumption
<1> DEFINE ask == [price |-> price, deadline |-> now + life, feeBps |-> registry.tradeFeeBps,
                   nonce |-> nonces[id] + 1, poster |-> right[id]]
<1>1. TypeOK /\ Consistent(id) /\ loans[id].state = "ACTIVE"
  BY DEF IInv, LoansOK, SetAsk, Saleable
<1>2. ask \in AskType /\ ask.poster = right[id]
  <2>1. now \in Nat /\ nonces[id] \in Nat /\ right[id] \in Accounts \cup {NoAccount}
    BY <1>1 DEF TypeOK
  <2>2. registry.tradeFeeBps \in 0 .. BPS
    BY <1>1 DEF TypeOK, Registry!RegistryType
  <2>3. price \in Nat /\ life \in Nat
    OBVIOUS
  <2>4. now + life \in Nat /\ nonces[id] + 1 \in Nat
    BY <2>1, <2>3
  <2> QED BY <2>1, <2>2, <2>3, <2>4 DEF AskType
<1>3. /\ asks' = [asks EXCEPT ![id] = ask] /\ nonces' = [nonces EXCEPT ![id] = @ + 1]
      /\ UNCHANGED <<registry, rewardVars, loanVars, right, account, lenderAsks, lenderNonces,
                     cashVars, openExposure, recoveryClaimed>>
  BY DEF SetAsk
<1> HIDE DEF ask
<1>4. asks' \in [LoanIds -> AskType] /\ nonces' \in [LoanIds -> Nat] /\ asks'[id] = ask
  BY <1>1, <1>2, <1>3 DEF TypeOK
<1>5. TypeOK'
  BY <1>1, <1>3, <1>4 DEF TypeOK, rewardVars, loanVars, cashVars
<1>6. OnlyLoan(id)
  BY <1>1, <1>3 DEF OnlyLoan, Fields, loanVars
<1>7. Consistent(id)'
  <2>1. UNCHANGED <<loans, lenders, right, account, lenderAsks, recoveryClaimed>>
    BY <1>3 DEF loanVars
  <2> QED BY <1>1, <1>2, <1>4, <2>1 DEF Consistent, LoanOK, OpenStates
<1> QED BY <1>1, <1>5, <1>6, <1>7, OneLoanStep DEF IInv

LEMMA NoAskType == NoAsk \in AskType /\ NoAsk.price = 0 /\ NoLenderAsk \in LenderAskType /\ NoLenderAsk.price = 0
BY VaultAssumption DEF NoAsk, AskType, NoLenderAsk, LenderAskType

LEMMA CancelAskStep ==
  ASSUME IInv, NEW id \in LoanIds, CancelAsk(id)
  PROVE  IInv'
<1>1. TypeOK /\ Consistent(id) /\ right[id] # NoAccount
  BY DEF IInv, LoansOK, CancelAsk
<1>2. /\ asks' = [asks EXCEPT ![id] = NoAsk] /\ nonces' = [nonces EXCEPT ![id] = @ + 1]
      /\ UNCHANGED <<registry, rewardVars, loanVars, right, account, lenderAsks, lenderNonces,
                     cashVars, openExposure, recoveryClaimed>>
  BY DEF CancelAsk, ClearAsk
<1>3. asks' \in [LoanIds -> AskType] /\ nonces' \in [LoanIds -> Nat] /\ asks'[id] = NoAsk
  BY <1>1, <1>2, NoAskType DEF TypeOK
<1>4. TypeOK'
  BY <1>1, <1>2, <1>3 DEF TypeOK, rewardVars, loanVars, cashVars
<1>5. OnlyLoan(id)
  BY <1>1, <1>2 DEF OnlyLoan, Fields, loanVars
<1>6. Consistent(id)' /\ loans[id].state # "NONE"
  <2>1. UNCHANGED <<loans, lenders, right, account, lenderAsks, recoveryClaimed>>
    BY <1>2 DEF loanVars
  <2> QED BY <1>1, <1>3, <2>1, NoAskType DEF Consistent, LoanOK, OpenStates
<1> QED BY <1>4, <1>5, <1>6, OneLoanStep DEF IInv

\* A sale splits the price between the seller and the fee recipient.
LEMMA SettleSaleType ==
  ASSUME TypeOK, NEW a, NEW price \in Nat, NEW bps \in 0 .. BPS, NEW ask,
         ask.price = price, ask.feeBps = bps, SettleSale(a, ask)
  PROVE  cashCredit' \in [Accounts -> Nat] /\ accountedCash' \in Nat
<1>1. Registry!Fee(price, bps) \in Nat /\ price - Registry!Fee(price, bps) \in Nat
  BY FeeBound
<1>2. /\ accountedCash' = accountedCash + price
      /\ cashCredit' = Credit(Credit(cashCredit, a, price - Registry!Fee(price, bps)),
                              FeeRecipient, Registry!Fee(price, bps))
  BY DEF SettleSale, ReceiveCash
<1> DEFINE paid == Credit(cashCredit, a, price - Registry!Fee(price, bps))
<1>3. paid \in [Accounts -> Nat]
  BY <1>1, CreditNat DEF TypeOK
<1> HIDE DEF paid
<1>4. Credit(paid, FeeRecipient, Registry!Fee(price, bps)) \in [Accounts -> Nat]
  BY <1>1, <1>3, CreditNat
<1> QED BY <1>2, <1>4 DEF TypeOK, paid

LEMMA BuyStep ==
  ASSUME IInv, NEW id \in LoanIds, NEW a \in Buyers, Buy(id, a)
  PROVE  IInv'
<1> USE VaultAssumption
<1>1. TypeOK /\ Consistent(id) /\ loans[id].state = "ACTIVE" /\ a \in Accounts
  BY DEF IInv, LoansOK, Buy, Saleable
<1>2. /\ asks' = [asks EXCEPT ![id] = NoAsk] /\ nonces' = [nonces EXCEPT ![id] = @ + 1]
      /\ right' = [right EXCEPT ![id] = a] /\ now' = now
      /\ UNCHANGED <<registry, loanVars, account, lenderAsks, lenderNonces, openExposure, recoveryClaimed>>
      /\ SettleSale(right[id], asks[id])
  BY DEF Buy, ClearAsk, Rewards!TransferRight
<1>3. asks' \in [LoanIds -> AskType] /\ nonces' \in [LoanIds -> Nat] /\ asks'[id] = NoAsk
      /\ right' \in [LoanIds -> Accounts \cup {NoAccount}] /\ right'[id] = a
  BY <1>1, <1>2, NoAskType DEF TypeOK
<1>4. asks[id].price \in Nat /\ asks[id].feeBps \in 0 .. BPS
  BY <1>1 DEF TypeOK, AskType
<1>5. cashCredit' \in [Accounts -> Nat] /\ accountedCash' \in Nat
  BY <1>1, <1>2, <1>4, SettleSaleType
<1>6. TypeOK'
  BY <1>1, <1>2, <1>3, <1>5 DEF TypeOK, loanVars
<1>7. OnlyLoan(id)
  BY <1>1, <1>2 DEF OnlyLoan, Fields, loanVars
<1>8. Consistent(id)'
  <2>1. UNCHANGED <<loans, lenders, account, lenderAsks, recoveryClaimed>>
    BY <1>2 DEF loanVars
  <2> QED BY <1>1, <1>3, <2>1, NoAskType DEF Consistent, LoanOK, OpenStates
<1> QED BY <1>1, <1>6, <1>7, <1>8, OneLoanStep DEF IInv

LEMMA SetLenderAskStep ==
  ASSUME IInv, NEW id \in LoanIds, NEW a \in Accounts, NEW slots \in Bundles, NEW price \in UnitPrices,
         NEW life \in AskLives, SetLenderAsk(id, a, slots, price, now + life)
  PROVE  IInv'
<1> USE VaultAssumption
<1> DEFINE ask == [slots |-> slots, price |-> price, deadline |-> now + life,
                   feeBps |-> registry.tradeFeeBps, nonce |-> lenderNonces[id][a] + 1]
<1>1. TypeOK /\ Consistent(id) /\ loans[id].state = "ACTIVE" /\ slots \subseteq Held(lenders[id], a)
  BY DEF IInv, LoansOK, SetLenderAsk
<1>2. ask \in LenderAskType /\ ask.slots = slots
  <2>1. now \in Nat /\ lenderNonces[id][a] \in Nat
    BY <1>1 DEF TypeOK
  <2>2. registry.tradeFeeBps \in 0 .. BPS
    BY <1>1 DEF TypeOK, Registry!RegistryType
  <2>3. price \in Nat /\ life \in Nat /\ slots \in SUBSET Slots
    OBVIOUS
  <2>4. now + life \in Nat /\ lenderNonces[id][a] + 1 \in Nat
    BY <2>1, <2>3
  <2> QED BY <2>2, <2>3, <2>4 DEF LenderAskType
<1>3. /\ lenderNonces' = [lenderNonces EXCEPT ![id][a] = @ + 1]
      /\ lenderAsks' = [lenderAsks EXCEPT ![id][a] = ask]
      /\ UNCHANGED <<registry, rewardVars, loanVars, right, account, asks, nonces,
                     cashVars, openExposure, recoveryClaimed>>
  BY DEF SetLenderAsk
<1> HIDE DEF ask
<1>4. /\ lenderAsks' \in [LoanIds -> [Accounts -> LenderAskType]]
      /\ lenderNonces' \in [LoanIds -> [Accounts -> Nat]]
      /\ lenderAsks'[id] = [lenderAsks[id] EXCEPT ![a] = ask]
  BY <1>1, <1>2, <1>3 DEF TypeOK
<1>5. TypeOK'
  BY <1>1, <1>3, <1>4 DEF TypeOK, rewardVars, loanVars, cashVars
<1>6. OnlyLoan(id)
  BY <1>1, <1>3 DEF OnlyLoan, Fields, loanVars, TypeOK
<1>7. Consistent(id)'
  <2>1. UNCHANGED <<loans, lenders, right, account, asks, recoveryClaimed>>
    BY <1>3 DEF loanVars
  <2>2. \A b \in Accounts : lenderAsks[id][b].price # 0 => lenderAsks[id][b].slots \subseteq Held(lenders[id], b)
    BY <1>1 DEF Consistent, LoanOK
  <2>3. \A b \in Accounts : lenderAsks'[id][b].price # 0 =>
          lenderAsks'[id][b].slots \subseteq Held(lenders'[id], b) /\ loans'[id].state = "ACTIVE"
    BY <1>1, <1>2, <1>4, <2>1, <2>2 DEF TypeOK
  <2> QED BY <1>1, <2>1, <2>3 DEF Consistent, LoanOK, OpenStates
<1> QED BY <1>1, <1>5, <1>6, <1>7, OneLoanStep DEF IInv

LEMMA CancelLenderAskStep ==
  ASSUME IInv, NEW id \in LoanIds, NEW a \in Accounts, CancelLenderAsk(id, a)
  PROVE  IInv'
<1>1. TypeOK /\ Consistent(id) /\ lenderAsks[id][a].price # 0
  BY DEF IInv, LoansOK, CancelLenderAsk
<1>2. /\ lenderNonces' = [lenderNonces EXCEPT ![id][a] = @ + 1]
      /\ lenderAsks' = [lenderAsks EXCEPT ![id][a] = NoLenderAsk]
      /\ UNCHANGED <<registry, rewardVars, loanVars, right, account, asks, nonces,
                     cashVars, openExposure, recoveryClaimed>>
  BY DEF CancelLenderAsk, ClearLenderAsk
<1>3. /\ lenderAsks' \in [LoanIds -> [Accounts -> LenderAskType]]
      /\ lenderNonces' \in [LoanIds -> [Accounts -> Nat]]
      /\ lenderAsks'[id] = [lenderAsks[id] EXCEPT ![a] = NoLenderAsk]
  BY <1>1, <1>2, NoAskType DEF TypeOK
<1>4. TypeOK'
  BY <1>1, <1>2, <1>3 DEF TypeOK, rewardVars, loanVars, cashVars
<1>5. OnlyLoan(id)
  BY <1>1, <1>2 DEF OnlyLoan, Fields, loanVars, TypeOK
<1>6. Consistent(id)' /\ loans[id].state # "NONE"
  <2>1. UNCHANGED <<loans, lenders, right, account, asks, recoveryClaimed>>
    BY <1>2 DEF loanVars
  <2>2. \A b \in Accounts : lenderAsks[id][b].price # 0 =>
          lenderAsks[id][b].slots \subseteq Held(lenders[id], b) /\ loans[id].state \in {"ACTIVE", "REPAID", "DEFAULTED"}
    BY <1>1 DEF Consistent, LoanOK
  <2>3. \A b \in Accounts : lenderAsks'[id][b].price # 0 =>
          lenderAsks'[id][b].slots \subseteq Held(lenders'[id], b) /\ loans'[id].state \in {"ACTIVE", "REPAID", "DEFAULTED"}
    BY <1>1, <1>3, <2>1, <2>2, NoAskType DEF TypeOK
  <2> QED BY <1>1, <2>1, <2>2, <2>3 DEF Consistent, LoanOK, OpenStates
<1> QED BY <1>4, <1>5, <1>6, OneLoanStep DEF IInv

LEMMA BuyLenderStep ==
  ASSUME IInv, NEW id \in LoanIds, NEW seller \in Accounts, NEW a \in Buyers, BuyLender(id, seller, a)
  PROVE  IInv'
<1> USE VaultAssumption
<1> DEFINE ask == lenderAsks[id][seller]
<1>1. /\ TypeOK /\ Consistent(id) /\ loans[id].state = "ACTIVE" /\ a \in Accounts
      /\ ask.slots \subseteq Held(lenders[id], seller)
  BY DEF IInv, LoansOK, BuyLender
<1>2. ask.price \in Nat /\ ask.feeBps \in 0 .. BPS /\ ask.slots \in SUBSET Slots
  BY <1>1 DEF TypeOK, LenderAskType
<1>3. /\ lenderNonces' = [lenderNonces EXCEPT ![id][seller] = @ + 1]
      /\ lenderAsks' = [lenderAsks EXCEPT ![id][seller] = NoLenderAsk]
      /\ lenders' = [lenders EXCEPT ![id] = [i \in Slots |-> IF i \in ask.slots THEN a ELSE @[i]]]
      /\ SettleSale(seller, ask) /\ now' = now
      /\ UNCHANGED <<registry, nextId, loans, right, account, asks, nonces, openExposure, recoveryClaimed>>
  BY DEF BuyLender, ClearLenderAsk, Rewards!TransferLender
<1>4. cashCredit' \in [Accounts -> Nat] /\ accountedCash' \in Nat
  BY <1>1, <1>2, <1>3, SettleSaleType
<1> HIDE DEF ask
<1>5. /\ lenderAsks' \in [LoanIds -> [Accounts -> LenderAskType]]
      /\ lenderNonces' \in [LoanIds -> [Accounts -> Nat]]
      /\ lenderAsks'[id] = [lenderAsks[id] EXCEPT ![seller] = NoLenderAsk]
  BY <1>1, <1>3, NoAskType DEF TypeOK
<1>6. /\ lenders' \in [LoanIds -> [Slots -> Accounts \cup {NoAccount}]]
      /\ lenders'[id] = [i \in Slots |-> IF i \in ask.slots THEN a ELSE lenders[id][i]]
  BY <1>1, <1>3 DEF TypeOK
<1>7. TypeOK'
  BY <1>1, <1>3, <1>4, <1>5, <1>6 DEF TypeOK
<1>8. OnlyLoan(id)
  BY <1>1, <1>3 DEF OnlyLoan, Fields, TypeOK
<1>9. Held(lenders'[id], NoAccount) = Held(lenders[id], NoAccount)
  BY <1>1, <1>2, <1>6 DEF Held
<1>10. \A b \in Accounts \ {seller} : Held(lenders[id], b) \subseteq Held(lenders'[id], b)
  BY <1>1, <1>2, <1>6 DEF Held
<1>11. Consistent(id)'
  <2>1. UNCHANGED <<loans, right, account, asks, recoveryClaimed>>
    BY <1>3
  <2>2. \A b \in Accounts : lenderAsks[id][b].price # 0 => lenderAsks[id][b].slots \subseteq Held(lenders[id], b)
    BY <1>1 DEF Consistent, LoanOK
  <2>3. \A b \in Accounts : lenderAsks'[id][b].price # 0 =>
          lenderAsks'[id][b].slots \subseteq Held(lenders'[id], b) /\ loans'[id].state = "ACTIVE"
    BY <1>1, <1>5, <1>10, <2>1, <2>2, NoAskType DEF TypeOK
  <2> QED BY <1>1, <1>9, <2>1, <2>3 DEF Consistent, LoanOK, OpenStates
<1> QED BY <1>1, <1>7, <1>8, <1>11, OneLoanStep DEF IInv

(***************************************************************************)
(* Steps that touch no loan.                                               *)
(***************************************************************************)
LEMMA NoLoanStep ==
  ASSUME IInv, TypeOK',
         UNCHANGED <<nextId, loans, lenders, right, account, asks, lenderAsks, recoveryClaimed>>
  PROVE  IInv'
<1>1. FreshIds'
  BY DEF IInv, FreshIds
<1>2. LoansOK'
  BY DEF IInv, LoansOK, Consistent
<1> QED BY <1>1, <1>2 DEF IInv

LEMMA WithdrawUSDGStep ==
  ASSUME IInv, NEW a \in Accounts, WithdrawUSDG(a)
  PROVE  IInv'
<1>1. TypeOK
  BY DEF IInv
<1>2. cashCredit' \in [Accounts -> Nat] /\ accountedCash' \in Nat
  BY <1>1 DEF WithdrawUSDG, TypeOK
<1>3. TypeOK'
  BY <1>1, <1>2 DEF WithdrawUSDG, TypeOK, rewardVars, loanVars, marketVars
<1> QED BY <1>3, NoLoanStep DEF WithdrawUSDG, loanVars, marketVars

LEMMA OutsideStep ==
  ASSUME IInv, RegistryStep \/ FundRewards \/ DoClaimReward \/ Tick \/ UNCHANGED vars
  PROVE  IInv'
<1>1. TypeOK /\ registry \in Registry!RegistryType /\ now \in Nat
  BY DEF IInv, TypeOK
<1>2. UNCHANGED vaultVars
  BY DEF RegistryStep, FundRewards, DoClaimReward, ClaimReward, Tick, vars
<1>3. now' \in Nat
  BY <1>1 DEF RegistryStep, FundRewards, DoClaimReward, ClaimReward, Tick, vars, rewardVars,
              Rewards!DoFund, Rewards!Fund, Rewards!Claim, Rewards!Tick
<1>4. registry' \in Registry!RegistryType
  <2>1. CASE RegistryStep
    BY <1>1, <2>1 DEF RegistryStep, Registry!Next, Registry!RegistryType, Registry!PauseNewDeals,
                      Registry!SetTerms, Registry!SetFee, Registry!SetTradeFee, Registry!SetRewardTerms,
                      Registry!SetLimits
  <2>2. CASE ~RegistryStep
    BY <1>1, <2>2 DEF FundRewards, DoClaimReward, ClaimReward, Tick, vars
  <2> QED BY <2>1, <2>2
<1>5. TypeOK'
  BY <1>1, <1>2, <1>3, <1>4 DEF TypeOK, vaultVars, loanVars, marketVars, cashVars
<1> QED BY <1>2, <1>5, NoLoanStep DEF vaultVars, loanVars, marketVars

(***************************************************************************)
(* Theorems.                                                               *)
(***************************************************************************)
LEMMA NextIInv == IInv /\ [Next]_vars => IInv'
<1> SUFFICES ASSUME IInv, [Next]_vars PROVE IInv'
  OBVIOUS
<1>1. CASE DoList
  BY <1>1, ListStep DEF DoList
<1>2. CASE DoFundPart
  BY <1>2, FundPartStep DEF DoFundPart
<1>3. CASE DoFundLast
  BY <1>3, FundLastStep DEF DoFundLast
<1>4. CASE DoWithdrawCommitment
  BY <1>4, WithdrawCommitmentStep DEF DoWithdrawCommitment
<1>5. CASE DoCancelFunding
  BY <1>5, CancelFundingStep DEF DoCancelFunding
<1>6. CASE DoReclaim
  BY <1>6, ReclaimStep, VaultAssumption DEF DoReclaim
<1>7. CASE DoFinalizeDefault
  BY <1>7, FinalizeDefaultStep DEF DoFinalizeDefault
<1>8. CASE DoWithdrawCollateral
  BY <1>8, WithdrawCollateralStep DEF DoWithdrawCollateral
<1>9. CASE DoWithdrawRepaidUnderlying
  BY <1>9, WithdrawRepaidUnderlyingStep DEF DoWithdrawRepaidUnderlying
<1>10. CASE DoRecoverDefault
  BY <1>10, RecoverDefaultStep DEF DoRecoverDefault
<1>11. CASE DoWithdrawRecovery
  BY <1>11, WithdrawRecoveryStep DEF DoWithdrawRecovery
<1>12. CASE DoAddLiquidity
  BY <1>12, AddLiquidityStep DEF DoAddLiquidity
<1>13. CASE DoSetAsk
  BY <1>13, SetAskStep DEF DoSetAsk
<1>14. CASE DoCancelAsk
  BY <1>14, CancelAskStep DEF DoCancelAsk
<1>15. CASE DoBuy
  BY <1>15, BuyStep DEF DoBuy
<1>16. CASE DoSetLenderAsk
  BY <1>16, SetLenderAskStep DEF DoSetLenderAsk
<1>17. CASE DoCancelLenderAsk
  BY <1>17, CancelLenderAskStep DEF DoCancelLenderAsk
<1>18. CASE DoBuyLender
  BY <1>18, BuyLenderStep DEF DoBuyLender
<1>19. CASE DoWithdrawUSDG
  BY <1>19, WithdrawUSDGStep DEF DoWithdrawUSDG
<1>20. CASE RegistryStep \/ FundRewards \/ DoClaimReward \/ Tick \/ UNCHANGED vars
  BY <1>20, OutsideStep
<1> QED BY <1>1, <1>2, <1>3, <1>4, <1>5, <1>6, <1>7, <1>8, <1>9, <1>10, <1>11, <1>12, <1>13,
           <1>14, <1>15, <1>16, <1>17, <1>18, <1>19, <1>20 DEF Next

\* The inductive invariant holds of every reachable state.
THEOREM Inductive == Spec => []IInv
BY InitIInv, NextIInv, PTL DEF Spec

\* Every quantity stays a natural number of its type, whatever is called in whatever order.
THEOREM TypeCorrect == Spec => []TypeOK
<1>1. IInv => TypeOK
  BY DEF IInv
<1> QED BY <1>1, Inductive, PTL

\* The state of a loan says who holds its units, its right and its collateral.
THEOREM RecordsFollowState == Spec => []RecordsMatchState
<1>1. IInv => UnitsMatchState
  BY DEF IInv, LoansOK, Consistent, LoanOK, UnitsMatchState, Empty
<1>2. IInv => RightMatchesState
  BY DEF IInv, LoansOK, Consistent, LoanOK, RightMatchesState
<1>3. IInv => CollateralMatchesState
  BY DEF IInv, LoansOK, Consistent, LoanOK, CollateralMatchesState
<1>4. IInv => RecordsMatchState
  BY <1>1, <1>2, <1>3 DEF RecordsMatchState
<1> QED BY <1>4, Inductive, PTL

\* No ask outlives the ownership of what it offers, of the right or of units.
THEOREM AsksAreCurrent == Spec => []AsksStand
<1>1. IInv => AskBelongsToOwner
  BY DEF IInv, LoansOK, Consistent, LoanOK, AskBelongsToOwner
<1>2. IInv => LenderAskCoversHeldUnits
  BY DEF IInv, LoansOK, Consistent, LoanOK, LenderAskCoversHeldUnits
<1>3. IInv => AsksStand
  BY <1>1, <1>2 DEF AsksStand
<1> QED BY <1>3, Inductive, PTL

\* Recovered collateral is owed in full and exactly once, in any order of withdrawal.
THEOREM RecoveryIsBacked == Spec => []RecoveryBacked
<1>1. IInv => RecoveryBacked
  BY DEF IInv, LoansOK, Consistent, LoanOK, RecoveryBacked, Unpaid
<1> QED BY <1>1, Inductive, PTL

(***************************************************************************)
(* The reward ledger: nothing is credited before it has accrued, the       *)
(* reserve is what the loans can still draw, a sale moves the future only. *)
(* The reserve is a sum over the loans, so every operation is shown to     *)
(* move it by as much as the entry of the loan it touches.                 *)
(***************************************************************************)

(***************************************************************************)
(* The accrual clock, as functions of a reading of the clock.              *)
(***************************************************************************)
ElapsedAt(a, t) == Rewards!Least((IF a.end = 0 THEN t ELSE a.end) - a.start, a.term)

CurveAt(amount, a, t) == (amount * ElapsedAt(a, t) * ElapsedAt(a, t)) \div (a.term * a.term)

\* What unit i of allocation a has accrued by t beyond what la says was credited.
UnitAccrual(a, la, t, i) == Slice(CurveAt(a.lenderTotal, a, t), i) - la[i]

UnitsAccrual(a, la, t, S) == SumSlots([i \in Slots |-> IF i \in S THEN UnitAccrual(a, la, t, i) ELSE 0])

\* What the holder of the right has accrued by t beyond what was credited.
RightAccrual(a, t, x) ==
  IF a.end = 0 /\ a.borrower = x THEN CurveAt(a.borrowerTotal, a, t) - a.borrowerAccounted ELSE 0

AllocationType ==
  [borrower : Accounts \cup {NoAccount}, start : Nat, end : Nat, term : Nat,
   borrowerTotal : Nat, lenderTotal : Nat, borrowerAccounted : Int,
   lenders : [Slots -> Accounts \cup {NoAccount}]]

\* An allocation that was activated at or before t.
StartedBy(a, t) ==
  /\ a \in AllocationType /\ a.start # 0 /\ a.start <= t
  /\ a.term > 0
  /\ a.borrower \in Accounts
  /\ a.end # 0 => a.start <= a.end /\ a.end <= t

LEMMA ElapsedNat ==
  ASSUME NEW t \in Nat, NEW a, StartedBy(a, t)
  PROVE  ElapsedAt(a, t) \in Nat /\ a.term \in Nat \ {0} /\ a.term * a.term \in Nat \ {0}
<1>1. a.term \in Nat /\ a.term > 0 /\ a.start \in Nat /\ a.end \in Nat
  BY DEF StartedBy, AllocationType
<1>2. ElapsedAt(a, t) \in Nat
  BY <1>1 DEF StartedBy, ElapsedAt, Rewards!Least
<1>3. \A n \in Nat \ {0} : n * n \in Nat \ {0}
  OBVIOUS
<1> QED BY <1>1, <1>2, <1>3

LEMMA CurveNat ==
  ASSUME NEW t \in Nat, NEW a, StartedBy(a, t), NEW amount \in Nat
  PROVE  CurveAt(amount, a, t) \in Nat
<1> DEFINE e == ElapsedAt(a, t)
           d == a.term * a.term
<1>1. e \in Nat /\ d \in Nat \ {0}
  BY ElapsedNat
<1> HIDE DEF e, d
<1>2. amount * e * e \in Nat
  BY <1>1
<1>3. \A n \in Nat, m \in Nat \ {0} : n \div m \in Nat
  OBVIOUS
<1>4. (amount * e * e) \div d \in Nat
  BY <1>1, <1>2, <1>3
<1> QED BY <1>4 DEF CurveAt, e, d

\* Accrual never goes back.
LEMMA CurveGrows ==
  ASSUME NEW t \in Nat, NEW u \in Nat, t <= u, NEW a, StartedBy(a, t), NEW amount \in Nat
  PROVE  CurveAt(amount, a, t) <= CurveAt(amount, a, u)
<1> DEFINE e == ElapsedAt(a, t)
           f == ElapsedAt(a, u)
           d == a.term * a.term
<1>1. StartedBy(a, u)
  BY DEF StartedBy, AllocationType
<1>2. e \in Nat /\ f \in Nat /\ d \in Nat \ {0}
  BY <1>1, ElapsedNat
<1>3. e <= f
  BY DEF ElapsedAt, Rewards!Least, StartedBy, AllocationType
<1> HIDE DEF e, f, d
<1>4. amount * e * e <= amount * f * f
  <2>1. \A m, x, y \in Nat : x <= y => m * x <= m * y
    OBVIOUS
  <2>2. \A x, y, z \in Nat : x * y * z = (x * y) * z /\ x * y \in Nat
    OBVIOUS
  <2>3. amount * e <= amount * f
    BY <1>2, <1>3, <2>1
  <2>4. (amount * e) * e <= (amount * e) * f
    BY <1>2, <1>3, <2>1, <2>2
  <2>5. f * (amount * e) <= f * (amount * f)
    BY <1>2, <2>1, <2>2, <2>3
  <2>6. \A x, y \in Nat : x * y = y * x
    OBVIOUS
  <2> QED BY <1>2, <2>2, <2>4, <2>5, <2>6
<1>5. \A x, y \in Nat, m \in Nat \ {0} : x <= y => x \div m <= y \div m
  OBVIOUS
<1>6. amount * e * e \in Nat /\ amount * f * f \in Nat
  BY <1>2
<1>7. (amount * e * e) \div d <= (amount * f * f) \div d
  BY <1>2, <1>4, <1>5, <1>6
<1> QED BY <1>7 DEF CurveAt, e, f, d

LEMMA CurveBound ==
  ASSUME NEW t \in Nat, NEW a, StartedBy(a, t), NEW amount \in Nat
  PROVE  CurveAt(amount, a, t) <= amount
<1> DEFINE e == ElapsedAt(a, t)
           d == a.term * a.term
<1>1. e \in Nat /\ a.term \in Nat \ {0} /\ d \in Nat \ {0} /\ e <= a.term
  <2>1. e <= a.term
    BY DEF ElapsedAt, Rewards!Least, StartedBy, AllocationType
  <2> QED BY <2>1, ElapsedNat
<1>2. amount * e * e <= amount * d
  <2> DEFINE m == a.term
  <2>1. m \in Nat /\ e \in Nat /\ e <= m
    BY <1>1
  <2> HIDE DEF e, m, d
  <2>2. \A x, y, z \in Nat : x <= y => x * z <= y * z /\ z * x <= z * y
    OBVIOUS
  <2>3. e * e <= m * e /\ m * e <= m * m
    BY <2>1, <2>2
  <2>4. e * e \in Nat /\ m * m \in Nat /\ m * e \in Nat
    BY <2>1
  <2>5. e * e <= m * m
    BY <2>3, <2>4
  <2>6. amount * (e * e) <= amount * (m * m)
    BY <2>2, <2>4, <2>5
  <2>7. \A x, y \in Nat : x * y * y = x * (y * y)
    OBVIOUS
  <2> QED BY <2>1, <2>6, <2>7 DEF d, m
<1> HIDE DEF e, d
<1>3. \A x \in Nat, m \in Nat \ {0} : x <= amount * m => x \div m <= amount
  OBVIOUS
<1>4. amount * e * e \in Nat
  BY <1>1
<1>5. (amount * e * e) \div d <= amount
  BY <1>1, <1>2, <1>3, <1>4
<1> QED BY <1>5 DEF CurveAt, e, d

LEMMA SliceGrows ==
  ASSUME NEW m \in Nat, NEW n \in Nat, m <= n, NEW i \in Slots
  PROVE  Slice(m, i) <= Slice(n, i)
BY DEF Slice, UNITS, Slots

LEMMA UnitAccrualInt ==
  ASSUME NEW t \in Nat, NEW a, StartedBy(a, t), NEW la \in [Slots -> Int], NEW i \in Slots
  PROVE  UnitAccrual(a, la, t, i) \in Int
<1>1. CurveAt(a.lenderTotal, a, t) \in Nat
  BY CurveNat DEF StartedBy, AllocationType
<1> QED BY <1>1, SliceNat DEF UnitAccrual

\* The accrual of units, unit by unit.
LEMMA UnitsAccrualIs ==
  ASSUME NEW a, NEW la, NEW t, NEW S
  PROVE  UnitsAccrual(a, la, t, S)
           = (IF 0 \in S THEN UnitAccrual(a, la, t, 0) ELSE 0) + (IF 1 \in S THEN UnitAccrual(a, la, t, 1) ELSE 0)
             + (IF 2 \in S THEN UnitAccrual(a, la, t, 2) ELSE 0) + (IF 3 \in S THEN UnitAccrual(a, la, t, 3) ELSE 0)
BY DEF UnitsAccrual, SumSlots, Slots

LEMMA FourSlots == Slots = {0, 1, 2, 3}
BY DEF Slots

LEMMA UnitsAccrualInt ==
  ASSUME NEW t \in Nat, NEW a, StartedBy(a, t), NEW la \in [Slots -> Int], NEW S
  PROVE  UnitsAccrual(a, la, t, S) \in Int
BY UnitAccrualInt, UnitsAccrualIs, FourSlots

LEMMA UnitsAccrualSplit ==
  ASSUME NEW t \in Nat, NEW a, StartedBy(a, t), NEW la \in [Slots -> Int],
         NEW S \in SUBSET Slots, NEW T \in SUBSET S
  PROVE  UnitsAccrual(a, la, t, S) = UnitsAccrual(a, la, t, T) + UnitsAccrual(a, la, t, S \ T)
<1> DEFINE u(X, i) == IF i \in X THEN UnitAccrual(a, la, t, i) ELSE 0
<1>1. \A i \in Slots : u(S, i) = u(T, i) + u(S \ T, i) /\ u(T, i) \in Int /\ u(S \ T, i) \in Int
  BY UnitAccrualInt
<1>2. \A X : UnitsAccrual(a, la, t, X) = u(X, 0) + u(X, 1) + u(X, 2) + u(X, 3)
  BY UnitsAccrualIs
<1> HIDE DEF u
<1> QED BY <1>1, <1>2, FourSlots

LEMMA UnitAccrualGrows ==
  ASSUME NEW t \in Nat, NEW u \in Nat, t <= u, NEW a, StartedBy(a, t), NEW la \in [Slots -> Int]
  PROVE  \A i \in Slots : /\ UnitAccrual(a, la, t, i) <= UnitAccrual(a, la, u, i)
                          /\ UnitAccrual(a, la, t, i) \in Int /\ UnitAccrual(a, la, u, i) \in Int
<1>1. StartedBy(a, u)
  BY DEF StartedBy, AllocationType
<1>2. a.lenderTotal \in Nat
  BY DEF StartedBy, AllocationType
<1> DEFINE c == CurveAt(a.lenderTotal, a, t)
           d == CurveAt(a.lenderTotal, a, u)
<1>3. c \in Nat /\ d \in Nat /\ c <= d
  BY <1>1, <1>2, CurveNat, CurveGrows
<1> HIDE DEF c, d
<1>4. \A i \in Slots : Slice(c, i) <= Slice(d, i) /\ Slice(c, i) \in Nat /\ Slice(d, i) \in Nat
  BY <1>3, SliceGrows, SliceNat
<1> QED BY <1>4 DEF UnitAccrual, c, d

LEMMA UnitsAccrualGrows ==
  ASSUME NEW t \in Nat, NEW u \in Nat, t <= u, NEW a, StartedBy(a, t), NEW la \in [Slots -> Int], NEW S
  PROVE  UnitsAccrual(a, la, t, S) <= UnitsAccrual(a, la, u, S)
BY UnitAccrualGrows, UnitsAccrualIs, FourSlots

LEMMA RightAccrualInt ==
  ASSUME NEW t \in Nat, NEW a, StartedBy(a, t), NEW x
  PROVE  RightAccrual(a, t, x) \in Int
<1>1. CurveAt(a.borrowerTotal, a, t) \in Nat /\ a.borrowerAccounted \in Int
  BY CurveNat DEF StartedBy, AllocationType
<1> QED BY <1>1 DEF RightAccrual

LEMMA RightAccrualGrows ==
  ASSUME NEW t \in Nat, NEW u \in Nat, t <= u, NEW a, StartedBy(a, t), NEW x
  PROVE  RightAccrual(a, t, x) <= RightAccrual(a, u, x)
<1>1. StartedBy(a, u)
  BY DEF StartedBy, AllocationType
<1>2. a.borrowerTotal \in Nat /\ a.borrowerAccounted \in Int
  BY DEF StartedBy, AllocationType
<1>3. CurveAt(a.borrowerTotal, a, t) \in Nat /\ CurveAt(a.borrowerTotal, a, u) \in Nat
  BY <1>1, <1>2, CurveNat
<1>4. CurveAt(a.borrowerTotal, a, t) <= CurveAt(a.borrowerTotal, a, u)
  BY <1>2, CurveGrows
<1> QED BY <1>2, <1>3, <1>4 DEF RightAccrual

(***************************************************************************)
(* The reward ledger in these terms.                                       *)
(***************************************************************************)
LEMMA RewardSlots ==
  /\ Rewards!Slots = Slots
  /\ \A total, i : Rewards!Slice(total, i) = Slice(total, i)
  /\ \A slots, x : Rewards!Held(slots, x) = Held(slots, x)
  /\ \A f : Rewards!SumSlots(f) = SumSlots(f)
  /\ \A f, S : Rewards!SumFunctionOnSet(f, S) = SumFunctionOnSet(f, S)
  /\ \A f : Rewards!SumFunction(f) = SumFunction(f)
<1>1. /\ Rewards!Slots = Slots
      /\ \A total, i : Rewards!Slice(total, i) = Slice(total, i)
      /\ \A f : Rewards!SumSlots(f) = SumSlots(f)
  BY DEF Rewards!Slots, Slots, Rewards!Slice, Slice, Rewards!UNITS, UNITS, Rewards!SumSlots, SumSlots
<1>2. \A slots, x : Rewards!Held(slots, x) = Held(slots, x)
  BY <1>1 DEF Rewards!Held, Held
<1>3. \A f, S : Rewards!SumFunctionOnSet(f, S) = SumFunctionOnSet(f, S)
  BY DEF Rewards!SumFunctionOnSet, Rewards!FoldFunctionOnSet, Rewards!MapThenFoldSet,
         SumFunctionOnSet, FoldFunctionOnSet, MapThenFoldSet
<1>4. \A f : Rewards!SumFunction(f) = SumFunction(f)
  BY <1>3 DEF Rewards!SumFunction, SumFunction
<1> QED BY <1>1, <1>2, <1>3, <1>4

LEMMA Finite == IsFiniteSet(Accounts) /\ IsFiniteSet(LoanIds)
BY VaultAssumption

LEMMA CurveIs ==
  ASSUME NEW amount, NEW a
  PROVE  Rewards!Curve(amount, a) = CurveAt(amount, a, now)
BY DEF Rewards!Curve, Rewards!Elapsed, CurveAt, ElapsedAt

LEMMA LenderAccrualIs ==
  ASSUME NEW id, NEW S
  PROVE  Rewards!LenderAccrual(id, S) = UnitsAccrual(allocations[id], lenderAccounted[id], now, S)
BY RewardSlots, CurveIs DEF Rewards!LenderAccrual, UnitsAccrual, UnitAccrual

(***************************************************************************)
(* One loan in the reward ledger: its allocation a, what its accounts were *)
(* credited with on either side (eb, el) and paid (cl), what was credited  *)
(* of each unit (la), and a reading t of the clock.                        *)
(***************************************************************************)
ClaimableAt(a, eb, el, la, cl, t, x) ==
  IF a.start = 0 THEN 0
  ELSE eb[x] + el[x] + RightAccrual(a, t, x) + UnitsAccrual(a, la, t, Held(a.lenders, x)) - cl[x]

CreditedAt(eb, el, cl) == [x \in Accounts |-> eb[x] + el[x] - cl[x]]

OutstandingAt(a, eb, el, la, cl, t) ==
  IF a.start = 0 THEN 0
  ELSE SumFunctionOnSet(CreditedAt(eb, el, cl), Accounts)
       + (IF a.end = 0 THEN a.borrowerTotal ELSE a.borrowerAccounted) - a.borrowerAccounted
       + (IF a.end = 0 THEN a.lenderTotal ELSE CurveAt(a.lenderTotal, a, t))
       - SumSlots(la)

\* Nothing was credited before it accrued, on either side.
NeverAhead(a, la, t) ==
  /\ a.borrowerAccounted <= CurveAt(a.borrowerTotal, a, t)
  /\ \A i \in Slots : UnitAccrual(a, la, t, i) >= 0

\* An allocation was activated, or nothing was ever credited under its loan;
\* and no account has been paid more than it earned.
LedgerOK(a, eb, el, la, cl, t) ==
  /\ a \in AllocationType
  /\ eb \in [Accounts -> Int] /\ el \in [Accounts -> Int] /\ cl \in [Accounts -> Int]
  /\ la \in [Slots -> Int]
  /\ IF a.start = 0
     THEN /\ a.end = 0
          /\ \A i \in Slots : la[i] = 0
          /\ \A x \in Accounts : eb[x] = 0 /\ el[x] = 0 /\ cl[x] = 0
     ELSE StartedBy(a, t) /\ NeverAhead(a, la, t)
  /\ \A x \in Accounts : ClaimableAt(a, eb, el, la, cl, t, x) >= 0

LEMMA ClaimableIs ==
  \A id, x : Rewards!Claimable(id, x) =
    ClaimableAt(allocations[id], earnedBorrower[id], earnedLender[id], lenderAccounted[id],
                claimed[id], now, x)
BY RewardSlots, CurveIs, LenderAccrualIs
   DEF Rewards!Claimable, Rewards!BorrowerAccrual, ClaimableAt, RightAccrual

LEMMA OutstandingIs ==
  \A id : Rewards!Outstanding(id) =
    OutstandingAt(allocations[id], earnedBorrower[id], earnedLender[id], lenderAccounted[id],
                  claimed[id], now)
<1> SUFFICES ASSUME NEW id
             PROVE  Rewards!Outstanding(id) =
                      OutstandingAt(allocations[id], earnedBorrower[id], earnedLender[id],
                                    lenderAccounted[id], claimed[id], now)
  OBVIOUS
<1>1. SumFunction(Rewards!Credited(id)) =
        SumFunctionOnSet(CreditedAt(earnedBorrower[id], earnedLender[id], claimed[id]), Accounts)
  BY DEF SumFunction, Rewards!Credited, CreditedAt
<1> QED BY <1>1, RewardSlots, CurveIs DEF Rewards!Outstanding, OutstandingAt

LEMMA CreditedSumInt ==
  ASSUME NEW eb \in [Accounts -> Int], NEW el \in [Accounts -> Int], NEW cl \in [Accounts -> Int]
  PROVE  SumFunctionOnSet(CreditedAt(eb, el, cl), Accounts) \in Int
<1>1. \A x \in Accounts : CreditedAt(eb, el, cl)[x] \in Int
  BY DEF CreditedAt
<1> QED BY <1>1, SumType, Finite

LEMMA OutstandingInt ==
  ASSUME NEW t \in Nat, NEW a, NEW eb, NEW el, NEW la, NEW cl, LedgerOK(a, eb, el, la, cl, t)
  PROVE  OutstandingAt(a, eb, el, la, cl, t) \in Int
<1>1. SumFunctionOnSet(CreditedAt(eb, el, cl), Accounts) \in Int
  BY CreditedSumInt DEF LedgerOK
<1>2. SumSlots(la) \in Int
  BY FourSlots DEF SumSlots, LedgerOK
<1>3. a.borrowerTotal \in Int /\ a.borrowerAccounted \in Int /\ a.lenderTotal \in Int
  BY DEF LedgerOK, AllocationType
<1>4. a.start # 0 => CurveAt(a.lenderTotal, a, t) \in Int
  BY CurveNat DEF LedgerOK, AllocationType
<1> QED BY <1>1, <1>2, <1>3, <1>4 DEF OutstandingAt

LEMMA ClaimableInt ==
  ASSUME NEW t \in Nat, NEW a, NEW eb, NEW el, NEW la, NEW cl, LedgerOK(a, eb, el, la, cl, t),
         NEW x \in Accounts
  PROVE  ClaimableAt(a, eb, el, la, cl, t, x) \in Int
<1>1. a.start # 0 => RightAccrual(a, t, x) \in Int /\ UnitsAccrual(a, la, t, Held(a.lenders, x)) \in Int
  BY RightAccrualInt, UnitsAccrualInt DEF LedgerOK
<1> QED BY <1>1 DEF ClaimableAt, LedgerOK

(***************************************************************************)
(* What each operation does to its loan.                                   *)
(***************************************************************************)
\* Time passing only adds to what can be claimed.
LEMMA TickLedger ==
  ASSUME NEW t \in Nat, NEW u \in Nat, t <= u,
         NEW a, NEW eb, NEW el, NEW la, NEW cl, LedgerOK(a, eb, el, la, cl, t)
  PROVE  /\ LedgerOK(a, eb, el, la, cl, u)
         /\ OutstandingAt(a, eb, el, la, cl, u) = OutstandingAt(a, eb, el, la, cl, t)
<1>1. a.start # 0 => StartedBy(a, u)
  BY DEF LedgerOK, StartedBy, AllocationType
<1>2. \A x \in Accounts : ClaimableAt(a, eb, el, la, cl, u, x) >= 0
  <2>1. SUFFICES ASSUME NEW x \in Accounts, a.start # 0
                 PROVE  ClaimableAt(a, eb, el, la, cl, u, x) >= 0
    BY DEF ClaimableAt
  <2> DEFINE H == Held(a.lenders, x)
  <2>2. /\ RightAccrual(a, t, x) <= RightAccrual(a, u, x)
        /\ RightAccrual(a, t, x) \in Int /\ RightAccrual(a, u, x) \in Int
    BY <1>1, <2>1, RightAccrualGrows, RightAccrualInt DEF LedgerOK
  <2>3. /\ UnitsAccrual(a, la, t, H) <= UnitsAccrual(a, la, u, H)
        /\ UnitsAccrual(a, la, t, H) \in Int /\ UnitsAccrual(a, la, u, H) \in Int
    BY <1>1, <2>1, UnitsAccrualGrows, UnitsAccrualInt DEF LedgerOK
  <2>4. eb[x] + el[x] + RightAccrual(a, t, x) + UnitsAccrual(a, la, t, H) - cl[x] >= 0
    BY <2>1 DEF LedgerOK, ClaimableAt
  <2>5. eb[x] \in Int /\ el[x] \in Int /\ cl[x] \in Int
    BY DEF LedgerOK
  <2> HIDE DEF H
  <2>6. eb[x] + el[x] + RightAccrual(a, u, x) + UnitsAccrual(a, la, u, H) - cl[x] >= 0
    BY <2>2, <2>3, <2>4, <2>5
  <2> QED BY <2>1, <2>6 DEF ClaimableAt, H
<1>3. a.start # 0 /\ a.end # 0 => CurveAt(a.lenderTotal, a, u) = CurveAt(a.lenderTotal, a, t)
  BY DEF CurveAt, ElapsedAt
<1>4. a.start # 0 => NeverAhead(a, la, u)
  <2>1. SUFFICES ASSUME a.start # 0 PROVE NeverAhead(a, la, u)
    OBVIOUS
  <2>2. a.borrowerAccounted <= CurveAt(a.borrowerTotal, a, u)
    <3>1. CurveAt(a.borrowerTotal, a, t) <= CurveAt(a.borrowerTotal, a, u)
      BY <2>1, CurveGrows DEF LedgerOK, AllocationType
    <3>2. CurveAt(a.borrowerTotal, a, t) \in Nat /\ CurveAt(a.borrowerTotal, a, u) \in Nat
      BY <1>1, <2>1, CurveNat DEF LedgerOK, AllocationType
    <3>3. a.borrowerAccounted \in Int /\ a.borrowerAccounted <= CurveAt(a.borrowerTotal, a, t)
      BY <2>1 DEF LedgerOK, AllocationType, NeverAhead
    <3> QED BY <3>1, <3>2, <3>3
  <2>3. \A i \in Slots : UnitAccrual(a, la, u, i) >= 0
    <3>1. \A i \in Slots : UnitAccrual(a, la, t, i) <= UnitAccrual(a, la, u, i)
      BY <2>1, UnitAccrualGrows DEF LedgerOK
    <3>2. \A i \in Slots : UnitAccrual(a, la, t, i) \in Int /\ UnitAccrual(a, la, u, i) \in Int
      BY <1>1, <2>1, UnitAccrualInt DEF LedgerOK
    <3>3. \A i \in Slots : UnitAccrual(a, la, t, i) >= 0
      BY <2>1 DEF LedgerOK, NeverAhead
    <3> QED BY <3>1, <3>2, <3>3
  <2> QED BY <2>2, <2>3 DEF NeverAhead
<1> QED BY <1>1, <1>2, <1>3, <1>4 DEF LedgerOK, OutstandingAt

\* Nothing has accrued at the moment of activation.
LEMMA ActivateLedger ==
  ASSUME NEW t \in Nat \ {0}, NEW a, NEW eb, NEW el, NEW la, NEW cl, LedgerOK(a, eb, el, la, cl, t),
         a.start = 0,
         NEW b \in AllocationType, b.borrower \in Accounts, b.start = t, b.end = 0, b.term > 0,
         b.borrowerAccounted = 0
  PROVE  /\ LedgerOK(b, eb, el, la, cl, t)
         /\ OutstandingAt(b, eb, el, la, cl, t)
              = OutstandingAt(a, eb, el, la, cl, t) + b.borrowerTotal + b.lenderTotal
         /\ \A x \in Accounts : ClaimableAt(b, eb, el, la, cl, t, x) = ClaimableAt(a, eb, el, la, cl, t, x)
<1>1. StartedBy(b, t)
  BY DEF StartedBy
<1>2. ElapsedAt(b, t) = 0
  BY DEF ElapsedAt, Rewards!Least, AllocationType
<1>3. \A m \in Nat : CurveAt(m, b, t) = 0
  <2>1. b.term * b.term \in Nat \ {0}
    BY <1>1, ElapsedNat
  <2>2. \A m \in Nat, d \in Nat \ {0} : (m * 0 * 0) \div d = 0
    OBVIOUS
  <2> QED BY <1>2, <2>1, <2>2 DEF CurveAt
<1>4. b.borrowerTotal \in Nat /\ b.lenderTotal \in Nat
  BY DEF AllocationType
<1>5. \A i \in Slots : UnitAccrual(b, la, t, i) = 0
  BY <1>3, <1>4 DEF UnitAccrual, Slice, UNITS, Slots, LedgerOK
<1>6. \A S : UnitsAccrual(b, la, t, S) = 0
  BY <1>5, UnitsAccrualIs, FourSlots
<1>7. ASSUME NEW x \in Accounts
      PROVE  ClaimableAt(b, eb, el, la, cl, t, x) = 0 /\ ClaimableAt(a, eb, el, la, cl, t, x) = 0
  <2>1. eb[x] = 0 /\ el[x] = 0 /\ cl[x] = 0
    BY DEF LedgerOK
  <2>2. RightAccrual(b, t, x) = 0
    BY <1>3, <1>4 DEF RightAccrual
  <2>3. UnitsAccrual(b, la, t, Held(b.lenders, x)) = 0
    BY <1>6
  <2> QED BY <2>1, <2>2, <2>3 DEF ClaimableAt
<1>8. SumFunctionOnSet(CreditedAt(eb, el, cl), Accounts) = 0
  <2>1. \A x \in Accounts : CreditedAt(eb, el, cl)[x] = 0
    BY DEF CreditedAt, LedgerOK
  <2> QED BY <2>1, SumZero, Finite
<1>9. SumSlots(la) = 0
  BY FourSlots DEF SumSlots, LedgerOK
<1>10. /\ OutstandingAt(b, eb, el, la, cl, t) = b.borrowerTotal + b.lenderTotal
       /\ OutstandingAt(a, eb, el, la, cl, t) = 0
  BY <1>4, <1>8, <1>9 DEF OutstandingAt, AllocationType
<1>11. NeverAhead(b, la, t)
  BY <1>3, <1>4, <1>5 DEF NeverAhead
<1> QED BY <1>1, <1>4, <1>7, <1>10, <1>11 DEF LedgerOK, AllocationType

\* The seller of the right is credited with what the right has accrued, the
\* buyer starts from there: nobody's total moves.
LEMMA TransferRightLedger ==
  ASSUME NEW t \in Nat, NEW a, NEW eb, NEW el, NEW la, NEW cl, LedgerOK(a, eb, el, la, cl, t),
         a.start # 0, a.end = 0, NEW y \in Accounts,
         NEW b \in AllocationType,
         b.start = a.start, b.end = a.end, b.term = a.term, b.lenders = a.lenders,
         b.borrowerTotal = a.borrowerTotal, b.lenderTotal = a.lenderTotal,
         b.borrower = y, b.borrowerAccounted = CurveAt(a.borrowerTotal, a, t),
         NEW fb \in [Accounts -> Int],
         \A x \in Accounts : fb[x] = eb[x] + (IF x = a.borrower
                                             THEN CurveAt(a.borrowerTotal, a, t) - a.borrowerAccounted ELSE 0)
  PROVE  /\ LedgerOK(b, fb, el, la, cl, t)
         /\ OutstandingAt(b, fb, el, la, cl, t) = OutstandingAt(a, eb, el, la, cl, t)
         /\ \A x \in Accounts : ClaimableAt(b, fb, el, la, cl, t, x) = ClaimableAt(a, eb, el, la, cl, t, x)
<1> DEFINE c == CurveAt(a.borrowerTotal, a, t)
           d == c - a.borrowerAccounted
<1>1. StartedBy(a, t) /\ a \in AllocationType
  BY DEF LedgerOK
<1>2. c \in Nat /\ a.borrowerAccounted \in Int /\ d \in Int /\ a.borrower \in Accounts
  BY <1>1, CurveNat DEF AllocationType, StartedBy
<1>3. StartedBy(b, t)
  BY <1>1, <1>2 DEF StartedBy
<1>4. \A m : CurveAt(m, b, t) = CurveAt(m, a, t)
  BY DEF CurveAt, ElapsedAt
<1>5. \A S : UnitsAccrual(b, la, t, S) = UnitsAccrual(a, la, t, S)
  <2>1. \A i : UnitAccrual(b, la, t, i) = UnitAccrual(a, la, t, i)
    BY <1>4 DEF UnitAccrual
  <2> QED BY <2>1, UnitsAccrualIs
<1>6. \A x \in Accounts : ClaimableAt(b, fb, el, la, cl, t, x) = ClaimableAt(a, eb, el, la, cl, t, x)
  <2>1. TAKE x \in Accounts
  <2> DEFINE u == UnitsAccrual(a, la, t, Held(a.lenders, x))
  <2>2. fb[x] = eb[x] + (IF a.borrower = x THEN d ELSE 0)
    BY <1>2 DEF LedgerOK
  <2>3. RightAccrual(b, t, x) = 0
    <3>1. CurveAt(b.borrowerTotal, b, t) = c
      BY <1>4
    <3>2. b.borrowerAccounted = c
      OBVIOUS
    <3> HIDE DEF c
    <3> QED BY <1>2, <3>1, <3>2 DEF RightAccrual
  <2>4. RightAccrual(a, t, x) = IF a.borrower = x THEN d ELSE 0
    BY DEF RightAccrual
  <2>5. UnitsAccrual(b, la, t, Held(b.lenders, x)) = u
    BY <1>5
  <2>6. eb[x] \in Int /\ el[x] \in Int /\ cl[x] \in Int /\ u \in Int
    BY <1>1, UnitsAccrualInt DEF LedgerOK
  <2>7. /\ ClaimableAt(b, fb, el, la, cl, t, x) = fb[x] + el[x] + 0 + u - cl[x]
        /\ ClaimableAt(a, eb, el, la, cl, t, x) = eb[x] + el[x] + RightAccrual(a, t, x) + u - cl[x]
    BY <2>3, <2>5 DEF ClaimableAt
  <2> HIDE DEF u, c, d
  <2> QED BY <1>2, <2>2, <2>4, <2>6, <2>7
<1>7. OutstandingAt(b, fb, el, la, cl, t) = OutstandingAt(a, eb, el, la, cl, t)
  <2> DEFINE s == SumFunctionOnSet(CreditedAt(eb, el, cl), Accounts)
  <2>1. SumFunctionOnSet(CreditedAt(fb, el, cl), Accounts) = s + d
    <3> DEFINE f == CreditedAt(eb, el, cl)
               g == CreditedAt(fb, el, cl)
    <3>1. d \in Int /\ a.borrower \in Accounts
      BY <1>2
    <3>2. /\ \A x \in Accounts : f[x] \in Int /\ g[x] \in Int
          /\ \A x \in Accounts \ {a.borrower} : g[x] = f[x]
          /\ g[a.borrower] = f[a.borrower] + d
      <4> HIDE DEF d
      <4>1. \A x \in Accounts : fb[x] = eb[x] + (IF x = a.borrower THEN d ELSE 0)
        BY <3>1 DEF LedgerOK, d
      <4> QED BY <3>1, <4>1 DEF CreditedAt, LedgerOK
    <3> HIDE DEF f, g, d
    <3>3. SumFunctionOnSet(g, Accounts) = SumFunctionOnSet(f, Accounts) + d
      BY <3>1, <3>2, SumMoved, Finite
    <3> QED BY <3>3 DEF f, g
  <2>2. s \in Int /\ SumSlots(la) \in Int /\ a.borrowerTotal \in Int /\ a.lenderTotal \in Int
    BY <1>1, CreditedSumInt, FourSlots DEF LedgerOK, SumSlots, AllocationType
  <2>3. /\ OutstandingAt(b, fb, el, la, cl, t) = (s + d) + a.borrowerTotal - c + a.lenderTotal - SumSlots(la)
        /\ OutstandingAt(a, eb, el, la, cl, t)
             = s + a.borrowerTotal - a.borrowerAccounted + a.lenderTotal - SumSlots(la)
    BY <2>1 DEF OutstandingAt
  <2> HIDE DEF s, c
  <2> QED BY <1>2, <2>2, <2>3
<1>8. NeverAhead(b, la, t)
  <2>1. \A i : UnitAccrual(b, la, t, i) = UnitAccrual(a, la, t, i)
    BY <1>4 DEF UnitAccrual
  <2>2. b.borrowerAccounted = c /\ CurveAt(b.borrowerTotal, b, t) = c
    BY <1>4
  <2> HIDE DEF c
  <2> QED BY <1>2, <2>1, <2>2 DEF LedgerOK, NeverAhead
<1> QED BY <1>3, <1>6, <1>7, <1>8 DEF LedgerOK

\* Closing stops the clock: the holder of the right is credited with what it
\* accrued, and what neither side has accrued goes back to the budget.
LEMMA CloseLedger ==
  ASSUME NEW t \in Nat \ {0}, NEW a, NEW eb, NEW el, NEW la, NEW cl, LedgerOK(a, eb, el, la, cl, t),
         a.start # 0, a.end = 0,
         NEW b \in AllocationType,
         b.start = a.start, b.end = t, b.term = a.term, b.lenders = a.lenders,
         b.borrowerTotal = a.borrowerTotal, b.lenderTotal = a.lenderTotal,
         b.borrower = a.borrower, b.borrowerAccounted = CurveAt(a.borrowerTotal, a, t),
         NEW fb \in [Accounts -> Int],
         \A x \in Accounts : fb[x] = eb[x] + (IF x = a.borrower
                                             THEN CurveAt(a.borrowerTotal, a, t) - a.borrowerAccounted ELSE 0)
  PROVE  /\ LedgerOK(b, fb, el, la, cl, t)
         /\ OutstandingAt(b, fb, el, la, cl, t)
              = OutstandingAt(a, eb, el, la, cl, t)
                - (a.borrowerTotal + a.lenderTotal - CurveAt(a.borrowerTotal, a, t) - CurveAt(a.lenderTotal, a, t))
         /\ \A x \in Accounts : ClaimableAt(b, fb, el, la, cl, t, x) = ClaimableAt(a, eb, el, la, cl, t, x)
<1> DEFINE c == CurveAt(a.borrowerTotal, a, t)
           e == CurveAt(a.lenderTotal, a, t)
           d == c - a.borrowerAccounted
<1>1. StartedBy(a, t) /\ a \in AllocationType
  BY DEF LedgerOK
<1>2. c \in Nat /\ e \in Nat /\ a.borrowerAccounted \in Int /\ d \in Int /\ a.borrower \in Accounts
  BY <1>1, CurveNat DEF AllocationType, StartedBy
<1>3. StartedBy(b, t)
  BY <1>1, <1>2 DEF StartedBy
<1>4. \A m : CurveAt(m, b, t) = CurveAt(m, a, t)
  BY DEF CurveAt, ElapsedAt
<1>5. \A S : UnitsAccrual(b, la, t, S) = UnitsAccrual(a, la, t, S)
  <2>1. \A i : UnitAccrual(b, la, t, i) = UnitAccrual(a, la, t, i)
    BY <1>4 DEF UnitAccrual
  <2> QED BY <2>1, UnitsAccrualIs
<1>6. \A x \in Accounts : ClaimableAt(b, fb, el, la, cl, t, x) = ClaimableAt(a, eb, el, la, cl, t, x)
  <2>1. TAKE x \in Accounts
  <2> DEFINE u == UnitsAccrual(a, la, t, Held(a.lenders, x))
  <2>2. fb[x] = eb[x] + (IF a.borrower = x THEN d ELSE 0)
    BY <1>2 DEF LedgerOK
  <2>3. RightAccrual(b, t, x) = 0
    BY DEF RightAccrual
  <2>4. RightAccrual(a, t, x) = IF a.borrower = x THEN d ELSE 0
    BY DEF RightAccrual
  <2>5. UnitsAccrual(b, la, t, Held(b.lenders, x)) = u
    BY <1>5
  <2>6. eb[x] \in Int /\ el[x] \in Int /\ cl[x] \in Int /\ u \in Int
    BY <1>1, UnitsAccrualInt DEF LedgerOK
  <2>7. /\ ClaimableAt(b, fb, el, la, cl, t, x) = fb[x] + el[x] + 0 + u - cl[x]
        /\ ClaimableAt(a, eb, el, la, cl, t, x) = eb[x] + el[x] + RightAccrual(a, t, x) + u - cl[x]
    BY <2>3, <2>5 DEF ClaimableAt
  <2> HIDE DEF u, c, d
  <2> QED BY <1>2, <2>2, <2>4, <2>6, <2>7
<1>7. OutstandingAt(b, fb, el, la, cl, t)
        = OutstandingAt(a, eb, el, la, cl, t) - (a.borrowerTotal + a.lenderTotal - c - e)
  <2> DEFINE s == SumFunctionOnSet(CreditedAt(eb, el, cl), Accounts)
  <2>1. SumFunctionOnSet(CreditedAt(fb, el, cl), Accounts) = s + d
    <3> DEFINE f == CreditedAt(eb, el, cl)
               g == CreditedAt(fb, el, cl)
    <3>1. d \in Int /\ a.borrower \in Accounts
      BY <1>2
    <3>2. /\ \A x \in Accounts : f[x] \in Int /\ g[x] \in Int
          /\ \A x \in Accounts \ {a.borrower} : g[x] = f[x]
          /\ g[a.borrower] = f[a.borrower] + d
      <4> HIDE DEF d
      <4>1. \A x \in Accounts : fb[x] = eb[x] + (IF x = a.borrower THEN d ELSE 0)
        BY <3>1 DEF LedgerOK, d
      <4> QED BY <3>1, <4>1 DEF CreditedAt, LedgerOK
    <3> HIDE DEF f, g, d
    <3>3. SumFunctionOnSet(g, Accounts) = SumFunctionOnSet(f, Accounts) + d
      BY <3>1, <3>2, SumMoved, Finite
    <3> QED BY <3>3 DEF f, g
  <2>2. s \in Int /\ SumSlots(la) \in Int /\ a.borrowerTotal \in Int /\ a.lenderTotal \in Int
    BY <1>1, CreditedSumInt, FourSlots DEF LedgerOK, SumSlots, AllocationType
  <2>3. CurveAt(b.lenderTotal, b, t) = e
    BY <1>4
  <2>4. /\ OutstandingAt(b, fb, el, la, cl, t) = (s + d) + c - c + e - SumSlots(la)
        /\ OutstandingAt(a, eb, el, la, cl, t)
             = s + a.borrowerTotal - a.borrowerAccounted + a.lenderTotal - SumSlots(la)
    BY <2>1, <2>3 DEF OutstandingAt
  <2> HIDE DEF s, c, e
  <2> QED BY <1>2, <2>2, <2>4
<1>8. NeverAhead(b, la, t)
  <2>1. \A i : UnitAccrual(b, la, t, i) = UnitAccrual(a, la, t, i)
    BY <1>4 DEF UnitAccrual
  <2>2. b.borrowerAccounted = c /\ CurveAt(b.borrowerTotal, b, t) = c
    BY <1>4
  <2> HIDE DEF c
  <2> QED BY <1>2, <2>1, <2>2 DEF LedgerOK, NeverAhead
<1> QED BY <1>3, <1>6, <1>7, <1>8 DEF LedgerOK

\* Seller s hands units T of allocation a to y at time t: b, fl and lb are
\* the allocation, the earnings and the accounted parts after the sale.
UnitsSold(a, b, eb, el, fl, la, lb, cl, s, y, T, t) ==
  /\ t \in Nat /\ s \in Accounts /\ y \in Accounts
  /\ LedgerOK(a, eb, el, la, cl, t)
  /\ a.start # 0 /\ a.end = 0
  /\ T \subseteq Held(a.lenders, s)
  /\ b \in AllocationType
  /\ b.start = a.start /\ b.end = a.end /\ b.term = a.term
  /\ b.borrowerTotal = a.borrowerTotal /\ b.lenderTotal = a.lenderTotal
  /\ b.borrower = a.borrower /\ b.borrowerAccounted = a.borrowerAccounted
  /\ \A i \in Slots : b.lenders[i] = IF i \in T THEN y ELSE a.lenders[i]
  /\ fl \in [Accounts -> Int]
  /\ \A x \in Accounts : fl[x] = el[x] + (IF x = s THEN UnitsAccrual(a, la, t, T) ELSE 0)
  /\ lb \in [Slots -> Int]
  /\ \A i \in Slots : lb[i] = IF i \in T THEN Slice(CurveAt(a.lenderTotal, a, t), i) ELSE la[i]

\* The seller of units is credited with what they have accrued, the buyer
\* starts from there: nobody's total moves.
LEMMA TransferLenderLedger ==
  ASSUME NEW t, NEW a, NEW eb, NEW el, NEW la, NEW cl, NEW s, NEW y, NEW T,
         NEW b, NEW fl, NEW lb, UnitsSold(a, b, eb, el, fl, la, lb, cl, s, y, T, t)
  PROVE  /\ LedgerOK(b, eb, fl, lb, cl, t)
         /\ OutstandingAt(b, eb, fl, lb, cl, t) = OutstandingAt(a, eb, el, la, cl, t)
         /\ \A x \in Accounts : ClaimableAt(b, eb, fl, lb, cl, t, x) = ClaimableAt(a, eb, el, la, cl, t, x)
<1> USE DEF UnitsSold
<1> DEFINE e == CurveAt(a.lenderTotal, a, t)
           d == UnitsAccrual(a, la, t, T)
<1>1. StartedBy(a, t) /\ a \in AllocationType /\ la \in [Slots -> Int]
  BY DEF LedgerOK
<1>2. e \in Nat /\ d \in Int /\ T \subseteq Slots
  BY <1>1, CurveNat, UnitsAccrualInt DEF AllocationType, Held
<1>3. StartedBy(b, t)
  BY <1>1 DEF StartedBy
<1>4. \A m : CurveAt(m, b, t) = CurveAt(m, a, t)
  BY DEF CurveAt, ElapsedAt
<1>5. \A i \in Slots : UnitAccrual(b, lb, t, i) = IF i \in T THEN 0 ELSE UnitAccrual(a, la, t, i)
  <2>1. \A i \in Slots : UnitAccrual(b, lb, t, i) = Slice(e, i) - lb[i]
    BY <1>4 DEF UnitAccrual
  <2>2. \A i \in Slots : Slice(e, i) \in Nat
    BY <1>2, SliceNat
  <2>3. \A i \in Slots : lb[i] = IF i \in T THEN Slice(e, i) ELSE la[i]
    OBVIOUS
  <2>4. \A i \in Slots : UnitAccrual(a, la, t, i) = Slice(e, i) - la[i]
    BY DEF UnitAccrual
  <2> HIDE DEF e
  <2> QED BY <2>1, <2>2, <2>3, <2>4
<1>6. \A i \in Slots : UnitAccrual(a, la, t, i) \in Int
  BY <1>1, UnitAccrualInt
<1>7. \A x \in Accounts : ClaimableAt(b, eb, fl, lb, cl, t, x) = ClaimableAt(a, eb, el, la, cl, t, x)
  <2>1. TAKE x \in Accounts
  <2> DEFINE H == Held(a.lenders, x)
             u == UnitsAccrual(a, la, t, H)
             v == UnitsAccrual(a, la, t, H \ T)
  <2>2. fl[x] = el[x] + (IF x = s THEN d ELSE 0)
    BY <1>2 DEF LedgerOK
  <2>3. UnitsAccrual(b, lb, t, Held(b.lenders, x)) = v
    <3>1. \A i \in Slots : i \notin T => (i \in Held(b.lenders, x) <=> i \in H \ T)
      BY DEF Held
    <3>2. \A i \in Slots : (IF i \in Held(b.lenders, x) THEN UnitAccrual(b, lb, t, i) ELSE 0)
                            = (IF i \in H \ T THEN UnitAccrual(a, la, t, i) ELSE 0)
      BY <3>1, <1>5
    <3> HIDE DEF H
    <3> QED BY <3>2, FourSlots, UnitsAccrualIs
  <2>4. u = (IF x = s THEN d ELSE 0) + v
    <3>1. CASE x = s
      <4>1. H \in SUBSET Slots /\ T \in SUBSET H
        BY <3>1 DEF Held
      <4> QED BY <3>1, <4>1, <1>1, UnitsAccrualSplit
    <3>2. CASE x # s
      <4>1. H \ T = H
        BY <3>2 DEF Held
      <4>2. v \in Int
        BY <1>1, UnitsAccrualInt
      <4>3. u = v
        BY <4>1
      <4> HIDE DEF u, v, d
      <4> QED BY <3>2, <4>2, <4>3
    <3> QED BY <3>1, <3>2
  <2>5. RightAccrual(b, t, x) = RightAccrual(a, t, x)
    BY <1>4 DEF RightAccrual
  <2>6. /\ eb[x] \in Int /\ el[x] \in Int /\ cl[x] \in Int /\ u \in Int /\ v \in Int
        /\ RightAccrual(a, t, x) \in Int
    BY <1>1, UnitsAccrualInt, RightAccrualInt DEF LedgerOK
  <2>7. /\ ClaimableAt(b, eb, fl, lb, cl, t, x) = eb[x] + fl[x] + RightAccrual(a, t, x) + v - cl[x]
        /\ ClaimableAt(a, eb, el, la, cl, t, x) = eb[x] + el[x] + RightAccrual(a, t, x) + u - cl[x]
    BY <2>3, <2>5 DEF ClaimableAt
  <2> HIDE DEF u, v, d
  <2> QED BY <1>2, <2>2, <2>4, <2>6, <2>7
<1>8. OutstandingAt(b, eb, fl, lb, cl, t) = OutstandingAt(a, eb, el, la, cl, t)
  <2> DEFINE z == SumFunctionOnSet(CreditedAt(eb, el, cl), Accounts)
  <2>1. SumFunctionOnSet(CreditedAt(eb, fl, cl), Accounts) = z + d
    <3> DEFINE f == CreditedAt(eb, el, cl)
               g == CreditedAt(eb, fl, cl)
    <3>1. /\ \A x \in Accounts : f[x] \in Int /\ g[x] \in Int
          /\ \A x \in Accounts \ {s} : g[x] = f[x]
          /\ g[s] = f[s] + d
      <4>1. \A x \in Accounts : fl[x] = el[x] + (IF x = s THEN d ELSE 0)
        BY <1>2 DEF LedgerOK
      <4> HIDE DEF d
      <4> QED BY <1>2, <4>1 DEF CreditedAt, LedgerOK
    <3> HIDE DEF f, g, d
    <3>2. SumFunctionOnSet(g, Accounts) = SumFunctionOnSet(f, Accounts) + d
      BY <1>2, <3>1, SumMoved, Finite
    <3> QED BY <3>2 DEF f, g
  <2>2. z \in Int /\ SumSlots(la) \in Int /\ a.borrowerTotal \in Int /\ a.lenderTotal \in Int
        /\ a.borrowerAccounted \in Int
    BY <1>1, CreditedSumInt, FourSlots DEF LedgerOK, SumSlots, AllocationType
  <2>3. SumSlots(lb) = SumSlots(la) + d
    <3>1. \A i \in Slots : lb[i] = la[i] + (IF i \in T THEN UnitAccrual(a, la, t, i) ELSE 0)
      <4>1. \A i \in Slots : UnitAccrual(a, la, t, i) = Slice(e, i) - la[i]
        BY DEF UnitAccrual
      <4>2. \A i \in Slots : lb[i] = IF i \in T THEN Slice(e, i) ELSE la[i]
        OBVIOUS
      <4>3. \A i \in Slots : Slice(e, i) \in Nat
        BY <1>2, SliceNat
      <4> HIDE DEF e
      <4> QED BY <1>1, <4>1, <4>2, <4>3
    <3>2. \A i \in Slots : (IF i \in T THEN UnitAccrual(a, la, t, i) ELSE 0) \in Int
      BY <1>6
    <3>3. d = (IF 0 \in T THEN UnitAccrual(a, la, t, 0) ELSE 0) + (IF 1 \in T THEN UnitAccrual(a, la, t, 1) ELSE 0)
              + (IF 2 \in T THEN UnitAccrual(a, la, t, 2) ELSE 0) + (IF 3 \in T THEN UnitAccrual(a, la, t, 3) ELSE 0)
      BY UnitsAccrualIs
    <3> HIDE DEF d
    <3> QED BY <1>1, <3>1, <3>2, <3>3, FourSlots DEF SumSlots
  <2>4. /\ OutstandingAt(b, eb, fl, lb, cl, t)
             = (z + d) + a.borrowerTotal - a.borrowerAccounted + a.lenderTotal - SumSlots(lb)
        /\ OutstandingAt(a, eb, el, la, cl, t)
             = z + a.borrowerTotal - a.borrowerAccounted + a.lenderTotal - SumSlots(la)
    BY <2>1 DEF OutstandingAt
  <2> HIDE DEF z, d
  <2> QED BY <1>2, <2>2, <2>3, <2>4
<1>9. NeverAhead(b, lb, t)
  <2>1. \A i \in Slots : UnitAccrual(b, lb, t, i) >= 0
    BY <1>5 DEF LedgerOK, NeverAhead
  <2>2. b.borrowerAccounted = a.borrowerAccounted
        /\ CurveAt(b.borrowerTotal, b, t) = CurveAt(a.borrowerTotal, a, t)
    BY <1>4
  <2> QED BY <2>1, <2>2 DEF LedgerOK, NeverAhead
<1> QED BY <1>3, <1>7, <1>8, <1>9 DEF LedgerOK

\* A claim pays an account exactly what it can claim.
LEMMA ClaimLedger ==
  ASSUME NEW t \in Nat, NEW a, NEW eb, NEW el, NEW la, NEW cl, LedgerOK(a, eb, el, la, cl, t),
         a.start # 0, NEW y \in Accounts,
         NEW d, d = ClaimableAt(a, eb, el, la, cl, t, y),
         NEW dl \in [Accounts -> Int],
         \A x \in Accounts : dl[x] = cl[x] + (IF x = y THEN d ELSE 0)
  PROVE  /\ LedgerOK(a, eb, el, la, dl, t)
         /\ OutstandingAt(a, eb, el, la, dl, t) = OutstandingAt(a, eb, el, la, cl, t) - d
         /\ \A x \in Accounts : ClaimableAt(a, eb, el, la, dl, t, x) + dl[x]
                                  = ClaimableAt(a, eb, el, la, cl, t, x) + cl[x]
<1>1. d \in Int
  BY ClaimableInt
<1>2. dl \in [Accounts -> Int] /\ \A x \in Accounts : dl[x] = cl[x] + (IF x = y THEN d ELSE 0)
  OBVIOUS
<1>3. \A x \in Accounts : ClaimableAt(a, eb, el, la, dl, t, x)
                            = ClaimableAt(a, eb, el, la, cl, t, x) - (IF x = y THEN d ELSE 0)
  <2> TAKE x \in Accounts
  <2> DEFINE u == UnitsAccrual(a, la, t, Held(a.lenders, x))
             r == RightAccrual(a, t, x)
  <2>1. u \in Int /\ r \in Int
    BY UnitsAccrualInt, RightAccrualInt DEF LedgerOK
  <2>2. eb[x] \in Int /\ el[x] \in Int /\ cl[x] \in Int
    BY DEF LedgerOK
  <2>3. /\ ClaimableAt(a, eb, el, la, dl, t, x) = eb[x] + el[x] + r + u - dl[x]
        /\ ClaimableAt(a, eb, el, la, cl, t, x) = eb[x] + el[x] + r + u - cl[x]
    BY DEF ClaimableAt
  <2> HIDE DEF u, r
  <2> QED BY <1>1, <1>2, <2>1, <2>2, <2>3
<1>4. \A x \in Accounts : ClaimableAt(a, eb, el, la, cl, t, x) \in Int /\ cl[x] \in Int
  BY ClaimableInt DEF LedgerOK
<1>5. \A x \in Accounts : ClaimableAt(a, eb, el, la, dl, t, x) >= 0
  <2> TAKE x \in Accounts
  <2> DEFINE q == ClaimableAt(a, eb, el, la, cl, t, x)
  <2>1. q \in Int /\ q >= 0 /\ (x = y => q = d)
    BY <1>4 DEF LedgerOK
  <2>2. ClaimableAt(a, eb, el, la, dl, t, x) = q - (IF x = y THEN d ELSE 0)
    BY <1>3
  <2> HIDE DEF q
  <2> QED BY <1>1, <2>1, <2>2
<1>6. \A x \in Accounts : ClaimableAt(a, eb, el, la, dl, t, x) + dl[x] = ClaimableAt(a, eb, el, la, cl, t, x) + cl[x]
  <2> TAKE x \in Accounts
  <2> DEFINE q == ClaimableAt(a, eb, el, la, cl, t, x)
  <2>1. q \in Int /\ cl[x] \in Int
    BY <1>4
  <2>2. ClaimableAt(a, eb, el, la, dl, t, x) = q - (IF x = y THEN d ELSE 0)
    BY <1>3
  <2>3. dl[x] = cl[x] + (IF x = y THEN d ELSE 0)
    BY <1>2
  <2>4. ClaimableAt(a, eb, el, la, cl, t, x) = q
    OBVIOUS
  <2> HIDE DEF q
  <2> QED BY <1>1, <2>1, <2>2, <2>3, <2>4
<1>7. OutstandingAt(a, eb, el, la, dl, t) = OutstandingAt(a, eb, el, la, cl, t) - d
  <2> DEFINE f == CreditedAt(eb, el, cl)
             g == CreditedAt(eb, el, dl)
             z == SumFunctionOnSet(f, Accounts)
             w == (IF a.end = 0 THEN a.borrowerTotal ELSE a.borrowerAccounted)
             v == (IF a.end = 0 THEN a.lenderTotal ELSE CurveAt(a.lenderTotal, a, t))
  <2>1. /\ \A x \in Accounts : f[x] \in Int /\ g[x] \in Int
        /\ \A x \in Accounts \ {y} : g[x] = f[x]
        /\ g[y] = f[y] + (-d)
    BY <1>1, <1>2 DEF CreditedAt, LedgerOK
  <2>2. z \in Int /\ SumSlots(la) \in Int /\ w \in Int /\ v \in Int /\ a.borrowerAccounted \in Int
    BY CreditedSumInt, FourSlots, CurveNat DEF LedgerOK, SumSlots, AllocationType
  <2>3. /\ OutstandingAt(a, eb, el, la, dl, t)
             = SumFunctionOnSet(g, Accounts) + w - a.borrowerAccounted + v - SumSlots(la)
        /\ OutstandingAt(a, eb, el, la, cl, t) = z + w - a.borrowerAccounted + v - SumSlots(la)
    BY DEF OutstandingAt
  <2> HIDE DEF f, g, w, v
  <2>4. SumFunctionOnSet(g, Accounts) = z + (-d)
    BY <1>1, <2>1, SumMoved, Finite
  <2> HIDE DEF z
  <2> QED BY <1>1, <2>2, <2>3, <2>4
<1> QED BY <1>2, <1>5, <1>6, <1>7 DEF LedgerOK

(***************************************************************************)
(* What the reserve covers.                                                *)
(***************************************************************************)
\* What one loan can still draw covers every account's claim on it, and what
\* a close would give back to the budget.
LEMMA OutstandingCovers ==
  ASSUME NEW t \in Nat, NEW a, NEW eb, NEW el, NEW la, NEW cl, LedgerOK(a, eb, el, la, cl, t)
  PROVE  /\ \A x \in Accounts : ClaimableAt(a, eb, el, la, cl, t, x) <= OutstandingAt(a, eb, el, la, cl, t)
         /\ OutstandingAt(a, eb, el, la, cl, t) >= 0
         /\ a.start # 0 /\ a.end = 0 =>
              a.borrowerTotal + a.lenderTotal - CurveAt(a.borrowerTotal, a, t) - CurveAt(a.lenderTotal, a, t)
                <= OutstandingAt(a, eb, el, la, cl, t)
<1>1. CASE a.start = 0
  BY <1>1 DEF OutstandingAt, ClaimableAt
<1>2. CASE a.start # 0
  <2> DEFINE sum(g) == SumFunctionOnSet(g, Accounts)
             owing(x) == ClaimableAt(a, eb, el, la, cl, t, x)
             O == OutstandingAt(a, eb, el, la, cl, t)
             B == CurveAt(a.borrowerTotal, a, t)
             L == CurveAt(a.lenderTotal, a, t)
             k == CreditedAt(eb, el, cl)
             r == [x \in Accounts |-> RightAccrual(a, t, x)]
             part(i) == UnitAccrual(a, la, t, i)
             h(i) == [x \in Accounts |-> IF a.lenders[i] = x THEN part(i) ELSE 0]
             q == [x \in Accounts |-> owing(x)]
             g0 == [x \in Accounts |-> k[x] + r[x]]
             g1 == [x \in Accounts |-> g0[x] + h(0)[x]]
             g2 == [x \in Accounts |-> g1[x] + h(1)[x]]
             g3 == [x \in Accounts |-> g2[x] + h(2)[x]]
             g4 == [x \in Accounts |-> g3[x] + h(3)[x]]
  <2>1. StartedBy(a, t) /\ NeverAhead(a, la, t) /\ a \in AllocationType /\ la \in [Slots -> Int]
    BY <1>2 DEF LedgerOK
  <2>2. /\ B \in Nat /\ L \in Nat /\ a.borrowerTotal \in Nat /\ a.lenderTotal \in Nat
        /\ a.borrowerAccounted \in Int /\ a.borrowerAccounted <= B
        /\ B <= a.borrowerTotal /\ L <= a.lenderTotal
    BY <2>1, CurveNat, CurveBound DEF AllocationType, NeverAhead
  <2>3. \A i \in Slots : part(i) \in Int /\ part(i) >= 0
    BY <2>1, UnitAccrualInt DEF NeverAhead
  <2>4. /\ \A x \in Accounts : k[x] \in Int /\ r[x] \in Int
        /\ \A i \in Slots, x \in Accounts : h(i)[x] \in Int
        /\ \A x \in Accounts : k[x] = eb[x] + el[x] - cl[x] /\ eb[x] \in Int /\ el[x] \in Int /\ cl[x] \in Int
    BY <2>1, <2>3, RightAccrualInt DEF CreditedAt, LedgerOK
  <2>5. \A x \in Accounts : owing(x) \in Int /\ owing(x) >= 0
    BY ClaimableInt DEF LedgerOK
  <2>6. q = g4
    <3>1. \A x \in Accounts : UnitsAccrual(a, la, t, Held(a.lenders, x)) = h(0)[x] + h(1)[x] + h(2)[x] + h(3)[x]
      BY UnitsAccrualIs, FourSlots DEF Held
    <3>2. \A x \in Accounts : owing(x) = eb[x] + el[x] + r[x] + (h(0)[x] + h(1)[x] + h(2)[x] + h(3)[x]) - cl[x]
      BY <1>2, <3>1 DEF ClaimableAt
    <3> HIDE DEF owing, k, r, h
    <3>3. \A x \in Accounts : owing(x) = g4[x]
      BY <3>2, <2>4, FourSlots
    <3> QED BY <3>3
  <2>7. \A i \in Slots : sum(h(i)) <= part(i) /\ sum(h(i)) \in Int
    <3> TAKE i \in Slots
    <3> DEFINE f == h(i)
    <3>1. CASE a.lenders[i] \in Accounts
      <4> DEFINE y == a.lenders[i]
      <4>1. y \in Accounts /\ f[y] = part(i) /\ f[y] \in Int /\ \A x \in Accounts \ {y} : f[x] = 0
        BY <2>3, <3>1
      <4> HIDE DEF f, y
      <4>2. sum(f) = f[y]
        BY <4>1, SumOne, Finite
      <4> QED BY <2>3, <4>1, <4>2 DEF f
    <3>2. CASE a.lenders[i] \notin Accounts
      <4>1. \A x \in Accounts : f[x] = 0
        BY <3>2
      <4> HIDE DEF f
      <4>2. sum(f) = 0
        BY <4>1, SumZero, Finite
      <4> QED BY <2>3, <4>2 DEF f
    <3> QED BY <3>1, <3>2
  <2>8. sum(r) = IF a.end = 0 THEN B - a.borrowerAccounted ELSE 0
    <3>1. CASE a.end = 0
      <4>1. a.borrower \in Accounts
        BY <2>1 DEF StartedBy
      <4>2. r[a.borrower] = B - a.borrowerAccounted /\ \A x \in Accounts \ {a.borrower} : r[x] = 0
        BY <3>1, <4>1 DEF RightAccrual
      <4>3. r[a.borrower] \in Int
        BY <2>4, <4>1
      <4> HIDE DEF r, B
      <4>4. sum(r) = r[a.borrower]
        BY <4>1, <4>2, <4>3, SumOne, Finite
      <4> QED BY <3>1, <4>2, <4>4
    <3>2. CASE a.end # 0
      <4>1. \A x \in Accounts : r[x] = 0
        BY <3>2 DEF RightAccrual
      <4> HIDE DEF r
      <4> QED BY <3>2, <4>1, SumZero, Finite
    <3> QED BY <3>1, <3>2
  <2>9. part(0) + part(1) + part(2) + part(3) = L - SumSlots(la)
    <3>1. Slice(L, 0) + Slice(L, 1) + Slice(L, 2) + Slice(L, 3) = L
      BY <2>2, SlicesSumToWhole DEF Share, SumSlots, Slots
    <3>2. \A i \in Slots : Slice(L, i) \in Nat /\ la[i] \in Int /\ part(i) = Slice(L, i) - la[i]
      BY <2>1, <2>2, SliceNat DEF UnitAccrual
    <3> HIDE DEF part, L
    <3> QED BY <2>2, <3>1, <3>2, FourSlots DEF SumSlots
  <2>10. O = sum(k) + (IF a.end = 0 THEN a.borrowerTotal ELSE a.borrowerAccounted) - a.borrowerAccounted
             + (IF a.end = 0 THEN a.lenderTotal ELSE L) - SumSlots(la)
    BY <1>2 DEF OutstandingAt
  <2>11. /\ \A x \in Accounts : k[x] \in Int /\ r[x] \in Int /\ g0[x] = k[x] + r[x]
         /\ \A x \in Accounts : g0[x] \in Int /\ h(0)[x] \in Int /\ g1[x] = g0[x] + h(0)[x]
         /\ \A x \in Accounts : g1[x] \in Int /\ h(1)[x] \in Int /\ g2[x] = g1[x] + h(1)[x]
         /\ \A x \in Accounts : g2[x] \in Int /\ h(2)[x] \in Int /\ g3[x] = g2[x] + h(2)[x]
         /\ \A x \in Accounts : g3[x] \in Int /\ h(3)[x] \in Int /\ g4[x] = g3[x] + h(3)[x]
    <3> HIDE DEF k, r, h
    <3> QED BY <2>4, FourSlots
  <2>12. sum(k) \in Int /\ sum(r) \in Int /\ SumSlots(la) \in Int
    <3>1. SumSlots(la) \in Int
      BY <2>1, FourSlots DEF SumSlots
    <3> HIDE DEF k, r
    <3> QED BY <3>1, <2>4, SumType, Finite
  <2>13. \A x \in Accounts : owing(x) <= sum(q) /\ sum(q) \in Nat
    <3>1. \A x \in Accounts : q[x] \in Nat /\ q[x] = owing(x)
      BY <2>5
    <3> HIDE DEF q, owing
    <3> QED BY <3>1, SumCovers, Finite
  <2>14. sum(q) \in Int /\ sum(q) >= 0
    <3>1. \A x \in Accounts : q[x] \in Int /\ q[x] >= 0
      BY <2>5
    <3> HIDE DEF q
    <3> QED BY <3>1, SumType, Finite
  <2> HIDE DEF h, g0, g1, g2, g3, g4, k, r, q, owing, part, O, B, L
  <2>15. /\ sum(g0) = sum(k) + sum(r)
         /\ sum(g1) = sum(g0) + sum(h(0))
         /\ sum(g2) = sum(g1) + sum(h(1))
         /\ sum(g3) = sum(g2) + sum(h(2))
         /\ sum(g4) = sum(g3) + sum(h(3))
    BY <2>11, SumPlus, Finite
  <2>16. /\ sum(h(0)) <= part(0) /\ part(0) \in Int /\ sum(h(0)) \in Int
         /\ sum(h(1)) <= part(1) /\ part(1) \in Int /\ sum(h(1)) \in Int
         /\ sum(h(2)) <= part(2) /\ part(2) \in Int /\ sum(h(2)) \in Int
         /\ sum(h(3)) <= part(3) /\ part(3) \in Int /\ sum(h(3)) \in Int
    BY <2>3, <2>7, FourSlots
  <2>17. sum(q) <= sum(k) + sum(r) + (L - SumSlots(la))
    BY <2>6, <2>9, <2>12, <2>15, <2>16
  <2>18. sum(q) + (IF a.end = 0 THEN a.borrowerTotal + a.lenderTotal - B - L ELSE 0) <= O
    BY <2>2, <2>8, <2>10, <2>12, <2>14, <2>17
  <2>19. O \in Int
    BY <2>2, <2>10, <2>12
  <2>20. sum(q) <= O /\ O >= 0 /\ (a.end = 0 => a.borrowerTotal + a.lenderTotal - B - L <= O)
    BY <2>2, <2>14, <2>18, <2>19
  <2>21. \A x \in Accounts : owing(x) <= O
    BY <2>5, <2>13, <2>14, <2>19, <2>20
  <2> QED BY <2>20, <2>21 DEF owing, O, B, L
<1> QED BY <1>1, <1>2

(***************************************************************************)
(* The invariant of the reward ledger.                                     *)
(***************************************************************************)
LoanLedger(id) ==
  LedgerOK(allocations[id], earnedBorrower[id], earnedLender[id], lenderAccounted[id], claimed[id], now)

Owed(id) ==
  OutstandingAt(allocations[id], earnedBorrower[id], earnedLender[id], lenderAccounted[id], claimed[id], now)

EarnedIn(id, x) ==
  ClaimableAt(allocations[id], earnedBorrower[id], earnedLender[id], lenderAccounted[id], claimed[id], now, x)
  + claimed[id][x]

RewardTypes ==
  /\ now \in Nat \ {0}
  /\ allocations \in [LoanIds -> AllocationType]
  /\ earnedBorrower \in [LoanIds -> [Accounts -> Int]]
  /\ earnedLender \in [LoanIds -> [Accounts -> Int]]
  /\ lenderAccounted \in [LoanIds -> [Slots -> Int]]
  /\ claimed \in [LoanIds -> [Accounts -> Int]]
  /\ free \in Int
  /\ reserved \in Int

LoanLedgers == \A id \in LoanIds : LoanLedger(id)

ReserveIsOwed == reserved = SumFunctionOnSet([id \in LoanIds |-> Owed(id)], LoanIds)

RewardsInv == RewardTypes /\ LoanLedgers /\ ReserveIsOwed

\* Nothing of loan id in the reward ledger moves.
SameAllocation(id) ==
  /\ allocations'[id] = allocations[id]
  /\ earnedBorrower'[id] = earnedBorrower[id]
  /\ earnedLender'[id] = earnedLender[id]
  /\ lenderAccounted'[id] = lenderAccounted[id]
  /\ claimed'[id] = claimed[id]

\* Nobody's earned total moves on any loan.
EarningsKept == \A id \in LoanIds, x \in Accounts : EarnedIn(id, x)' = EarnedIn(id, x)

\* Loan id moves the reserve by d, as much as it moves what the loan can draw.
LoanMoves(id, d) ==
  /\ \A i \in LoanIds \ {id} : SameAllocation(i)
  /\ LoanLedger(id)'
  /\ Owed(id)' = Owed(id) + d
  /\ reserved' = reserved + d
  /\ \A x \in Accounts : EarnedIn(id, x)' = EarnedIn(id, x)

LEMMA RewardsInvInit == Rewards!Init => RewardsInv
<1> SUFFICES ASSUME Rewards!Init PROVE RewardsInv
  OBVIOUS
<1> USE DEF Rewards!Init
<1>1. Rewards!NoAllocation \in AllocationType /\ Rewards!NoAllocation.start = 0 /\ Rewards!NoAllocation.end = 0
  BY RewardSlots DEF Rewards!NoAllocation, AllocationType
<1>2. RewardTypes
  BY <1>1, RewardSlots DEF RewardTypes
<1>3. LoanLedgers
  <2>1. SUFFICES ASSUME NEW id \in LoanIds PROVE LoanLedger(id)
    BY DEF LoanLedgers
  <2>2. allocations[id] = Rewards!NoAllocation /\ \A i \in Slots : lenderAccounted[id][i] = 0
    BY RewardSlots
  <2>3. \A x \in Accounts : earnedBorrower[id][x] = 0 /\ earnedLender[id][x] = 0 /\ claimed[id][x] = 0
    OBVIOUS
  <2> QED BY <1>1, <1>2, <2>2, <2>3 DEF LoanLedger, LedgerOK, ClaimableAt, RewardTypes
<1>4. ReserveIsOwed
  <2>1. \A id \in LoanIds : [i \in LoanIds |-> Owed(i)][id] = 0
    BY <1>1 DEF Owed, OutstandingAt
  <2> QED BY <2>1, SumZero, Finite DEF ReserveIsOwed
<1> QED BY <1>2, <1>3, <1>4 DEF RewardsInv

LEMMA LedgerStep ==
  ASSUME RewardsInv, RewardTypes', now' = now,
         NEW id \in LoanIds, NEW d \in Int, LoanMoves(id, d)
  PROVE  RewardsInv' /\ EarningsKept
<1>1. \A i \in LoanIds \ {id} : /\ LoanLedger(i)'
                               /\ Owed(i)' = Owed(i)
                               /\ \A x \in Accounts : EarnedIn(i, x)' = EarnedIn(i, x)
  BY DEF LoanMoves, SameAllocation, RewardsInv, LoanLedgers, LoanLedger, Owed, EarnedIn
<1>2. LoanLedgers'
  BY <1>1 DEF LoanMoves, LoanLedgers
<1>3. EarningsKept
  BY <1>1 DEF LoanMoves, EarningsKept
<1>4. ReserveIsOwed'
  <2> DEFINE f == [i \in LoanIds |-> Owed(i)]
             g == [i \in LoanIds |-> Owed(i)']
  <2>1. \A i \in LoanIds : Owed(i) \in Int
    BY OutstandingInt DEF RewardsInv, RewardTypes, LoanLedgers, LoanLedger, Owed
  <2>2. /\ \A i \in LoanIds : f[i] \in Int /\ g[i] \in Int
        /\ \A i \in LoanIds \ {id} : g[i] = f[i]
        /\ g[id] = f[id] + d
    BY <1>1, <2>1 DEF LoanMoves
  <2>3. reserved = SumFunctionOnSet(f, LoanIds) /\ reserved' = reserved + d
    BY DEF RewardsInv, ReserveIsOwed, LoanMoves
  <2> HIDE DEF f, g
  <2>4. SumFunctionOnSet(g, LoanIds) = SumFunctionOnSet(f, LoanIds) + d
    BY <2>2, SumMoved, Finite
  <2>5. reserved' = SumFunctionOnSet(g, LoanIds)
    BY <2>3, <2>4
  <2> QED BY <2>5 DEF ReserveIsOwed, g
<1> QED BY <1>2, <1>3, <1>4 DEF RewardsInv

LEMMA ActivateStep ==
  ASSUME RewardsInv, NEW id \in LoanIds, NEW y \in Accounts \cup {NoAccount},
         NEW table \in [Slots -> Accounts \cup {NoAccount}],
         NEW term \in Nat, NEW br \in Nat, NEW lr \in Nat,
         Rewards!Activate(id, y, table, term, br, lr)
  PROVE  RewardsInv' /\ EarningsKept
<1> USE DEF Rewards!Activate
<1> DEFINE a == allocations[id]
           b == [borrower |-> y, start |-> now, end |-> 0, term |-> term,
                 borrowerTotal |-> br, lenderTotal |-> lr, borrowerAccounted |-> 0, lenders |-> table]
<1>1. b \in AllocationType /\ y \in Accounts /\ now \in Nat \ {0}
  BY DEF AllocationType, RewardsInv, RewardTypes
<1>2. allocations' = [allocations EXCEPT ![id] = b]
  OBVIOUS
<1>3. allocations'[id] = b /\ \A i \in LoanIds \ {id} : allocations'[i] = allocations[i]
  BY <1>2 DEF RewardsInv, RewardTypes
<1>4. RewardTypes'
  BY <1>1, <1>2 DEF RewardsInv, RewardTypes
<1>5. LedgerOK(a, earnedBorrower[id], earnedLender[id], lenderAccounted[id], claimed[id], now) /\ a.start = 0
  BY DEF RewardsInv, LoanLedgers, LoanLedger
<1>6. /\ b.borrower \in Accounts /\ b.start = now /\ b.end = 0 /\ b.term > 0 /\ b.borrowerAccounted = 0
      /\ b.borrowerTotal = br /\ b.lenderTotal = lr
  BY <1>1
<1> HIDE DEF a, b
<1>7. /\ LedgerOK(b, earnedBorrower[id], earnedLender[id], lenderAccounted[id], claimed[id], now)
      /\ OutstandingAt(b, earnedBorrower[id], earnedLender[id], lenderAccounted[id], claimed[id], now)
           = OutstandingAt(a, earnedBorrower[id], earnedLender[id], lenderAccounted[id], claimed[id], now) + br + lr
      /\ \A x \in Accounts :
           ClaimableAt(b, earnedBorrower[id], earnedLender[id], lenderAccounted[id], claimed[id], now, x)
           = ClaimableAt(a, earnedBorrower[id], earnedLender[id], lenderAccounted[id], claimed[id], now, x)
  BY <1>1, <1>5, <1>6, ActivateLedger
<1>8. OutstandingAt(a, earnedBorrower[id], earnedLender[id], lenderAccounted[id], claimed[id], now) \in Int
  BY <1>1, <1>5, OutstandingInt
<1>9. LoanMoves(id, br + lr)
  <2>1. \A i \in LoanIds \ {id} : SameAllocation(i)
    BY <1>3 DEF SameAllocation
  <2>2. LoanLedger(id)'
    BY <1>3, <1>7 DEF LoanLedger
  <2>3. Owed(id)' = Owed(id) + (br + lr)
    BY <1>3, <1>7, <1>8 DEF Owed, a
  <2>4. reserved' = reserved + (br + lr)
    BY DEF RewardsInv, RewardTypes
  <2>5. \A x \in Accounts : EarnedIn(id, x)' = EarnedIn(id, x)
    BY <1>3, <1>7 DEF EarnedIn, a
  <2> QED BY <2>1, <2>2, <2>3, <2>4, <2>5 DEF LoanMoves
<1> QED BY <1>4, <1>9, LedgerStep

\* What the invariant says of one loan, with the names the steps below use.
LEMMA OneLedger ==
  ASSUME RewardsInv, NEW id \in LoanIds
  PROVE  /\ LedgerOK(allocations[id], earnedBorrower[id], earnedLender[id], lenderAccounted[id], claimed[id], now)
         /\ OutstandingAt(allocations[id], earnedBorrower[id], earnedLender[id], lenderAccounted[id],
                          claimed[id], now) \in Int
         /\ now \in Nat \ {0}
         /\ allocations[id] \in AllocationType
         /\ allocations[id].start # 0 => StartedBy(allocations[id], now)
<1>1. LedgerOK(allocations[id], earnedBorrower[id], earnedLender[id], lenderAccounted[id], claimed[id], now)
  BY DEF RewardsInv, LoanLedgers, LoanLedger
<1>2. now \in Nat \ {0}
  BY DEF RewardsInv, RewardTypes
<1>3. OutstandingAt(allocations[id], earnedBorrower[id], earnedLender[id], lenderAccounted[id],
                    claimed[id], now) \in Int
  BY <1>1, <1>2, OutstandingInt
<1> QED BY <1>1, <1>2, <1>3 DEF LedgerOK

LEMMA TransferRightStep ==
  ASSUME RewardsInv, NEW id \in LoanIds, NEW y \in Accounts, Rewards!TransferRight(id, y)
  PROVE  RewardsInv' /\ EarningsKept
<1> DEFINE a == allocations[id]
           eb == earnedBorrower[id]
           c == CurveAt(a.borrowerTotal, a, now)
           b == [a EXCEPT !.borrower = y, !.borrowerAccounted = c]
           fb == [eb EXCEPT ![a.borrower] = @ + (c - a.borrowerAccounted)]
<1>1. /\ a.start # 0 /\ a.end = 0
      /\ allocations' = [allocations EXCEPT ![id] = b]
      /\ earnedBorrower' = [earnedBorrower EXCEPT ![id][a.borrower] = @ + (c - a.borrowerAccounted)]
      /\ UNCHANGED <<now, earnedLender, lenderAccounted, claimed, free, reserved>>
  BY CurveIs DEF Rewards!TransferRight, Rewards!Checkpoint, Rewards!BorrowerAccrual, Rewards!Live
<1>2. /\ LedgerOK(a, eb, earnedLender[id], lenderAccounted[id], claimed[id], now)
      /\ OutstandingAt(a, eb, earnedLender[id], lenderAccounted[id], claimed[id], now) \in Int
      /\ now \in Nat
  BY OneLedger
<1>3. /\ allocations'[id] = b /\ earnedBorrower'[id] = fb
      /\ \A i \in LoanIds \ {id} : SameAllocation(i)
  BY <1>1 DEF RewardsInv, RewardTypes, SameAllocation
<1> HIDE DEF a, eb
<1>d. /\ b \in AllocationType /\ fb \in [Accounts -> Int]
      /\ b.start = a.start /\ b.end = a.end /\ b.term = a.term /\ b.lenders = a.lenders
      /\ b.borrowerTotal = a.borrowerTotal /\ b.lenderTotal = a.lenderTotal
      /\ b.borrower = y /\ b.borrowerAccounted = CurveAt(a.borrowerTotal, a, now)
      /\ \A x \in Accounts : fb[x] = eb[x] + (IF x = a.borrower THEN c - a.borrowerAccounted ELSE 0)
  <2>1. /\ a \in AllocationType /\ a.borrower \in Accounts /\ a.borrowerAccounted \in Int
        /\ c \in Int /\ eb \in [Accounts -> Int]
    BY <1>1, <1>2, CurveNat DEF LedgerOK, StartedBy, AllocationType
  <2> HIDE DEF c
  <2>2. b \in AllocationType
    BY <2>1 DEF AllocationType
  <2> QED BY <2>1, <2>2 DEF AllocationType, c
<1> HIDE DEF b, fb
<1>4. /\ LedgerOK(b, fb, earnedLender[id], lenderAccounted[id], claimed[id], now)
      /\ OutstandingAt(b, fb, earnedLender[id], lenderAccounted[id], claimed[id], now)
           = OutstandingAt(a, eb, earnedLender[id], lenderAccounted[id], claimed[id], now)
      /\ \A x \in Accounts :
           ClaimableAt(b, fb, earnedLender[id], lenderAccounted[id], claimed[id], now, x)
           = ClaimableAt(a, eb, earnedLender[id], lenderAccounted[id], claimed[id], now, x)
  BY <1>1, <1>2, <1>d, TransferRightLedger
<1>5. RewardTypes'
  <2>1. b \in AllocationType /\ fb \in [Accounts -> Int]
    BY <1>4 DEF LedgerOK
  <2>2. earnedBorrower' = [earnedBorrower EXCEPT ![id] = fb]
    BY <1>1 DEF fb, eb
  <2> QED BY <1>1, <2>1, <2>2 DEF RewardsInv, RewardTypes
<1>6. LoanMoves(id, 0)
  <2>1. LoanLedger(id)'
    BY <1>1, <1>3, <1>4 DEF LoanLedger
  <2>2. Owed(id)' = Owed(id) + 0
    BY <1>1, <1>2, <1>3, <1>4 DEF Owed, a, eb
  <2>3. reserved' = reserved + 0
    BY <1>1 DEF RewardsInv, RewardTypes
  <2>4. \A x \in Accounts : EarnedIn(id, x)' = EarnedIn(id, x)
    BY <1>1, <1>3, <1>4 DEF EarnedIn, a, eb
  <2> QED BY <1>3, <2>1, <2>2, <2>3, <2>4 DEF LoanMoves
<1> QED BY <1>1, <1>5, <1>6, LedgerStep

LEMMA TransferLenderStep ==
  ASSUME RewardsInv, NEW id \in LoanIds, NEW s \in Accounts, NEW y \in Accounts, NEW T \in SUBSET Slots,
         Rewards!TransferLender(id, s, y, T)
  PROVE  RewardsInv' /\ EarningsKept
<1> DEFINE a == allocations[id]
           el == earnedLender[id]
           la == lenderAccounted[id]
           b == [a EXCEPT !.lenders = [i \in Slots |-> IF i \in T THEN y ELSE a.lenders[i]]]
           fl == [el EXCEPT ![s] = @ + UnitsAccrual(a, la, now, T)]
           lb == [i \in Slots |-> IF i \in T THEN Slice(CurveAt(a.lenderTotal, a, now), i) ELSE la[i]]
<1>1. /\ a.start # 0 /\ a.end = 0
      /\ T \subseteq Held(a.lenders, s)
      /\ allocations' = [allocations EXCEPT ![id].lenders = [i \in Slots |-> IF i \in T THEN y ELSE @[i]]]
      /\ earnedLender' = [earnedLender EXCEPT ![id][s] = @ + UnitsAccrual(a, la, now, T)]
      /\ lenderAccounted' = [lenderAccounted EXCEPT ![id] = lb]
      /\ UNCHANGED <<now, earnedBorrower, claimed, free, reserved>>
  BY RewardSlots, CurveIs, LenderAccrualIs DEF Rewards!TransferLender, Rewards!Live
<1>2. /\ LedgerOK(a, earnedBorrower[id], el, la, claimed[id], now)
      /\ OutstandingAt(a, earnedBorrower[id], el, la, claimed[id], now) \in Int
      /\ now \in Nat
  BY OneLedger
<1>3. /\ allocations'[id] = b /\ earnedLender'[id] = fl /\ lenderAccounted'[id] = lb
      /\ \A i \in LoanIds \ {id} : SameAllocation(i)
  BY <1>1 DEF RewardsInv, RewardTypes, SameAllocation
<1>4. allocations' = [allocations EXCEPT ![id] = b] /\ earnedLender' = [earnedLender EXCEPT ![id] = fl]
  BY <1>1
<1> HIDE DEF a, el, la
<1>d. UnitsSold(a, b, earnedBorrower[id], el, fl, la, lb, claimed[id], s, y, T, now)
  <2>1. a \in AllocationType /\ StartedBy(a, now) /\ el \in [Accounts -> Int] /\ la \in [Slots -> Int]
    BY <1>1, <1>2 DEF LedgerOK
  <2>2. b \in AllocationType
    BY <2>1 DEF AllocationType
  <2>3. UnitsAccrual(a, la, now, T) \in Int /\ CurveAt(a.lenderTotal, a, now) \in Nat
    BY <1>2, <2>1, UnitsAccrualInt, CurveNat DEF AllocationType
  <2>4. lb \in [Slots -> Int]
    BY <2>1, <2>3, SliceNat
  <2>5. /\ LedgerOK(a, earnedBorrower[id], el, la, claimed[id], now)
        /\ now \in Nat /\ a.start # 0 /\ a.end = 0 /\ T \subseteq Held(a.lenders, s)
    BY <1>1, <1>2
  <2> QED BY <2>1, <2>2, <2>3, <2>4, <2>5 DEF AllocationType, UnitsSold
<1> HIDE DEF b, fl, lb
<1>5. /\ LedgerOK(b, earnedBorrower[id], fl, lb, claimed[id], now)
      /\ OutstandingAt(b, earnedBorrower[id], fl, lb, claimed[id], now)
           = OutstandingAt(a, earnedBorrower[id], el, la, claimed[id], now)
      /\ \A x \in Accounts :
           ClaimableAt(b, earnedBorrower[id], fl, lb, claimed[id], now, x)
           = ClaimableAt(a, earnedBorrower[id], el, la, claimed[id], now, x)
  BY <1>d, TransferLenderLedger
<1>6. RewardTypes'
  <2>1. b \in AllocationType /\ fl \in [Accounts -> Int] /\ lb \in [Slots -> Int]
    BY <1>5 DEF LedgerOK
  <2>2. lenderAccounted' = [lenderAccounted EXCEPT ![id] = lb]
    BY <1>1
  <2>3. UNCHANGED <<now, earnedBorrower, claimed, free, reserved>>
    BY <1>1
  <2> QED BY <1>4, <2>1, <2>2, <2>3 DEF RewardsInv, RewardTypes
<1>7. LoanMoves(id, 0)
  <2>1. LoanLedger(id)'
    BY <1>1, <1>3, <1>5 DEF LoanLedger
  <2>2. Owed(id)' = Owed(id) + 0
    BY <1>1, <1>2, <1>3, <1>5 DEF Owed, a, el, la
  <2>3. reserved' = reserved + 0
    BY <1>1 DEF RewardsInv, RewardTypes
  <2>4. \A x \in Accounts : EarnedIn(id, x)' = EarnedIn(id, x)
    BY <1>1, <1>3, <1>5 DEF EarnedIn, a, el, la
  <2> QED BY <1>3, <2>1, <2>2, <2>3, <2>4 DEF LoanMoves
<1> QED BY <1>1, <1>6, <1>7, LedgerStep

LEMMA RewardsCloseStep ==
  ASSUME RewardsInv, NEW id \in LoanIds, Rewards!Close(id)
  PROVE  RewardsInv' /\ EarningsKept
<1> DEFINE a == allocations[id]
           eb == earnedBorrower[id]
           c == CurveAt(a.borrowerTotal, a, now)
           e == CurveAt(a.lenderTotal, a, now)
           b == [a EXCEPT !.end = now, !.borrowerAccounted = c]
           fb == [eb EXCEPT ![a.borrower] = @ + (c - a.borrowerAccounted)]
           d == a.borrowerTotal + a.lenderTotal - c - e
<1>1. /\ LedgerOK(a, eb, earnedLender[id], lenderAccounted[id], claimed[id], now)
      /\ OutstandingAt(a, eb, earnedLender[id], lenderAccounted[id], claimed[id], now) \in Int
      /\ now \in Nat \ {0}
      /\ a \in AllocationType
      /\ a.start # 0 => StartedBy(a, now)
  BY OneLedger
<1>2. a.start # 0 /\ a.end = 0
  BY DEF Rewards!Close, Rewards!Live
<1>3. \A m : CurveAt(m, [a EXCEPT !.end = now], now) = CurveAt(m, a, now)
  BY <1>1, <1>2 DEF CurveAt, ElapsedAt, AllocationType
<1>4. /\ allocations' = [allocations EXCEPT ![id] = b]
      /\ earnedBorrower' = [earnedBorrower EXCEPT ![id] = fb]
      /\ reserved' = reserved - d
      /\ free' = free + d
      /\ UNCHANGED <<now, earnedLender, lenderAccounted, claimed>>
  <2> DEFINE z == [a EXCEPT !.end = now]
  <2>1. /\ z.borrowerTotal = a.borrowerTotal /\ z.lenderTotal = a.lenderTotal
        /\ z.borrower = a.borrower /\ z.borrowerAccounted = a.borrowerAccounted
    BY <1>1 DEF AllocationType
  <2>2. [z EXCEPT !.borrowerAccounted = c] = b
    BY <1>1 DEF AllocationType
  <2>3. /\ allocations' = [allocations EXCEPT ![id] = [z EXCEPT !.borrowerAccounted = CurveAt(z.borrowerTotal, z, now)]]
        /\ earnedBorrower' = [earnedBorrower EXCEPT ![id][z.borrower] =
                                @ + (CurveAt(z.borrowerTotal, z, now) - z.borrowerAccounted)]
        /\ reserved' = reserved - (z.borrowerTotal + z.lenderTotal
                                   - CurveAt(z.borrowerTotal, z, now) - CurveAt(z.lenderTotal, z, now))
        /\ free' = free + (z.borrowerTotal + z.lenderTotal
                           - CurveAt(z.borrowerTotal, z, now) - CurveAt(z.lenderTotal, z, now))
        /\ UNCHANGED <<now, earnedLender, lenderAccounted, claimed>>
    BY CurveIs DEF Rewards!Close, Rewards!Checkpoint, Rewards!BorrowerAccrual
  <2> HIDE DEF z, a
  <2>4. CurveAt(z.borrowerTotal, z, now) = c /\ CurveAt(z.lenderTotal, z, now) = e
    BY <1>3, <2>1 DEF z
  <2>5. earnedBorrower' = [earnedBorrower EXCEPT ![id][a.borrower] = @ + (c - a.borrowerAccounted)]
    BY <2>1, <2>3, <2>4
  <2> QED BY <2>1, <2>2, <2>3, <2>4, <2>5
<1>5. /\ allocations'[id] = b /\ earnedBorrower'[id] = fb
      /\ \A i \in LoanIds \ {id} : SameAllocation(i)
  BY <1>4 DEF RewardsInv, RewardTypes, SameAllocation
<1>6. d \in Int
  BY <1>1, <1>2, CurveNat DEF AllocationType
<1> HIDE DEF a, eb
<1>f. /\ b \in AllocationType /\ fb \in [Accounts -> Int]
      /\ b.start = a.start /\ b.end = now /\ b.term = a.term /\ b.lenders = a.lenders
      /\ b.borrowerTotal = a.borrowerTotal /\ b.lenderTotal = a.lenderTotal
      /\ b.borrower = a.borrower /\ b.borrowerAccounted = CurveAt(a.borrowerTotal, a, now)
      /\ \A x \in Accounts : fb[x] = eb[x] + (IF x = a.borrower THEN c - a.borrowerAccounted ELSE 0)
  <2>1. a.borrower \in Accounts /\ a.borrowerAccounted \in Int /\ c \in Int /\ eb \in [Accounts -> Int]
    BY <1>1, <1>2, CurveNat DEF LedgerOK, StartedBy, AllocationType
  <2> HIDE DEF c
  <2>2. b \in AllocationType
    BY <1>1, <2>1 DEF AllocationType
  <2> QED BY <1>1, <2>1, <2>2 DEF AllocationType, c
<1>g. d = a.borrowerTotal + a.lenderTotal - CurveAt(a.borrowerTotal, a, now) - CurveAt(a.lenderTotal, a, now)
  OBVIOUS
<1> HIDE DEF b, fb, d
<1>7. /\ LedgerOK(b, fb, earnedLender[id], lenderAccounted[id], claimed[id], now)
      /\ OutstandingAt(b, fb, earnedLender[id], lenderAccounted[id], claimed[id], now)
           = OutstandingAt(a, eb, earnedLender[id], lenderAccounted[id], claimed[id], now)
             - (a.borrowerTotal + a.lenderTotal - CurveAt(a.borrowerTotal, a, now) - CurveAt(a.lenderTotal, a, now))
      /\ \A x \in Accounts :
           ClaimableAt(b, fb, earnedLender[id], lenderAccounted[id], claimed[id], now, x)
           = ClaimableAt(a, eb, earnedLender[id], lenderAccounted[id], claimed[id], now, x)
  BY <1>1, <1>2, <1>f, CloseLedger
<1>8. RewardTypes'
  <2>1. b \in AllocationType /\ fb \in [Accounts -> Int]
    BY <1>7 DEF LedgerOK
  <2> QED BY <1>4, <1>6, <2>1 DEF RewardsInv, RewardTypes
<1>9. LoanMoves(id, -d)
  <2>1. LoanLedger(id)'
    BY <1>4, <1>5, <1>7 DEF LoanLedger
  <2>2. Owed(id)' = Owed(id) + (-d)
    <3>1. Owed(id) \in Int /\ Owed(id)' = Owed(id) - d
      BY <1>1, <1>4, <1>5, <1>7, <1>g DEF Owed, a, eb
    <3> QED BY <1>6, <3>1
  <2>3. reserved' = reserved + (-d)
    BY <1>4, <1>6 DEF RewardsInv, RewardTypes
  <2>4. \A x \in Accounts : EarnedIn(id, x)' = EarnedIn(id, x)
    BY <1>4, <1>5, <1>7 DEF EarnedIn, a, eb
  <2> QED BY <1>5, <2>1, <2>2, <2>3, <2>4 DEF LoanMoves
<1>10. -d \in Int
  BY <1>6
<1> QED BY <1>4, <1>8, <1>9, <1>10, LedgerStep

LEMMA ClaimStep ==
  ASSUME RewardsInv, NEW id \in LoanIds, NEW y \in Accounts, Rewards!Claim(id, y)
  PROVE  RewardsInv' /\ EarningsKept /\ now' = now
<1> DEFINE a == allocations[id]
           cl == claimed[id]
           d == ClaimableAt(a, earnedBorrower[id], earnedLender[id], lenderAccounted[id], cl, now, y)
           dl == [cl EXCEPT ![y] = @ + d]
<1>1. /\ d > 0
      /\ claimed' = [claimed EXCEPT ![id] = dl]
      /\ reserved' = reserved - d
      /\ UNCHANGED <<now, allocations, earnedBorrower, earnedLender, lenderAccounted, free>>
  BY ClaimableIs DEF Rewards!Claim
<1>2. /\ LedgerOK(a, earnedBorrower[id], earnedLender[id], lenderAccounted[id], cl, now)
      /\ OutstandingAt(a, earnedBorrower[id], earnedLender[id], lenderAccounted[id], cl, now) \in Int
      /\ now \in Nat
  BY OneLedger
<1>3. claimed'[id] = dl /\ \A i \in LoanIds \ {id} : SameAllocation(i)
  BY <1>1 DEF RewardsInv, RewardTypes, SameAllocation
<1> HIDE DEF a, cl
<1>4. d \in Int /\ a.start # 0
  <2>1. d \in Int
    BY <1>2, ClaimableInt
  <2>2. a.start = 0 => d = 0
    BY DEF ClaimableAt
  <2> HIDE DEF d
  <2> QED BY <1>1, <2>1, <2>2
<1>5. /\ d = ClaimableAt(a, earnedBorrower[id], earnedLender[id], lenderAccounted[id], cl, now, y)
      /\ dl \in [Accounts -> Int]
      /\ \A x \in Accounts : dl[x] = cl[x] + (IF x = y THEN d ELSE 0)
  <2>1. cl \in [Accounts -> Int]
    BY <1>2 DEF LedgerOK
  <2> QED BY <1>4, <2>1
<1> HIDE DEF d, dl
<1>6. /\ LedgerOK(a, earnedBorrower[id], earnedLender[id], lenderAccounted[id], dl, now)
      /\ OutstandingAt(a, earnedBorrower[id], earnedLender[id], lenderAccounted[id], dl, now)
           = OutstandingAt(a, earnedBorrower[id], earnedLender[id], lenderAccounted[id], cl, now) - d
      /\ \A x \in Accounts :
           ClaimableAt(a, earnedBorrower[id], earnedLender[id], lenderAccounted[id], dl, now, x) + dl[x]
           = ClaimableAt(a, earnedBorrower[id], earnedLender[id], lenderAccounted[id], cl, now, x) + cl[x]
  BY <1>2, <1>4, <1>5, ClaimLedger
<1>7. RewardTypes'
  <2>1. dl \in [Accounts -> Int]
    BY <1>6 DEF LedgerOK
  <2> QED BY <1>1, <1>4, <2>1 DEF RewardsInv, RewardTypes
<1>8. LoanMoves(id, -d)
  <2>1. LoanLedger(id)'
    BY <1>1, <1>3, <1>6 DEF LoanLedger, a
  <2>2. Owed(id)' = Owed(id) + (-d)
    <3>1. Owed(id) \in Int /\ Owed(id)' = Owed(id) - d
      BY <1>1, <1>2, <1>3, <1>6 DEF Owed, a, cl
    <3> QED BY <1>4, <3>1
  <2>3. reserved' = reserved + (-d)
    BY <1>1, <1>4 DEF RewardsInv, RewardTypes
  <2>4. \A x \in Accounts : EarnedIn(id, x)' = EarnedIn(id, x)
    BY <1>1, <1>3, <1>6 DEF EarnedIn, a, cl
  <2> QED BY <1>3, <2>1, <2>2, <2>3, <2>4 DEF LoanMoves
<1>9. -d \in Int
  BY <1>4
<1> QED BY <1>1, <1>7, <1>8, <1>9, LedgerStep

LEMMA FundStep ==
  ASSUME RewardsInv, NEW amount \in Int, Rewards!Fund(amount)
  PROVE  RewardsInv' /\ EarningsKept /\ now' = now
<1> USE DEF Rewards!Fund
<1>1. RewardTypes'
  BY DEF RewardsInv, RewardTypes
<1>2. LoanLedgers' /\ EarningsKept
  BY DEF RewardsInv, LoanLedgers, LoanLedger, EarningsKept, EarnedIn
<1>3. ReserveIsOwed'
  BY DEF RewardsInv, ReserveIsOwed, Owed
<1> QED BY <1>1, <1>2, <1>3 DEF RewardsInv

LEMMA TickStep == ASSUME RewardsInv, Rewards!Tick PROVE RewardsInv' /\ now' # now
<1>1. /\ now \in Nat \ {0} /\ now' = now + 1 /\ now' \in Nat \ {0} /\ now <= now'
      /\ UNCHANGED <<allocations, earnedBorrower, earnedLender, lenderAccounted, claimed, free, reserved>>
  BY DEF Rewards!Tick, Rewards!rewardLedger, RewardsInv, RewardTypes
<1>2. RewardTypes'
  BY <1>1 DEF RewardsInv, RewardTypes
<1>3. \A id \in LoanIds : LoanLedger(id)' /\ Owed(id)' = Owed(id)
  <2> TAKE id \in LoanIds
  <2>1. LedgerOK(allocations[id], earnedBorrower[id], earnedLender[id], lenderAccounted[id], claimed[id], now)
    BY OneLedger
  <2>2. /\ LedgerOK(allocations[id], earnedBorrower[id], earnedLender[id], lenderAccounted[id], claimed[id], now')
        /\ OutstandingAt(allocations[id], earnedBorrower[id], earnedLender[id], lenderAccounted[id], claimed[id], now')
           = OutstandingAt(allocations[id], earnedBorrower[id], earnedLender[id], lenderAccounted[id], claimed[id], now)
    BY <1>1, <2>1, TickLedger
  <2> QED BY <1>1, <2>2 DEF LoanLedger, Owed
<1>4. ReserveIsOwed'
  <2> DEFINE f == [i \in LoanIds |-> Owed(i)]
             g == [i \in LoanIds |-> Owed(i)']
  <2>1. f = g
    BY <1>3
  <2>2. reserved = SumFunctionOnSet(f, LoanIds)
    BY DEF RewardsInv, ReserveIsOwed
  <2> HIDE DEF f
  <2>3. reserved' = SumFunctionOnSet(g, LoanIds)
    BY <1>1, <2>1, <2>2
  <2> QED BY <2>3 DEF ReserveIsOwed
<1> QED BY <1>1, <1>2, <1>3, <1>4 DEF RewardsInv, LoanLedgers

LEMMA RewardsStutter ==
  ASSUME RewardsInv, UNCHANGED rewardVars
  PROVE  RewardsInv' /\ EarningsKept /\ now' = now
<1> USE DEF rewardVars
<1>1. RewardTypes'
  BY DEF RewardsInv, RewardTypes
<1>2. LoanLedgers' /\ EarningsKept
  BY DEF RewardsInv, LoanLedgers, LoanLedger, EarningsKept, EarnedIn
<1>3. ReserveIsOwed'
  BY DEF RewardsInv, ReserveIsOwed, Owed
<1> QED BY <1>1, <1>2, <1>3 DEF RewardsInv

(***************************************************************************)
(* The reward ledger under the vault's actions.                            *)
(***************************************************************************)
\* Every step of the engine keeps the ledger's invariant, and one that does
\* not move the clock keeps everybody's earned total.
LEMMA RewardsNext ==
  IInv /\ RewardsInv /\ [Next]_vars => RewardsInv' /\ (now' = now => EarningsKept)
<1> SUFFICES ASSUME IInv, RewardsInv, [Next]_vars
             PROVE  RewardsInv' /\ (now' = now => EarningsKept)
  OBVIOUS
<1>1. CASE UNCHANGED rewardVars
  BY <1>1, RewardsStutter
<1>2. CASE DoFundLast
  <2>1. PICK id \in LoanIds, n \in UnitCounts, a \in Buyers : FundLast(id, n, a)
    BY <1>2 DEF DoFundLast
  <2> DEFINE l == loans[id]
  <2>2. /\ l.originator \in Accounts \cup {NoAccount} /\ l.term \in Nat
        /\ l.borrowerReward \in Nat /\ l.lenderReward \in Nat
    BY DEF IInv, TypeOK, LoanType
  <2>3. lenders'[id] \in [Slots -> Accounts \cup {NoAccount}]
    BY <2>1, VaultAssumption DEF FundLast, Commit, IInv, TypeOK
  <2>4. Rewards!Activate(id, l.originator, lenders'[id], l.term, l.borrowerReward, l.lenderReward)
    BY <2>1 DEF FundLast
  <2> HIDE DEF l
  <2> QED BY <2>2, <2>3, <2>4, ActivateStep
<1>3. CASE DoReclaim
  <2>1. PICK id \in LoanIds : Rewards!Close(id)
    BY <1>3 DEF DoReclaim, Reclaim, Close
  <2> QED BY <2>1, RewardsCloseStep
<1>4. CASE DoFinalizeDefault
  <2>1. PICK id \in LoanIds : Rewards!Close(id)
    BY <1>4 DEF DoFinalizeDefault, FinalizeDefault, Close
  <2> QED BY <2>1, RewardsCloseStep
<1>5. CASE DoBuy
  <2>1. PICK id \in LoanIds, a \in Buyers : Rewards!TransferRight(id, a)
    BY <1>5 DEF DoBuy, Buy
  <2>2. a \in Accounts
    BY VaultAssumption
  <2> QED BY <2>1, <2>2, TransferRightStep
<1>6. CASE DoBuyLender
  <2>1. PICK id \in LoanIds, seller \in Accounts, a \in Buyers :
          Rewards!TransferLender(id, seller, a, lenderAsks[id][seller].slots)
    BY <1>6 DEF DoBuyLender, BuyLender
  <2>2. a \in Accounts
    BY VaultAssumption
  <2>3. lenderAsks[id][seller].slots \in SUBSET Slots
    BY DEF IInv, TypeOK, LenderAskType
  <2> QED BY <2>1, <2>2, <2>3, TransferLenderStep
<1>7. CASE DoClaimReward
  <2>1. PICK id \in LoanIds, a \in Accounts : Rewards!Claim(id, a)
    BY <1>7 DEF DoClaimReward, ClaimReward
  <2> QED BY <2>1, ClaimStep
<1>8. CASE FundRewards
  <2>1. PICK amount \in Donations : Rewards!Fund(amount)
    BY <1>8 DEF FundRewards, Rewards!DoFund
  <2>2. amount \in Int
    BY VaultAssumption
  <2> QED BY <2>1, <2>2, FundStep
<1>9. CASE Tick
  BY <1>9, TickStep DEF Tick
<1>10. DoList \/ DoFundPart \/ DoWithdrawCommitment \/ DoCancelFunding => UNCHANGED rewardVars
  BY DEF DoList, List, DoFundPart, FundPart, DoWithdrawCommitment, WithdrawCommitment,
         DoCancelFunding, CancelFunding
<1>11. DoWithdrawCollateral \/ DoWithdrawRepaidUnderlying \/ DoRecoverDefault \/ DoWithdrawRecovery
       \/ DoAddLiquidity => UNCHANGED rewardVars
  BY DEF DoWithdrawCollateral, WithdrawCollateral, DoWithdrawRepaidUnderlying, WithdrawRepaidUnderlying,
         DoRecoverDefault, RecoverDefault, DoWithdrawRecovery, WithdrawRecovery, DoAddLiquidity,
         AddLiquidity, custodyFrame
<1>12. DoSetAsk \/ DoCancelAsk \/ DoSetLenderAsk \/ DoCancelLenderAsk => UNCHANGED rewardVars
  BY DEF DoSetAsk, SetAsk, DoCancelAsk, CancelAsk, DoSetLenderAsk, SetLenderAsk,
         DoCancelLenderAsk, CancelLenderAsk
<1>13. DoWithdrawUSDG \/ RegistryStep \/ UNCHANGED vars => UNCHANGED rewardVars
  BY DEF DoWithdrawUSDG, WithdrawUSDG, RegistryStep, vars
<1> QED
  BY <1>1, <1>2, <1>3, <1>4, <1>5, <1>6, <1>7, <1>8, <1>9, <1>10, <1>11, <1>12, <1>13 DEF Next

\* For every state: the types, the per-loan ledgers, and the reserve.
THEOREM RewardsInductive == Spec => [](IInv /\ RewardsInv)
<1>1. Init => RewardsInv
  BY RewardsInvInit DEF Init
<1> QED BY <1>1, RewardsNext, Inductive, PTL DEF Spec

\* The reserve is what the loans can still draw, and nobody was paid more than
\* it earned.
LEMMA ReserveFollows == RewardsInv => RewardsAreReserved
<1> SUFFICES ASSUME RewardsInv PROVE RewardsAreReserved
  OBVIOUS
<1>1. [id \in LoanIds |-> Rewards!Outstanding(id)] = [id \in LoanIds |-> Owed(id)]
  BY OutstandingIs DEF Owed
<1>2. reserved = SumFunction([id \in LoanIds |-> Rewards!Outstanding(id)])
  <2> DEFINE f == [id \in LoanIds |-> Owed(id)]
  <2>1. SumFunction(f) = SumFunctionOnSet(f, LoanIds)
    BY DEF SumFunction
  <2> QED BY <1>1, <2>1 DEF RewardsInv, ReserveIsOwed
<1>3. \A id \in LoanIds, x \in Accounts : Rewards!Claimable(id, x) >= 0
  BY ClaimableIs DEF RewardsInv, LoanLedgers, LoanLedger, LedgerOK
<1> QED BY RewardSlots, <1>2, <1>3 DEF RewardsAreReserved, Rewards!ReserveMatchesLiability

\* A sale of the right or of units, a close, a claim or a donation leaves every
\* account's earned total where it was, at whatever moment and in whatever
\* order they happen: only the clock makes anyone earn.
THEOREM SalesKeepThePast == Spec => SalesMoveOnlyTheFuture
<1>1. \A id, x : Rewards!Earned(id, x) = EarnedIn(id, x)
  BY ClaimableIs DEF Rewards!Earned, EarnedIn
<1>2. (\A id, x : Rewards!Earned(id, x) = EarnedIn(id, x))'
  BY <1>1, PTL
<1>3. \A id, x : Rewards!Earned(id, x)' = EarnedIn(id, x)'
  BY <1>2
<1>4. IInv /\ RewardsInv /\ [Next]_vars =>
        [now' = now /\ Rewards!rewardLedger' # Rewards!rewardLedger =>
           \A id \in LoanIds, x \in Accounts : Rewards!Earned(id, x)' = Rewards!Earned(id, x)]_(Rewards!rewardVars)
  <2> SUFFICES ASSUME IInv, RewardsInv, [Next]_vars, now' = now
               PROVE  \A id \in LoanIds, x \in Accounts : Rewards!Earned(id, x)' = Rewards!Earned(id, x)
    OBVIOUS
  <2>1. EarningsKept
    BY RewardsNext
  <2> QED BY <2>1, <1>1, <1>3 DEF EarningsKept
<1> QED BY <1>4, RewardsInductive, PTL DEF Spec, SalesMoveOnlyTheFuture, Rewards!SaleMovesOnlyTheFuture

(***************************************************************************)
(* The running totals of the engine are the sums they stand for: the cash  *)
(* it accounts for, the exposure of each market, the reward reserve; and   *)
(* the reward ledger follows the right and the units.  Each operation      *)
(* touches one loan, so each total moves by what that loan's entry moves   *)
(* (BooksMove); what is particular to an operation is how much.            *)
(***************************************************************************)

(***************************************************************************)
(* One loan's entries in the sums, as functions of its records.            *)
(***************************************************************************)
CommittedAt(l, units) ==
  IF l.state = "FUNDING" THEN Share(l.principal, Slots \ Held(units, NoAccount)) ELSE 0

ExposureAt(l, k) ==
  IF l.state \in OpenStates /\ l.exposureKey = k THEN l.exposureAmount ELSE 0

\* A loan, its right, its units and its allocation agree; an open loan counts in a market.
Follows(l, owner, units, a) ==
  /\ l.state \in OpenStates => l.exposureKey \in Keys
  /\ l.state = "ACTIVE" <=> a.start # 0 /\ a.end = 0
  /\ l.state = "ACTIVE" => a.borrower = owner
  /\ l.state \in {"ACTIVE", "REPAID", "DEFAULTED"} => a.lenders = units

Credits == SumFunctionOnSet(cashCredit, Accounts)
Commitments == SumFunctionOnSet([id \in LoanIds |-> CommittedAt(loans[id], lenders[id])], LoanIds)
Exposures(k) == SumFunctionOnSet([id \in LoanIds |-> ExposureAt(loans[id], k)], LoanIds)

CashBalanced == accountedCash = Credits + Commitments
ExposureBalanced == \A k \in Keys : openExposure[k] = Exposures(k)
LedgerFollows == \A id \in LoanIds : Follows(loans[id], right[id], lenders[id], allocations[id])

Books == CashBalanced /\ ExposureBalanced /\ LedgerFollows

\* The entries of every loan but id stay.
OnlyRecord(id) ==
  \A j \in LoanIds \ {id} :
    /\ loans'[j] = loans[j] /\ lenders'[j] = lenders[j]
    /\ right'[j] = right[j] /\ allocations'[j] = allocations[j]

\* Credits move by c and the cash accounted for by w.
CashMoves(c, w) ==
  /\ c \in Int /\ w \in Int
  /\ SumFunctionOnSet(cashCredit', Accounts) = Credits + c
  /\ accountedCash' = accountedCash + w

\* The exposure of key moves by d, that of the others not at all.
ExposureMoves(key, d) ==
  /\ d \in Int
  /\ \A k \in Keys : openExposure'[k] = openExposure[k] + (IF k = key THEN d ELSE 0)

(***************************************************************************)
(* Types of the sums.                                                      *)
(***************************************************************************)
LEMMA CommittedInt == \A l \in LoanType : \A units : CommittedAt(l, units) \in Int
BY ShareNat DEF CommittedAt, LoanType

LEMMA ExposureInt == \A l \in LoanType : \A k : ExposureAt(l, k) \in Int
BY DEF ExposureAt, LoanType

LEMMA CreditsInt == TypeOK => Credits \in Int
BY SumType, Finite DEF TypeOK, Credits

LEMMA CommitmentsInt == TypeOK => Commitments \in Int
<1> SUFFICES ASSUME TypeOK PROVE Commitments \in Int
  OBVIOUS
<1> DEFINE f == [id \in LoanIds |-> CommittedAt(loans[id], lenders[id])]
<1>1. \A id \in LoanIds : f[id] \in Int
  BY CommittedInt DEF TypeOK
<1> HIDE DEF f
<1>2. SumFunctionOnSet(f, LoanIds) \in Int
  BY <1>1, SumType, Finite
<1> QED BY <1>2 DEF Commitments, f

(***************************************************************************)
(* A step that touches one loan.                                           *)
(***************************************************************************)
LEMMA BooksMove ==
  ASSUME TypeOK, TypeOK', Books, NEW id \in LoanIds, OnlyRecord(id),
         Follows(loans'[id], right'[id], lenders'[id], allocations'[id]),
         NEW c, NEW w, CashMoves(c, w),
         CommittedAt(loans'[id], lenders'[id]) = CommittedAt(loans[id], lenders[id]) + (w - c),
         NEW key, NEW d, ExposureMoves(key, d),
         \A k \in Keys : ExposureAt(loans'[id], k) = ExposureAt(loans[id], k) + (IF k = key THEN d ELSE 0)
  PROVE  Books'
<1>1. CashBalanced'
  <2> DEFINE f == [j \in LoanIds |-> CommittedAt(loans[j], lenders[j])]
             g == [j \in LoanIds |-> CommittedAt(loans'[j], lenders'[j])]
  <2>1. \A j \in LoanIds : CommittedAt(loans'[j], lenders'[j]) \in Int
    BY CommittedInt DEF TypeOK
  <2>2. /\ \A j \in LoanIds : f[j] \in Int /\ g[j] \in Int
        /\ \A j \in LoanIds \ {id} : g[j] = f[j]
        /\ g[id] = f[id] + (w - c)
    BY <2>1, CommittedInt DEF OnlyRecord, TypeOK
  <2>3. w - c \in Int
    BY DEF CashMoves
  <2>4. f = [j \in LoanIds |-> CommittedAt(loans[j], lenders[j])]
        /\ g = [j \in LoanIds |-> CommittedAt(loans'[j], lenders'[j])]
    OBVIOUS
  <2> HIDE DEF f, g
  <2>5. SumFunctionOnSet(g, LoanIds) = SumFunctionOnSet(f, LoanIds) + (w - c)
    BY <2>2, <2>3, SumMoved, Finite
  <2>6. Commitments = SumFunctionOnSet(f, LoanIds) /\ Commitments' = SumFunctionOnSet(g, LoanIds)
    BY <2>4 DEF Commitments
  <2>7. Credits' = Credits + c /\ accountedCash' = accountedCash + w /\ c \in Int /\ w \in Int
    BY DEF CashMoves, Credits
  <2>8. accountedCash = Credits + Commitments /\ Credits \in Int /\ Commitments \in Int
    BY CreditsInt, CommitmentsInt DEF Books, CashBalanced
  <2>9. accountedCash' = Credits' + Commitments'
    BY <2>5, <2>6, <2>7, <2>8
  <2> QED BY <2>9 DEF CashBalanced
<1>2. ExposureBalanced'
  <2>1. SUFFICES ASSUME NEW k \in Keys PROVE openExposure'[k] = Exposures(k)'
    BY DEF ExposureBalanced
  <2> DEFINE f == [j \in LoanIds |-> ExposureAt(loans[j], k)]
             g == [j \in LoanIds |-> ExposureAt(loans'[j], k)]
             e == IF k = key THEN d ELSE 0
  <2>2. \A j \in LoanIds : ExposureAt(loans'[j], k) \in Int
    BY ExposureInt DEF TypeOK
  <2>3. /\ \A j \in LoanIds : f[j] \in Int /\ g[j] \in Int
        /\ \A j \in LoanIds \ {id} : g[j] = f[j]
        /\ g[id] = f[id] + e
    BY <2>2, ExposureInt DEF OnlyRecord, TypeOK
  <2>4. e \in Int
    BY DEF ExposureMoves
  <2>5. openExposure[k] = SumFunctionOnSet(f, LoanIds) /\ openExposure'[k] = openExposure[k] + e
    BY DEF Books, ExposureBalanced, Exposures, ExposureMoves
  <2>6. Exposures(k)' = SumFunctionOnSet(g, LoanIds)
    BY DEF Exposures
  <2> HIDE DEF f, g, e
  <2>7. SumFunctionOnSet(g, LoanIds) = SumFunctionOnSet(f, LoanIds) + e
    BY <2>3, <2>4, SumMoved, Finite
  <2> QED BY <2>5, <2>6, <2>7
<1>3. LedgerFollows'
  BY DEF LedgerFollows, OnlyRecord, Books
<1> QED BY <1>1, <1>2, <1>3 DEF Books

\* A step that touches no loan moves credits and accounted cash together.
LEMMA BooksStay ==
  ASSUME TypeOK, Books, UNCHANGED <<loans, lenders, right, allocations, openExposure>>,
         NEW c, CashMoves(c, c)
  PROVE  Books'
<1>1. CashBalanced'
  <2>1. Credits' = Credits + c /\ accountedCash' = accountedCash + c /\ c \in Int /\ Commitments' = Commitments
    BY DEF CashMoves, Credits, Commitments
  <2>2. accountedCash = Credits + Commitments /\ Credits \in Int /\ Commitments \in Int
    BY CreditsInt, CommitmentsInt DEF Books, CashBalanced
  <2>3. accountedCash' = Credits' + Commitments'
    BY <2>1, <2>2
  <2> QED BY <2>3 DEF CashBalanced
<1>2. ExposureBalanced' /\ LedgerFollows'
  BY DEF ExposureBalanced, Exposures, LedgerFollows, Books
<1> QED BY <1>1, <1>2 DEF Books

(***************************************************************************)
(* Sums of credits.                                                        *)
(***************************************************************************)
LEMMA CreditSum ==
  ASSUME NEW f \in [Accounts -> Nat], NEW a \in Accounts, NEW amount \in Nat
  PROVE  SumFunctionOnSet(Credit(f, a, amount), Accounts) = SumFunctionOnSet(f, Accounts) + amount
<1> DEFINE g == Credit(f, a, amount)
<1>1. /\ \A x \in Accounts : f[x] \in Int /\ g[x] \in Int
      /\ \A x \in Accounts \ {a} : g[x] = f[x]
      /\ g[a] = f[a] + amount
  BY DEF Credit
<1>2. amount \in Int
  OBVIOUS
<1> HIDE DEF g
<1> QED BY <1>1, <1>2, SumMoved, Finite DEF g

\* Crediting the holders of the units distributes exactly what the occupied units share.
LEMMA CreditUnitsSum ==
  ASSUME NEW f \in [Accounts -> Nat], NEW units \in [Slots -> Accounts \cup {NoAccount}], NEW total \in Nat
  PROVE  SumFunctionOnSet(CreditUnits(f, units, total), Accounts)
           = SumFunctionOnSet(f, Accounts) + Share(total, Slots \ Held(units, NoAccount))
<1> DEFINE part(i) == IF units[i] = NoAccount THEN 0 ELSE Slice(total, i)
           h(i) == [x \in Accounts |-> IF units[i] = x THEN Slice(total, i) ELSE 0]
           sum(g) == SumFunctionOnSet(g, Accounts)
           g1 == [x \in Accounts |-> f[x] + h(0)[x]]
           g2 == [x \in Accounts |-> g1[x] + h(1)[x]]
           g3 == [x \in Accounts |-> g2[x] + h(2)[x]]
           g4 == [x \in Accounts |-> g3[x] + h(3)[x]]
<1>1. 0 \in Slots /\ 1 \in Slots /\ 2 \in Slots /\ 3 \in Slots
  BY DEF Slots
<1>2. \A i \in Slots : Slice(total, i) \in Nat
  BY SliceNat
<1>3. \A i \in Slots : sum(h(i)) = part(i) /\ part(i) \in Nat
  <2> TAKE i \in Slots
  <2> DEFINE q == h(i)
  <2>1. CASE units[i] = NoAccount
    <3>1. \A x \in Accounts : q[x] = 0
      <4>1. NoAccount \notin Accounts
        BY VaultAssumption
      <4> QED BY <2>1, <4>1
    <3> HIDE DEF q
    <3>2. sum(q) = 0
      BY <3>1, SumZero, Finite
    <3> QED BY <2>1, <3>2 DEF q
  <2>2. CASE units[i] # NoAccount
    <3> DEFINE y == units[i]
    <3>1. y \in Accounts /\ q[y] = Slice(total, i) /\ q[y] \in Int /\ \A x \in Accounts \ {y} : q[x] = 0
      BY <1>2, <2>2
    <3> HIDE DEF q, y
    <3>2. sum(q) = q[y]
      BY <3>1, SumOne, Finite
    <3> QED BY <1>2, <2>2, <3>1, <3>2 DEF q
  <2> QED BY <2>1, <2>2
<1>4. \A i \in Slots : \A x \in Accounts : h(i)[x] \in Int
  BY <1>2
<1>5. /\ \A x \in Accounts : f[x] \in Int /\ h(0)[x] \in Int /\ g1[x] = f[x] + h(0)[x]
      /\ \A x \in Accounts : g1[x] \in Int /\ h(1)[x] \in Int /\ g2[x] = g1[x] + h(1)[x]
      /\ \A x \in Accounts : g2[x] \in Int /\ h(2)[x] \in Int /\ g3[x] = g2[x] + h(2)[x]
      /\ \A x \in Accounts : g3[x] \in Int /\ h(3)[x] \in Int /\ g4[x] = g3[x] + h(3)[x]
  BY <1>1, <1>4
<1>6. CreditUnits(f, units, total) = g4
  <2>1. \A x \in Accounts : Share(total, Held(units, x)) = h(0)[x] + h(1)[x] + h(2)[x] + h(3)[x]
    BY <1>1 DEF Share, SumSlots, Held
  <2>2. \A x \in Accounts : f[x] + Share(total, Held(units, x)) = g4[x]
    BY <2>1, <1>1, <1>4
  <2> QED BY <2>2 DEF CreditUnits
<1>7. Share(total, Slots \ Held(units, NoAccount)) = part(0) + part(1) + part(2) + part(3)
  BY <1>1 DEF Share, SumSlots, Held
<1>8. sum(f) \in Int
  BY SumType, Finite
<1> HIDE DEF h, g1, g2, g3, g4, part
<1>9. /\ sum(g1) = sum(f) + sum(h(0))
      /\ sum(g2) = sum(g1) + sum(h(1))
      /\ sum(g3) = sum(g2) + sum(h(2))
      /\ sum(g4) = sum(g3) + sum(h(3))
  BY <1>5, SumPlus, Finite
<1>10. /\ sum(h(0)) = part(0) /\ part(0) \in Nat
       /\ sum(h(1)) = part(1) /\ part(1) \in Nat
       /\ sum(h(2)) = part(2) /\ part(2) \in Nat
       /\ sum(h(3)) = part(3) /\ part(3) \in Nat
  BY <1>1, <1>3
<1> QED BY <1>6, <1>7, <1>8, <1>9, <1>10

(***************************************************************************)
(* How exposure moves.                                                     *)
(***************************************************************************)
LEMMA ExposureKept ==
  ASSUME TypeOK, openExposure' = openExposure
  PROVE  ExposureMoves(NoAccount, 0)
BY DEF ExposureMoves, TypeOK

\* Only the state, the market and the amount of a loan count.
LEMMA ExposureSame ==
  ASSUME NEW l \in LoanType, NEW m,
         m.state \in OpenStates <=> l.state \in OpenStates,
         m.exposureKey = l.exposureKey, m.exposureAmount = l.exposureAmount, NEW key
  PROVE  \A k \in Keys : ExposureAt(m, k) = ExposureAt(l, k) + (IF k = key THEN 0 ELSE 0)
BY ExposureInt DEF ExposureAt

\* An open loan that ends gives back exactly what it held.
LEMMA ExposureEnds ==
  ASSUME TypeOK, NEW l \in LoanType, NEW m, ReleaseExposure(m),
         l.state \in OpenStates, m.state \notin OpenStates,
         m.exposureKey = l.exposureKey, m.exposureAmount = l.exposureAmount
  PROVE  /\ ExposureMoves(l.exposureKey, -l.exposureAmount)
         /\ \A k \in Keys : ExposureAt(m, k) = ExposureAt(l, k)
                                                + (IF k = l.exposureKey THEN -l.exposureAmount ELSE 0)
<1>1. l.exposureAmount \in Nat /\ \A k \in Keys : openExposure[k] \in Nat
  BY DEF TypeOK, LoanType
<1>2. \A k \in Keys : openExposure'[k] = openExposure[k] + (IF k = l.exposureKey THEN -l.exposureAmount ELSE 0)
  <2> TAKE k \in Keys
  <2>1. openExposure' = [openExposure EXCEPT ![l.exposureKey] = @ - l.exposureAmount]
    BY DEF ReleaseExposure
  <2>2. openExposure'[k] = IF k = l.exposureKey THEN openExposure[k] - l.exposureAmount ELSE openExposure[k]
    BY <2>1 DEF TypeOK
  <2> QED BY <1>1, <2>2
<1>3. -l.exposureAmount \in Int
  BY <1>1
<1> QED BY <1>1, <1>2, <1>3 DEF ExposureMoves, ExposureAt

(***************************************************************************)
(* Listing and funding.                                                    *)
(***************************************************************************)
LEMMA FollowsAt == ASSUME Books, NEW id \in LoanIds PROVE Follows(loans[id], right[id], lenders[id], allocations[id])
BY DEF Books, LedgerFollows

LEMMA CashKept == ASSUME TypeOK, UNCHANGED cashVars PROVE CashMoves(0, 0)
<1>1. Credits \in Int /\ accountedCash \in Nat
  BY CreditsInt DEF TypeOK
<1> QED BY <1>1 DEF CashMoves, cashVars, Credits

LEMMA ListBooks ==
  ASSUME IInv, IInv', Books, NEW b \in Borrowers, NEW x \in Listings, List(b, x)
  PROVE  Books'
<1>1. TypeOK /\ TypeOK' /\ nextId \in LoanIds
  BY DEF IInv, List
<1> PICK id \in LoanIds : id = nextId
  BY <1>1
<1> DEFINE l == Listed(b, x)
<1>2. Consistent(id) /\ loans[id].state = "NONE"
  BY <1>1 DEF IInv, LoansOK, FreshIds, TypeOK
<1>3. x.key \in Keys /\ x.raw \in Nat
  BY VaultAssumption
<1>4. /\ loans' = [loans EXCEPT ![id] = l] /\ right' = [right EXCEPT ![id] = b]
      /\ openExposure' = [openExposure EXCEPT ![x.key] = @ + x.raw]
      /\ UNCHANGED <<lenders, allocations, cashVars>>
  BY DEF List, AddExposure, rewardVars
<1>5. l.state = "FUNDING" /\ l.exposureKey = x.key /\ l.exposureAmount = x.raw
  BY DEF Listed
<1> HIDE DEF l
<1>6. loans'[id] = l /\ OnlyRecord(id) /\ l.principal \in Nat
  <2>1. loans'[id] = l
    BY <1>1, <1>4 DEF TypeOK
  <2>2. loans'[id] \in LoanType
    BY <1>1 DEF TypeOK
  <2> QED BY <1>1, <1>4, <2>1, <2>2 DEF OnlyRecord, TypeOK, LoanType
<1>7. Follows(loans'[id], right'[id], lenders'[id], allocations'[id])
  BY <1>2, <1>3, <1>4, <1>5, <1>6, FollowsAt DEF Follows
<1>8. CashMoves(0, 0)
  BY <1>1, <1>4, CashKept
<1>9. CommittedAt(loans'[id], lenders'[id]) = CommittedAt(loans[id], lenders[id]) + (0 - 0)
  <2> DEFINE E == Held(lenders[id], NoAccount)
  <2>1. E \in SUBSET Slots
    BY DEF Held
  <2>2. Units(E) = 4
    <3>1. Units(E) \in 0 .. 4 /\ 0 = UNITS - Units(E)
      BY <1>2, UnitsRange DEF Consistent, LoanOK
    <3> HIDE DEF E
    <3> QED BY <3>1 DEF UNITS
  <2>3. Slots \ E = {}
    <3> HIDE DEF E
    <3> QED BY <2>1, <2>2, UnitsExtremes
  <2>4. Share(l.principal, Slots \ E) = 0
    <3> HIDE DEF E
    <3> QED BY <2>3 DEF Share, SumSlots, Slots
  <2> QED BY <1>2, <1>4, <1>5, <1>6, <2>4 DEF CommittedAt
<1>10. ExposureMoves(x.key, x.raw)
  BY <1>1, <1>3, <1>4 DEF ExposureMoves, TypeOK
<1>11. \A k \in Keys : ExposureAt(loans'[id], k) = ExposureAt(loans[id], k) + (IF k = x.key THEN x.raw ELSE 0)
  BY <1>2, <1>3, <1>5, <1>6 DEF ExposureAt, OpenStates
<1> QED BY <1>1, <1>6, <1>7, <1>8, <1>9, <1>10, <1>11, BooksMove

\* The units a call takes were nobody's: the commitments grow by their share.
LEMMA CommitShares ==
  ASSUME IInv, NEW id \in LoanIds, NEW n \in 1 .. UNITS, NEW lender \in Accounts, Commit(id, n, lender)
  PROVE  /\ Share(loans[id].principal, NextSlots(id, n)) \in Nat
         /\ CommittedAt(loans[id], lenders[id]) \in Nat
         /\ Share(loans[id].principal, Slots \ Held(lenders'[id], NoAccount))
              = CommittedAt(loans[id], lenders[id]) + Share(loans[id].principal, NextSlots(id, n))
<1> DEFINE T == NextSlots(id, n)
           E == Held(lenders[id], NoAccount)
           p == loans[id].principal
<1>1. TypeOK /\ Consistent(id) /\ p \in Nat /\ loans[id].state = "FUNDING"
  BY DEF IInv, LoansOK, TypeOK, LoanType, Commit
<1>2. E \in SUBSET Slots /\ T \in SUBSET E
  BY DEF Held, NextSlots, Empty
<1>3. Held(lenders'[id], NoAccount) = E \ T
  <2>1. lenders' = [lenders EXCEPT ![id] = [i \in Slots |-> IF i \in T THEN lender ELSE @[i]]]
    BY DEF Commit
  <2>2. lender # NoAccount
    BY VaultAssumption
  <2> QED BY <1>1, <1>2, <2>1, <2>2 DEF Held, TypeOK
<1>4. Share(p, T) \in Nat /\ Share(p, Slots \ E) \in Nat
  BY <1>1, ShareNat
<1>5. Share(p, Slots \ (E \ T)) = Share(p, Slots \ E) + Share(p, T)
  <2> HIDE DEF T, E, p
  <2>1. (Slots \ (E \ T)) \ T = Slots \ E /\ T \in SUBSET (Slots \ (E \ T)) /\ Slots \ (E \ T) \in SUBSET Slots
    BY <1>2
  <2> DEFINE W == Slots \ (E \ T)
             V == Slots \ E
  <2>2. W \ T = V /\ T \in SUBSET W /\ W \in SUBSET Slots
    BY <2>1
  <2> HIDE DEF W, V
  <2>3. Share(p, W) = Share(p, T) + Share(p, V)
    BY <1>1, <2>2, ShareSplit
  <2> QED BY <1>4, <2>3 DEF W, V
<1> HIDE DEF T, E, p
<1> QED BY <1>1, <1>3, <1>4, <1>5 DEF CommittedAt, T, E, p

LEMMA FundPartBooks ==
  ASSUME IInv, IInv', Books, NEW id \in LoanIds, NEW n \in UnitCounts, NEW lender \in Buyers,
         FundPart(id, n, lender)
  PROVE  Books'
<1> DEFINE m == [loans[id] EXCEPT !.filled = @ + n]
           w == Share(loans[id].principal, NextSlots(id, n))
<1>1. /\ n \in 1 .. UNITS /\ lender \in Accounts /\ Commit(id, n, lender) /\ TypeOK /\ TypeOK'
      /\ loans[id] \in LoanType /\ loans[id].state = "FUNDING"
  BY VaultAssumption DEF IInv, FundPart, Commit, TypeOK
<1>2. /\ loans' = [loans EXCEPT ![id] = m] /\ accountedCash' = accountedCash + w
      /\ UNCHANGED <<allocations, right, cashCredit, openExposure>>
  BY DEF FundPart, Commit, ReceiveCash, rewardVars
<1>3. m.state = "FUNDING" /\ m.principal = loans[id].principal
      /\ m.exposureKey = loans[id].exposureKey /\ m.exposureAmount = loans[id].exposureAmount
  BY <1>1 DEF LoanType
<1> HIDE DEF m
<1>4. loans'[id] = m /\ OnlyRecord(id)
  BY <1>1, <1>2, CommitTable DEF OnlyRecord, TypeOK
<1>5. Follows(loans'[id], right'[id], lenders'[id], allocations'[id])
  BY <1>1, <1>2, <1>3, <1>4, FollowsAt DEF Follows
<1>6. w \in Nat /\ CommittedAt(loans[id], lenders[id]) \in Nat
      /\ CommittedAt(loans'[id], lenders'[id]) = CommittedAt(loans[id], lenders[id]) + w
  BY <1>1, <1>3, <1>4, CommitShares DEF CommittedAt
<1> HIDE DEF w
<1>7. CashMoves(0, w)
  <2>1. Credits \in Int
    BY <1>1, CreditsInt
  <2> QED BY <1>2, <1>6, <2>1 DEF CashMoves, Credits
<1>8. CommittedAt(loans'[id], lenders'[id]) = CommittedAt(loans[id], lenders[id]) + (w - 0)
  BY <1>6
<1>9. ExposureMoves(NoAccount, 0)
  BY <1>1, <1>2, ExposureKept
<1>10. \A k \in Keys : ExposureAt(loans'[id], k) = ExposureAt(loans[id], k) + (IF k = NoAccount THEN 0 ELSE 0)
  BY <1>1, <1>3, <1>4, ExposureSame
<1> QED BY <1>1, <1>4, <1>5, <1>7, <1>8, <1>9, <1>10, BooksMove

LEMMA FundLastBooks ==
  ASSUME IInv, IInv', RewardsInv, Books, NEW id \in LoanIds, NEW n \in UnitCounts, NEW lender \in Buyers,
         FundLast(id, n, lender)
  PROVE  Books'
<1> DEFINE l == loans[id]
           m == [l EXCEPT !.filled = UNITS, !.state = "ACTIVE", !.fundedAt = now]
           w == Share(l.principal, NextSlots(id, n))
           p == l.principal
<1>1. /\ n \in 1 .. UNITS /\ lender \in Accounts /\ Commit(id, n, lender) /\ TypeOK /\ TypeOK'
      /\ l \in LoanType /\ l.state = "FUNDING" /\ Consistent(id) /\ Consistent(id)'
  BY VaultAssumption DEF IInv, LoansOK, FundLast, Commit, TypeOK
<1>2. /\ loans' = [loans EXCEPT ![id] = m] /\ accountedCash' = accountedCash + w
      /\ UNCHANGED <<right, openExposure>>
      /\ Rewards!Activate(id, l.originator, lenders'[id], l.term, l.borrowerReward, l.lenderReward)
      /\ ActivationCredits(l)
  BY DEF FundLast, Commit, ReceiveCash
<1>3. m.state = "ACTIVE" /\ m.exposureKey = l.exposureKey /\ m.exposureAmount = l.exposureAmount
  BY <1>1 DEF LoanType
<1>4. loans'[id] = m
  BY <1>1, <1>2 DEF TypeOK
<1>5. /\ \A j \in LoanIds \ {id} : allocations'[j] = allocations[j]
      /\ allocations'[id].start = now /\ allocations'[id].end = 0
      /\ allocations'[id].borrower = l.originator /\ allocations'[id].lenders = lenders'[id]
      /\ l.originator # NoAccount
  BY <1>2 DEF Rewards!Activate, RewardsInv, RewardTypes
<1>6. OnlyRecord(id)
  BY <1>1, <1>2, <1>5, CommitTable DEF OnlyRecord, TypeOK
<1>7. Follows(loans'[id], right'[id], lenders'[id], allocations'[id])
  <2>1. right[id] = l.originator /\ now # 0
    BY <1>1 DEF Consistent, LoanOK, RewardsInv, RewardTypes
  <2>2. l.exposureKey \in Keys
    BY <1>1, FollowsAt DEF Follows, OpenStates
  <2> HIDE DEF m, l
  <2> QED BY <1>2, <1>3, <1>4, <1>5, <2>1, <2>2 DEF Follows
<1>8. p \in Nat /\ l.originationFee \in Nat /\ l.originationFee <= p /\ l.originator \in Accounts
  BY <1>1, <1>5 DEF Consistent, LoanOK, LoanType
<1>9. /\ w \in Nat /\ CommittedAt(l, lenders[id]) \in Nat /\ p = CommittedAt(l, lenders[id]) + w
  <2> DEFINE F == Held(lenders'[id], NoAccount)
  <2>1. F \in SUBSET Slots
    BY DEF Held
  <2>2. Units(F) = UNITS - (l.filled + n)
    BY <1>1, CommitTable
  <2>3. l.filled + n = UNITS
    BY DEF FundLast
  <2>4. F = {}
    <3> HIDE DEF F, l
    <3> QED BY <2>1, <2>2, <2>3, UnitsExtremes DEF UNITS
  <2>5. Share(p, Slots \ F) = p
    <3>1. Slots \ F = Slots
      BY <2>4
    <3> HIDE DEF F
    <3> QED BY <1>8, <3>1, SlicesSumToWhole
  <2> QED BY <1>1, <2>5, CommitShares
<1>10. CommittedAt(loans'[id], lenders'[id]) = 0
  BY <1>3, <1>4 DEF CommittedAt
<1>11. CashMoves(p, w)
  <2> DEFINE f == Credit(cashCredit, FeeRecipient, l.originationFee)
  <2>1. FeeRecipient \in Accounts /\ cashCredit \in [Accounts -> Nat] /\ p - l.originationFee \in Nat
    BY <1>1, <1>8, VaultAssumption DEF TypeOK
  <2>2. f \in [Accounts -> Nat]
    BY <1>8, <2>1, CreditNat
  <2>3. cashCredit' = Credit(f, l.originator, p - l.originationFee)
    BY <1>2 DEF ActivationCredits
  <2>4. SumFunctionOnSet(f, Accounts) = SumFunctionOnSet(cashCredit, Accounts) + l.originationFee
    BY <1>8, <2>1, CreditSum
  <2> HIDE DEF f, l, p
  <2>5. SumFunctionOnSet(cashCredit', Accounts) = SumFunctionOnSet(f, Accounts) + (p - l.originationFee)
    BY <1>8, <2>1, <2>2, <2>3, CreditSum
  <2>6. Credits \in Int
    BY <1>1, CreditsInt
  <2>7. SumFunctionOnSet(cashCredit', Accounts) = Credits + p
    BY <1>8, <2>4, <2>5, <2>6 DEF Credits
  <2> HIDE DEF w
  <2> QED BY <1>2, <1>8, <1>9, <2>7 DEF CashMoves
<1>12. CommittedAt(loans'[id], lenders'[id]) = CommittedAt(loans[id], lenders[id]) + (w - p)
  <2> DEFINE q == CommittedAt(loans[id], lenders[id])
  <2>1. q \in Nat /\ w \in Nat /\ p = q + w
    BY <1>9
  <2> HIDE DEF q, w, p
  <2>2. 0 = q + (w - p)
    BY <2>1
  <2> QED BY <1>10, <2>2 DEF q
<1>13. ExposureMoves(NoAccount, 0)
  BY <1>1, <1>2, ExposureKept
<1>14. \A k \in Keys : ExposureAt(loans'[id], k) = ExposureAt(loans[id], k) + (IF k = NoAccount THEN 0 ELSE 0)
  <2> HIDE DEF m
  <2> QED BY <1>1, <1>3, <1>4, ExposureSame DEF OpenStates
<1> HIDE DEF l, m, w, p
<1> QED BY <1>1, <1>6, <1>7, <1>11, <1>12, <1>13, <1>14, BooksMove

LEMMA WithdrawCommitmentBooks ==
  ASSUME IInv, IInv', Books, NEW id \in LoanIds, NEW a \in Accounts, WithdrawCommitment(id, a)
  PROVE  Books'
<1> DEFINE mine == Held(lenders[id], a)
           E == Held(lenders[id], NoAccount)
           m == Vacated(id, mine)
           p == loans[id].principal
           c == Share(p, mine)
<1>1. /\ TypeOK /\ TypeOK' /\ loans[id] \in LoanType /\ loans[id].state = "FUNDING" /\ p \in Nat
  BY DEF IInv, WithdrawCommitment, TypeOK, LoanType
<1>2. /\ loans' = [loans EXCEPT ![id] = m]
      /\ lenders' = [lenders EXCEPT ![id] = [i \in Slots |-> IF i \in mine THEN NoAccount ELSE @[i]]]
      /\ cashCredit' = Credit(cashCredit, a, c)
      /\ UNCHANGED <<allocations, right, accountedCash, openExposure>>
  BY DEF WithdrawCommitment, rewardVars
<1>3. m.state = "FUNDING" /\ m.principal = p
      /\ m.exposureKey = loans[id].exposureKey /\ m.exposureAmount = loans[id].exposureAmount
  BY <1>1 DEF LoanType, Vacated
<1> HIDE DEF m
<1>4. loans'[id] = m /\ OnlyRecord(id)
  BY <1>1, <1>2 DEF OnlyRecord, TypeOK
<1>5. Follows(loans'[id], right'[id], lenders'[id], allocations'[id])
  BY <1>1, <1>2, <1>3, <1>4, FollowsAt DEF Follows
<1>6. c \in Nat /\ Share(p, Slots \ (E \cup mine)) \in Nat
  BY <1>1, ShareNat
<1>7. Held(lenders'[id], NoAccount) = E \cup mine
  BY <1>1, <1>2 DEF Held, TypeOK
<1>8. Share(p, Slots \ E) = c + Share(p, Slots \ (E \cup mine))
  <2>1. E \in SUBSET Slots /\ mine \in SUBSET Slots /\ mine \cap E = {}
    <3>1. a # NoAccount
      BY VaultAssumption
    <3> QED BY <3>1 DEF Held
  <2> HIDE DEF E, mine, p
  <2>2. Slots \ E \in SUBSET Slots /\ mine \in SUBSET (Slots \ E) /\ (Slots \ E) \ mine = Slots \ (E \cup mine)
    BY <2>1
  <2> DEFINE V == Slots \ E
             W == Slots \ (E \cup mine)
  <2>3. V \in SUBSET Slots /\ mine \in SUBSET V /\ V \ mine = W
    BY <2>2
  <2> HIDE DEF V, W
  <2>4. Share(p, V) = Share(p, mine) + Share(p, W)
    BY <1>1, <2>3, ShareSplit
  <2> QED BY <2>4 DEF V, W
<1>9. CommittedAt(loans'[id], lenders'[id]) = CommittedAt(loans[id], lenders[id]) + (0 - c)
  <2>1. CommittedAt(loans'[id], lenders'[id]) = Share(p, Slots \ (E \cup mine))
    BY <1>3, <1>4, <1>7 DEF CommittedAt
  <2>2. CommittedAt(loans[id], lenders[id]) = Share(p, Slots \ E)
    BY <1>1 DEF CommittedAt
  <2> HIDE DEF E, mine, p, c
  <2> QED BY <1>6, <1>8, <2>1, <2>2
<1>10. CashMoves(c, 0)
  <2>1. cashCredit \in [Accounts -> Nat] /\ accountedCash \in Nat
    BY <1>1 DEF TypeOK
  <2> HIDE DEF c
  <2> QED BY <1>2, <1>6, <2>1, CreditSum DEF CashMoves, Credits
<1>11. ExposureMoves(NoAccount, 0)
  BY <1>1, <1>2, ExposureKept
<1>12. \A k \in Keys : ExposureAt(loans'[id], k) = ExposureAt(loans[id], k) + (IF k = NoAccount THEN 0 ELSE 0)
  BY <1>1, <1>3, <1>4, ExposureSame
<1> HIDE DEF c
<1> QED BY <1>1, <1>4, <1>5, <1>9, <1>10, <1>11, <1>12, BooksMove

LEMMA CancelFundingBooks ==
  ASSUME IInv, IInv', Books, NEW id \in LoanIds, NEW a \in Accounts, CancelFunding(id, a)
  PROVE  Books'
<1> DEFINE l == loans[id]
           m == [l EXCEPT !.filled = 0, !.state = "CANCELLED", !.closedAt = now,
                          !.collateralBeneficiary = l.originator]
           c == Share(l.principal, Slots \ Held(lenders[id], NoAccount))
<1>1. /\ TypeOK /\ TypeOK' /\ l \in LoanType /\ l.state = "FUNDING" /\ l.principal \in Nat
      /\ lenders[id] \in [Slots -> Accounts \cup {NoAccount}] /\ cashCredit \in [Accounts -> Nat]
      /\ accountedCash \in Nat
  BY DEF IInv, CancelFunding, TypeOK, LoanType
<1>2. /\ loans' = [loans EXCEPT ![id] = m]
      /\ lenders' = [lenders EXCEPT ![id] = [i \in Slots |-> NoAccount]]
      /\ right' = [right EXCEPT ![id] = NoAccount]
      /\ cashCredit' = CreditUnits(cashCredit, lenders[id], l.principal)
      /\ ReleaseExposure(l)
      /\ UNCHANGED <<allocations, accountedCash>>
  BY DEF CancelFunding, Burn, rewardVars
<1>3. m.state = "CANCELLED" /\ m.exposureKey = l.exposureKey /\ m.exposureAmount = l.exposureAmount
  BY <1>1 DEF LoanType
<1>4. loans'[id] = m /\ OnlyRecord(id)
  BY <1>1, <1>2 DEF OnlyRecord, TypeOK
<1> HIDE DEF m, l
<1>5. Follows(loans'[id], right'[id], lenders'[id], allocations'[id])
  BY <1>1, <1>2, <1>3, <1>4, FollowsAt DEF Follows, OpenStates, l
<1>6. c \in Nat
  BY <1>1, ShareNat
<1>7. CommittedAt(l, lenders[id]) = c /\ CommittedAt(m, lenders'[id]) = 0
  BY <1>1, <1>3 DEF CommittedAt
<1>8. SumFunctionOnSet(cashCredit', Accounts) = Credits + c
  BY <1>1, <1>2, CreditUnitsSum DEF Credits
<1> HIDE DEF c
<1>9. CommittedAt(loans'[id], lenders'[id]) = CommittedAt(loans[id], lenders[id]) + (0 - c)
  BY <1>4, <1>6, <1>7 DEF l
<1>10. CashMoves(c, 0)
  BY <1>1, <1>2, <1>6, <1>8 DEF CashMoves
<1>11. ReleaseExposure(m)
  BY <1>2, <1>3 DEF ReleaseExposure
<1>12. /\ ExposureMoves(l.exposureKey, -l.exposureAmount)
       /\ \A k \in Keys : ExposureAt(loans'[id], k) = ExposureAt(loans[id], k)
                                                        + (IF k = l.exposureKey THEN -l.exposureAmount ELSE 0)
  <2>1. "FUNDING" \in OpenStates /\ "CANCELLED" \notin OpenStates
    BY DEF OpenStates
  <2> QED BY <1>1, <1>3, <1>4, <1>11, <2>1, ExposureEnds DEF l
<1> QED BY <1>1, <1>4, <1>5, <1>9, <1>10, <1>12, BooksMove

(***************************************************************************)
(* Closing.                                                                *)
(***************************************************************************)
\* What repayment and default have in common; c is what is paid in and credited.
LEMMA CloseBooks ==
  ASSUME IInv, IInv', RewardsInv, Books, NEW id \in LoanIds, NEW l, Close(id, l),
         loans[id].state = "ACTIVE", l \in LoanType, l.state \in {"REPAID", "DEFAULTED"},
         l.exposureKey = loans[id].exposureKey, l.exposureAmount = loans[id].exposureAmount,
         NEW c, CashMoves(c, c)
  PROVE  Books'
<1> DEFINE m == [l EXCEPT !.closedAt = now]
<1>1. TypeOK /\ TypeOK' /\ loans[id] \in LoanType
  BY DEF IInv, TypeOK
<1>2. /\ loans' = [loans EXCEPT ![id] = m] /\ right' = [right EXCEPT ![id] = NoAccount]
      /\ ReleaseExposure(l) /\ lenders' = lenders /\ Rewards!Close(id)
  BY DEF Close, Burn
<1>3. m.state \in {"REPAID", "DEFAULTED"} /\ m.exposureKey = l.exposureKey /\ m.exposureAmount = l.exposureAmount
  BY DEF LoanType
<1> HIDE DEF m
<1>4. /\ \A j \in LoanIds \ {id} : allocations'[j] = allocations[j]
      /\ allocations'[id].end = now /\ allocations'[id].lenders = allocations[id].lenders
      /\ now # 0
  <2>1. allocations \in [LoanIds -> AllocationType] /\ now # 0
    BY DEF RewardsInv, RewardTypes
  <2> DEFINE z == [allocations[id] EXCEPT !.end = now]
             e == [z EXCEPT !.borrowerAccounted = Rewards!Curve(z.borrowerTotal, z)]
  <2>2. allocations' = [allocations EXCEPT ![id] = e]
    BY <1>2 DEF Rewards!Close
  <2>3. e.end = now /\ e.lenders = allocations[id].lenders
    BY <2>1 DEF AllocationType
  <2> HIDE DEF e
  <2> QED BY <2>1, <2>2, <2>3
<1>5. loans'[id] = m /\ OnlyRecord(id)
  BY <1>1, <1>2, <1>4 DEF OnlyRecord, TypeOK
<1>6. Follows(loans'[id], right'[id], lenders'[id], allocations'[id])
  BY <1>2, <1>3, <1>4, <1>5, FollowsAt DEF Follows, OpenStates
<1>7. CommittedAt(loans'[id], lenders'[id]) = CommittedAt(loans[id], lenders[id]) + (c - c)
  <2>1. c - c = 0
    BY DEF CashMoves
  <2> QED BY <1>3, <1>5, <2>1 DEF CommittedAt
<1>8. ReleaseExposure(m)
  BY <1>2, <1>3 DEF ReleaseExposure
<1>9. /\ ExposureMoves(loans[id].exposureKey, -loans[id].exposureAmount)
      /\ \A k \in Keys : ExposureAt(m, k) = ExposureAt(loans[id], k)
                           + (IF k = loans[id].exposureKey THEN -loans[id].exposureAmount ELSE 0)
  <2>1. "ACTIVE" \in OpenStates /\ m.state \notin OpenStates
    BY <1>3 DEF OpenStates
  <2> QED BY <1>1, <1>3, <1>8, <2>1, ExposureEnds
<1> QED BY <1>1, <1>5, <1>6, <1>7, <1>9, BooksMove

LEMMA ReclaimBooks ==
  ASSUME IInv, IInv', RewardsInv, Books, NEW id \in LoanIds, NEW a \in Accounts, Reclaim(id, a)
  PROVE  Books'
<1> DEFINE l == [loans[id] EXCEPT !.state = "REPAID", !.collateralBeneficiary = a]
           c == loans[id].cap
<1>1. /\ TypeOK /\ Consistent(id) /\ loans[id] \in LoanType /\ c \in Nat /\ loans[id].state = "ACTIVE"
      /\ lenders[id] \in [Slots -> Accounts \cup {NoAccount}] /\ cashCredit \in [Accounts -> Nat]
      /\ accountedCash \in Nat
  BY DEF IInv, LoansOK, TypeOK, LoanType, Reclaim
<1>2. /\ l \in LoanType /\ l.state = "REPAID"
      /\ l.exposureKey = loans[id].exposureKey /\ l.exposureAmount = loans[id].exposureAmount
  BY <1>1 DEF LoanType, States
<1>3. Close(id, l) /\ accountedCash' = accountedCash + c
      /\ cashCredit' = CreditUnits(cashCredit, lenders[id], c)
  BY DEF Reclaim, ReceiveCash
<1> HIDE DEF l
<1>4. CashMoves(c, c)
  <2> DEFINE E == Held(lenders[id], NoAccount)
  <2>1. E \in SUBSET Slots
    BY DEF Held
  <2>2. Units(E) = 0
    <3>1. UNITS = UNITS - Units(E) /\ Units(E) \in 0 .. 4
      BY <1>1, UnitsRange DEF Consistent, LoanOK
    <3> HIDE DEF E
    <3> QED BY <3>1 DEF UNITS
  <2>3. Slots \ E = Slots
    <3> HIDE DEF E
    <3> QED BY <2>1, <2>2, UnitsExtremes
  <2>4. Share(c, Slots \ E) = c
    <3> HIDE DEF E, c
    <3> QED BY <1>1, <2>3, SlicesSumToWhole
  <2>5. SumFunctionOnSet(cashCredit', Accounts) = Credits + c
    <3> HIDE DEF c
    <3> QED BY <1>1, <1>3, <2>4, CreditUnitsSum DEF Credits
  <2> QED BY <1>1, <1>3, <2>5 DEF CashMoves
<1> HIDE DEF c
<1> QED BY <1>1, <1>2, <1>3, <1>4, CloseBooks

LEMMA FinalizeDefaultBooks ==
  ASSUME IInv, IInv', RewardsInv, Books, NEW id \in LoanIds, FinalizeDefault(id)
  PROVE  Books'
<1> DEFINE l == [loans[id] EXCEPT !.state = "DEFAULTED"]
<1>1. TypeOK /\ loans[id] \in LoanType /\ loans[id].state = "ACTIVE"
  BY DEF IInv, TypeOK, FinalizeDefault
<1>2. /\ l \in LoanType /\ l.state = "DEFAULTED"
      /\ l.exposureKey = loans[id].exposureKey /\ l.exposureAmount = loans[id].exposureAmount
  BY <1>1 DEF LoanType, States
<1>3. Close(id, l) /\ UNCHANGED cashVars
  BY DEF FinalizeDefault
<1> HIDE DEF l
<1> QED BY <1>1, <1>2, <1>3, CashKept, CloseBooks

(***************************************************************************)
(* Sales.                                                                  *)
(***************************************************************************)
\* What a buyer pays is credited in full, to the seller and the fee recipient.
LEMMA SaleCash ==
  ASSUME TypeOK, NEW a \in Accounts, NEW ask, ask.price \in Nat, ask.feeBps \in 0 .. BPS, SettleSale(a, ask)
  PROVE  CashMoves(ask.price, ask.price)
<1> DEFINE fee == Registry!Fee(ask.price, ask.feeBps)
           f == Credit(cashCredit, a, ask.price - fee)
<1>1. fee \in Nat /\ ask.price - fee \in Nat
  BY FeeBound
<1>2. accountedCash' = accountedCash + ask.price /\ cashCredit' = Credit(f, FeeRecipient, fee)
  BY DEF SettleSale, ReceiveCash
<1>3. cashCredit \in [Accounts -> Nat] /\ accountedCash \in Nat /\ FeeRecipient \in Accounts
  BY VaultAssumption DEF TypeOK
<1> HIDE DEF fee
<1>4. f \in [Accounts -> Nat] /\ SumFunctionOnSet(f, Accounts) = Credits + (ask.price - fee)
  BY <1>1, <1>3, CreditNat, CreditSum DEF Credits
<1> HIDE DEF f
<1>5. SumFunctionOnSet(cashCredit', Accounts) = SumFunctionOnSet(f, Accounts) + fee
  BY <1>1, <1>2, <1>3, <1>4, CreditSum
<1>6. SumFunctionOnSet(cashCredit', Accounts) = Credits + ask.price
  BY <1>1, <1>4, <1>5, CreditsInt
<1> QED BY <1>2, <1>3, <1>6 DEF CashMoves

LEMMA BuyBooks ==
  ASSUME IInv, IInv', RewardsInv, Books, NEW id \in LoanIds, NEW a \in Buyers, Buy(id, a)
  PROVE  Books'
<1>1. /\ TypeOK /\ TypeOK' /\ Consistent(id) /\ loans[id] \in LoanType /\ loans[id].state = "ACTIVE"
      /\ right[id] \in Accounts /\ asks[id].price \in Nat /\ asks[id].feeBps \in 0 .. BPS
  <2>1. TypeOK /\ TypeOK' /\ Consistent(id) /\ loans[id].state = "ACTIVE"
    BY DEF IInv, LoansOK, Buy, Saleable
  <2>2. right[id] \in Accounts
    BY <2>1 DEF Consistent, LoanOK, OpenStates, TypeOK
  <2> QED BY <2>1, <2>2 DEF TypeOK, AskType
<1>2. /\ right' = [right EXCEPT ![id] = a] /\ UNCHANGED <<loans, lenders, openExposure>>
      /\ SettleSale(right[id], asks[id]) /\ Rewards!TransferRight(id, a)
  BY DEF Buy, loanVars
<1>3. /\ \A j \in LoanIds \ {id} : allocations'[j] = allocations[j]
      /\ allocations'[id].start = allocations[id].start /\ allocations'[id].end = allocations[id].end
      /\ allocations'[id].borrower = a /\ allocations'[id].lenders = allocations[id].lenders
  <2>1. allocations \in [LoanIds -> AllocationType]
    BY DEF RewardsInv, RewardTypes
  <2> DEFINE e == [allocations[id] EXCEPT !.borrower = a,
                     !.borrowerAccounted = Rewards!Curve(allocations[id].borrowerTotal, allocations[id])]
  <2>2. allocations' = [allocations EXCEPT ![id] = e]
    BY <1>2 DEF Rewards!TransferRight
  <2>3. /\ e.start = allocations[id].start /\ e.end = allocations[id].end
        /\ e.borrower = a /\ e.lenders = allocations[id].lenders
    BY <2>1 DEF AllocationType
  <2> HIDE DEF e
  <2> QED BY <2>1, <2>2, <2>3
<1>4. OnlyRecord(id)
  BY <1>1, <1>2, <1>3 DEF OnlyRecord, TypeOK
<1>5. Follows(loans'[id], right'[id], lenders'[id], allocations'[id])
  <2>1. right'[id] = a
    BY <1>1, <1>2 DEF TypeOK
  <2> QED BY <1>1, <1>2, <1>3, <2>1, FollowsAt DEF Follows
<1> DEFINE c == asks[id].price
<1>6. CashMoves(c, c)
  BY <1>1, <1>2, SaleCash
<1>7. CommittedAt(loans'[id], lenders'[id]) = CommittedAt(loans[id], lenders[id]) + (c - c)
  BY <1>1, <1>2 DEF CommittedAt
<1>8. ExposureMoves(NoAccount, 0)
  BY <1>1, <1>2, ExposureKept
<1>9. \A k \in Keys : ExposureAt(loans'[id], k) = ExposureAt(loans[id], k) + (IF k = NoAccount THEN 0 ELSE 0)
  BY <1>1, <1>2, ExposureSame
<1> HIDE DEF c
<1> QED BY <1>1, <1>4, <1>5, <1>6, <1>7, <1>8, <1>9, BooksMove

LEMMA BuyLenderBooks ==
  ASSUME IInv, IInv', RewardsInv, Books, NEW id \in LoanIds, NEW s \in Accounts, NEW a \in Buyers,
         BuyLender(id, s, a)
  PROVE  Books'
<1> DEFINE ask == lenderAsks[id][s]
<1>1. /\ TypeOK /\ TypeOK' /\ loans[id] \in LoanType /\ loans[id].state = "ACTIVE"
      /\ ask.price \in Nat /\ ask.feeBps \in 0 .. BPS
  <2>1. TypeOK /\ TypeOK' /\ loans[id].state = "ACTIVE"
    BY DEF IInv, BuyLender
  <2> QED BY <2>1 DEF TypeOK, LenderAskType
<1>2. /\ lenders' = [lenders EXCEPT ![id] = [i \in Slots |-> IF i \in ask.slots THEN a ELSE @[i]]]
      /\ UNCHANGED <<loans, right, openExposure>>
      /\ SettleSale(s, ask) /\ Rewards!TransferLender(id, s, a, ask.slots)
  BY DEF BuyLender
<1> HIDE DEF ask
<1>3. allocations' = [allocations EXCEPT ![id].lenders = [i \in Slots |-> IF i \in ask.slots THEN a ELSE @[i]]]
  BY <1>2, RewardSlots DEF Rewards!TransferLender
<1>4. allocations \in [LoanIds -> AllocationType]
  BY DEF RewardsInv, RewardTypes
<1>5. OnlyRecord(id)
  BY <1>1, <1>2, <1>3, <1>4 DEF OnlyRecord, TypeOK
<1>6. Follows(loans'[id], right'[id], lenders'[id], allocations'[id])
  <2>1. lenders'[id] = [i \in Slots |-> IF i \in ask.slots THEN a ELSE lenders[id][i]]
    BY <1>1, <1>2 DEF TypeOK
  <2>2. /\ allocations'[id].lenders = [i \in Slots |-> IF i \in ask.slots THEN a ELSE allocations[id].lenders[i]]
        /\ allocations'[id].start = allocations[id].start /\ allocations'[id].end = allocations[id].end
        /\ allocations'[id].borrower = allocations[id].borrower
    BY <1>3, <1>4 DEF AllocationType
  <2> QED BY <1>1, <1>2, <2>1, <2>2, FollowsAt DEF Follows
<1> DEFINE c == ask.price
<1>7. CashMoves(c, c)
  BY <1>1, <1>2, SaleCash
<1>8. CommittedAt(loans'[id], lenders'[id]) = CommittedAt(loans[id], lenders[id]) + (c - c)
  BY <1>1, <1>2 DEF CommittedAt
<1>9. ExposureMoves(NoAccount, 0)
  BY <1>1, <1>2, ExposureKept
<1>10. \A k \in Keys : ExposureAt(loans'[id], k) = ExposureAt(loans[id], k) + (IF k = NoAccount THEN 0 ELSE 0)
  BY <1>1, <1>2, ExposureSame
<1> HIDE DEF c
<1> QED BY <1>1, <1>5, <1>6, <1>7, <1>8, <1>9, <1>10, BooksMove

(***************************************************************************)
(* Steps that touch no loan record.                                        *)
(***************************************************************************)
LEMMA WithdrawUSDGBooks ==
  ASSUME IInv, Books, NEW a \in Accounts, WithdrawUSDG(a)
  PROVE  Books'
<1> DEFINE c == cashCredit[a]
<1>1. TypeOK /\ cashCredit \in [Accounts -> Nat] /\ accountedCash \in Nat /\ c \in Nat
  BY DEF IInv, TypeOK
<1>2. /\ cashCredit' = [cashCredit EXCEPT ![a] = 0] /\ accountedCash' = accountedCash - c
      /\ UNCHANGED <<loans, lenders, right, allocations, openExposure>>
  BY DEF WithdrawUSDG, rewardVars, loanVars
<1>3. /\ \A x \in Accounts : cashCredit[x] \in Int /\ cashCredit'[x] \in Int
      /\ \A x \in Accounts \ {a} : cashCredit'[x] = cashCredit[x]
      /\ cashCredit'[a] = cashCredit[a] + (-c)
      /\ -c \in Int
  BY <1>1, <1>2
<1> HIDE DEF c
<1>4. SumFunctionOnSet(cashCredit', Accounts) = Credits + (-c)
  BY <1>3, SumMoved, Finite DEF Credits
<1>5. CashMoves(-c, -c)
  BY <1>1, <1>2, <1>3, <1>4 DEF CashMoves
<1> QED BY <1>1, <1>2, <1>5, BooksStay

\* Custody, asks, the registry, donations and the clock leave the entries alone.
LEMMA OtherBooks ==
  ASSUME IInv, Books, UNCHANGED <<loans, lenders, right, allocations, openExposure, cashVars>>
  PROVE  Books'
<1>1. TypeOK
  BY DEF IInv
<1>2. CashMoves(0, 0)
  BY <1>1, CashKept
<1> QED BY <1>1, <1>2, BooksStay

(***************************************************************************)
(* Theorems.                                                               *)
(***************************************************************************)
LEMMA BooksInit == Init => Books
<1> SUFFICES ASSUME Init PROVE Books
  OBVIOUS
<1>1. \A id \in LoanIds : loans[id].state = "NONE"
  BY DEF Init, NoLoan
<1>2. CashBalanced
  <2>1. \A x \in Accounts : cashCredit[x] = 0
    BY DEF Init
  <2> DEFINE f == [id \in LoanIds |-> CommittedAt(loans[id], lenders[id])]
  <2>2. \A id \in LoanIds : f[id] = 0
    BY <1>1 DEF CommittedAt
  <2> HIDE DEF f
  <2>3. SumFunctionOnSet(f, LoanIds) = 0 /\ SumFunctionOnSet(cashCredit, Accounts) = 0
    BY <2>1, <2>2, SumZero, Finite
  <2> QED BY <2>3 DEF CashBalanced, Credits, Commitments, Init, f
<1>3. ExposureBalanced
  <2>1. SUFFICES ASSUME NEW k \in Keys PROVE openExposure[k] = Exposures(k)
    BY DEF ExposureBalanced
  <2> DEFINE f == [id \in LoanIds |-> ExposureAt(loans[id], k)]
  <2>2. \A id \in LoanIds : f[id] = 0
    BY <1>1 DEF ExposureAt, OpenStates
  <2> HIDE DEF f
  <2>3. SumFunctionOnSet(f, LoanIds) = 0
    BY <2>2, SumZero, Finite
  <2> QED BY <2>3 DEF Exposures, Init, f
<1>4. LedgerFollows
  BY <1>1 DEF LedgerFollows, Follows, OpenStates, Init, Rewards!Init, Rewards!NoAllocation
<1> QED BY <1>2, <1>3, <1>4 DEF Books

LEMMA BooksNext == IInv /\ IInv' /\ RewardsInv /\ Books /\ [Next]_vars => Books'
<1> SUFFICES ASSUME IInv, IInv', RewardsInv, Books, [Next]_vars PROVE Books'
  OBVIOUS
<1>1. CASE DoList
  BY <1>1, ListBooks DEF DoList
<1>2. CASE DoFundPart
  BY <1>2, FundPartBooks DEF DoFundPart
<1>3. CASE DoFundLast
  BY <1>3, FundLastBooks DEF DoFundLast
<1>4. CASE DoWithdrawCommitment
  BY <1>4, WithdrawCommitmentBooks DEF DoWithdrawCommitment
<1>5. CASE DoCancelFunding
  BY <1>5, CancelFundingBooks DEF DoCancelFunding
<1>6. CASE DoReclaim
  BY <1>6, ReclaimBooks, VaultAssumption DEF DoReclaim
<1>7. CASE DoFinalizeDefault
  BY <1>7, FinalizeDefaultBooks DEF DoFinalizeDefault
<1>8. CASE DoBuy
  BY <1>8, BuyBooks DEF DoBuy
<1>9. CASE DoBuyLender
  BY <1>9, BuyLenderBooks DEF DoBuyLender
<1>10. CASE DoWithdrawUSDG
  BY <1>10, WithdrawUSDGBooks DEF DoWithdrawUSDG
<1>11. CASE UNCHANGED <<loans, lenders, right, allocations, openExposure, cashVars>>
  BY <1>11, OtherBooks
<1>12. CASE \/ DoWithdrawCollateral \/ DoWithdrawRepaidUnderlying \/ DoRecoverDefault
            \/ DoWithdrawRecovery \/ DoAddLiquidity
  <2>1. UNCHANGED custodyFrame
    BY <1>12 DEF DoWithdrawCollateral, WithdrawCollateral, DoWithdrawRepaidUnderlying,
         WithdrawRepaidUnderlying, DoRecoverDefault, RecoverDefault, DoWithdrawRecovery,
         WithdrawRecovery, DoAddLiquidity, AddLiquidity
  <2> QED BY <2>1, <1>11 DEF custodyFrame, rewardVars, loanVars
<1>13. CASE DoSetAsk \/ DoCancelAsk \/ DoSetLenderAsk \/ DoCancelLenderAsk
  <2>1. UNCHANGED <<rewardVars, loanVars, right, cashVars, openExposure>>
    BY <1>13 DEF DoSetAsk, SetAsk, DoCancelAsk, CancelAsk, DoSetLenderAsk, SetLenderAsk,
         DoCancelLenderAsk, CancelLenderAsk
  <2> QED BY <2>1, <1>11 DEF rewardVars, loanVars
<1>14. CASE RegistryStep \/ FundRewards \/ DoClaimReward \/ Tick \/ UNCHANGED vars
  <2>1. UNCHANGED vaultVars
    BY <1>14 DEF RegistryStep, FundRewards, DoClaimReward, ClaimReward, Tick, vars
  <2>2. UNCHANGED allocations
    BY <1>14 DEF RegistryStep, FundRewards, DoClaimReward, ClaimReward, Tick, vars, rewardVars,
         Rewards!DoFund, Rewards!Fund, Rewards!Claim, Rewards!Tick, Rewards!rewardLedger
  <2> QED BY <2>1, <2>2, <1>11 DEF vaultVars, loanVars
<1> QED BY <1>1, <1>2, <1>3, <1>4, <1>5, <1>6, <1>7, <1>8, <1>9, <1>10, <1>12, <1>13, <1>14 DEF Next

\* The strengthening: cash and exposure are the sums of the loans' entries and
\* each loan's reward allocation agrees with its records, next to what is known
\* of the records (IInv) and of the reward ledger (RewardsInv).
THEOREM BooksInductive == Spec => [](IInv /\ RewardsInv /\ Books)
<1>1. IInv /\ [Next]_vars => IInv'
  BY NextIInv
<1> QED BY <1>1, BooksInit, BooksNext, RewardsInductive, PTL DEF Spec

\* After any order of fills, withdrawals, cancellations, sales, repayments and
\* defaults: the cash accounted for is the credits and the commitments, each
\* market's exposure that of its open loans, and the reward reserve what the
\* loans can still draw.
THEOREM TheBooksBalance == Spec => []BooksBalance
<1>1. TypeOK /\ Books => CashSolvent /\ ExposureMatchesOpenLoans
  <2> SUFFICES ASSUME TypeOK, Books PROVE CashSolvent /\ ExposureMatchesOpenLoans
    OBVIOUS
  <2>1. CashSolvent
    <3>1. [id \in LoanIds |-> Committed(id)] = [id \in LoanIds |-> CommittedAt(loans[id], lenders[id])]
      BY DEF Committed, CommittedAt, Empty
    <3>2. SumFunction([id \in LoanIds |-> Committed(id)]) = Commitments
      <4> DEFINE f == [id \in LoanIds |-> CommittedAt(loans[id], lenders[id])]
      <4>1. SumFunction(f) = SumFunctionOnSet(f, LoanIds)
        BY DEF SumFunction
      <4> QED BY <3>1, <4>1 DEF Commitments
    <3>3. SumFunction(cashCredit) = Credits
      BY DEF SumFunction, Credits, TypeOK
    <3> QED BY <3>2, <3>3 DEF CashSolvent, Books, CashBalanced
  <2>2. ExposureMatchesOpenLoans
    <3>1. SUFFICES ASSUME NEW k \in Keys PROVE openExposure[k] = SumFunction(ExposureOf(k))
      BY DEF ExposureMatchesOpenLoans
    <3>2. ExposureOf(k) = [id \in LoanIds |-> ExposureAt(loans[id], k)]
      BY DEF ExposureOf, ExposureAt
    <3> DEFINE f == [id \in LoanIds |-> ExposureAt(loans[id], k)]
    <3>3. SumFunction(f) = SumFunctionOnSet(f, LoanIds)
      BY DEF SumFunction
    <3> QED BY <3>2, <3>3 DEF Books, ExposureBalanced, Exposures
  <2> QED BY <2>1, <2>2
<1>2. IInv /\ RewardsInv /\ Books => BooksBalance
  BY <1>1, ReserveFollows DEF BooksBalance, IInv
<1> QED BY <1>2, BooksInductive, PTL

\* The reward ledger accrues to the holder of the right and of each unit, and
\* is live exactly while the loan is active.
THEOREM LedgerFollowsRights == Spec => []RewardsFollowRights
<1>1. Books => RewardsFollowRights
  BY DEF Books, LedgerFollows, Follows, RewardsFollowRights, Rewards!Live
<1> QED BY <1>1, BooksInductive, PTL


(***************************************************************************)
(* The checked subtractions on the ways out.                               *)
(***************************************************************************)
\* A close credits the holder of the right up to now and gives back the rest.
CloseCannotRevert(id) ==
  LET a == [allocations[id] EXCEPT !.end = now]
  IN  /\ Rewards!BorrowerAccrual(a) >= 0
      /\ a.borrowerTotal + a.lenderTotal - Rewards!Curve(a.borrowerTotal, a) - Rewards!Curve(a.lenderTotal, a)
           <= reserved

\* A sale of units credits each with no less than was credited before.
SaleCannotRevert(id) ==
  \A i \in Slots :
    Slice(Rewards!Curve(allocations[id].lenderTotal, allocations[id]), i) >= lenderAccounted[id][i]

\* None of the subtractions that cancelling, repaying, defaulting, selling
\* units, claiming and withdrawing make goes below zero.
ExitsNeverRevert ==
  /\ \A id \in LoanIds :
       /\ loans[id].state \in OpenStates => loans[id].exposureAmount <= openExposure[loans[id].exposureKey]
       /\ loans[id].state = "ACTIVE" => CloseCannotRevert(id) /\ SaleCannotRevert(id)
       /\ \A x \in Accounts : Rewards!Claimable(id, x) \in 0 .. reserved
  /\ \A x \in Accounts : cashCredit[x] <= accountedCash

LEMMA ReserveCovers == RewardsInv => \A id \in LoanIds : Owed(id) \in Int /\ Owed(id) <= reserved
<1> SUFFICES ASSUME RewardsInv PROVE \A id \in LoanIds : Owed(id) \in Int /\ Owed(id) <= reserved
  OBVIOUS
<1> DEFINE f == [id \in LoanIds |-> Owed(id)]
<1>1. \A id \in LoanIds : Owed(id) \in Nat
  <2> TAKE id \in LoanIds
  <2>1. Owed(id) \in Int
    BY OneLedger DEF Owed
  <2>2. Owed(id) >= 0
    BY OneLedger, OutstandingCovers DEF Owed
  <2> QED BY <2>1, <2>2
<1>2. reserved = SumFunctionOnSet(f, LoanIds) /\ \A id \in LoanIds : f[id] = Owed(id) /\ f[id] \in Nat
  BY <1>1 DEF RewardsInv, ReserveIsOwed
<1> HIDE DEF f
<1>3. \A id \in LoanIds : f[id] <= SumFunctionOnSet(f, LoanIds)
  BY <1>2, SumCovers, Finite
<1> QED BY <1>1, <1>2, <1>3

\* Whatever was listed, sold, repaid or claimed before: nothing on the way out
\* underflows, so what a caller is entitled to is never stuck behind a check.
THEOREM NothingUnderflows == Spec => []ExitsNeverRevert
<1>1. ASSUME IInv, RewardsInv, Books, NEW id \in LoanIds, loans[id].state \in OpenStates
      PROVE  loans[id].exposureAmount <= openExposure[loans[id].exposureKey]
  <2> DEFINE k == loans[id].exposureKey
             f == [j \in LoanIds |-> ExposureAt(loans[j], k)]
  <2>1. k \in Keys
    BY <1>1, FollowsAt DEF Follows
  <2>2. \A j \in LoanIds : f[j] \in Nat
    <3>1. \A j \in LoanIds : loans[j].exposureAmount \in Nat
      BY <1>1 DEF IInv, TypeOK, LoanType
    <3> QED BY <3>1 DEF ExposureAt
  <2>3. f[id] = loans[id].exposureAmount
    BY <1>1 DEF ExposureAt
  <2>4. openExposure[k] = SumFunctionOnSet(f, LoanIds)
    BY <1>1, <2>1 DEF Books, ExposureBalanced, Exposures
  <2> HIDE DEF f, k
  <2>5. f[id] <= SumFunctionOnSet(f, LoanIds)
    BY <1>1, <2>2, SumCovers, Finite
  <2> QED BY <2>3, <2>4, <2>5 DEF k
<1>2. ASSUME IInv, RewardsInv, Books, NEW id \in LoanIds, loans[id].state = "ACTIVE"
      PROVE  CloseCannotRevert(id) /\ SaleCannotRevert(id)
  <2> DEFINE a == allocations[id]
             z == [a EXCEPT !.end = now]
  <2>1. /\ LedgerOK(a, earnedBorrower[id], earnedLender[id], lenderAccounted[id], claimed[id], now)
        /\ a.start # 0 /\ a.end = 0 /\ now \in Nat \ {0} /\ a \in AllocationType
    BY <1>2, OneLedger, FollowsAt DEF Follows
  <2>2. StartedBy(a, now) /\ NeverAhead(a, lenderAccounted[id], now)
    BY <2>1 DEF LedgerOK
  <2>3. /\ z.borrowerTotal = a.borrowerTotal /\ z.lenderTotal = a.lenderTotal
        /\ z.borrowerAccounted = a.borrowerAccounted
        /\ z.start = a.start /\ z.term = a.term /\ z.end = now
    BY <2>1 DEF AllocationType
  <2> HIDE DEF z, a
  <2>4. \A m : CurveAt(m, z, now) = CurveAt(m, a, now)
    BY <2>1, <2>3 DEF CurveAt, ElapsedAt
  <2>5. /\ CurveAt(a.borrowerTotal, a, now) \in Nat /\ CurveAt(a.lenderTotal, a, now) \in Nat
        /\ a.borrowerAccounted \in Int
    BY <2>1, <2>2, CurveNat DEF AllocationType
  <2>6. Rewards!BorrowerAccrual(z) >= 0
    BY <2>2, <2>3, <2>4, <2>5, CurveIs DEF Rewards!BorrowerAccrual, NeverAhead
  <2>7. a.borrowerTotal + a.lenderTotal - CurveAt(a.borrowerTotal, a, now) - CurveAt(a.lenderTotal, a, now)
          <= reserved
    <3>1. a.borrowerTotal + a.lenderTotal - CurveAt(a.borrowerTotal, a, now) - CurveAt(a.lenderTotal, a, now)
            <= Owed(id)
      BY <2>1, OutstandingCovers DEF Owed, a
    <3>2. Owed(id) \in Int /\ Owed(id) <= reserved /\ reserved \in Int
      BY <1>2, ReserveCovers DEF RewardsInv, RewardTypes
    <3>3. a.borrowerTotal \in Nat /\ a.lenderTotal \in Nat
      BY <2>1 DEF AllocationType
    <3> QED BY <2>5, <3>1, <3>2, <3>3
  <2>8. CloseCannotRevert(id)
    BY <2>3, <2>4, <2>6, <2>7, CurveIs DEF CloseCannotRevert, z, a
  <2>9. SaleCannotRevert(id)
    <3> DEFINE e == CurveAt(a.lenderTotal, a, now)
    <3>1. \A i \in Slots : Slice(e, i) \in Nat /\ lenderAccounted[id][i] \in Int
      BY <2>1, <2>5, SliceNat DEF LedgerOK
    <3>2. \A i \in Slots : Slice(e, i) - lenderAccounted[id][i] >= 0
      BY <2>2 DEF NeverAhead, UnitAccrual
    <3> HIDE DEF e
    <3>3. \A i \in Slots : Slice(e, i) >= lenderAccounted[id][i]
      BY <3>1, <3>2
    <3> QED BY <3>3, CurveIs DEF SaleCannotRevert, e, a
  <2> QED BY <2>8, <2>9
<1>3. ASSUME IInv, RewardsInv, Books, NEW id \in LoanIds, NEW x \in Accounts
      PROVE  Rewards!Claimable(id, x) \in 0 .. reserved
  <2> DEFINE c == Rewards!Claimable(id, x)
  <2>1. c \in Int /\ c >= 0 /\ c <= Owed(id)
    <3>1. c = ClaimableAt(allocations[id], earnedBorrower[id], earnedLender[id], lenderAccounted[id],
                          claimed[id], now, x)
      BY ClaimableIs
    <3> HIDE DEF c
    <3>2. c \in Int /\ c <= Owed(id)
      BY <1>3, <3>1, OneLedger, ClaimableInt, OutstandingCovers DEF Owed
    <3>3. c >= 0
      BY <1>3, <3>1, OneLedger DEF LedgerOK
    <3> QED BY <3>2, <3>3
  <2>2. Owed(id) \in Int /\ Owed(id) <= reserved /\ reserved \in Int
    BY <1>3, ReserveCovers DEF RewardsInv, RewardTypes
  <2> HIDE DEF c
  <2>3. c \in 0 .. reserved
    BY <2>1, <2>2
  <2> QED BY <2>3 DEF c
<1>4. ASSUME IInv, RewardsInv, Books, NEW x \in Accounts
      PROVE  cashCredit[x] <= accountedCash
  <2> DEFINE f == [id \in LoanIds |-> CommittedAt(loans[id], lenders[id])]
  <2>1. \A y \in Accounts : cashCredit[y] \in Nat
    BY <1>4 DEF IInv, TypeOK
  <2>2. cashCredit[x] <= Credits /\ Credits \in Nat
    BY <1>4, <2>1, SumCovers, Finite DEF Credits
  <2>3. \A id \in LoanIds : f[id] \in Int /\ f[id] >= 0
    <3>1. \A id \in LoanIds : loans[id].principal \in Nat
      BY <1>4 DEF IInv, TypeOK, LoanType
    <3> QED BY <3>1, ShareNat DEF CommittedAt
  <2>4. Commitments = SumFunctionOnSet(f, LoanIds)
    BY DEF Commitments
  <2> HIDE DEF f
  <2>5. Commitments \in Int /\ Commitments >= 0
    BY <2>3, <2>4, SumType, Finite
  <2>6. accountedCash = Credits + Commitments
    BY <1>4 DEF Books, CashBalanced
  <2> QED BY <1>4, <2>1, <2>2, <2>5, <2>6
<1>5. IInv /\ RewardsInv /\ Books => ExitsNeverRevert
  BY <1>1, <1>2, <1>3, <1>4 DEF ExitsNeverRevert
<1> QED BY <1>5, BooksInductive, PTL
=============================================================================
