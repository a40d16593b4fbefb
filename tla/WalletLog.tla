----------------------------- MODULE WalletLog -----------------------------
(* What the keeper's sender and its journal promise about the hot wallet:    *)
(* transactions enter one after another, the next one only after the last    *)
(* one is settled or void, and each takes effect at most once.               *)
EXTENDS Naturals

CONSTANT Txs            \* the transactions the sender may ever sign

VARIABLES inflight,     \* the transaction the sender answers for, or NoTx
          fate          \* what became of each transaction

NoTx == 0
Effects == {"success", "reverted"}

Init == inflight = NoTx /\ fate = [k \in Txs |-> "unmined"]

\* A nonce read from a node that lags behind makes the transaction void at once.
Issue == /\ inflight = NoTx
         /\ \E k \in Txs : /\ fate[k] = "unmined" /\ inflight' = k
                          /\ \/ UNCHANGED fate
                             \/ fate' = [fate EXCEPT ![k] = "void"]

TakeEffect == /\ inflight # NoTx
              /\ fate[inflight] = "unmined"
              /\ \E f \in Effects : fate' = [fate EXCEPT ![inflight] = f]
              /\ UNCHANGED inflight

\* The wallet's owner uses the nonce.
Overtake == /\ inflight # NoTx
            /\ fate[inflight] = "unmined"
            /\ fate' = [fate EXCEPT ![inflight] = "void"]
            /\ UNCHANGED inflight

Close == /\ inflight # NoTx
         /\ fate[inflight] # "unmined"
         /\ inflight' = NoTx
         /\ UNCHANGED fate

Next == Issue \/ TakeEffect \/ Overtake \/ Close

Spec == Init /\ [][Next]_<<inflight, fate>>
=============================================================================
