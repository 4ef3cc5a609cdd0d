------------------------------- MODULE GasQuery -------------------------------
(***************************************************************************)
(* GasCostCalculator: the calls of RangeQuery with the GasCostResult they   *)
(* sum up (src/gas/calculator.rs, core.rs, transaction.rs, adapter.rs and   *)
(* src/types/gas.rs, wei.rs).  A result is built three ways - from the logs *)
(* of a gap, from cached entries, and from both - and every addition in it  *)
(* saturates at U256::MAX.                                                  *)
(*                                                                         *)
(* RangeQuery says which blocks a result stands for; this module says what  *)
(* the code charges for them, next to it, step by step.                     *)
(***************************************************************************)
EXTENDS RangeQuery, Sequences

CONSTANTS
    WeiMax,   \* U256::MAX
    TxsOf,    \* per block, the transaction behind each matching log, in log order
    NoFee     \* what EthereumReceiptAdapter gives as l1_data_fee

Tx == [is_legacy : BOOLEAN, gas_used : Nat, gas_price : Nat, receipt_price : Nat,
       l1_fee : Nat \cup {NoFee}, blob_cost : Nat]

ASSUME GasQueryAssumption == WeiMax \in Nat /\ TxsOf \in [Blocks -> Seq(Tx)]

VARIABLES
    accBill,   \* gas_data of each call, as amounts
    entryBill  \* the GasCostResult in each cache entry

gasVars == <<vars, accBill, entryBill>>

-----------------------------------------------------------------------------
(* GasCostResult *)

SatAdd(a, b) == Min({a + b, WeiMax})
SatMul(a, b) == Min({a * b, WeiMax})

NoBill == [total |-> 0, count |-> 0, execution |-> 0, blob |-> 0, l1_fee |-> 0]

\* A legacy or EIP-2930 transaction pays its own gas price
EffectiveGasPrice(tx) == IF tx.is_legacy THEN tx.gas_price ELSE tx.receipt_price

\* GasForTx is made of the gas, the price and the L1 fee; the blobs, whose cost
\* has just been computed, are not passed on
GasForTx(tx) ==
    [gas_used |-> tx.gas_used, price |-> EffectiveGasPrice(tx),
     l1_fee |-> IF tx.l1_fee = NoFee THEN 0 ELSE tx.l1_fee, blob_cost |-> 0]

Breakdown(gas) ==
    [execution |-> SatMul(gas.gas_used, gas.price), blob |-> gas.blob_cost, l1_fee |-> gas.l1_fee]

\* GasBreakdown::total_cost
TotalCost(b) == SatAdd(SatAdd(b.execution, b.blob), b.l1_fee)

\* A bug: the L1 fees of the other result are forgotten
MergeBillWithoutFees(a, b) ==
    [total |-> SatAdd(a.total, b.total), count |-> a.count + b.count,
     execution |-> SatAdd(a.execution, b.execution), blob |-> SatAdd(a.blob, b.blob),
     l1_fee |-> a.l1_fee]

\* GasCostResult::merge
MergeBill(a, b) ==
    [total |-> SatAdd(a.total, b.total), count |-> a.count + b.count,
     execution |-> SatAdd(a.execution, b.execution), blob |-> SatAdd(a.blob, b.blob),
     l1_fee |-> SatAdd(a.l1_fee, b.l1_fee)]

\* GasCostResult::add_transaction: the total and the breakdown, each on its own
AddTransaction(bill, tx) ==
    LET breakdown == Breakdown(GasForTx(tx))
    IN  MergeBill(bill, [total |-> TotalCost(breakdown), count |-> 1,
                         execution |-> breakdown.execution, blob |-> breakdown.blob,
                         l1_fee |-> breakdown.l1_fee])

AddTransactions(bill, txs) ==
    LET after[n \in 0 .. Len(txs)] ==
          IF n = 0 THEN bill ELSE AddTransaction(after[n - 1], txs[n])
    IN  after[Len(txs)]

\* process_logs_in_range: the logs of the blocks in order, one lookup each
BillOf(contributions) ==
    LET blocks == {c[2] : c \in contributions}
        before[b \in 0 .. U64Max + 1] ==
          IF b = 0 THEN NoBill
          ELSE IF b - 1 \in blocks THEN AddTransactions(before[b - 1], TxsOf[b - 1])
          ELSE before[b - 1]
    IN  before[U64Max + 1]

\* The merge of cached entries, in the order HashMap and sort leave them
BillOfEntries(W) == FoldSet(LAMBDA e, bill : MergeBill(bill, entryBill[e]), NoBill, W)

-----------------------------------------------------------------------------

GasInit == Init /\ accBill = [t \in Tasks |-> NoBill] /\ entryBill = <<>>

\* What the cache holds after an insert; a rejected insert leaves no trace of it
Stored(e, bill) ==
    entryBill' = [f \in cache' |-> IF f = e THEN bill ELSE entryBill[f]]

Kept == entryBill' = [f \in cache' |-> entryBill[f]]

AskGas(t) ==
    /\ Lookup(t)
    /\ accBill' = [accBill EXCEPT ![t] =
            BillOfEntries(WithinQuery(cache, KeyOf[query'[t].job], query'[t].lo, query'[t].hi))]
    /\ UNCHANGED entryBill

ScanGas(t) == ScanChunk(t) /\ UNCHANGED <<accBill, entryBill>>

\* A chunk, a log that does not decode, a transaction or a receipt lookup fails
FailGas(t) == ScanFails(t) /\ accBill' = [accBill EXCEPT ![t] = NoBill] /\ UNCHANGED entryBill

\* The gap's logs are turned into its result, which is cached and merged
FinishGasGap(t) ==
    /\ FinishGap(t)
    /\ \E g \in todo[t] :
        /\ IsNext(todo[t], g)
        /\ Stored([key |-> KeyOfTask(t), lo |-> g.lo, hi |-> g.hi, value |-> part[t]],
                  BillOf(part[t].seen))
    /\ accBill' = [accBill EXCEPT ![t] = MergeBill(@, BillOf(part[t].seen))]

WriteBackGas(t) ==
    /\ WriteBack(t)
    /\ Stored([key |-> KeyOfTask(t), lo |-> query[t].lo, hi |-> query[t].hi, value |-> acc[t]],
              accBill[t])
    /\ UNCHANGED accBill

ReturnGas(t) == Return(t) /\ accBill' = [accBill EXCEPT ![t] = NoBill] /\ UNCHANGED entryBill

GasStep(t) == AskGas(t) \/ ScanGas(t) \/ FailGas(t) \/ FinishGasGap(t)
                \/ WriteBackGas(t) \/ ReturnGas(t)

GasNext == \/ \E t \in Tasks : GasStep(t)
           \/ Clear /\ Kept /\ UNCHANGED accBill
           \/ NewBlock /\ UNCHANGED <<accBill, entryBill>>

GasSpec == GasInit /\ [][GasNext]_gasVars

-----------------------------------------------------------------------------
(* Properties *)

\* What a transaction costs, without a limit
Due(tx) ==
    LET execution == tx.gas_used * EffectiveGasPrice(tx)
        fee == IF tx.l1_fee = NoFee THEN 0 ELSE tx.l1_fee
    IN  [total |-> execution + fee, count |-> 1, execution |-> execution, l1_fee |-> fee,
         with_blobs |-> execution + fee + tx.blob_cost]

BlockDue(field, b) == MapThenSumSet(LAMBDA i : Due(TxsOf[b][i])[field], DOMAIN TxsOf[b])

\* The sum of an amount over the transactions of the blocks
Exact(field, blocks) == MapThenSumSet(LAMBDA b : BlockDue(field, b), blocks)

Charges(bill, blocks) ==
    /\ bill.count = Exact("count", blocks)
    /\ \A field \in {"total", "execution", "l1_fee"} :
          bill[field] = Min({WeiMax, Exact(field, blocks)})
    /\ bill.total = TotalCost(bill)

BlocksIn(result) == {c[2] : c \in result.seen}

\* However a result was put together - from logs, from entries other calls
\* cached, merged in any order, saturated on the way or not - it charges each
\* block it stands for exactly once: the total is the sum, cut at U256::MAX,
\* and the breakdown adds up to the total.
BillIsTheSum ==
    /\ \A e \in cache : Charges(entryBill[e], BlocksIn(e.value))
    /\ \A t \in Tasks : pc[t] # "idle" => Charges(accBill[t], BlocksIn(acc[t]))

\* What calculator.rs:249 says of total_gas_cost: that it "includes L1 data fees
\* for L2 chains and blob gas".
BlobsAreCharged ==
    \A t \in Tasks : pc[t] = "done" =>
        accBill[t].total = Min({WeiMax, Exact("with_blobs", BlocksIn(acc[t]))})
==============================================================================
