------------------------------- MODULE EthTx -------------------------------
(* An Ethereum transaction in a block: the mono ante handler (app/ante/evm) *)
(* charges and numbers all its messages, then x/evm applies them one by one,*)
(* refunds the gas left and pays the revenue share of registered contracts. *)
(* Both halves can fail, and each falls back to its own checkpoint.  What   *)
(* the EVM computes is abstracted to the gas used, the gas counter of its   *)
(* refunds, success or failure, and the transfer of the message's value.    *)
EXTENDS FeeMarket, Sequences, FiniteSetsExt

CONSTANTS Accounts,         \* addresses
          Create,           \* recipient of a message that creates a contract
          NewContract,      \* the account of the contracts so created
          Payloads,         \* messages without their nonce
          MaxNonce,         \* bound: nonces a message may carry
          InitialBalance,   \* balance of every account at the start
          Clawback,         \* accounts that are clawback vesting accounts
          Locked,           \* coins locked in an account, 0 unless it vests
          Intrinsic,        \* intrinsic gas of a call
          IntrinsicCreate,  \* intrinsic gas of a creation
          RefundQuotient,   \* params.RefundQuotientEIP3529
          MaxRefund,        \* bound: the refund counter of an execution
          EnableCreate,     \* EVM parameters
          EnableCall,
          Precompiles,      \* active precompiles
          Withdrawer,       \* registered contract |-> account its revenue goes to
          DeveloperShares,  \* revenue parameter, zero if revenue is disabled
          None

VARIABLES world,         \* balances, nonces, fees collected and fees distributed
          stage,         \* "idle", "ante" or "run": inside a transaction
          declared,      \* gas limit the transaction's fee declares
          msgs,          \* messages the ante handler has accepted
          txGasLimit,    \* sum of their gas limits
          expenses,      \* EthVestingExpenseTracker of each sender that vests
          next,          \* message being applied
          gasUsed,       \* transient store: gas used by this transaction
          checkpoint,    \* the world a failure falls back to
          before,        \* transient gas wanted when the transaction began
          start,         \* history: the world when the transaction began
          sent           \* history: messages accepted from each account

txVars == <<world, stage, declared, msgs, txGasLimit, expenses, next, gasUsed,
            checkpoint, before, start, sent>>
vars == <<feeVars, txVars>>

Messages == {[nonce |-> n, from |-> p.from, to |-> p.to, value |-> p.value, gas |-> p.gas,
              feeCap |-> p.feeCap, tipCap |-> p.tipCap, data |-> p.data] :
                p \in Payloads, n \in 0..MaxNonce}

World == [balance : [Accounts -> Int], nonce : [Accounts -> Nat], feeCollector : Int,
          distributed : Nat]

ASSUME EthTxAssumption ==
    /\ IsFiniteSet(Accounts)
    /\ NewContract \in Accounts /\ Create \notin Accounts /\ None \notin Accounts
    /\ \A p \in Payloads :
          /\ p.from \in Accounts \ {NewContract}   \* no contract signs
          /\ p.to \in Accounts \cup {Create}
          /\ p.value \in Nat /\ p.gas \in Nat /\ p.gas <= MaxInt64
          /\ p.tipCap \in Nat /\ p.feeCap \in Nat /\ p.tipCap <= p.feeCap
          /\ p.data \in BOOLEAN
    /\ MaxNonce \in Nat /\ InitialBalance \in Nat
    /\ Locked \in [Accounts -> Nat] /\ {a \in Accounts : Locked[a] > 0} \subseteq Clawback
    /\ Intrinsic \in Nat /\ IntrinsicCreate \in Nat
    /\ RefundQuotient \in Nat \ {0} /\ MaxRefund \in Nat
    /\ EnableCreate \in BOOLEAN /\ EnableCall \in BOOLEAN
    /\ Precompiles \subseteq Accounts /\ Withdrawer \in [Accounts -> Accounts \cup {None}]
    /\ DeveloperShares \in 0..One

EthTypeOK ==
    /\ TypeOK
    /\ world \in World /\ checkpoint \in World /\ start \in World
    /\ stage \in {"idle", "ante", "run"}
    /\ declared \in Nat /\ txGasLimit \in Nat /\ gasUsed \in Nat /\ before \in Nat
    /\ msgs \in Seq(Messages) /\ next \in 1..(Len(msgs) + 1)
    /\ sent \in [Accounts -> Nat]

Genesis == [balance |-> [a \in Accounts |-> InitialBalance],
            nonce |-> [a \in Accounts |-> 0],
            feeCollector |-> 0, distributed |-> 0]

EthInit ==
    /\ Init
    /\ world = Genesis /\ checkpoint = Genesis /\ start = Genesis
    /\ stage = "idle"
    /\ declared = 0 /\ msgs = <<>> /\ txGasLimit = 0 /\ expenses = <<>>
    /\ next = 1 /\ gasUsed = 0 /\ before = 0
    /\ sent = [a \in Accounts |-> 0]

-----------------------------------------------------------------------------
(* The ante handler.                                                        *)

\* Fault: the fee cap does not bound the price.
EffectiveGasPrice_NoCap(m) == m.tipCap + GetBaseFee

EffectiveGasPrice(m) == Smaller(m.tipCap + GetBaseFee, m.feeCap)
EffectiveFee(m) == EffectiveGasPrice(m) * m.gas
Cost(m) == m.feeCap * m.gas + m.value

Spendable(w, a) == Bigger(w.balance[a] - Locked[a], 0)

CheckGlobalFee(m) ==
    params.minGasPrice > 0 =>
        NewDec(EffectiveFee(m)) >= DecMul(params.minGasPrice, NewDec(m.gas))

\* A message without data is taken for neither a creation nor a call.
CheckDisabled(m) == m.data => IF m.to = Create THEN EnableCreate ELSE EnableCall

CheckSenderBalance(m) == world.balance[m.from] >= Cost(m)

CanTransfer(m) == m.feeCap >= GetBaseFee /\ world.balance[m.from] >= m.value

\* The tracker fixes what is spendable at the sender's first message and adds
\* up the values; fees do not count.
UpdateAccountExpenses(m) ==
    IF m.from \notin Clawback THEN expenses
    ELSE IF m.from \in DOMAIN expenses
    THEN [expenses EXCEPT ![m.from].total = @ + m.value]
    ELSE [a \in DOMAIN expenses \cup {m.from} |->
             IF a = m.from THEN [total |-> m.value, spendable |-> Spendable(world, a)]
             ELSE expenses[a]]

CheckVesting(m) ==
    m.from \in Clawback =>
        /\ m.from \notin DOMAIN expenses => world.balance[m.from] > 0
        /\ LET e == UpdateAccountExpenses(m)[m.from] IN e.total <= e.spendable

\* DeductTxCostsFromUserBalance.  The balance covers the fee, so no staking
\* rewards are claimed for it; locked coins do not pay fees.
CanDeduct(m) == EffectiveFee(m) = 0 \/ Spendable(world, m.from) >= EffectiveFee(m)

CheckNonce(m) == m.nonce = world.nonce[m.from]

AnteChecks(m) ==
    /\ CheckGlobalFee(m) /\ CheckDisabled(m)
    /\ CheckSenderBalance(m) /\ CanTransfer(m)
    /\ CheckVesting(m) /\ CanDeduct(m) /\ CheckNonce(m)
    /\ declared <= BlockGasLimit

\* ConsumeFees and IncrementNonce.
Charge(w, m) ==
    [w EXCEPT !.balance[m.from] = @ - EffectiveFee(m),
              !.feeCollector = @ + EffectiveFee(m),
              !.nonce[m.from] = @ + 1]

\* What belongs to one transaction only; the gas used stays in the transient store.
NoTx ==
    /\ declared' = 0 /\ msgs' = <<>> /\ txGasLimit' = 0 /\ expenses' = <<>>
    /\ next' = 1 /\ before' = 0
    /\ checkpoint' = world' /\ start' = world'

\* SetupContext resets the gas used of the transaction before.
StartTx(gas) ==
    /\ stage = "idle" /\ MayDeliver
    /\ stage' = "ante"
    /\ declared' = gas /\ msgs' = <<>> /\ txGasLimit' = 0 /\ expenses' = <<>>
    /\ next' = 1 /\ gasUsed' = 0
    /\ checkpoint' = world /\ start' = world /\ before' = transientGasWanted
    /\ UNCHANGED <<feeVars, world, sent>>

\* One turn of the loop over the messages, up to CheckGasWanted.
AnteMsg(m) ==
    /\ stage = "ante" /\ Len(msgs) < MaxMsgs
    /\ AnteChecks(m)
    /\ world' = Charge(world, m)
    /\ msgs' = Append(msgs, m) /\ txGasLimit' = txGasLimit + m.gas
    /\ expenses' = UpdateAccountExpenses(m)
    /\ transientGasWanted' = IF IsBaseFeeEnabled(params, height)
                             THEN AddTransientGasWanted(declared)
                             ELSE transientGasWanted
    /\ UNCHANGED <<height, phase, params, blockGasWanted, blockGas, halted, txs, wanted, parent>>
    /\ UNCHANGED <<stage, declared, next, gasUsed, checkpoint, before, start, sent>>

\* CheckTxFee and CheckBlockGasLimit; what the ante handler wrote is kept.
EndAnte ==
    /\ stage = "ante" /\ msgs # <<>>
    /\ txGasLimit = declared
    /\ stage' = "run" /\ checkpoint' = world
    /\ UNCHANGED <<feeVars, world, declared, msgs, txGasLimit, expenses, next, gasUsed,
                   before, start, sent>>

\* Fault: the gas wanted stays in the transient store.
Refuse_KeepsWanted ==
    /\ stage = "ante"
    /\ stage' = "idle"
    /\ world' = checkpoint
    /\ txs' = txs + 1
    /\ NoTx
    /\ UNCHANGED <<height, phase, params, blockGasWanted, transientGasWanted, blockGas, halted,
                   wanted, parent, gasUsed, sent>>

\* A check fails, on this message or on the fees of the whole transaction:
\* nothing of the transaction stays, and its infinite gas meter shows nothing.
Refuse ==
    /\ stage = "ante"
    /\ stage' = "idle"
    /\ world' = checkpoint /\ transientGasWanted' = before
    /\ txs' = txs + 1
    /\ NoTx
    /\ UNCHANGED <<height, phase, params, blockGasWanted, blockGas, halted, wanted, parent>>
    /\ UNCHANGED <<gasUsed, sent>>

-----------------------------------------------------------------------------
(* ApplyTransaction.                                                        *)

IntrinsicGas(m) == IF m.to = Create THEN IntrinsicCreate ELSE Intrinsic

Recipient(m) == IF m.to = Create THEN NewContract ELSE m.to

Transfer(w, from, to, amount) ==
    LET debited == [w.balance EXCEPT ![from] = @ - amount]
    IN  [w EXCEPT !.balance = [debited EXCEPT ![to] = @ + amount]]

\* Fault: the nonce of a creation is put back and not advanced.
Execute_NonceKept(w, m) ==
    LET paid == Transfer(w, m.from, Recipient(m), m.value) IN
    IF m.to = Create
    THEN [paid EXCEPT !.nonce[NewContract] = 1, !.nonce[m.from] = m.nonce]
    ELSE paid

\* A creation resets the sender's nonce to the message's and then advances it,
\* and the contract starts with nonce one; evm.Call leaves the nonces.
Execute(w, m) ==
    LET paid == Transfer(w, m.from, Recipient(m), m.value) IN
    IF m.to = Create
    THEN [paid EXCEPT !.nonce[NewContract] = 1, !.nonce[m.from] = m.nonce + 1]
    ELSE paid

GasToRefund(available, consumed) == Smaller(available, consumed \div RefundQuotient)

\* At least MinGasMultiplier of the gas limit is charged.  A gas limit fits an
\* int64, so the conversions are exact.
GasUsed(m, consumed) ==
    TruncateInt(Bigger(DecMul(NewDec(m.gas), params.minGasMultiplier), NewDec(consumed)))

\* Fault: the share is taken of the fee for the whole gas limit.
DeveloperFee_OfLimit(m, used) == TruncateInt(DeveloperShares * m.gas * EffectiveGasPrice(m))

DeveloperFee(m, used) == TruncateInt(DeveloperShares * used * EffectiveGasPrice(m))

HasRevenue(m) ==
    /\ m.to # Create /\ EffectiveGasPrice(m) > 0 /\ DeveloperShares > 0
    /\ m.to \in Precompiles \/ Withdrawer[m.to] # None

\* The bank sends no empty amount, and none the fee collector does not have.
HookFails(w, m, used) ==
    HasRevenue(m) /\ (DeveloperFee(m, used) = 0 \/ DeveloperFee(m, used) > w.feeCollector)

\* The share of a precompile goes to the community pool.
PostTxProcessing(w, m, used) ==
    LET fee == DeveloperFee(m, used) IN
    IF ~HasRevenue(m) THEN w
    ELSE IF m.to \in Precompiles
    THEN [w EXCEPT !.feeCollector = @ - fee, !.distributed = @ + fee]
    ELSE [w EXCEPT !.feeCollector = @ - fee, !.balance[Withdrawer[m.to]] = @ + fee]

RefundGas(w, m, leftover) ==
    [w EXCEPT !.balance[m.from] = @ + leftover * EffectiveGasPrice(m),
              !.feeCollector = @ - leftover * EffectiveGasPrice(m)]

\* What follows the execution of m into world w: refund, count, next message.
\* The refund always succeeds: see Solvent.
Settle(w, m, used) ==
    /\ world' = RefundGas(w, m, m.gas - used)
    /\ gasUsed' = gasUsed + used
    /\ next' = next + 1
    /\ UNCHANGED <<feeVars, stage, declared, msgs, txGasLimit, expenses, checkpoint, before,
                   start, sent>>

Running(m) == stage = "run" /\ next <= Len(msgs) /\ m = msgs[next]

\* ApplyMessageWithConfig returns an error before it runs the EVM.
Disabled(m) == IF m.to = Create THEN ~EnableCreate ELSE ~EnableCall
Runs(m) == ~Disabled(m) /\ m.gas >= IntrinsicGas(m)

\* The EVM refuses a transfer the sender can no longer pay.
Covered(m) == world.balance[m.from] >= m.value

\* Committing the state debits the sender through the bank, which keeps locked coins.
Commits(m) == m.from = Recipient(m) \/ m.value = 0 \/ Spendable(world, m.from) >= m.value

\* The EVM succeeds and so do the hooks: both are written.
MsgSucceeds(m, consumed, counter) ==
    LET used == GasUsed(m, consumed - GasToRefund(counter, consumed))
        w == Execute(world, m)
    IN  /\ Running(m) /\ Runs(m) /\ Covered(m) /\ Commits(m)
        /\ ~HookFails(w, m, used)
        /\ Settle(PostTxProcessing(w, m, used), m, used)

\* A hook fails: the message counts as failed and leaves nothing behind.
HookReverts(m, consumed, counter) ==
    LET used == GasUsed(m, consumed - GasToRefund(counter, consumed)) IN
    /\ Running(m) /\ Runs(m) /\ Covered(m) /\ Commits(m)
    /\ HookFails(Execute(world, m), m, used)
    /\ Settle(world, m, used)

\* The EVM reports an error: the state is dropped, the gas is charged.
MsgReverts(m, consumed) ==
    /\ Running(m) /\ Runs(m)
    /\ Covered(m) \/ consumed = IntrinsicGas(m)
    /\ Settle(world, m, GasUsed(m, consumed))

Outcome(m) ==
    \E consumed \in IntrinsicGas(m)..m.gas :
        \/ MsgReverts(m, consumed)
        \/ \E counter \in 0..MaxRefund :
              MsgSucceeds(m, consumed, counter) \/ HookReverts(m, consumed, counter)

Counted == [a \in Accounts |-> sent[a] + Cardinality({i \in DOMAIN msgs : msgs[i].from = a})]

\* ApplyTransaction returns an error: all messages are undone and all gas
\* declared is consumed.
FailTx(m) ==
    /\ Running(m)
    /\ ~Runs(m) \/ (Covered(m) /\ ~Commits(m))
    /\ stage' = "idle"
    /\ world' = checkpoint
    /\ blockGas' = blockGas + txGasLimit
    /\ txs' = txs + 1 /\ wanted' = wanted + Len(msgs) * declared /\ sent' = Counted
    /\ NoTx
    /\ UNCHANGED <<height, phase, params, blockGasWanted, transientGasWanted, halted, parent>>
    /\ UNCHANGED gasUsed

\* The SDK charges the block gas meter before it writes the messages' state:
\* past the limit the state is dropped, refunds included.
EndTx ==
    /\ stage = "run" /\ next > Len(msgs)
    /\ stage' = "idle"
    /\ blockGas' = blockGas + gasUsed
    /\ world' = IF MaxGas > 0 /\ blockGas + gasUsed > MaxGas THEN checkpoint ELSE world
    /\ txs' = txs + 1 /\ wanted' = wanted + Len(msgs) * declared /\ sent' = Counted
    /\ NoTx
    /\ UNCHANGED <<height, phase, params, blockGasWanted, transientGasWanted, halted, parent>>
    /\ UNCHANGED gasUsed

-----------------------------------------------------------------------------
(* Blocks.                                                                  *)

\* The distribution module empties the fee collector when a block begins.
NewBlock ==
    /\ stage = "idle" /\ BeginBlock
    /\ world' = [world EXCEPT !.feeCollector = 0, !.distributed = @ + world.feeCollector]
    /\ NoTx /\ gasUsed' = 0
    /\ UNCHANGED <<stage, sent>>

CloseBlock ==
    /\ stage = "idle"
    /\ EndBlock \/ \E p \in ParamSet : UpdateParams(p)
    /\ UNCHANGED txVars

Ante == (\E gas \in GasLimits : StartTx(gas)) \/ (\E m \in Messages : AnteMsg(m)) \/ EndAnte \/ Refuse

Apply == (\E m \in Messages : Outcome(m) \/ FailTx(m)) \/ EndTx

EthNext == NewBlock \/ Ante \/ Apply \/ CloseBlock

EthSpec == EthInit /\ [][EthNext]_vars

-----------------------------------------------------------------------------
(* Properties.                                                              *)

\* Whatever becomes of a transaction, when it is over no account is down by
\* more than the costs (fee cap times gas, plus value) of the messages it signed.
NoOvercharge ==
    [][stage = "run" /\ stage' = "idle" => \A a \in Accounts :
          world'.balance[a]
            + SumFunction([i \in DOMAIN msgs |-> IF msgs[i].from = a THEN Cost(msgs[i]) ELSE 0])
          >= start.balance[a]]_vars

\* Nobody is overdrawn.  The fee collector can pay every refund, which the
\* code does not check before it executes a message: revenue shares come out
\* of the gas used, refunds out of the gas left, burns after both.
Solvent ==
    EthTypeOK /\ world.feeCollector >= 0 /\ \A a \in Accounts : world.balance[a] >= 0

\* Between transactions the nonce of an account, other than that of a contract
\* created here, is the number of messages the ante handler accepted from it,
\* failed and dropped ones included.
NonceCounts ==
    stage = "idle" => \A a \in Accounts \ {NewContract} : world.nonce[a] = sent[a]
=============================================================================
