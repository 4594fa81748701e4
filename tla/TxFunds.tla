---------------------------- MODULE TxFunds ----------------------------
(* Ethereum and Cosmos transactions never overdraw an account or the fee    *)
(* collector, for every set of accounts, messages and transactions.         *)
EXTENDS FeeMarketProofs



-----------------------------------------------------------------------------
(* The steps of the fee market keep its types *)

\* A transaction changes the counters of the block only.
LEMMA CountersTyped ==
    ASSUME TypeOK, UNCHANGED <<height, phase, params, blockGasWanted, halted, parent>>,
           transientGasWanted' \in 0..MaxUint64, blockGas' \in Nat, txs' \in Nat, wanted' \in Nat
    PROVE  TypeOK'
  BY DEF TypeOK

\* A sum of gas is reduced to the width of the transient store.
LEMMA Wrapped ==
    ASSUME NEW n \in Nat
    PROVE  n % (MaxUint64 + 1) \in 0..MaxUint64
<1>1. MaxUint64 \in Nat
  BY FeeMarketAssumption
<1>. QED BY <1>1

\* BeginBlock.
LEMMA BeginBlockTypes == ASSUME TypeOK, BeginBlock PROVE TypeOK'
<1>1. height' \in Nat
  BY FeeMarketAssumption DEF BeginBlock, NextHeight, Smaller, TypeOK
<1>2. params' \in Params
  BY BeginBlockParams
<1>3. /\ phase' = "txs" /\ transientGasWanted' = 0 /\ blockGas' = 0 /\ txs' = 0 /\ wanted' = 0
      /\ blockGasWanted' = blockGasWanted /\ halted' = halted /\ parent' = parent
  BY DEF BeginBlock, FreshBlock
<1>4. MaxUint64 \in Nat
  BY FeeMarketAssumption
<1>. QED BY <1>1, <1>2, <1>3, <1>4 DEF TypeOK

\* The end of a block: governance and EndBlock.
LEMMA EndBlockTypes ==
    ASSUME TypeOK, EndBlock \/ \E p \in ParamSet : UpdateParams(p)
    PROVE  TypeOK'
<1>1. CASE EndBlock
  <2>1. /\ wanted \in Nat /\ transientGasWanted \in Nat /\ blockGas \in Nat
        /\ params.minGasMultiplier \in 0..One
    BY FeeMarketAssumption DEF TypeOK, Params
  <2>2. PICK g \in Nat : g = GasConsumedToLimit
    BY <2>1, FeeMarketAssumption DEF GasConsumedToLimit, Smaller
  <2>3. LimitedGasWanted(g) \in g..Bigger(transientGasWanted, g)
    BY <2>1, LimitedWanted, Zenon DEF LimitedGasWanted
  <2>4. LimitedGasWanted(g) \in Nat
    BY <2>1, <2>3 DEF Bigger
  <2>5. \/ blockGasWanted' = LimitedGasWanted(g) /\ parent' = [used |-> g, wanted |-> wanted]
        \/ blockGasWanted' = blockGasWanted /\ parent' = parent
    BY <1>1, <2>2 DEF EndBlock
  <2>6. blockGasWanted' \in Nat /\ parent'.used \in Nat /\ parent'.wanted \in Nat
    BY <2>1, <2>4, <2>5 DEF TypeOK
  <2>7. /\ phase' = "commit"
        /\ UNCHANGED <<height, params, transientGasWanted, blockGas, halted, txs, wanted>>
    BY <1>1 DEF EndBlock
  <2>. QED BY <2>6, <2>7 DEF TypeOK
<1>2. ASSUME NEW p \in ParamSet, UpdateParams(p) PROVE TypeOK'
  <2>1. p \in Params
    BY FeeMarketAssumption
  <2>. QED BY <1>2, <2>1 DEF UpdateParams, TypeOK
<1>. QED BY <1>1, <1>2

-----------------------------------------------------------------------------
(* What the messages of a transaction add up to *)

\* A quantity of messages, summed over those of s from the k-th on.
Along(F, s, k) == SumFunctionOnSet([i \in DOMAIN s |-> F[s[i]]], k..Len(s))

\* It is nothing for no message, and adds up with the first of several and with
\* one more.
LEMMA AlongOf ==
    ASSUME NEW F, F \in [Messages -> Nat], NEW s \in Seq(Messages), NEW k \in 1..(Len(s) + 1)
    PROVE  /\ Along(F, s, k) \in Nat
           /\ k = Len(s) + 1 => Along(F, s, k) = 0
           /\ k <= Len(s) => Along(F, s, k) = F[s[k]] + Along(F, s, k + 1)
           /\ \A m \in Messages : Along(F, Append(s, m), k) = Along(F, s, k) + F[m]
<1>. DEFINE f == [i \in DOMAIN s |-> F[s[i]]]
<1>1. PICK n \in Nat : n = Len(s) /\ DOMAIN s = 1..n
  OBVIOUS
<1>2. \A i \in 1..n : f[i] = F[s[i]] /\ f[i] \in Nat
  BY <1>1
<1>3. Along(F, s, k) = SumFunctionOnSet(f, k..n) /\ Along(F, s, k + 1) = SumFunctionOnSet(f, (k + 1)..n)
  BY <1>1 DEF Along
<1>4. k \in 1..(n + 1) /\ k \in Int /\ n \in Int /\ k <= n + 1
  BY <1>1
<1>. HIDE DEF f
<1>5. \A i \in k..n : f[i] \in Nat /\ f[i] \in Int
  BY <1>2, <1>4
<1>6. SumFunctionOnSet(f, k..n) \in Nat
  <2>1. IsFiniteSet(k..n) /\ \A i \in k..n : f[i] \in Nat
    BY <1>4, <1>5, RangeFinite
  <2>. QED BY <2>1, SumType, Zenon
<1>7. /\ k > n => SumFunctionOnSet(f, k..n) = 0
      /\ k <= n => SumFunctionOnSet(f, k..n) = f[k] + SumFunctionOnSet(f, (k + 1)..n)
  BY <1>4, <1>5, SumFirst
<1>8. ASSUME NEW m \in Messages
      PROVE  Along(F, Append(s, m), k) = Along(F, s, k) + F[m]
  <2>. DEFINE t == Append(s, m)
              h == [i \in DOMAIN t |-> F[t[i]]]
  <2>1. Len(t) = n + 1 /\ DOMAIN t = 1..(n + 1) /\ t[n + 1] = m /\ \A i \in 1..n : t[i] = s[i]
    BY <1>1
  <2>. HIDE DEF t
  <2>2. /\ h[n + 1] = F[m] /\ h[n + 1] \in Int
        /\ \A i \in 1..n : h[i] = f[i]
    BY <1>2, <2>1
  <2>3. Along(F, t, k) = SumFunctionOnSet(h, k..(n + 1))
    BY <2>1 DEF Along
  <2>. HIDE DEF h
  <2>4. \A i \in k..n : f[i] \in Int /\ h[i] = f[i]
    BY <1>4, <1>5, <2>2
  <2>5. SumFunctionOnSet(h, k..(n + 1)) = SumFunctionOnSet(f, k..n) + h[n + 1]
    <3>1. PICK S, T, p, f1, h1 : /\ S = k..n /\ T = k..(n + 1) /\ p = n + 1
                                 /\ f1 = f /\ h1 = h
      OBVIOUS
    <3>2. IsFiniteSet(S) /\ p \notin S /\ T = S \cup {p}
      BY <1>4, <3>1, RangeFinite
    <3>3. h1[p] \in Int /\ \A i \in S : f1[i] \in Int /\ h1[i] = f1[i]
      BY <2>2, <2>4, <3>1
    <3>4. SumFunctionOnSet(h1, T) = SumFunctionOnSet(f1, S) + h1[p]
      BY ONLY <3>2, <3>3, SumInsert
    <3>. QED BY <3>1, <3>4
  <2>. QED BY <1>3, <2>2, <2>3, <2>5 DEF t
<1>9. /\ Along(F, s, k) \in Nat
      /\ k = n + 1 => Along(F, s, k) = 0
      /\ k <= n => f[k] = F[s[k]] /\ Along(F, s, k) = f[k] + Along(F, s, k + 1)
  BY <1>2, <1>3, <1>4, <1>6, <1>7
<1>. QED BY <1>1, <1>8, <1>9

\* The fees of the messages of s from the k-th on.
Fees(s, k) == Along([m \in Messages |-> EffectiveFee(m)], s, k)

\* The fees of no message, of the first of several, and of one more.
LEMMA FeesOf ==
    ASSUME TypeOK, NEW s \in Seq(Messages), NEW k \in 1..(Len(s) + 1)
    PROVE  /\ Fees(s, k) \in Nat
           /\ k = Len(s) + 1 => Fees(s, k) = 0
           /\ k <= Len(s) => Fees(s, k) = EffectiveFee(s[k]) + Fees(s, k + 1)
           /\ \A m \in Messages : Fees(Append(s, m), k) = Fees(s, k) + EffectiveFee(m)
<1>1. PICK F : F = [m \in Messages |-> EffectiveFee(m)]
  BY Zenon
<1>2. F \in [Messages -> Nat] /\ \A m \in Messages : F[m] = EffectiveFee(m)
  BY <1>1, Prices
<1>3. k <= Len(s) => s[k] \in Messages
  OBVIOUS
<1>4. /\ Along(F, s, k) \in Nat
      /\ k = Len(s) + 1 => Along(F, s, k) = 0
      /\ k <= Len(s) => Along(F, s, k) = F[s[k]] + Along(F, s, k + 1)
      /\ \A m \in Messages : Along(F, Append(s, m), k) = Along(F, s, k) + F[m]
  BY <1>2, AlongOf
<1>. QED BY <1>1, <1>2, <1>3, <1>4 DEF Fees

\* Within a transaction the parameters stay, and with them the fees.
LEMMA FeesStay ==
    ASSUME params' = params
    PROVE  Fees(msgs, next)' = Fees(msgs', next')
<1>1. \A m : EffectiveFee(m)' = EffectiveFee(m)
  BY DEF EffectiveFee, EffectiveGasPrice, GetBaseFee
<1>2. [m \in Messages |-> EffectiveFee(m)]' = [m \in Messages |-> EffectiveFee(m)]
  BY <1>1
<1>3. Fees(msgs, next)' = Along([m \in Messages |-> EffectiveFee(m)]', msgs', next')
  BY DEF Fees, Along
<1>4. Fees(msgs', next') = Along([m \in Messages |-> EffectiveFee(m)], msgs', next')
  BY DEF Fees, Along
<1>. QED BY <1>2, <1>3, <1>4



-----------------------------------------------------------------------------
(* Nobody is overdrawn *)

Funded(w) == w.feeCollector >= 0 /\ \A a \in Accounts : w.balance[a] >= 0

\* The invariant.  In a transaction the fee collector still has the fees of all
\* messages to come, and the ante handler has not begun to apply any.
FundsInv ==
    /\ EthTypeOK /\ before \in 0..MaxUint64
    /\ rewards \in [Accounts -> Seq(Nat)] /\ burned \in Nat
    /\ Funded(world) /\ Funded(checkpoint)
    /\ stage = "ante" => next = 1 /\ gasUsed = 0
    /\ stage # "idle" => world.feeCollector >= Fees(msgs, next)

\* What the ante handler does to the world.
LEMMA ChargeEffect ==
    ASSUME TypeOK, NEW w \in World, NEW m \in Messages, NEW w2, w2 = Charge(w, m)
    PROVE  /\ w2 \in World /\ Coins(w2) = Coins(w)
           /\ w2.feeCollector = w.feeCollector + EffectiveFee(m)
           /\ \A a \in Accounts :
                 w2.balance[a] = w.balance[a] - (IF a = m.from THEN EffectiveFee(m) ELSE 0)
<1>1. /\ w.balance \in [Accounts -> Int] /\ w.feeCollector \in Int /\ w.nonce \in [Accounts -> Nat]
      /\ SumFunctionOnSet(w.balance, Accounts) \in Int /\ w.distributed \in Nat
  BY WorldFields
<1>2. m.from \in Accounts
  BY MessageFields
<1>3. PICK fee \in Nat : fee = EffectiveFee(m)
  BY Prices
<1>4. w2 = [w EXCEPT !.balance[m.from] = @ - fee, !.feeCollector = @ + fee,
                     !.nonce[m.from] = @ + 1]
  BY <1>3, Zenon DEF Charge
<1>5. /\ w2 \in World /\ w2.feeCollector = w.feeCollector + fee /\ w2.distributed = w.distributed
      /\ w2.balance = [w.balance EXCEPT ![m.from] = w.balance[m.from] - fee]
  <2>1. PICK b, c, n : /\ b = [w.balance EXCEPT ![m.from] = w.balance[m.from] - fee]
                       /\ c = w.feeCollector + fee
                       /\ n = [w.nonce EXCEPT ![m.from] = w.nonce[m.from] + 1]
    BY Zenon
  <2>2. b \in [Accounts -> Int] /\ c \in Int /\ n \in [Accounts -> Nat]
    BY <1>1, <1>2, <2>1
  <2>3. w2 = [w EXCEPT !.balance = b, !.feeCollector = c, !.nonce = n]
    BY <1>4, <2>1, Zenon
  <2>4. /\ w2 \in World /\ w2.feeCollector = c /\ w2.distributed = w.distributed /\ w2.balance = b
    BY <2>2, <2>3, Zenon DEF World
  <2>. QED BY <2>1, <2>4
<1>6. \A a \in Accounts : w2.balance[a] = w.balance[a] - (IF a = m.from THEN fee ELSE 0)
  BY <1>1, <1>2, <1>5
<1>7. /\ \A a \in Accounts : w.balance[a] \in Int
      /\ w2.balance[m.from] \in Int /\ w2.balance[m.from] = w.balance[m.from] - fee
      /\ \A a \in Accounts \ {m.from} : w2.balance[a] = w.balance[a]
  BY <1>1, <1>2, <1>6
<1>8. SumFunctionOnSet(w2.balance, Accounts)
        = SumFunctionOnSet(w.balance, Accounts) + w2.balance[m.from] - w.balance[m.from]
  BY <1>2, <1>7, BalancesChange, Zenon
<1>9. Coins(w2) = Coins(w)
  <2>1. PICK t \in Int, b \in Int, c \in Int :
          t = SumFunctionOnSet(w.balance, Accounts) /\ b = w.balance[m.from] /\ c = w.feeCollector
    BY <1>1, <1>2, <1>7
  <2>2. SumFunctionOnSet(w2.balance, Accounts) = t - fee
    BY <1>7, <1>8, <2>1
  <2>3. w2.feeCollector = c + fee /\ w2.distributed = w.distributed /\ w.distributed \in Int
    BY <1>1, <1>5, <2>1
  <2>. QED BY <2>1, <2>2, <2>3 DEF Coins
<1>. QED BY <1>3, <1>5, <1>6, <1>9

\* A transaction is over, and the world that is left is funded.
LEMMA IdleFunds ==
    ASSUME NoTx, stage' = "idle", TypeOK', world' \in World, Funded(world)', gasUsed' \in Nat,
           sent' \in [Accounts -> Nat], rewards' \in [Accounts -> Seq(Nat)], burned' \in Nat
    PROVE  FundsInv'
<1>1. /\ declared' = 0 /\ msgs' = <<>> /\ txGasLimit' = 0 /\ next' = 1 /\ before' = 0
      /\ checkpoint' = world' /\ start' = world'
  BY DEF NoTx
<1>2. msgs' \in Seq(Messages) /\ next' \in 1..(Len(msgs') + 1)
  BY <1>1
<1>3. before' \in 0..MaxUint64
  BY <1>1, FeeMarketAssumption
<1>4. EthTypeOK'
  BY <1>1, <1>2 DEF EthTypeOK
<1>5. Funded(checkpoint)'
  BY <1>1 DEF Funded
<1>. QED BY <1>3, <1>4, <1>5 DEF FundsInv

\* A transaction begins.
LEMMA StartFunds ==
    ASSUME FundsInv, NEW gas \in GasLimits, StartTx(gas), UNCHANGED cosmosVars
    PROVE  FundsInv'
<1>1. /\ stage' = "ante" /\ declared' = gas /\ msgs' = <<>> /\ txGasLimit' = 0
      /\ next' = 1 /\ gasUsed' = 0 /\ checkpoint' = world /\ start' = world
      /\ before' = transientGasWanted /\ UNCHANGED <<feeVars, world, sent, rewards, burned>>
  BY DEF StartTx, cosmosVars
<1>2. EthTypeOK /\ TypeOK /\ Funded(world) /\ world \in World
  BY DEF FundsInv, EthTypeOK
<1>3. TypeOK'
  BY <1>1, <1>2 DEF feeVars, TypeOK
<1>4. gas \in Nat
  BY FeeMarketAssumption
<1>5. msgs' \in Seq(Messages) /\ next' \in 1..(Len(msgs') + 1) /\ Len(msgs') = 0
  BY <1>1
<1>6. EthTypeOK'
  <2>1. /\ world' \in World /\ checkpoint' \in World /\ start' \in World
        /\ stage' \in {"idle", "ante", "run"} /\ sent' \in [Accounts -> Nat]
        /\ declared' \in Nat /\ txGasLimit' \in Nat /\ gasUsed' \in Nat /\ before' \in Nat
    BY <1>1, <1>2, <1>4, FeeMarketAssumption DEF EthTypeOK, TypeOK
  <2>. QED BY <1>3, <1>5, <2>1, Zenon DEF EthTypeOK
<1>7. before' \in 0..MaxUint64
  BY <1>1, <1>2 DEF TypeOK
<1>8. Fees(msgs', next') = 0
  <2>1. next' = Len(msgs') + 1
    BY <1>1, <1>5
  <2>. QED BY <1>2, <1>5, <2>1, FeesOf, Zenon
<1>9. world'.feeCollector >= Fees(msgs, next)'
  <2>1. params' = params
    BY <1>1 DEF feeVars
  <2>. QED BY <1>1, <1>2, <1>8, <2>1, FeesStay DEF Funded
<1>10. Funded(world)' /\ Funded(checkpoint)'
  BY <1>1, <1>2 DEF Funded
<1>11. rewards' \in [Accounts -> Seq(Nat)] /\ burned' \in Nat
  BY <1>1 DEF FundsInv
<1>. QED BY <1>1, <1>6, <1>7, <1>9, <1>10, <1>11 DEF FundsInv

\* The ante handler charges a message: the balance covers its fee.
LEMMA AnteFunds ==
    ASSUME FundsInv, NEW m \in Messages, AnteMsg(m), UNCHANGED cosmosVars
    PROVE  FundsInv'
<1>1. /\ stage = "ante" /\ stage' = "ante" /\ world' = Charge(world, m) /\ msgs' = Append(msgs, m)
      /\ txGasLimit' = txGasLimit + m.gas
      /\ UNCHANGED <<height, phase, params, blockGasWanted, blockGas, halted, txs, wanted, parent>>
      /\ UNCHANGED <<declared, next, gasUsed, checkpoint, before, start, sent, rewards, burned>>
  BY DEF AnteMsg, cosmosVars
<1>2. /\ TypeOK /\ world \in World /\ msgs \in Seq(Messages) /\ next = 1
      /\ Funded(world) /\ world.feeCollector >= Fees(msgs, 1) /\ EthTypeOK
  BY <1>1 DEF FundsInv, EthTypeOK
<1>3. TypeOK'
  <2>1. declared \in Nat /\ transientGasWanted \in 0..MaxUint64
    BY DEF FundsInv, EthTypeOK, TypeOK
  <2>2. transientGasWanted' \in {(transientGasWanted + declared) % (MaxUint64 + 1), transientGasWanted}
    BY DEF AnteMsg, AddTransientGasWanted
  <2>3. transientGasWanted' \in 0..MaxUint64
    BY <2>1, <2>2, Wrapped, FeeMarketAssumption
  <2>. QED BY <1>1, <1>2, <2>3, CountersTyped DEF TypeOK
<1>4. m.gas \in Nat /\ m.value \in Nat /\ m.from \in Accounts
  BY MessageFields
<1>5. /\ msgs' \in Seq(Messages) /\ Len(msgs') = Len(msgs) + 1
  BY <1>1, <1>2
<1>6. /\ world' \in World /\ world'.feeCollector = world.feeCollector + EffectiveFee(m)
      /\ \A a \in Accounts : world'.balance[a]
                               = world.balance[a] - (IF a = m.from THEN EffectiveFee(m) ELSE 0)
  <2>1. PICK w, w2 : w = world /\ w2 = world'
    OBVIOUS
  <2>2. TypeOK /\ w \in World /\ w2 = Charge(w, m)
    BY <1>1, <1>2, <2>1
  <2>3. /\ w2 \in World /\ w2.feeCollector = w.feeCollector + EffectiveFee(m)
        /\ \A a \in Accounts :
              w2.balance[a] = w.balance[a] - (IF a = m.from THEN EffectiveFee(m) ELSE 0)
    BY <2>2, ChargeEffect
  <2>. QED BY <2>1, <2>3, Zenon
<1>7. EthTypeOK'
  <2>1. txGasLimit' \in Nat /\ next' \in 1..(Len(msgs') + 1)
    BY <1>1, <1>2, <1>4, <1>5 DEF EthTypeOK
  <2>. QED BY <1>1, <1>2, <1>3, <1>5, <1>6, <2>1 DEF EthTypeOK
<1>8. PICK fee \in Nat : fee = EffectiveFee(m) /\ fee <= m.feeCap * m.gas /\ m.feeCap * m.gas \in Nat
  BY <1>2, Prices
<1>9. world.balance[m.from] \in Int /\ world.balance[m.from] >= m.feeCap * m.gas + m.value
  BY <1>2, <1>4, WorldFields, Zenon DEF AnteMsg, AnteChecks, CheckSenderBalance, Cost
<1>10. Funded(world')
  <2>1. world.feeCollector \in Int /\ \A a \in Accounts : world.balance[a] \in Int
    BY <1>2, WorldFields
  <2>2. world'.feeCollector >= 0
    BY <1>2, <1>6, <1>8, <2>1 DEF Funded
  <2>3. ASSUME NEW a \in Accounts PROVE world'.balance[a] >= 0
    <3>1. PICK b \in Int : b = world.balance[a] /\ b >= 0
      BY <1>2, <2>1 DEF Funded
    <3>2. world'.balance[a] = b - (IF a = m.from THEN fee ELSE 0)
      BY <1>6, <1>8, <3>1, Zenon
    <3>3. PICK v \in Nat, l \in Nat : v = m.value /\ l = m.feeCap * m.gas
      BY <1>4, <1>8
    <3>4. a = m.from => b >= l + v
      BY <1>9, <3>1, <3>3
    <3>5. fee <= l
      BY <1>8, <3>3
    <3>. QED BY <3>1, <3>2, <3>3, <3>4, <3>5
  <2>. QED BY <2>2, <2>3 DEF Funded
<1>11. world'.feeCollector >= Fees(msgs, next)'
  <2>1. 1 \in 1..(Len(msgs) + 1)
    BY <1>2
  <2>2. Fees(msgs', 1) = Fees(msgs, 1) + fee /\ Fees(msgs, 1) \in Nat
    <3>1. PICK s : s = msgs
      OBVIOUS
    <3>2. s \in Seq(Messages) /\ 1 \in 1..(Len(s) + 1)
      BY <1>2, <2>1, <3>1
    <3>3. Fees(Append(s, m), 1) = Fees(s, 1) + EffectiveFee(m) /\ Fees(s, 1) \in Nat
      BY <1>2, <3>2, FeesOf
    <3>. QED BY <1>1, <1>8, <3>1, <3>3, Zenon
  <2>3. world.feeCollector \in Int
    BY <1>2, WorldFields
  <2>4. world'.feeCollector >= Fees(msgs', next')
    <3>1. PICK c \in Int, f \in Nat : c = world.feeCollector /\ f = Fees(msgs, 1)
      BY <2>2, <2>3
    <3>2. world'.feeCollector = c + fee /\ Fees(msgs', next') = f + fee /\ c >= f
      BY <1>1, <1>2, <1>6, <1>8, <2>2, <3>1, Zenon
    <3>. QED BY <3>1, <3>2
  <2>. QED BY <1>1, <2>4, FeesStay
<1>12. Funded(world)' /\ Funded(checkpoint)'
  BY <1>1, <1>10 DEF Funded, FundsInv
<1>13. /\ before' \in 0..MaxUint64 /\ rewards' \in [Accounts -> Seq(Nat)] /\ burned' \in Nat
       /\ next' = 1 /\ gasUsed' = 0
  BY <1>1 DEF FundsInv
<1>. QED BY <1>7, <1>11, <1>12, <1>13 DEF FundsInv



\* A message is applied, however it ends: it uses no more gas than its limit, and
\* costs the sender v and the fee collector its fee at most.
MessageApplied(m, v, used) ==
    /\ Running(m)
    /\ v <= m.value /\ v <= world.balance[m.from] /\ used <= m.gas
    /\ Costs(world, world', m.from, v, EffectiveFee(m))
    /\ gasUsed' = gasUsed + used /\ next' = next + 1
    /\ UNCHANGED <<feeVars, stage, declared, msgs, txGasLimit, expenses, checkpoint, before,
                   start, sent>>

\* The three ways a message ends.
LEMMA OutcomeEffect ==
    ASSUME TypeOK, world \in World, Funded(world), NEW m \in Messages, Outcome(m)
    PROVE  \E v \in Nat, used \in Nat : MessageApplied(m, v, used)
<1>1. m.from \in Accounts /\ m.value \in Nat /\ m.gas \in Nat
  BY MessageFields
<1>2. 0 <= m.value /\ 0 <= world.balance[m.from]
  BY <1>1, WorldFields DEF Funded
<1>3. PICK consumed \in IntrinsicGas(m)..m.gas :
        \/ MsgReverts(m, consumed)
        \/ \E counter \in 0..MaxRefund :
              MsgSucceeds(m, consumed, counter) \/ HookReverts(m, consumed, counter)
  BY DEF Outcome
<1>4. consumed \in Nat /\ consumed <= m.gas
  <2>1. IntrinsicGas(m) \in Nat
    BY EthTxAssumption DEF IntrinsicGas
  <2>. QED BY <1>1, <1>3, <2>1
<1>5. ASSUME NEW used \in Nat, used <= m.gas, Running(m), Settle(world, m, used)
      PROVE  MessageApplied(m, 0, used)
  <2>1. Costs(world, world', m.from, 0, EffectiveFee(m))
    BY <1>5, MessagePaid DEF Settle
  <2>. QED BY <1>2, <1>5, <2>1, Zenon DEF MessageApplied, Settle
<1>6. CASE MsgReverts(m, consumed)
  <2>1. PICK used \in Nat : used = GasUsed(m, consumed) /\ used <= m.gas
    BY <1>4, GasCharged
  <2>2. MessageApplied(m, 0, used)
    BY <1>5, <1>6, <2>1 DEF MsgReverts
  <2>. QED BY <2>2
<1>7. ASSUME NEW counter \in 0..MaxRefund,
             MsgSucceeds(m, consumed, counter) \/ HookReverts(m, consumed, counter)
      PROVE  \E v \in Nat, used \in Nat : MessageApplied(m, v, used)
  <2>1. counter \in Nat
    BY EthTxAssumption
  <2>2. PICK c \in Nat : c = consumed - GasToRefund(counter, consumed) /\ c <= consumed
    BY <1>4, <2>1, GasRefunded
  <2>3. c <= m.gas
    BY <1>1, <1>4, <2>2
  <2>4. PICK used \in Nat : used = GasUsed(m, c) /\ used <= m.gas
    BY <2>3, GasCharged
  <2>5. CASE HookReverts(m, consumed, counter)
    <3>1. Running(m) /\ Settle(world, m, used)
      BY <2>2, <2>4, <2>5 DEF HookReverts
    <3>. QED BY <1>5, <2>4, <3>1
  <2>6. CASE MsgSucceeds(m, consumed, counter)
    <3>1. /\ Running(m) /\ Covered(m)
          /\ Settle(PostTxProcessing(Execute(world, m), m, used), m, used)
      BY <2>2, <2>4, <2>6 DEF MsgSucceeds
    <3>2. Costs(world, world', m.from, m.value, EffectiveFee(m))
      BY <2>4, <3>1, MessagePaid DEF Settle
    <3>3. m.value <= m.value /\ m.value <= world.balance[m.from]
      <4>1. world.balance[m.from] >= m.value
        BY <3>1, Zenon DEF Covered
      <4>2. PICK v \in Nat, b \in Int : v = m.value /\ b = world.balance[m.from]
        BY <1>1, WorldFields
      <4>3. v <= v /\ v <= b
        BY <4>1, <4>2
      <4>. QED BY <4>2, <4>3, Zenon
    <3>4. MessageApplied(m, m.value, used)
      BY <2>4, <3>1, <3>2, <3>3, Zenon DEF MessageApplied, Settle
    <3>. QED BY <1>1, <3>4
  <2>. QED BY <1>7, <2>5, <2>6
<1>. QED BY <1>3, <1>6, <1>7

\* The ante handler is done.
LEMMA EndAnteFunds ==
    ASSUME FundsInv, EndAnte, UNCHANGED cosmosVars
    PROVE  FundsInv'
<1>1. /\ stage = "ante" /\ stage' = "run" /\ checkpoint' = world
      /\ UNCHANGED <<feeVars, world, declared, msgs, txGasLimit, next, gasUsed, before, start,
                     sent, rewards, burned>>
  BY DEF EndAnte, cosmosVars
<1>2. params' = params /\ TypeOK /\ TypeOK'
  BY <1>1 DEF feeVars, TypeOK, EthTypeOK, FundsInv
<1>3. EthTypeOK'
  BY <1>1, <1>2 DEF EthTypeOK, FundsInv
<1>4. Fees(msgs, next)' = Fees(msgs, next)
  BY <1>1, <1>2, FeesStay
<1>5. Funded(world)' /\ Funded(checkpoint)'
  BY <1>1 DEF Funded, FundsInv
<1>. QED BY <1>1, <1>3, <1>4, <1>5 DEF FundsInv

\* A message is applied: the refund and the developers' share leave the fees of
\* the messages that follow.
LEMMA OutcomeFunds ==
    ASSUME FundsInv, NEW m \in Messages, Outcome(m), UNCHANGED cosmosVars
    PROVE  FundsInv'
<1>1. /\ TypeOK /\ world \in World /\ Funded(world) /\ msgs \in Seq(Messages)
      /\ next \in 1..(Len(msgs) + 1) /\ gasUsed \in Nat
  BY DEF FundsInv, EthTypeOK
<1>2. PICK v \in Nat, used \in Nat : MessageApplied(m, v, used)
  BY <1>1, OutcomeEffect
<1>3. /\ stage = "run" /\ next <= Len(msgs) /\ m = msgs[next] /\ stage' = "run"
      /\ gasUsed' = gasUsed + used /\ next' = next + 1
      /\ UNCHANGED <<feeVars, declared, msgs, txGasLimit, checkpoint, before, start, sent,
                     rewards, burned>>
  BY <1>2 DEF MessageApplied, Running, cosmosVars
<1>4. params' = params /\ TypeOK'
  BY <1>1, <1>3 DEF feeVars, TypeOK
<1>5. world' \in World
  BY <1>2 DEF MessageApplied, Costs
<1>6. EthTypeOK'
  <2>1. gasUsed' \in Nat /\ next' \in 1..(Len(msgs') + 1)
    BY <1>1, <1>3
  <2>2. msgs' \in Seq(Messages) /\ stage' \in {"idle", "ante", "run"}
    BY <1>1, <1>3
  <2>3. /\ checkpoint' \in World /\ start' \in World /\ sent' \in [Accounts -> Nat]
        /\ declared' \in Nat /\ txGasLimit' \in Nat /\ before' \in Nat
    BY <1>3 DEF FundsInv, EthTypeOK
  <2>. QED BY <1>4, <1>5, <2>1, <2>2, <2>3, Zenon DEF EthTypeOK
<1>7. Fees(msgs, next) = EffectiveFee(m) + Fees(msgs, next + 1)
      /\ Fees(msgs, next + 1) \in Nat
  <2>1. next + 1 \in 1..(Len(msgs) + 1)
    BY <1>1, <1>3
  <2>. QED BY <1>1, <1>3, <2>1, FeesOf
<1>8. PICK fee \in Nat : fee = EffectiveFee(m)
  BY <1>1, Prices
<1>9. world.feeCollector \in Int /\ world'.feeCollector \in Int
  BY <1>1, <1>5, WorldFields
<1>10. world'.feeCollector >= world.feeCollector - fee
  BY <1>2, <1>8 DEF MessageApplied, Costs
<1>11. world.feeCollector >= Fees(msgs, next)
  BY <1>3 DEF FundsInv
<1>12. world'.feeCollector >= Fees(msgs, next + 1)
  BY <1>7, <1>8, <1>9, <1>10, <1>11
<1>13. Fees(msgs, next)' = Fees(msgs, next + 1)
  BY <1>3, <1>4, FeesStay
<1>14. ASSUME NEW a \in Accounts PROVE world'.balance[a] >= 0
  <2>1. /\ world.balance[a] \in Int /\ world'.balance[a] \in Int
    BY <1>1, <1>5, WorldFields
  <2>2. world.balance[a] >= 0
    BY <1>1 DEF Funded
  <2>3. world'.balance[a] >= world.balance[a] - (IF a = m.from THEN v ELSE 0)
    BY <1>2 DEF MessageApplied, Costs
  <2>4. a = m.from => v <= world.balance[a]
    BY <1>2 DEF MessageApplied
  <2>. QED BY <2>1, <2>2, <2>3, <2>4
<1>15. Funded(world)' /\ Funded(checkpoint)'
  <2>1. world'.feeCollector >= 0
    BY <1>7, <1>9, <1>12
  <2>. QED BY <1>3, <1>14, <2>1 DEF Funded, FundsInv
<1>16. before' \in 0..MaxUint64 /\ rewards' \in [Accounts -> Seq(Nat)] /\ burned' \in Nat
  BY <1>3 DEF FundsInv
<1>. QED BY <1>3, <1>6, <1>12, <1>13, <1>15, <1>16 DEF FundsInv



\* The messages of each account are counted.
LEMMA CountedTyped ==
    ASSUME EthTypeOK
    PROVE  Counted \in [Accounts -> Nat]
<1>1. sent \in [Accounts -> Nat] /\ DOMAIN msgs = 1..Len(msgs) /\ Len(msgs) \in Nat
  BY DEF EthTypeOK
<1>2. ASSUME NEW a \in Accounts
      PROVE  Cardinality({i \in DOMAIN msgs : msgs[i].from = a}) \in Nat
  <2>1. IsFiniteSet(DOMAIN msgs)
    BY <1>1, RangeFinite
  <2>2. IsFiniteSet({i \in DOMAIN msgs : msgs[i].from = a})
    BY <2>1, FS_Subset
  <2>. QED BY <2>2, FS_CardinalityType
<1>. QED BY <1>1, <1>2 DEF Counted

\* A transaction ends, refused, failed or done: the world is the one before its
\* messages or the one after them, both funded.
LEMMA EndFunds ==
    ASSUME FundsInv, Refuse \/ (\E m \in Messages : FailTx(m)) \/ EndTx, UNCHANGED cosmosVars
    PROVE  FundsInv'
<1>1. /\ NoTx /\ stage' = "idle" /\ world' \in {world, checkpoint} /\ gasUsed' = gasUsed
      /\ sent' \in {sent, Counted} /\ rewards' = rewards /\ burned' = burned
  BY DEF Refuse, FailTx, EndTx, cosmosVars
<1>2. /\ EthTypeOK /\ TypeOK /\ world \in World /\ checkpoint \in World /\ gasUsed \in Nat
      /\ sent \in [Accounts -> Nat] /\ declared \in Nat /\ txGasLimit \in Nat
      /\ msgs \in Seq(Messages)
  BY DEF FundsInv, EthTypeOK
<1>3. sent' \in [Accounts -> Nat]
  BY <1>1, <1>2, CountedTyped
<1>4. Funded(world)' /\ world' \in World
  BY <1>1, <1>2 DEF Funded, FundsInv
<1>5. /\ UNCHANGED <<height, phase, params, blockGasWanted, halted, parent>>
      /\ transientGasWanted' \in {before, transientGasWanted}
      /\ blockGas' \in {blockGas, blockGas + txGasLimit, blockGas + gasUsed}
      /\ txs' = txs + 1 /\ wanted' \in {wanted, wanted + Len(msgs) * declared}
  BY DEF Refuse, FailTx, EndTx
<1>6. /\ transientGasWanted' \in 0..MaxUint64 /\ blockGas' \in Nat /\ txs' \in Nat
  BY <1>2, <1>5 DEF FundsInv, TypeOK
<1>7. wanted' \in Nat
  <2>1. Len(msgs) * declared \in Nat /\ wanted \in Nat
    BY <1>2 DEF TypeOK
  <2>. QED BY <1>5, <2>1
<1>8. TypeOK'
  BY <1>2, <1>5, <1>6, <1>7, CountersTyped
<1>9. rewards' \in [Accounts -> Seq(Nat)] /\ burned' \in Nat /\ gasUsed' \in Nat
  BY <1>1, <1>2 DEF FundsInv
<1>. QED BY <1>1, <1>3, <1>4, <1>8, <1>9, IdleFunds

\* What the fee collector has is distributed.
LEMMA Distributed ==
    ASSUME NEW w \in World, w.feeCollector >= 0, NEW w2,
           w2 = [w EXCEPT !.feeCollector = 0, !.distributed = @ + w.feeCollector]
    PROVE  /\ w2 \in World /\ w2.feeCollector = 0 /\ w2.balance = w.balance
           /\ Coins(w2) = Coins(w)
<1>1. /\ w.feeCollector \in Nat /\ w.distributed \in Nat
      /\ SumFunctionOnSet(w.balance, Accounts) \in Int
  BY WorldFields
<1>2. PICK c \in Int, d \in Nat : c = 0 /\ d = w.distributed + w.feeCollector
  BY <1>1
<1>3. w2 = [w EXCEPT !.feeCollector = c, !.distributed = d]
  BY <1>2, Zenon
<1>4. w2 \in World /\ w2.feeCollector = c /\ w2.distributed = d /\ w2.balance = w.balance
  BY <1>3, Zenon DEF World
<1>. QED BY <1>1, <1>2, <1>4 DEF Coins

\* A block begins: the fee collector is emptied.
LEMMA NewBlockFunds ==
    ASSUME FundsInv, NewBlock, UNCHANGED cosmosVars
    PROVE  FundsInv'
<1>1. /\ NoTx /\ stage' = "idle" /\ gasUsed' = 0 /\ sent' = sent /\ BeginBlock
      /\ world' = [world EXCEPT !.feeCollector = 0, !.distributed = @ + world.feeCollector]
      /\ rewards' = rewards /\ burned' = burned
  BY DEF NewBlock, cosmosVars
<1>2. /\ TypeOK /\ world \in World /\ sent \in [Accounts -> Nat] /\ Funded(world)
      /\ rewards \in [Accounts -> Seq(Nat)] /\ burned \in Nat
  BY DEF FundsInv, EthTypeOK
<1>3. TypeOK'
  BY <1>1, <1>2, BeginBlockTypes
<1>5. world' \in World /\ world'.feeCollector = 0 /\ world'.balance = world.balance
  BY <1>1, <1>2, Distributed, Zenon DEF Funded
<1>6. Funded(world)'
  BY <1>2, <1>5 DEF Funded
<1>. QED BY <1>1, <1>2, <1>3, <1>5, <1>6, IdleFunds

\* Steps that leave the transaction and the world alone: the end of a block, a
\* refused Cosmos transaction, and nothing at all.
LEMMA OutsideFunds ==
    ASSUME FundsInv, TypeOK', UNCHANGED <<txVars, cosmosVars>>, stage = "idle" \/ params' = params
    PROVE  FundsInv'
<1>1. /\ UNCHANGED <<world, stage, declared, msgs, txGasLimit, next, gasUsed, checkpoint,
                     before, start, sent, rewards, burned>>
  BY DEF txVars, cosmosVars
<1>2. EthTypeOK'
  BY <1>1 DEF FundsInv, EthTypeOK
<1>3. stage' # "idle" => Fees(msgs, next)' = Fees(msgs, next)
  BY <1>1, FeesStay
<1>. QED BY <1>1, <1>2, <1>3 DEF FundsInv, Funded

-----------------------------------------------------------------------------
(* Cosmos transactions *)

\* The rewards of one account.
LEMMA RewardsOf ==
    ASSUME rewards \in [Accounts -> Seq(Nat)], NEW a \in Accounts
    PROVE  /\ Len(rewards[a]) \in Nat /\ DOMAIN rewards[a] = 1..Len(rewards[a])
           /\ \A i \in 1..Len(rewards[a]) : rewards[a][i] \in Nat
           /\ \A k \in 0..Len(rewards[a]) : Claimed(a, k) \in Nat
<1>1. PICK r \in Seq(Nat) : r = rewards[a]
  OBVIOUS
<1>2. Len(r) \in Nat /\ DOMAIN r = 1..Len(r) /\ \A i \in 1..Len(r) : r[i] \in Nat
  OBVIOUS
<1>3. ASSUME NEW k \in 0..Len(r) PROVE SumFunctionOnSet(r, 1..k) \in Nat
  <2>1. PICK S : S = 1..k
    OBVIOUS
  <2>2. IsFiniteSet(S)
    BY <1>2, <2>1, RangeFinite
  <2>3. \A i \in S : r[i] \in Nat
    BY <1>2, <2>1
  <2>4. SumFunctionOnSet(r, S) \in Nat
    BY <2>2, <2>3, SumType
  <2>. QED BY <2>1, <2>4
<1>. QED BY <1>1, <1>2, <1>3 DEF Claimed

\* The fee deducted, and the claim that pays for it.
LEMMA CosmosFee ==
    ASSUME TypeOK, NEW tx \in CosmosTxs, CheckFee(tx)
    PROVE  /\ tx.payer \in Accounts /\ tx.fee \in Nat /\ tx.gas \in Nat \ {0}
           /\ DeductedFee(tx) \in Nat /\ DeductedFee(tx) <= tx.fee
<1>1. tx.payer \in Accounts /\ tx.fee \in Nat /\ tx.gas \in Nat \ {0} /\ tx.tip \in Nat
  <2>1. tx.payer \in Accounts /\ tx.fee \in Nat /\ tx.gas \in GasLimits /\ tx.tip \in Nat
    BY CosmosTxAssumption
  <2>2. tx.gas \in Nat
    <3>1. GasLimits \subseteq Nat
      BY FeeMarketAssumption
    <3>. QED BY <2>1, <3>1, Zenon
  <2>3. tx.gas # 0
    BY DEF CheckFee
  <2>. QED BY <2>1, <2>2, <2>3
<1>2. GetBaseFee \in Nat
  BY DEF TypeOK, Params, GetBaseFee
<1>3. PICK cap \in Nat : cap = FeeCap(tx) /\ cap * tx.gas <= tx.fee
  <2>1. tx.fee \div tx.gas \in Nat /\ (tx.fee \div tx.gas) * tx.gas <= tx.fee
    BY <1>1
  <2>. QED BY <2>1 DEF FeeCap
<1>4. PICK price \in Nat : price = Smaller(tx.tip + GetBaseFee, cap) /\ price <= cap
  BY <1>1, <1>2 DEF Smaller
<1>5. price * tx.gas \in Nat /\ price * tx.gas <= cap * tx.gas /\ cap * tx.gas \in Nat
  BY <1>1, <1>4, Products
<1>6. DeductedFee(tx) = price * tx.gas
  BY <1>3, <1>4 DEF DeductedFee
<1>. QED BY <1>1, <1>3, <1>5, <1>6

\* The rewards claimed make up for what the balance lacks.
LEMMA ClaimSuffices ==
    ASSUME rewards \in [Accounts -> Seq(Nat)], NEW tx \in CosmosTxs, tx.payer \in Accounts,
           CanPay(tx)
    PROVE  /\ ClaimStakingRewards(tx) \in 0..Len(rewards[tx.payer])
           /\ Claimed(tx.payer, ClaimStakingRewards(tx)) \in Nat
           /\ world.balance[tx.payer] + Claimed(tx.payer, ClaimStakingRewards(tx))
                >= DeductedFee(tx)
<1>1. SufficientClaims(tx) \in SUBSET Nat /\ SufficientClaims(tx) # {}
  <2>1. Len(rewards[tx.payer]) \in Nat
    BY RewardsOf, Zenon
  <2>2. 0..Len(rewards[tx.payer]) \subseteq Nat
    BY <2>1
  <2>. QED BY <2>2, Zenon DEF SufficientClaims, CanPay
<1>2. ClaimStakingRewards(tx) \in SufficientClaims(tx)
  BY <1>1, MinIn DEF ClaimStakingRewards
<1>3. /\ ClaimStakingRewards(tx) \in 0..Len(rewards[tx.payer])
      /\ world.balance[tx.payer] + Claimed(tx.payer, ClaimStakingRewards(tx)) >= DeductedFee(tx)
  BY <1>2 DEF SufficientClaims
<1>. QED BY <1>3, RewardsOf

\* What a table of rewards adds up to.
LEMMA AllRewardsSum ==
    ASSUME NEW r \in [Accounts -> Seq(Nat)], NEW f,
           f = [a \in Accounts |-> SumFunctionOnSet(r[a], DOMAIN r[a])]
    PROVE  /\ \A a \in Accounts : f[a] \in Int
           /\ AllRewards(r) = SumFunctionOnSet(f, Accounts) /\ AllRewards(r) \in Int
<1>1. ASSUME NEW s \in Seq(Nat) PROVE SumFunctionOnSet(s, DOMAIN s) \in Int
  <2>1. PICK S : S = DOMAIN s
    OBVIOUS
  <2>2. S = 1..Len(s) /\ Len(s) \in Int
    BY <2>1
  <2>3. IsFiniteSet(S) /\ \A i \in S : s[i] \in Int
    BY <2>2, RangeFinite
  <2>4. SumFunctionOnSet(s, S) \in Int
    BY <2>3, SumType
  <2>. QED BY <2>1, <2>4
<1>2. \A a \in Accounts : f[a] \in Int
  BY <1>1
<1>3. AllRewards(r) = SumFunctionOnSet(f, Accounts)
  <2>1. AllRewards(r) = SumFunctionOnSet(f, DOMAIN f)
    BY Zenon DEF AllRewards, SumFunction
  <2>2. DOMAIN f = Accounts
    OBVIOUS
  <2>. QED BY <2>1, <2>2, Zenon
<1>4. SumFunctionOnSet(f, Accounts) \in Int
  BY <1>2, FiniteAccounts, SumType
<1>. QED BY <1>2, <1>3, <1>4

\* Withdrawn rewards leave the table.
LEMMA RewardsWithdrawn ==
    ASSUME rewards \in [Accounts -> Seq(Nat)], NEW tx \in CosmosTxs, NEW p \in Accounts, p = tx.payer,
           NEW k \in 0..Len(rewards[p]), k = ClaimStakingRewards(tx),
           NEW r2, r2 = WithdrawRewards(tx)
    PROVE  /\ r2 \in [Accounts -> Seq(Nat)]
           /\ AllRewards(rewards) = AllRewards(r2) + Claimed(p, k)
<1>1. PICK r : r = rewards[p]
  OBVIOUS
<1>2. r \in Seq(Nat) /\ k \in 0..Len(r)
  BY <1>1
<1>3. PICK z : z = [i \in DOMAIN r |-> IF i <= k THEN 0 ELSE r[i]]
  BY Zenon
<1>4. /\ z \in Seq(Nat) /\ DOMAIN z = DOMAIN r
      /\ SumFunctionOnSet(r, DOMAIN r)
           = SumFunctionOnSet(r, 1..k) + SumFunctionOnSet(z, DOMAIN r)
  BY <1>2, <1>3, RewardsZeroed
<1>5. r2 = [rewards EXCEPT ![p] = z]
  BY <1>1, <1>3, Zenon DEF WithdrawRewards
<1>6. r2 \in [Accounts -> Seq(Nat)] /\ r2[p] = z /\ \A a \in Accounts \ {p} : r2[a] = rewards[a]
  BY <1>4, <1>5
<1>7. PICK f, h : /\ f = [a \in Accounts |-> SumFunctionOnSet(rewards[a], DOMAIN rewards[a])]
                  /\ h = [a \in Accounts |-> SumFunctionOnSet(r2[a], DOMAIN r2[a])]
  BY Zenon
<1>8. /\ \A a \in Accounts : f[a] \in Int
      /\ AllRewards(rewards) = SumFunctionOnSet(f, Accounts) /\ AllRewards(rewards) \in Int
  BY <1>7, AllRewardsSum
<1>9. /\ \A a \in Accounts : h[a] \in Int
      /\ AllRewards(r2) = SumFunctionOnSet(h, Accounts) /\ AllRewards(r2) \in Int
  BY <1>6, <1>7, AllRewardsSum, Zenon
<1>10. \A a \in Accounts \ {p} : h[a] = f[a]
  BY <1>6, <1>7, Zenon
<1>11. SumFunctionOnSet(h, Accounts) = SumFunctionOnSet(f, Accounts) + h[p] - f[p]
  <2>1. h[p] \in Int
    BY <1>9
  <2>. QED BY <1>8, <1>10, <2>1, BalancesChange, Zenon
<1>12. f[p] = SumFunctionOnSet(r, DOMAIN r) /\ h[p] = SumFunctionOnSet(z, DOMAIN r)
  BY <1>1, <1>4, <1>6, <1>7, Zenon
<1>13. f[p] = Claimed(p, k) + h[p]
  BY <1>1, <1>4, <1>12 DEF Claimed
<1>14. Claimed(p, k) \in Nat
  BY RewardsOf
<1>15. f[p] \in Int /\ h[p] \in Int
  BY <1>8, <1>9
<1>16. AllRewards(rewards) = AllRewards(r2) + Claimed(p, k)
  <2>1. PICK A \in Int, B \in Int : A = AllRewards(rewards) /\ B = AllRewards(r2)
    BY <1>8, <1>9
  <2>2. PICK x \in Int, y \in Int, c \in Int : x = f[p] /\ y = h[p] /\ c = Claimed(p, k)
    BY <1>14, <1>15
  <2>3. SumFunctionOnSet(f, Accounts) = A /\ SumFunctionOnSet(h, Accounts) = B
    BY <1>8, <1>9, <2>1
  <2>4. B = A + y - x
    BY <1>11, <2>2, <2>3
  <2>5. x = c + y
    BY <1>13, <2>2
  <2>6. A = B + c
    BY ONLY A \in Int, B \in Int, x \in Int, y \in Int, c \in Int, <2>4, <2>5
  <2>. QED BY <2>1, <2>2, <2>6, Zenon
<1>. QED BY <1>6, <1>16

\* The fee comes out of the balance and the rewards claimed.
LEMMA DeductEffect ==
    ASSUME TypeOK, world \in World, Funded(world), rewards \in [Accounts -> Seq(Nat)],
           NEW tx \in CosmosTxs, CheckFee(tx), CanPay(tx), NEW w2, w2 = Deduct(tx)
    PROVE  \E claim \in Nat :
             /\ claim = Claimed(tx.payer, ClaimStakingRewards(tx))
             /\ w2 \in World /\ Funded(w2) /\ Coins(w2) = Coins(world) + claim
<1>1. tx.payer \in Accounts /\ DeductedFee(tx) \in Nat
  BY CosmosFee
<1>2. PICK p \in Accounts, fee \in Nat : p = tx.payer /\ fee = DeductedFee(tx)
  BY <1>1
<1>3. PICK claim \in Nat : /\ claim = Claimed(p, ClaimStakingRewards(tx))
                           /\ world.balance[p] + claim >= fee
  BY <1>2, ClaimSuffices
<1>4. /\ world.balance \in [Accounts -> Int] /\ world.feeCollector \in Int
      /\ world.nonce \in [Accounts -> Nat] /\ world.distributed \in Nat
      /\ SumFunctionOnSet(world.balance, Accounts) \in Int
  BY WorldFields
<1>5. PICK v \in Nat, c \in Int, k \in Nat :
        /\ v = world.balance[p] + claim - fee /\ c = world.feeCollector + fee /\ c >= 0
        /\ k = world.nonce[p] + 1
  <2>1. world.balance[p] \in Int /\ world.nonce[p] \in Nat /\ world.feeCollector >= 0
    BY <1>4 DEF Funded
  <2>2. PICK x \in Int, y \in Int, z \in Nat :
          x = world.balance[p] /\ y = world.feeCollector /\ z = world.nonce[p]
    BY <1>4, <2>1
  <2>3. x + claim >= fee /\ y >= 0
    BY <1>3, <2>1, <2>2, Zenon
  <2>4. claim \in Nat /\ fee \in Nat
    OBVIOUS
  <2>5. x + claim - fee \in Nat /\ y + fee \in Int /\ y + fee >= 0 /\ z + 1 \in Nat
    BY ONLY <2>2, <2>3, <2>4
  <2>. QED BY <2>2, <2>5, Zenon
<1>6. PICK b, n : b = [world.balance EXCEPT ![p] = v] /\ n = [world.nonce EXCEPT ![p] = k]
  BY Zenon
<1>7. w2 = [world EXCEPT !.balance = b, !.feeCollector = c, !.nonce = n]
  BY <1>2, <1>3, <1>5, <1>6, Zenon DEF Deduct
<1>8. /\ w2 \in World /\ w2.feeCollector = c /\ w2.distributed = world.distributed /\ w2.balance = b
  <2>1. b \in [Accounts -> Int] /\ n \in [Accounts -> Nat]
    <3>1. v \in Int
      OBVIOUS
    <3>. QED BY <1>4, <1>6, <3>1, Zenon
  <2>. QED BY <1>7, <2>1, Zenon DEF World
<1>9. /\ \A a \in Accounts : world.balance[a] \in Int
      /\ b[p] = v /\ b[p] \in Int
      /\ \A a \in Accounts \ {p} : b[a] = world.balance[a]
  BY <1>4, <1>6
<1>10. SumFunctionOnSet(b, Accounts)
         = SumFunctionOnSet(world.balance, Accounts) + b[p] - world.balance[p]
  BY <1>9, BalancesChange, Zenon
<1>11. Coins(w2) = Coins(world) + claim
  <2>1. world.balance[p] \in Int
    BY <1>9
  <2>0. PICK s \in Int, d \in Nat : /\ s = SumFunctionOnSet(world.balance, Accounts)
                                     /\ d = world.distributed
    BY <1>4
  <2>2. SumFunctionOnSet(b, Accounts) = s + claim - fee
    <3>1. PICK x \in Int : x = world.balance[p] /\ v = x + claim - fee
      BY <1>5, <2>1
    <3>2. SumFunctionOnSet(b, Accounts) = s + v - x
      BY <1>9, <1>10, <2>0, <3>1, Zenon
    <3>. QED BY <2>0, <3>1, <3>2
  <2>3. Coins(w2) = s + claim - fee + c + d
    BY <1>8, <2>0, <2>2, Zenon DEF Coins
  <2>4. Coins(world) = s + world.feeCollector + d
    BY <2>0, Zenon DEF Coins
  <2>5. PICK e \in Int : e = world.feeCollector /\ c = e + fee
    BY <1>4, <1>5, Zenon
  <2>6. Coins(w2) = Coins(world) + claim
    BY <2>3, <2>4, <2>5
  <2>. QED BY <2>6
<1>12. Funded(w2)
  <2>1. ASSUME NEW a \in Accounts PROVE b[a] >= 0
    <3>1. world.balance[a] >= 0
      BY Zenon DEF Funded
    <3>2. b[a] = v \/ b[a] = world.balance[a]
      BY <1>9, Zenon
    <3>3. v >= 0
      BY ONLY <1>5
    <3>. QED BY <3>1, <3>2, <3>3, Zenon
  <2>2. w2.feeCollector >= 0
    BY <1>5, <1>8, Zenon
  <2>. QED BY <1>8, <2>1, <2>2, Zenon DEF Funded
<1>. QED BY <1>2, <1>3, <1>8, <1>11, <1>12, Zenon

\* The post handler burns what the fee collector has.
LEMMA Burnt ==
    ASSUME NEW w \in World, Funded(w), NEW burn \in Nat, burn <= w.feeCollector, NEW w2,
           w2 = [w EXCEPT !.feeCollector = @ - burn]
    PROVE  w2 \in World /\ Funded(w2) /\ Coins(w2) = Coins(w) - burn
<1>1. /\ w.feeCollector \in Int /\ w.distributed \in Nat
      /\ SumFunctionOnSet(w.balance, Accounts) \in Int
  BY WorldFields
<1>2. PICK c \in Int : c = w.feeCollector - burn /\ c >= 0
  BY <1>1
<1>3. w2 = [w EXCEPT !.feeCollector = c]
  BY <1>2, Zenon
<1>4. w2 \in World /\ w2.feeCollector = c /\ w2.distributed = w.distributed /\ w2.balance = w.balance
  BY <1>3 DEF World
<1>. QED BY <1>1, <1>2, <1>4 DEF Coins, Funded



\* A Cosmos transaction passes its ante handler and is over in one step: burn is
\* what its post handler burnt.  Coins move between the world, the unclaimed
\* rewards and those burned.
CosmosApplied(burn) ==
    /\ NoTx /\ stage = "idle" /\ stage' = "idle" /\ gasUsed' = gasUsed
    /\ TypeOK' /\ sent' \in [Accounts -> Nat] /\ rewards' \in [Accounts -> Seq(Nat)]
    /\ world' \in World /\ Funded(world') /\ burned' = burned + burn
    /\ Coins(world') + burn + AllRewards(rewards') = Coins(world) + AllRewards(rewards)

\* Whether its messages succeed or fail.
LEMMA CosmosEffect ==
    ASSUME FundsInv, NEW tx \in CosmosTxs, NEW used \in 0..tx.gas,
           CosmosTxSucceeds(tx, used) \/ CosmosTxFails(tx, used)
    PROVE  \E burn \in Nat : CosmosApplied(burn)
<1>1. /\ TypeOK /\ world \in World /\ Funded(world) /\ rewards \in [Accounts -> Seq(Nat)]
      /\ burned \in Nat /\ sent \in [Accounts -> Nat]
  BY DEF FundsInv, EthTypeOK
<1>2. AnteHandle(tx, used) /\ NoTx
  BY DEF CosmosTxSucceeds, CosmosTxFails
<1>3. /\ stage = "idle" /\ CheckFee(tx) /\ CanPay(tx) /\ DeliverTx(1, tx.gas, used)
      /\ rewards' = WithdrawRewards(tx) /\ sent' = [sent EXCEPT ![tx.payer] = @ + 1]
      /\ stage' = "idle" /\ gasUsed' = gasUsed
  BY <1>2, Zenon DEF AnteHandle
<1>4. tx.payer \in Accounts /\ tx.fee \in Nat /\ tx.gas \in Nat
  BY <1>1, <1>3, CosmosFee
<1>5. TypeOK'
  <2>1. /\ UNCHANGED <<height, phase, params, blockGasWanted, halted, parent>>
        /\ transientGasWanted' \in {(transientGasWanted + 1 * tx.gas) % (MaxUint64 + 1),
                                    transientGasWanted}
        /\ blockGas' = blockGas + used /\ txs' = txs + 1 /\ wanted' = wanted + 1 * tx.gas
    BY <1>3 DEF DeliverTx, AddTransientGasWanted
  <2>2. used \in Nat /\ 1 * tx.gas = tx.gas
    BY <1>4
  <2>3. /\ transientGasWanted \in 0..MaxUint64 /\ transientGasWanted \in Nat /\ blockGas \in Nat
        /\ txs \in Nat /\ wanted \in Nat
    BY <1>1, FeeMarketAssumption DEF TypeOK
  <2>4. transientGasWanted' \in 0..MaxUint64
    BY <1>4, <2>1, <2>2, <2>3, Wrapped
  <2>5. blockGas' \in Nat /\ txs' \in Nat /\ wanted' \in Nat
    BY <1>4, <2>1, <2>2, <2>3
  <2>. QED BY <1>1, <2>1, <2>4, <2>5, CountersTyped
<1>6. sent' \in [Accounts -> Nat]
  BY <1>1, <1>3, <1>4
<1>7. PICK w : w = Deduct(tx)
  OBVIOUS
<1>8. PICK claim \in Nat :
        /\ claim = Claimed(tx.payer, ClaimStakingRewards(tx))
        /\ w \in World /\ Funded(w) /\ Coins(w) = Coins(world) + claim
  BY <1>1, <1>3, <1>7, DeductEffect
<1>9. /\ rewards' \in [Accounts -> Seq(Nat)]
      /\ AllRewards(rewards) = AllRewards(rewards') + claim
  <2>1. ClaimStakingRewards(tx) \in 0..Len(rewards[tx.payer])
    BY <1>1, <1>3, <1>4, ClaimSuffices, Zenon
  <2>. QED BY <1>1, <1>3, <1>4, <1>8, <2>1, RewardsWithdrawn
<1>10. AllRewards(rewards') \in Int /\ Coins(world) \in Int
  BY <1>1, <1>9, AllRewardsSum, WorldFields, Zenon
<1>11. PICK burn \in Nat : /\ burn <= w.feeCollector /\ burned' = burned + burn
                           /\ world' = w \/ world' = [w EXCEPT !.feeCollector = @ - burn]
                           /\ world' = w => burn = 0
  <2>1. w.feeCollector \in Nat
    <3>1. w.feeCollector \in Int
      BY <1>8, WorldFields, Zenon
    <3>2. w.feeCollector >= 0
      BY <1>8, Zenon DEF Funded
    <3>. QED BY <3>1, <3>2
  <2>2. CASE CosmosTxFails(tx, used)
    <3>1. world' = w /\ burned' = burned + 0
      BY <1>1, <1>7, <2>2 DEF CosmosTxFails
    <3>. QED BY <2>1, <3>1
  <2>3. CASE CosmosTxSucceeds(tx, used)
    <3>1. PICK b : /\ b = IF MaxGas > 0 /\ blockGas + used > MaxGas THEN 0 ELSE Burn(tx, w)
                   /\ world' = [w EXCEPT !.feeCollector = @ - b] /\ burned' = burned + b
      BY <1>7, <2>3 DEF CosmosTxSucceeds
    <3>2. Burn(tx, w) \in Nat /\ Burn(tx, w) <= w.feeCollector
      BY <1>4, <2>1 DEF Burn, Smaller
    <3>3. b \in Nat /\ b <= w.feeCollector
      BY <2>1, <3>1, <3>2
    <3>4. world' = w => b = 0
      <4>1. world'.feeCollector = w.feeCollector - b
        BY <1>8, <3>1 DEF World
      <4>. QED BY <2>1, <3>3, <4>1
    <3>. QED BY <3>1, <3>3, <3>4
  <2>. QED BY <2>2, <2>3
<1>12. world' \in World /\ Funded(world') /\ Coins(world') = Coins(w) - burn
  <2>1. CASE world' = w
    <3>1. Coins(w) \in Int
      BY <1>8, WorldFields
    <3>. QED BY <1>8, <1>11, <2>1, <3>1
  <2>2. CASE world' = [w EXCEPT !.feeCollector = @ - burn]
    BY <1>8, <1>11, <2>2, Burnt
  <2>. QED BY <1>11, <2>1, <2>2
<1>13. Coins(world') + burn + AllRewards(rewards') = Coins(world) + AllRewards(rewards)
  BY <1>8, <1>9, <1>10, <1>12
<1>14. CosmosApplied(burn)
  BY <1>2, <1>3, <1>5, <1>6, <1>9, <1>11, <1>12, <1>13, Zenon DEF CosmosApplied
<1>. QED BY <1>14

\* A Cosmos transaction keeps the invariant.
LEMMA CosmosFunds == ASSUME FundsInv, CosmosTx PROVE FundsInv'
<1>0. PICK tx \in CosmosTxs : \E used \in 0..tx.gas :
        CosmosTxSucceeds(tx, used) \/ CosmosTxFails(tx, used) \/ RefuseCosmosTx(used)
  BY DEF CosmosTx
<1>1. PICK used \in 0..tx.gas :
        CosmosTxSucceeds(tx, used) \/ CosmosTxFails(tx, used) \/ RefuseCosmosTx(used)
  BY <1>0
<1>2. /\ TypeOK /\ gasUsed \in Nat /\ burned \in Nat
  BY DEF FundsInv, EthTypeOK
<1>3. CASE CosmosTxSucceeds(tx, used) \/ CosmosTxFails(tx, used)
  <2>1. PICK burn \in Nat : CosmosApplied(burn)
    BY <1>3, CosmosEffect
  <2>2. burned' \in Nat /\ gasUsed' \in Nat
    BY <1>2, <2>1 DEF CosmosApplied
  <2>3. Funded(world)'
    BY <2>1 DEF CosmosApplied, Funded
  <2>. QED BY <2>1, <2>2, <2>3, IdleFunds DEF CosmosApplied
<1>4. CASE RefuseCosmosTx(used)
  <2>1. /\ stage = "idle" /\ RefuseTx(used) /\ UNCHANGED <<txVars, cosmosVars>>
    BY <1>4 DEF RefuseCosmosTx
  <2>2. used \in Nat
    BY CosmosTxAssumption, FeeMarketAssumption
  <2>3. TypeOK'
    BY <1>2, <2>1, <2>2 DEF RefuseTx, TypeOK
  <2>. QED BY <2>1, <2>3, OutsideFunds
<1>. QED BY <1>1, <1>3, <1>4

\* Genesis is funded.
LEMMA InitFunds == CosmosInit => FundsInv
<1>. SUFFICES ASSUME CosmosInit PROVE FundsInv
  OBVIOUS
<1>1. Init /\ EthInit /\ rewards = InitialRewards /\ burned = 0
  BY DEF CosmosInit, EthInit
<1>2. TypeOK
  BY <1>1, InitIInv DEF IInv
<1>3. Genesis \in World /\ Funded(Genesis)
  <2>1. InitialBalance \in Nat
    BY EthTxAssumption
  <2>2. InitialBalance \in Int /\ InitialBalance >= 0
    BY <2>1
  <2>3. PICK b, n : b = [a \in Accounts |-> InitialBalance] /\ n = [a \in Accounts |-> 0]
    BY Zenon
  <2>4. b \in [Accounts -> Int] /\ n \in [Accounts -> Nat] /\ \A a \in Accounts : b[a] >= 0
    BY <2>2, <2>3
  <2>5. Genesis = [balance |-> b, nonce |-> n, feeCollector |-> 0, distributed |-> 0]
    BY <2>3, Zenon DEF Genesis
  <2>. QED BY <2>4, <2>5 DEF World, Funded
<1>4. /\ world = Genesis /\ checkpoint = Genesis /\ start = Genesis /\ stage = "idle"
      /\ declared = 0 /\ msgs = <<>> /\ txGasLimit = 0
      /\ next = 1 /\ gasUsed = 0 /\ before = 0 /\ sent = [a \in Accounts |-> 0]
  BY <1>1 DEF EthInit
<1>5. msgs \in Seq(Messages) /\ next \in 1..(Len(msgs) + 1) /\ sent \in [Accounts -> Nat]
  BY <1>4
<1>6. declared \in Nat /\ txGasLimit \in Nat /\ gasUsed \in Nat /\ before \in Nat
  BY <1>4
<1>7. EthTypeOK
  BY <1>2, <1>3, <1>4, <1>5, <1>6, Zenon DEF EthTypeOK
<1>8. before \in 0..MaxUint64 /\ burned \in Nat
  BY <1>1, <1>4, FeeMarketAssumption
<1>9. rewards \in [Accounts -> Seq(Nat)]
  BY <1>1, CosmosTxAssumption
<1>10. stage = "idle" /\ stage # "ante"
  BY <1>4
<1>. QED BY <1>3, <1>4, <1>7, <1>8, <1>9, <1>10, Zenon DEF FundsInv

\* Every step keeps the invariant.
LEMMA NextFunds == FundsInv /\ [CosmosNext]_allVars => FundsInv'
<1>. SUFFICES ASSUME FundsInv, [CosmosNext]_allVars PROVE FundsInv'
  OBVIOUS
<1>1. TypeOK
  BY DEF FundsInv, EthTypeOK
<1>2. CASE NewBlock /\ UNCHANGED cosmosVars
  BY <1>2, NewBlockFunds
<1>3. CASE Ante /\ UNCHANGED cosmosVars
  BY <1>3, StartFunds, AnteFunds, EndAnteFunds, EndFunds DEF Ante
<1>4. CASE Apply /\ UNCHANGED cosmosVars
  BY <1>4, OutcomeFunds, EndFunds DEF Apply
<1>5. CASE CloseBlock /\ UNCHANGED cosmosVars
  <2>1. /\ stage = "idle" /\ UNCHANGED <<txVars, cosmosVars>>
        /\ EndBlock \/ \E p \in ParamSet : UpdateParams(p)
    BY <1>5 DEF CloseBlock
  <2>2. TypeOK'
    BY <1>1, <2>1, EndBlockTypes
  <2>. QED BY <2>1, <2>2, OutsideFunds
<1>6. CASE CosmosTx
  BY <1>6, CosmosFunds
<1>7. CASE UNCHANGED allVars
  <2>1. UNCHANGED <<txVars, cosmosVars>> /\ UNCHANGED feeVars
    BY <1>7 DEF allVars, vars
  <2>2. TypeOK' /\ params' = params
    BY <1>1, <2>1 DEF feeVars, TypeOK
  <2>. QED BY <2>1, <2>2, OutsideFunds
<1>. QED BY <1>2, <1>3, <1>4, <1>5, <1>6, <1>7 DEF CosmosNext, EthNext

\* The invariant holds throughout.
LEMMA FundsInvariance == CosmosSpec => []FundsInv
  BY InitFunds, NextFunds, PTL DEF CosmosSpec

\* No account and no fee collector is ever overdrawn, with any number of accounts,
\* messages, fee parameters, locked coins and rewards: the refunds and revenue
\* shares that the code pays without looking come out of fees still there.
THEOREM NobodyOverdrawn == CosmosSpec => []Solvent
<1>1. FundsInv => Solvent
  BY DEF FundsInv, Solvent, Funded
<1>. QED BY <1>1, FundsInvariance, PTL
=============================================================================
