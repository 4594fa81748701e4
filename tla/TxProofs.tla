---------------------------- MODULE TxProofs ----------------------------
(* Transactions neither make nor lose coins, charge nobody more than what   *)
(* they signed for, and implement the fee market's transactions.            *)
EXTENDS TxFunds, FeeMarketRefinement



-----------------------------------------------------------------------------
(* Coins are neither made nor lost *)

\* The invariant: the world a failure falls back to holds as many coins.
CoinInv ==
    /\ Coins(checkpoint) = Coins(world)
    /\ Coins(world) + burned + AllRewards(rewards)
         = InitialBalance * Cardinality(Accounts) + AllRewards(InitialRewards)

\* Rewards are amounts.
LEMMA AllRewardsInt == ASSUME NEW r \in [Accounts -> Seq(Nat)] PROVE AllRewards(r) \in Int
  BY AllRewardsSum, Zenon

\* Genesis.
LEMMA InitCoins == ASSUME CosmosInit PROVE CoinInv
<1>1. /\ world = Genesis /\ checkpoint = Genesis /\ rewards = InitialRewards /\ burned = 0
  BY DEF CosmosInit, EthInit
<1>2. PICK b : b = [a \in Accounts |-> InitialBalance]
  BY Zenon
<1>3. Genesis.balance = b /\ Genesis.feeCollector = 0 /\ Genesis.distributed = 0
  BY <1>2 DEF Genesis
<1>4. InitialBalance \in Int /\ Cardinality(Accounts) \in Int
  BY EthTxAssumption, FiniteAccounts, FS_CardinalityType
<1>5. SumFunctionOnSet(b, Accounts) = InitialBalance * Cardinality(Accounts)
  BY <1>2, <1>4, FiniteAccounts, SumConstant
<1>6. AllRewards(InitialRewards) \in Int
  BY CosmosTxAssumption, AllRewardsSum, Zenon
<1>7. InitialBalance * Cardinality(Accounts) \in Int
  BY <1>4
<1>8. Coins(Genesis) = InitialBalance * Cardinality(Accounts)
  BY <1>3, <1>5, <1>7 DEF Coins
<1>. QED BY <1>1, <1>6, <1>7, <1>8 DEF CoinInv

\* A step keeps the invariant if it moves coins between accounts, the fee
\* collector and the fees distributed only.
LEMMA MovedCoins ==
    ASSUME CoinInv, Coins(world') = Coins(world), rewards' = rewards, burned' = burned,
           checkpoint' \in {world', world, checkpoint}
    PROVE  CoinInv'
<1>1. Coins(checkpoint') = Coins(world')
  BY DEF CoinInv
<1>2. Coins(world)' = Coins(world') /\ Coins(checkpoint)' = Coins(checkpoint')
      /\ AllRewards(rewards)' = AllRewards(rewards)
  BY DEF Coins
<1>. QED BY <1>1, <1>2 DEF CoinInv

\* Every step keeps the invariant.
LEMMA NextCoins ==
    ASSUME FundsInv, CoinInv, [CosmosNext]_allVars
    PROVE  CoinInv'
<1>1. /\ TypeOK /\ world \in World /\ checkpoint \in World /\ Funded(world)
  BY DEF FundsInv, EthTypeOK
<1>2. CASE NewBlock /\ UNCHANGED cosmosVars
  <2>1. Coins(world') = Coins(world)
    BY <1>1, <1>2, Distributed, Zenon DEF NewBlock, Funded
  <2>2. checkpoint' = world' /\ rewards' = rewards /\ burned' = burned
    BY <1>2 DEF NewBlock, NoTx, cosmosVars
  <2>. QED BY <2>1, <2>2, MovedCoins
<1>3. ASSUME NEW m \in Messages, AnteMsg(m), UNCHANGED cosmosVars PROVE CoinInv'
  <2>1. Coins(world') = Coins(world)
    BY <1>1, <1>3, ChargeEffect DEF AnteMsg
  <2>2. checkpoint' = checkpoint /\ rewards' = rewards /\ burned' = burned
    BY <1>3 DEF AnteMsg, cosmosVars
  <2>. QED BY <2>1, <2>2, MovedCoins
<1>4. ASSUME NEW m \in Messages, Outcome(m), UNCHANGED cosmosVars PROVE CoinInv'
  <2>1. PICK v \in Nat, used \in Nat : MessageApplied(m, v, used)
    BY <1>1, <1>4, OutcomeEffect
  <2>2. Coins(world') = Coins(world) /\ checkpoint' = checkpoint
    BY <2>1 DEF MessageApplied, Costs
  <2>3. rewards' = rewards /\ burned' = burned
    BY <1>4 DEF cosmosVars
  <2>. QED BY <2>2, <2>3, MovedCoins
<1>5. CASE /\ \/ Refuse \/ EndTx \/ \E m \in Messages : FailTx(m)
              \/ EndAnte \/ \E gas \in GasLimits : StartTx(gas)
           /\ UNCHANGED cosmosVars
  <2>1. world' \in {world, checkpoint} /\ checkpoint' \in {world', world, checkpoint}
    BY <1>5 DEF Refuse, EndTx, FailTx, EndAnte, StartTx, NoTx
  <2>2. Coins(world') = Coins(world)
    BY <2>1 DEF CoinInv
  <2>3. rewards' = rewards /\ burned' = burned
    BY <1>5 DEF cosmosVars
  <2>. QED BY <2>1, <2>2, <2>3, MovedCoins
<1>6. CASE UNCHANGED <<txVars, cosmosVars>>
  <2>1. world' = world /\ checkpoint' = checkpoint /\ rewards' = rewards /\ burned' = burned
    BY <1>6 DEF txVars, cosmosVars
  <2>. QED BY <2>1, MovedCoins
<1>7. ASSUME NEW burn \in Nat, CosmosApplied(burn) PROVE CoinInv'
  <2>1. /\ checkpoint' = world' /\ burned' = burned + burn
        /\ Coins(world') + burn + AllRewards(rewards') = Coins(world) + AllRewards(rewards)
        /\ world' \in World /\ rewards' \in [Accounts -> Seq(Nat)]
    BY <1>7 DEF CosmosApplied, NoTx
  <2>2. Coins(world) \in Int /\ Coins(world') \in Int
    BY <1>1, <2>1, WorldFields
  <2>5. burned \in Int /\ rewards \in [Accounts -> Seq(Nat)]
    BY DEF FundsInv
  <2>6. AllRewards(rewards) \in Int /\ AllRewards(rewards') \in Int
    BY <2>1, <2>5, AllRewardsInt
  <2>7. PICK c \in Int, d \in Int, r \in Int, s \in Int :
          /\ c = Coins(world) /\ d = Coins(world')
          /\ r = AllRewards(rewards) /\ s = AllRewards(rewards')
    BY <2>2, <2>6
  <2>8. d + burn + s = c + r
    BY <2>1, <2>7
  <2>9. d + (burned + burn) + s = c + burned + r
    BY <2>5, <2>8
  <2>3. Coins(world') + burned' + AllRewards(rewards') = Coins(world) + burned + AllRewards(rewards)
    BY <2>1, <2>7, <2>9
  <2>4. Coins(world)' = Coins(world') /\ Coins(checkpoint)' = Coins(world')
        /\ AllRewards(rewards)' = AllRewards(rewards')
    BY <2>1 DEF Coins, AllRewards
  <2>. QED BY <2>3, <2>4 DEF CoinInv
<1>8. CASE CosmosTx
  <2>0. PICK tx \in CosmosTxs : \E used \in 0..tx.gas :
          CosmosTxSucceeds(tx, used) \/ CosmosTxFails(tx, used) \/ RefuseCosmosTx(used)
    BY <1>8 DEF CosmosTx
  <2>1. PICK used \in 0..tx.gas :
          CosmosTxSucceeds(tx, used) \/ CosmosTxFails(tx, used) \/ RefuseCosmosTx(used)
    BY <2>0
  <2>2. CASE CosmosTxSucceeds(tx, used) \/ CosmosTxFails(tx, used)
    <3>1. PICK burn \in Nat : CosmosApplied(burn)
      BY <2>2, CosmosEffect
    <3>. QED BY <3>1, <1>7
  <2>3. CASE RefuseCosmosTx(used)
    BY <2>3, <1>6 DEF RefuseCosmosTx
  <2>. QED BY <2>1, <2>2, <2>3
<1>9. CASE UNCHANGED cosmosVars /\ CloseBlock
  BY <1>6, <1>9 DEF CloseBlock
<1>10. CASE UNCHANGED allVars
  BY <1>6, <1>10 DEF allVars, vars
<1>. QED BY <1>2, <1>3, <1>4, <1>5, <1>8, <1>9, <1>10 DEF CosmosNext, EthNext, Ante, Apply

\* Coins are conserved: those of the accounts, the fee collector, the fees
\* distributed, the burned and the rewards add up to those of genesis, with any
\* number of accounts and whatever transactions do.
THEOREM CoinsConserved == CosmosSpec => []Conservation
<1>1. FundsInv /\ CoinInv => Conservation
  <2>. SUFFICES ASSUME FundsInv, CoinInv PROVE Conservation
    OBVIOUS
  <2>1. world.balance \in [Accounts -> Int]
    BY DEF FundsInv, EthTypeOK, World
  <2>2. SumFunction(world.balance) = SumFunctionOnSet(world.balance, Accounts)
    BY <2>1 DEF SumFunction
  <2>. QED BY <2>2 DEF CoinInv, Conservation, Coins
<1>. QED BY <1>1, InitCoins, NextCoins, FundsInvariance, PTL DEF CosmosSpec



-----------------------------------------------------------------------------
(* Nobody is overcharged *)

\* The costs of the messages of s that a signed, and the values that those from
\* the k-th on have not sent yet.
OwedBy(a) == [m \in Messages |-> IF m.from = a THEN Cost(m) ELSE 0]

KeptBy(a) == [m \in Messages |-> IF m.from = a THEN m.value ELSE 0]

Owed(s, a) == Along(OwedBy(a), s, 1)

Kept(s, a, k) == Along(KeptBy(a), s, k)

\* The invariant, for the world and for the one a failure falls back to.
ChargeInv ==
    stage # "idle" => \A a \in Accounts :
        /\ world.balance[a] + Owed(msgs, a) >= start.balance[a] + Kept(msgs, a, next)
        /\ checkpoint.balance[a] + Owed(msgs, a) >= start.balance[a] + Kept(msgs, a, 1)

\* A message costs at least its value, and its fee with it.
LEMMA CostOf ==
    ASSUME NEW m \in Messages
    PROVE  /\ Cost(m) \in Nat /\ m.value \in Nat /\ m.value <= Cost(m)
           /\ TypeOK => EffectiveFee(m) \in Nat /\ EffectiveFee(m) + m.value <= Cost(m)
<1>1. m.value \in Nat /\ m.feeCap \in Nat /\ m.gas \in Nat
  BY MessageFields
<1>2. PICK p \in Nat : p = m.feeCap * m.gas
  BY <1>1, Products
<1>3. Cost(m) = p + m.value
  BY <1>2 DEF Cost
<1>4. TypeOK => EffectiveFee(m) \in Nat /\ EffectiveFee(m) <= p
  BY <1>2, Prices
<1>. QED BY <1>1, <1>2, <1>3, <1>4

\* What an account owes for a list of messages, and for one message more.
LEMMA OwedOf ==
    ASSUME NEW s \in Seq(Messages), NEW a \in Accounts
    PROVE  /\ Owed(s, a) \in Nat
           /\ s = <<>> => Owed(s, a) = 0
           /\ \A m \in Messages :
                 Owed(Append(s, m), a) = Owed(s, a) + (IF m.from = a THEN Cost(m) ELSE 0)
<1>1. PICK F : F = OwedBy(a)
  OBVIOUS
<1>2. F \in [Messages -> Nat] /\ \A m \in Messages : F[m] = IF m.from = a THEN Cost(m) ELSE 0
  BY <1>1, CostOf DEF OwedBy
<1>3. 1 \in 1..(Len(s) + 1) /\ (s = <<>> => 1 = Len(s) + 1)
  OBVIOUS
<1>4. /\ Along(F, s, 1) \in Nat
      /\ s = <<>> => Along(F, s, 1) = 0
      /\ \A m \in Messages : Along(F, Append(s, m), 1) = Along(F, s, 1) + F[m]
  BY <1>2, <1>3, AlongOf
<1>. QED BY <1>1, <1>2, <1>4 DEF Owed

\* What it has still to spend from message k on, after that message and with
\* one message more.
LEMMA KeptOf ==
    ASSUME NEW s \in Seq(Messages), NEW a \in Accounts, NEW k \in 1..(Len(s) + 1)
    PROVE  /\ Kept(s, a, k) \in Nat
           /\ k = Len(s) + 1 => Kept(s, a, k) = 0
           /\ k <= Len(s) => Kept(s, a, k) = (IF s[k].from = a THEN s[k].value ELSE 0)
                                             + Kept(s, a, k + 1)
           /\ \A m \in Messages :
                 Kept(Append(s, m), a, k) = Kept(s, a, k) + (IF m.from = a THEN m.value ELSE 0)
<1>1. PICK F : F = KeptBy(a)
  OBVIOUS
<1>2. F \in [Messages -> Nat] /\ \A m \in Messages : F[m] = IF m.from = a THEN m.value ELSE 0
  BY <1>1, CostOf DEF KeptBy
<1>3. k <= Len(s) => s[k] \in Messages
  OBVIOUS
<1>4. /\ Along(F, s, k) \in Nat
      /\ k = Len(s) + 1 => Along(F, s, k) = 0
      /\ k <= Len(s) => Along(F, s, k) = F[s[k]] + Along(F, s, k + 1)
      /\ \A m \in Messages : Along(F, Append(s, m), k) = Along(F, s, k) + F[m]
  BY <1>2, AlongOf
<1>. QED BY <1>1, <1>2, <1>3, <1>4 DEF Kept

\* Both are of the messages of the next state in the next state.
LEMMA OwedNext ==
    ASSUME NEW a \in Accounts
    PROVE  /\ Owed(msgs, a)' = Owed(msgs', a)
           /\ Kept(msgs, a, next)' = Kept(msgs', a, next') /\ Kept(msgs, a, 1)' = Kept(msgs', a, 1)
  BY DEF Owed, Kept, OwedBy, KeptBy, Along, Cost

\* A transaction begins, owing nothing.
LEMMA StartCharge ==
    ASSUME FundsInv, NEW gas \in GasLimits, StartTx(gas)
    PROVE  ChargeInv'
<1>. SUFFICES ASSUME NEW a \in Accounts
             PROVE  /\ world'.balance[a] + Owed(msgs, a)' >= start'.balance[a] + Kept(msgs, a, next)'
                    /\ checkpoint'.balance[a] + Owed(msgs, a)' >= start'.balance[a] + Kept(msgs, a, 1)'
  BY DEF ChargeInv
<1>1. /\ msgs' = <<>> /\ next' = 1 /\ checkpoint' = world /\ start' = world /\ world' = world
  BY DEF StartTx
<1>2. world.balance[a] \in Int
  BY WorldFields DEF FundsInv, EthTypeOK
<1>3. PICK k : msgs' \in Seq(Messages) /\ k \in 1..(Len(msgs') + 1) /\ k = Len(msgs') + 1 /\ k = 1
  BY <1>1
<1>6. Kept(msgs', a, k) = 0
  BY <1>3, KeptOf
<1>7. Owed(msgs', a) = 0
  BY <1>1, <1>3, OwedOf, Zenon
<1>4. Owed(msgs', a) = 0 /\ Kept(msgs', a, 1) = 0
  BY <1>3, <1>6, <1>7
<1>5. Owed(msgs, a)' = 0 /\ Kept(msgs, a, next)' = 0 /\ Kept(msgs, a, 1)' = 0
  BY <1>1, <1>3, <1>4, OwedNext
<1>. QED BY <1>1, <1>2, <1>5

\* The ante handler takes the fee, which is no more than the message may cost
\* beyond its value.
LEMMA AnteCharge ==
    ASSUME FundsInv, ChargeInv, NEW m \in Messages, AnteMsg(m)
    PROVE  ChargeInv'
<1>. SUFFICES ASSUME NEW a \in Accounts
             PROVE  /\ world'.balance[a] + Owed(msgs, a)' >= start'.balance[a] + Kept(msgs, a, next)'
                    /\ checkpoint'.balance[a] + Owed(msgs, a)' >= start'.balance[a] + Kept(msgs, a, 1)'
  BY DEF ChargeInv
<1>1. /\ stage = "ante" /\ world' = Charge(world, m) /\ msgs' = Append(msgs, m)
      /\ UNCHANGED <<next, checkpoint, start>>
  BY DEF AnteMsg
<1>2. /\ TypeOK /\ world \in World /\ checkpoint \in World /\ start \in World
      /\ msgs \in Seq(Messages) /\ next = 1
  BY <1>1 DEF FundsInv, EthTypeOK
<1>3. PICK w \in Int, c \in Int, s \in Int :
        w = world.balance[a] /\ c = checkpoint.balance[a] /\ s = start.balance[a]
  BY <1>2, WorldFields
<1>4. PICK fee \in Nat, v \in Nat, cost \in Nat :
        fee = EffectiveFee(m) /\ v = m.value /\ cost = Cost(m) /\ fee + v <= cost
  BY <1>2, CostOf
<1>5. world'.balance[a] = w - (IF a = m.from THEN fee ELSE 0)
  <2>1. PICK w1, w2 : w1 = world /\ w2 = world'
    OBVIOUS
  <2>2. TypeOK /\ w1 \in World /\ w2 = Charge(w1, m)
    BY <1>1, <1>2, <2>1
  <2>3. w2.balance[a] = w1.balance[a] - (IF a = m.from THEN EffectiveFee(m) ELSE 0)
    BY <2>2, ChargeEffect
  <2>. QED BY <1>3, <1>4, <2>1, <2>3
<1>6. 1 \in 1..(Len(msgs) + 1)
  BY <1>2
<1>7. PICK o \in Nat, k \in Nat : o = Owed(msgs, a) /\ k = Kept(msgs, a, 1)
  BY <1>2, <1>6, OwedOf, KeptOf
<1>8. /\ Owed(msgs, a)' = o + (IF m.from = a THEN cost ELSE 0)
      /\ Kept(msgs, a, 1)' = k + (IF m.from = a THEN v ELSE 0)
      /\ Kept(msgs, a, next)' = k + (IF m.from = a THEN v ELSE 0)
  BY <1>1, <1>2, <1>4, <1>6, <1>7, OwedOf, KeptOf, OwedNext
<1>9. w + o >= s + k /\ c + o >= s + k
  BY <1>1, <1>2, <1>3, <1>7, Zenon DEF ChargeInv
<1>10. checkpoint'.balance[a] = c /\ start'.balance[a] = s
  BY <1>1, <1>3
<1>. QED BY <1>4, <1>5, <1>8, <1>9, <1>10

\* The messages begin to run, from the world the ante handler leaves.
LEMMA EndAnteCharge == ASSUME FundsInv, ChargeInv, EndAnte PROVE ChargeInv'
<1>. SUFFICES ASSUME NEW a \in Accounts
             PROVE  /\ world'.balance[a] + Owed(msgs, a)' >= start'.balance[a] + Kept(msgs, a, next)'
                    /\ checkpoint'.balance[a] + Owed(msgs, a)' >= start'.balance[a] + Kept(msgs, a, 1)'
  BY DEF ChargeInv
<1>1. /\ stage = "ante" /\ checkpoint' = world /\ UNCHANGED <<world, msgs, next, start>>
  BY DEF EndAnte
<1>2. next = 1
  BY <1>1 DEF FundsInv
<1>3. world.balance[a] + Owed(msgs, a) >= start.balance[a] + Kept(msgs, a, 1)
  BY <1>1, <1>2 DEF ChargeInv
<1>. QED BY <1>1, <1>2, <1>3, OwedNext

\* A message is applied: its sender is down by its value at most.
LEMMA OutcomeCharge ==
    ASSUME FundsInv, ChargeInv, NEW m \in Messages, Outcome(m)
    PROVE  ChargeInv'
<1>. SUFFICES ASSUME NEW a \in Accounts
             PROVE  /\ world'.balance[a] + Owed(msgs, a)' >= start'.balance[a] + Kept(msgs, a, next)'
                    /\ checkpoint'.balance[a] + Owed(msgs, a)' >= start'.balance[a] + Kept(msgs, a, 1)'
  BY DEF ChargeInv
<1>1. /\ TypeOK /\ world \in World /\ Funded(world) /\ start \in World
      /\ msgs \in Seq(Messages) /\ next \in 1..(Len(msgs) + 1)
  BY DEF FundsInv, EthTypeOK
<1>2. PICK v \in Nat, used \in Nat : MessageApplied(m, v, used)
  BY <1>1, OutcomeEffect
<1>3. /\ stage = "run" /\ next <= Len(msgs) /\ m = msgs[next] /\ next' = next + 1
      /\ UNCHANGED <<msgs, checkpoint, start>> /\ v <= m.value
      /\ Costs(world, world', m.from, v, EffectiveFee(m))
  BY <1>2 DEF MessageApplied, Running
<1>4. world' \in World /\ world'.balance[a] >= world.balance[a] - (IF a = m.from THEN v ELSE 0)
  BY <1>3 DEF Costs
<1>5. PICK w \in Int, w1 \in Int, s \in Int :
        w = world.balance[a] /\ w1 = world'.balance[a] /\ s = start.balance[a]
  BY <1>1, <1>4, WorldFields, Zenon
<1>6. PICK o \in Nat, k \in Nat, mv \in Nat, k1 \in Nat :
        /\ o = Owed(msgs, a) /\ k = Kept(msgs, a, next) /\ mv = m.value
        /\ k1 = Kept(msgs, a, next + 1)
  <2>1. next + 1 \in 1..(Len(msgs) + 1)
    BY <1>1, <1>3
  <2>. QED BY <1>1, <2>1, OwedOf, KeptOf, MessageFields, Zenon
<1>7. k = (IF m.from = a THEN mv ELSE 0) + k1
  BY <1>1, <1>3, <1>6, KeptOf
<1>8. /\ w + o >= s + k
      /\ checkpoint.balance[a] + o >= s + Kept(msgs, a, 1)
  BY <1>3, <1>5, <1>6, Zenon DEF ChargeInv
<1>9. w1 >= w - (IF a = m.from THEN v ELSE 0) /\ v <= mv
  BY <1>3, <1>4, <1>5, <1>6
<1>10. w1 + o >= s + k1
  BY <1>7, <1>8, <1>9
<1>11. /\ Owed(msgs, a)' = o /\ Kept(msgs, a, next)' = k1 /\ Kept(msgs, a, 1)' = Kept(msgs, a, 1)
  BY <1>3, <1>6, OwedNext
<1>. QED BY <1>3, <1>5, <1>8, <1>10, <1>11

\* Every step keeps the invariant.
LEMMA NextCharge == ASSUME FundsInv, ChargeInv, [CosmosNext]_allVars PROVE ChargeInv'
<1>1. CASE Ante
  <2>1. Refuse => stage' = "idle"
    BY DEF Refuse
  <2>. QED BY <1>1, <2>1, StartCharge, AnteCharge, EndAnteCharge, Zenon DEF Ante, ChargeInv
<1>2. CASE Apply
  <2>1. EndTx \/ (\E m \in Messages : FailTx(m)) => stage' = "idle"
    BY DEF EndTx, FailTx
  <2>. QED BY <1>2, <2>1, OutcomeCharge DEF Apply, ChargeInv
<1>3. CASE NewBlock \/ CloseBlock \/ CosmosTx
  <2>1. stage' = "idle"
    BY <1>3 DEF NewBlock, CloseBlock, txVars, cosmosVars, CosmosTx, CosmosTxSucceeds,
                CosmosTxFails, RefuseCosmosTx, AnteHandle
  <2>. QED BY <2>1 DEF ChargeInv
<1>4. CASE UNCHANGED allVars
  <2>1. UNCHANGED <<stage, world, start, checkpoint, msgs, next>>
    BY <1>4 DEF allVars, vars, txVars
  <2>. QED BY <2>1, OwedNext DEF ChargeInv
<1>. QED BY <1>1, <1>2, <1>3, <1>4 DEF CosmosNext, EthNext

\* When a transaction is over no account is down by more than the costs of the
\* messages it signed, with any number of messages and accounts, whether its
\* messages succeed, fail, or are undone by an error or by the block's gas limit.
THEOREM NobodyOvercharged == CosmosSpec => NoOvercharge
<1>1. CosmosInit => ChargeInv
  BY DEF CosmosInit, EthInit, ChargeInv
<1>2. ASSUME FundsInv, ChargeInv, [CosmosNext]_allVars, stage = "run", stage' = "idle",
             NEW a \in Accounts
      PROVE  world'.balance[a]
               + SumFunction([i \in DOMAIN msgs |-> IF msgs[i].from = a THEN Cost(msgs[i]) ELSE 0])
             >= start.balance[a]
  <2>1. /\ msgs \in Seq(Messages) /\ next \in 1..(Len(msgs) + 1)
        /\ world \in World /\ checkpoint \in World /\ start \in World
    BY <1>2 DEF FundsInv, EthTypeOK
  <2>2. PICK w \in Int, c \in Int, s \in Int, o \in Nat, k \in Nat, k1 \in Nat :
          /\ w = world.balance[a] /\ c = checkpoint.balance[a] /\ s = start.balance[a]
          /\ o = Owed(msgs, a) /\ k = Kept(msgs, a, next) /\ k1 = Kept(msgs, a, 1)
    <3>1. 1 \in 1..(Len(msgs) + 1)
      BY <2>1
    <3>. QED BY <2>1, <3>1, WorldFields, OwedOf, KeptOf, Zenon
  <2>3. w + o >= s + k /\ c + o >= s + k1
    BY <1>2, <2>2 DEF ChargeInv
  <2>4. EndTx \/ \E m \in Messages : FailTx(m)
    <3>1. stage' # stage
      BY <1>2
    <3>2. CosmosNext
      BY <1>2, <3>1 DEF allVars, vars, txVars
    <3>3. ~ CosmosTx
      BY <1>2 DEF CosmosTx, CosmosTxSucceeds, CosmosTxFails, RefuseCosmosTx, AnteHandle
    <3>4. \A m \in Messages : ~ Outcome(m)
      BY <1>2 DEF Outcome, MsgReverts, MsgSucceeds, HookReverts, Settle
    <3>5. ~ Ante
      BY <1>2 DEF Ante, StartTx, AnteMsg, EndAnte, Refuse
    <3>6. ~ NewBlock /\ ~ CloseBlock
      BY <1>2 DEF NewBlock, CloseBlock
    <3>. QED BY <3>2, <3>3, <3>4, <3>5, <3>6 DEF CosmosNext, EthNext, Apply
  <2>5. world' \in {world, checkpoint}
    BY <2>4 DEF EndTx, FailTx
  <2>6. SumFunction([i \in DOMAIN msgs |-> IF msgs[i].from = a THEN Cost(msgs[i]) ELSE 0]) = o
    <3>1. DOMAIN msgs = 1..Len(msgs) /\ \A i \in DOMAIN msgs : msgs[i] \in Messages
      BY <2>1
    <3>2. [i \in DOMAIN msgs |-> IF msgs[i].from = a THEN Cost(msgs[i]) ELSE 0]
            = [i \in DOMAIN msgs |-> OwedBy(a)[msgs[i]]]
      BY <3>1 DEF OwedBy
    <3>3. SumFunction([i \in DOMAIN msgs |-> OwedBy(a)[msgs[i]]])
            = SumFunctionOnSet([i \in DOMAIN msgs |-> OwedBy(a)[msgs[i]]], 1..Len(msgs))
      BY <3>1 DEF SumFunction
    <3>. QED BY <2>2, <3>2, <3>3 DEF Owed, Along
  <2>7. world'.balance[a] = w \/ world'.balance[a] = c
    BY <2>2, <2>5
  <2>. QED BY <2>2, <2>3, <2>6, <2>7
<1>3. FundsInv /\ ChargeInv /\ [CosmosNext]_allVars =>
        [stage = "run" /\ stage' = "idle" => \A a \in Accounts :
          world'.balance[a]
            + SumFunction([i \in DOMAIN msgs |-> IF msgs[i].from = a THEN Cost(msgs[i]) ELSE 0])
          >= start.balance[a]]_vars
  BY <1>2
<1>. QED BY <1>1, <1>3, NextCharge, FundsInvariance, PTL DEF CosmosSpec, NoOvercharge



-----------------------------------------------------------------------------
(* The gas of a transaction *)

\* The gas limits of the messages of s from the k-th on.
Limits == [m \in Messages |-> m.gas]

GasLeft(s, k) == Along(Limits, s, k)

\* What the transient store has reserved for n messages on top of b.
Reserved(b, n, gas) ==
    IF IsBaseFeeEnabled(params, height) THEN (b + n * gas) % (MaxUint64 + 1) ELSE b

\* The invariant: what the messages before have used, and those to come may use,
\* is within the gas declared.
GasInv ==
    stage # "idle" =>
        /\ MayDeliver /\ declared \in GasLimits /\ Len(msgs) <= MaxMsgs
        /\ Len(msgs) > 0 => declared <= BlockGasLimit
        /\ transientGasWanted = Reserved(before, Len(msgs), declared)
        /\ stage = "run" => Len(msgs) > 0 /\ txGasLimit = declared
        /\ gasUsed + GasLeft(msgs, next) <= txGasLimit

\* The gas limits from message k on, after that message and with one more.
LEMMA GasLeftOf ==
    ASSUME NEW s \in Seq(Messages), NEW k \in 1..(Len(s) + 1)
    PROVE  /\ GasLeft(s, k) \in Nat
           /\ k = Len(s) + 1 => GasLeft(s, k) = 0
           /\ k <= Len(s) => GasLeft(s, k) = s[k].gas + GasLeft(s, k + 1)
           /\ \A m \in Messages : GasLeft(Append(s, m), k) = GasLeft(s, k) + m.gas
<1>1. PICK F : F = Limits
  OBVIOUS
<1>2. F \in [Messages -> Nat] /\ \A m \in Messages : F[m] = m.gas
  BY <1>1, MessageFields DEF Limits
<1>3. k <= Len(s) => s[k] \in Messages
  OBVIOUS
<1>4. /\ Along(F, s, k) \in Nat
      /\ k = Len(s) + 1 => Along(F, s, k) = 0
      /\ k <= Len(s) => Along(F, s, k) = F[s[k]] + Along(F, s, k + 1)
      /\ \A m \in Messages : Along(F, Append(s, m), k) = Along(F, s, k) + F[m]
  BY <1>2, AlongOf
<1>. QED BY <1>1, <1>2, <1>3, <1>4 DEF GasLeft

\* It is of the messages of the next state in the next state.
LEMMA GasLeftNext == GasLeft(msgs, next)' = GasLeft(msgs', next')
  BY DEF GasLeft, Limits, Along

\* Nothing is reserved for no message; each message reserves the gas of the whole
\* transaction.
LEMMA ReservedOf ==
    ASSUME NEW b \in 0..MaxUint64, NEW n \in Nat, NEW gas \in Nat
    PROVE  /\ Reserved(b, 0, gas) = b
           /\ Reserved(b, n + 1, gas)
                = IF IsBaseFeeEnabled(params, height)
                  THEN (Reserved(b, n, gas) + gas) % (MaxUint64 + 1) ELSE Reserved(b, n, gas)
<1>1. PICK M \in Nat \ {0} : M = MaxUint64 + 1
  BY FeeMarketAssumption
<1>2. b \in 0..(M - 1) /\ b \in Nat
  BY <1>1, FeeMarketAssumption
<1>3. b % M = b
  BY <1>2
<1>4. PICK x \in Nat : x = b + n * gas
  <2>1. n * gas \in Nat
    OBVIOUS
  <2>. QED BY <1>2, <2>1
<1>5. b + 0 * gas = b /\ b + (n + 1) * gas = x + gas
  <2>1. (n + 1) * gas = n * gas + gas /\ n * gas \in Nat /\ 0 * gas = 0
    OBVIOUS
  <2>. QED BY <1>2, <1>4, <2>1
<1>6. ((x % M) + gas) % M = (x + gas) % M
  BY ModAdd, Zenon
<1>. QED BY <1>1, <1>3, <1>4, <1>5, <1>6 DEF Reserved



\* Within a transaction the block stays as it is.
LEMMA BlockStays ==
    ASSUME UNCHANGED <<height, phase, params, blockGas, txs>>
    PROVE  /\ MayDeliver' = MayDeliver
           /\ Reserved(before, Len(msgs), declared)' = Reserved(before', Len(msgs'), declared')
<1>1. MayDeliver' = MayDeliver
  BY DEF MayDeliver, BlockMeterOpen, GetBaseFee
<1>2. Reserved(before, Len(msgs), declared)' = Reserved(before', Len(msgs'), declared')
  BY DEF Reserved, IsBaseFeeEnabled
<1>. QED BY <1>1, <1>2

\* A transaction begins.
LEMMA StartGas == ASSUME FundsInv, NEW gas \in GasLimits, StartTx(gas) PROVE GasInv'
<1>1. /\ stage' = "ante" /\ declared' = gas /\ msgs' = <<>> /\ txGasLimit' = 0 /\ MayDeliver
      /\ next' = 1 /\ gasUsed' = 0 /\ before' = transientGasWanted /\ UNCHANGED feeVars
  BY DEF StartTx
<1>2. UNCHANGED <<height, phase, params, blockGas, txs>> /\ transientGasWanted' = transientGasWanted
  BY <1>1 DEF feeVars
<1>3. transientGasWanted \in 0..MaxUint64 /\ gas \in Nat
  BY FeeMarketAssumption DEF FundsInv, EthTypeOK, TypeOK
<1>4. msgs' \in Seq(Messages) /\ Len(msgs') = 0
  BY <1>1
<1>5. PICK k : k \in 1..(Len(msgs') + 1) /\ k = Len(msgs') + 1 /\ k = 1
  BY <1>4
<1>6. GasLeft(msgs', k) = 0
  BY <1>4, <1>5, GasLeftOf, Zenon
<1>7. GasLeft(msgs, next)' = 0
  BY <1>1, <1>5, <1>6, GasLeftNext
<1>8. Reserved(before, Len(msgs), declared)' = transientGasWanted
  BY <1>1, <1>2, <1>3, <1>4, BlockStays, ReservedOf
<1>9. Len(msgs') <= MaxMsgs /\ ~(Len(msgs') > 0) /\ gasUsed' + 0 <= txGasLimit'
  BY <1>1, <1>4, FeeMarketAssumption
<1>10. MayDeliver'
  BY <1>1, <1>2, BlockStays
<1>. QED BY <1>1, <1>2, <1>7, <1>8, <1>9, <1>10 DEF GasInv

\* The ante handler reserves the gas declared once for each message.
LEMMA AnteGas ==
    ASSUME FundsInv, GasInv, NEW m \in Messages, AnteMsg(m)
    PROVE  GasInv'
<1>1. /\ stage = "ante" /\ stage' = "ante" /\ Len(msgs) < MaxMsgs /\ msgs' = Append(msgs, m)
      /\ txGasLimit' = txGasLimit + m.gas /\ declared <= BlockGasLimit
      /\ transientGasWanted' = (IF IsBaseFeeEnabled(params, height)
                                THEN (transientGasWanted + declared) % (MaxUint64 + 1)
                                ELSE transientGasWanted)
      /\ UNCHANGED <<height, phase, params, blockGas, txs>>
      /\ UNCHANGED <<declared, next, gasUsed, before>>
  BY DEF AnteMsg, AnteChecks, AddTransientGasWanted
<1>2. /\ msgs \in Seq(Messages) /\ next = 1 /\ gasUsed = 0 /\ before \in 0..MaxUint64
      /\ declared \in Nat /\ txGasLimit \in Nat
  BY <1>1 DEF FundsInv, EthTypeOK
<1>3. /\ MayDeliver /\ declared \in GasLimits
      /\ transientGasWanted = Reserved(before, Len(msgs), declared)
      /\ gasUsed + GasLeft(msgs, next) <= txGasLimit
  BY <1>1 DEF GasInv
<1>4. PICK n \in Nat : n = Len(msgs) /\ Len(msgs') = n + 1
  BY <1>1, <1>2
<1>5. transientGasWanted' = Reserved(before, n + 1, declared)
  <2>1. Reserved(before, n + 1, declared)
          = IF IsBaseFeeEnabled(params, height)
            THEN (Reserved(before, n, declared) + declared) % (MaxUint64 + 1)
            ELSE Reserved(before, n, declared)
    BY <1>2, ReservedOf
  <2>2. transientGasWanted = Reserved(before, n, declared)
    BY <1>3, <1>4
  <2>. QED BY <1>1, <2>1, <2>2, Zenon
<1>6. transientGasWanted' = Reserved(before, Len(msgs), declared)'
  BY <1>1, <1>4, <1>5, BlockStays
<1>7. PICK k : k \in 1..(Len(msgs) + 1) /\ k = 1
  BY <1>2
<1>8. /\ GasLeft(msgs, k) \in Nat /\ GasLeft(msgs', k) = GasLeft(msgs, k) + m.gas
  BY <1>1, <1>2, <1>7, GasLeftOf
<1>9. m.gas \in Nat
  BY MessageFields
<1>10. gasUsed' + GasLeft(msgs', k) <= txGasLimit'
  BY <1>1, <1>2, <1>3, <1>7, <1>8, <1>9
<1>11. GasLeft(msgs, next)' = GasLeft(msgs', k)
  BY <1>1, <1>2, <1>7, GasLeftNext
<1>12. Len(msgs') <= MaxMsgs
  BY <1>1, <1>4, FeeMarketAssumption
<1>13. MayDeliver' /\ declared' \in GasLimits /\ declared' <= BlockGasLimit'
  BY <1>1, <1>3, BlockStays DEF BlockGasLimit
<1>. QED BY <1>1, <1>6, <1>10, <1>11, <1>12, <1>13 DEF GasInv

\* The messages begin to run.
LEMMA EndAnteGas == ASSUME FundsInv, GasInv, EndAnte PROVE GasInv'
<1>1. /\ stage = "ante" /\ stage' = "run" /\ msgs # <<>> /\ txGasLimit = declared
      /\ UNCHANGED <<feeVars, declared, msgs, txGasLimit, next, gasUsed, before>>
  BY DEF EndAnte
<1>2. UNCHANGED <<height, phase, params, blockGas, txs>> /\ transientGasWanted' = transientGasWanted
  BY <1>1 DEF feeVars
<1>3. Len(msgs) > 0
  BY <1>1 DEF FundsInv, EthTypeOK
<1>4. /\ MayDeliver' = MayDeliver /\ BlockGasLimit' = BlockGasLimit
      /\ Reserved(before, Len(msgs), declared)' = Reserved(before, Len(msgs), declared)
      /\ GasLeft(msgs, next)' = GasLeft(msgs, next)
  BY <1>1, <1>2, BlockStays, GasLeftNext DEF BlockGasLimit
<1>. QED BY <1>1, <1>2, <1>3, <1>4 DEF GasInv

\* A message uses its gas limit at most.
LEMMA OutcomeGas ==
    ASSUME FundsInv, GasInv, NEW m \in Messages, Outcome(m)
    PROVE  GasInv'
<1>1. /\ TypeOK /\ world \in World /\ Funded(world) /\ msgs \in Seq(Messages)
      /\ next \in 1..(Len(msgs) + 1) /\ gasUsed \in Nat /\ txGasLimit \in Nat
  BY DEF FundsInv, EthTypeOK
<1>2. PICK v \in Nat, used \in Nat : MessageApplied(m, v, used)
  BY <1>1, OutcomeEffect
<1>3. /\ stage = "run" /\ next <= Len(msgs) /\ m = msgs[next] /\ stage' = "run"
      /\ used <= m.gas /\ gasUsed' = gasUsed + used /\ next' = next + 1
      /\ UNCHANGED <<feeVars, declared, msgs, txGasLimit, before>>
  BY <1>2 DEF MessageApplied, Running
<1>4. UNCHANGED <<height, phase, params, blockGas, txs>> /\ transientGasWanted' = transientGasWanted
  BY <1>3 DEF feeVars
<1>5. next + 1 \in 1..(Len(msgs) + 1)
  BY <1>1, <1>3
<1>6. PICK g \in Nat, h \in Nat, l \in Nat :
        g = GasLeft(msgs, next) /\ h = GasLeft(msgs, next + 1) /\ l = m.gas /\ g = l + h
  <2>1. GasLeft(msgs, next) \in Nat /\ GasLeft(msgs, next) = m.gas + GasLeft(msgs, next + 1)
    BY <1>1, <1>3, GasLeftOf
  <2>2. GasLeft(msgs, next + 1) \in Nat
    BY <1>1, <1>5, GasLeftOf
  <2>3. m.gas \in Nat
    BY MessageFields
  <2>. QED BY <2>1, <2>2, <2>3
<1>7. gasUsed + g <= txGasLimit
  BY <1>3, <1>6 DEF GasInv
<1>8. gasUsed' + h <= txGasLimit'
  <2>1. used <= l /\ g = l + h /\ gasUsed' = gasUsed + used /\ txGasLimit' = txGasLimit
    BY <1>3, <1>6
  <2>. QED BY <1>1, <1>7, <2>1
<1>9. /\ MayDeliver' = MayDeliver /\ BlockGasLimit' = BlockGasLimit
      /\ Reserved(before, Len(msgs), declared)' = Reserved(before, Len(msgs), declared)
      /\ GasLeft(msgs, next)' = h
  BY <1>3, <1>4, <1>6, BlockStays, GasLeftNext, Zenon DEF BlockGasLimit
<1>. QED BY <1>3, <1>4, <1>8, <1>9 DEF GasInv

\* Every step keeps the invariant.
LEMMA NextGas == ASSUME FundsInv, GasInv, [CosmosNext]_allVars PROVE GasInv'
<1>1. CASE Ante
  <2>1. Refuse => stage' = "idle"
    BY DEF Refuse
  <2>. QED BY <1>1, <2>1, StartGas, AnteGas, EndAnteGas, Zenon DEF Ante, GasInv
<1>2. CASE Apply
  <2>1. EndTx \/ (\E m \in Messages : FailTx(m)) => stage' = "idle"
    BY DEF EndTx, FailTx
  <2>. QED BY <1>2, <2>1, OutcomeGas DEF Apply, GasInv
<1>3. CASE NewBlock \/ CloseBlock \/ CosmosTx
  <2>1. stage' = "idle"
    BY <1>3 DEF NewBlock, CloseBlock, txVars, cosmosVars, CosmosTx, CosmosTxSucceeds,
                CosmosTxFails, RefuseCosmosTx, AnteHandle
  <2>. QED BY <2>1 DEF GasInv
<1>4. CASE UNCHANGED allVars
  <2>1. UNCHANGED <<feeVars, stage, declared, msgs, txGasLimit, next, gasUsed, before>>
    BY <1>4 DEF allVars, vars, txVars
  <2>2. UNCHANGED <<height, phase, params, blockGas, txs>> /\ transientGasWanted' = transientGasWanted
    BY <2>1 DEF feeVars
  <2>3. /\ MayDeliver' = MayDeliver /\ BlockGasLimit' = BlockGasLimit
        /\ Reserved(before, Len(msgs), declared)' = Reserved(before, Len(msgs), declared)
        /\ GasLeft(msgs, next)' = GasLeft(msgs, next)
    BY <2>1, <2>2, BlockStays, GasLeftNext DEF BlockGasLimit
  <2>. QED BY <2>1, <2>2, <2>3 DEF GasInv
<1>. QED BY <1>1, <1>2, <1>3, <1>4 DEF CosmosNext, EthNext

\* The gas invariant holds throughout.
LEMMA GasInvariance == CosmosSpec => []GasInv
<1>1. CosmosInit => GasInv
  BY DEF CosmosInit, EthInit, GasInv
<1>. QED BY <1>1, NextGas, FundsInvariance, PTL DEF CosmosSpec



-----------------------------------------------------------------------------
(* Transactions implement the fee market's *)

\* The gas wanted that the fee market sees: of the transactions that are over.
Seen == IF stage = "idle" THEN transientGasWanted ELSE before

\* A transaction is delivered.
LEMMA Delivered ==
    ASSUME NEW n \in 1..MaxMsgs, NEW gas \in GasLimits, NEW used \in 0..gas,
           MayDeliver, gas <= BlockGasLimit,
           Seen' = IF IsBaseFeeEnabled(params, height)
                   THEN (Seen + n * gas) % (MaxUint64 + 1) ELSE Seen,
           blockGas' = blockGas + used, txs' = txs + 1, wanted' = wanted + n * gas,
           UNCHANGED <<height, phase, params, blockGasWanted, halted, parent>>
    PROVE  FM!Next
<1>1. FM!MayDeliver
  BY DEF MayDeliver, BlockMeterOpen, GetBaseFee, FM!MayDeliver, FM!BlockMeterOpen, FM!GetBaseFee
<1>2. gas <= FM!BlockGasLimit
  BY DEF BlockGasLimit, FM!BlockGasLimit
<1>3. Seen' = IF FM!IsBaseFeeEnabled(params, height)
              THEN FM!AddTransientGasWanted(n * gas) ELSE Seen
  BY DEF IsBaseFeeEnabled, FM!IsBaseFeeEnabled, FM!AddTransientGasWanted, Seen
<1>4. FM!DeliverTx(n, gas, used)
  BY <1>1, <1>2, <1>3 DEF FM!DeliverTx, Seen
<1>. QED BY <1>4 DEF FM!Next, FM!Deliver

\* A transaction is refused.
LEMMA Refused ==
    ASSUME NEW gas \in GasLimits, NEW used \in 0..gas, MayDeliver, Seen' = Seen,
           blockGas' = blockGas + used, txs' = txs + 1,
           UNCHANGED <<height, phase, params, blockGasWanted, halted, wanted, parent>>
    PROVE  FM!Next
<1>1. FM!MayDeliver
  BY DEF MayDeliver, BlockMeterOpen, GetBaseFee, FM!MayDeliver, FM!BlockMeterOpen, FM!GetBaseFee
<1>2. FM!RefuseTx(used)
  BY <1>1 DEF FM!RefuseTx, Seen
<1>. QED BY <1>2 DEF FM!Next, FM!Deliver

\* A step within a transaction is none of the fee market's.
LEMMA Unseen ==
    ASSUME UNCHANGED <<height, phase, params, blockGasWanted, blockGas, halted, txs, wanted, parent>>,
           Seen' = Seen
    PROVE  UNCHANGED FM!feeVars
  BY DEF FM!feeVars, Seen

\* Between transactions the fee market sees its own state.
LEMMA BeginBlockSeen ==
    ASSUME BeginBlock, stage = "idle", stage' = "idle"
    PROVE  FM!Next
<1>1. FM!NextHeight = NextHeight
  BY DEF NextHeight, FM!NextHeight, Smaller, FM!Smaller
<1>2. FM!Recomputes(NextHeight) = Recomputes(NextHeight)
  BY DEF Recomputes, FM!Recomputes, IsBaseFeeEnabled, FM!IsBaseFeeEnabled
<1>3. FM!ParentGasTarget(params) = ParentGasTarget(params)
  BY DEF ParentGasTarget, FM!ParentGasTarget, TargetLimit, FM!TargetLimit
<1>4. FM!DividesByZero = DividesByZero
  BY <1>3 DEF DividesByZero, FM!DividesByZero
<1>5. FM!NextBaseFee(params, blockGasWanted) = NextBaseFee(params, blockGasWanted)
  <2>1. \A d : FM!BaseFeeDelta(params, d) = BaseFeeDelta(params, d)
    BY <1>3, Zenon DEF BaseFeeDelta, FM!BaseFeeDelta
  <2>2. \A a, b : FM!Bigger(a, b) = Bigger(a, b)
    BY Zenon DEF Bigger, FM!Bigger
  <2>3. FM!MinBaseFee(params) = MinBaseFee(params)
    BY Zenon DEF MinBaseFee, FM!MinBaseFee, TruncateInt, FM!TruncateInt
  <2>. QED BY <1>3, <2>1, <2>2, <2>3, Zenon DEF NextBaseFee, FM!NextBaseFee
<1>6. FM!BeginBlock
  <2>1. FM!FreshBlock
    BY DEF BeginBlock, FreshBlock, FM!FreshBlock
  <2>. QED BY <1>1, <1>2, <1>4, <1>5, <2>1, Zenon DEF BeginBlock, FM!BeginBlock
<1>. QED BY <1>6 DEF FM!Next

\* The end of a block and a change of parameters are steps of the fee market.
LEMMA CloseBlockSeen ==
    ASSUME EndBlock \/ \E p \in ParamSet : UpdateParams(p), stage = "idle", stage' = "idle"
    PROVE  FM!Next
<1>1. ASSUME NEW p \in ParamSet, UpdateParams(p) PROVE FM!UpdateParams(p)
  BY <1>1 DEF UpdateParams, FM!UpdateParams
<1>2. CASE EndBlock
  <2>1. FM!GasConsumedToLimit = GasConsumedToLimit
    BY Zenon DEF GasConsumedToLimit, FM!GasConsumedToLimit, Smaller, FM!Smaller
  <2>2. \A x, y : FM!DecMul(x, y) = DecMul(x, y)
    BY Zenon DEF DecMul, FM!DecMul, RoundHalfEven, FM!RoundHalfEven
  <2>3. \A x, y : FM!Bigger(x, y) = Bigger(x, y)
    BY Zenon DEF Bigger, FM!Bigger
  <2>4. \A x : FM!TruncateInt(x) = TruncateInt(x) /\ FM!NewDec(x) = NewDec(x)
    BY Zenon DEF TruncateInt, FM!TruncateInt, NewDec, FM!NewDec
  <2>5. \A g : FM!LimitedGasWanted(g) = LimitedGasWanted(g)
    BY <2>2, <2>3, <2>4 DEF LimitedGasWanted, FM!LimitedGasWanted
  <2>6. FM!EndBlock
    BY <1>2, <2>1, <2>5 DEF EndBlock, FM!EndBlock
  <2>. QED BY <2>6 DEF FM!Next
<1>. QED BY <1>1, <1>2 DEF FM!Next

\* A transaction that was applied is delivered with the gas it declared, once for
\* each of its messages, and with the gas it used, which is no more.
LEMMA AppliedSeen ==
    ASSUME FundsInv, GasInv, EndTx \/ \E m \in Messages : FailTx(m)
    PROVE  FM!Next
<1>1. /\ stage = "run" /\ stage' = "idle"
      /\ txs' = txs + 1 /\ wanted' = wanted + Len(msgs) * declared
      /\ UNCHANGED <<height, phase, params, blockGasWanted, transientGasWanted, halted, parent>>
      /\ \/ next > Len(msgs) /\ blockGas' = blockGas + gasUsed
         \/ blockGas' = blockGas + txGasLimit
  BY DEF EndTx, FailTx, Running
<1>2. /\ MayDeliver /\ declared \in GasLimits /\ Len(msgs) <= MaxMsgs /\ Len(msgs) > 0
      /\ declared <= BlockGasLimit /\ txGasLimit = declared
      /\ transientGasWanted = Reserved(before, Len(msgs), declared)
      /\ gasUsed + GasLeft(msgs, next) <= txGasLimit
  BY <1>1 DEF GasInv
<1>3. /\ msgs \in Seq(Messages) /\ next \in 1..(Len(msgs) + 1) /\ declared \in Nat
      /\ gasUsed \in Nat
  BY DEF FundsInv, EthTypeOK
<1>4. PICK n \in 1..MaxMsgs : n = Len(msgs)
  BY <1>2, <1>3, FeeMarketAssumption
<1>5. next > Len(msgs) => gasUsed <= declared
  BY <1>2, <1>3, GasLeftOf
<1>6. PICK used \in 0..declared : blockGas' = blockGas + used
  BY <1>1, <1>2, <1>3, <1>5
<1>7. Seen = before /\ Seen' = transientGasWanted
  BY <1>1 DEF Seen
<1>8. Seen' = IF IsBaseFeeEnabled(params, height)
              THEN (Seen + n * declared) % (MaxUint64 + 1) ELSE Seen
  BY <1>2, <1>4, <1>7 DEF Reserved
<1>. QED BY <1>1, <1>2, <1>4, <1>6, <1>8, Delivered

\* A refused transaction leaves no gas behind.
LEMMA RefusedSeen == ASSUME FundsInv, GasInv, Refuse PROVE FM!Next
<1>1. /\ stage = "ante" /\ stage' = "idle" /\ transientGasWanted' = before /\ txs' = txs + 1
      /\ UNCHANGED <<height, phase, params, blockGasWanted, blockGas, halted, wanted, parent>>
  BY DEF Refuse
<1>2. MayDeliver /\ declared \in GasLimits
  BY <1>1 DEF GasInv
<1>3. 0 \in 0..declared /\ blockGas' = blockGas + 0
  BY <1>1 DEF FundsInv, EthTypeOK, TypeOK
<1>4. Seen' = Seen
  BY <1>1 DEF Seen
<1>. QED BY <1>1, <1>2, <1>3, <1>4, Refused

\* A Cosmos transaction is one of a single message.
LEMMA CosmosSeen == ASSUME FundsInv, CosmosTx PROVE FM!Next
<1>0. PICK tx \in CosmosTxs : \E used \in 0..tx.gas :
        CosmosTxSucceeds(tx, used) \/ CosmosTxFails(tx, used) \/ RefuseCosmosTx(used)
  BY DEF CosmosTx
<1>1. PICK used \in 0..tx.gas :
        CosmosTxSucceeds(tx, used) \/ CosmosTxFails(tx, used) \/ RefuseCosmosTx(used)
  BY <1>0
<1>2. PICK gas \in GasLimits : gas = tx.gas
  BY CosmosTxAssumption
<1>3. stage = "idle" /\ stage' = "idle" /\ (DeliverTx(1, gas, used) \/ RefuseTx(used))
  BY <1>1, <1>2 DEF CosmosTxSucceeds, CosmosTxFails, RefuseCosmosTx, AnteHandle, txVars
<1>4. Seen = transientGasWanted /\ Seen' = transientGasWanted'
  BY <1>3 DEF Seen
<1>5. PICK n \in 1..MaxMsgs : n = 1
  BY FeeMarketAssumption
<1>6. CASE DeliverTx(1, gas, used)
  <2>1. DeliverTx(n, gas, used)
    BY <1>5, <1>6
  <2>2. /\ MayDeliver /\ gas <= BlockGasLimit
        /\ blockGas' = blockGas + used /\ txs' = txs + 1 /\ wanted' = wanted + n * gas
        /\ UNCHANGED <<height, phase, params, blockGasWanted, halted, parent>>
        /\ Seen' = IF IsBaseFeeEnabled(params, height)
                   THEN (Seen + n * gas) % (MaxUint64 + 1) ELSE Seen
    BY <1>4, <2>1 DEF DeliverTx, AddTransientGasWanted
  <2>. QED BY <1>2, <2>2, Delivered
<1>7. CASE RefuseTx(used)
  <2>1. /\ MayDeliver /\ Seen' = Seen /\ blockGas' = blockGas + used /\ txs' = txs + 1
        /\ UNCHANGED <<height, phase, params, blockGasWanted, halted, wanted, parent>>
    BY <1>4, <1>7 DEF RefuseTx
  <2>. QED BY <1>2, <2>1, Refused
<1>. QED BY <1>3, <1>6, <1>7

\* Every step is a step of the fee market or none.
LEMMA StepsSeen ==
    ASSUME FundsInv, GasInv, [CosmosNext]_allVars
    PROVE  [FM!Next]_(FM!feeVars)
<1>1. CASE NewBlock
  BY <1>1, BeginBlockSeen DEF NewBlock
<1>2. CASE CloseBlock
  <2>1. stage = "idle" /\ stage' = "idle" /\ (EndBlock \/ \E p \in ParamSet : UpdateParams(p))
    BY <1>2 DEF CloseBlock, txVars
  <2>. QED BY <2>1, CloseBlockSeen
<1>3. CASE Refuse \/ EndTx \/ \E m \in Messages : FailTx(m)
  BY <1>3, AppliedSeen, RefusedSeen
<1>4. CASE CosmosTx
  BY <1>4, CosmosSeen
<1>5. ASSUME NEW gas \in GasLimits, StartTx(gas) PROVE UNCHANGED FM!feeVars
  BY <1>5, Unseen DEF StartTx, Seen, feeVars
<1>6. ASSUME NEW m \in Messages, AnteMsg(m) PROVE UNCHANGED FM!feeVars
  BY <1>6, Unseen DEF AnteMsg, Seen
<1>7. CASE EndAnte
  BY <1>7, Unseen DEF EndAnte, Seen, feeVars
<1>8. ASSUME NEW m \in Messages, Outcome(m) PROVE UNCHANGED FM!feeVars
  <2>1. /\ UNCHANGED <<feeVars, stage, before>> /\ stage = "run"
    BY <1>8, Zenon DEF Outcome, MsgReverts, MsgSucceeds, HookReverts, Settle, Running
  <2>. QED BY <2>1, Unseen DEF Seen, feeVars
<1>9. CASE UNCHANGED allVars
  <2>1. UNCHANGED <<feeVars, stage, before>>
    BY <1>9 DEF allVars, vars, txVars
  <2>. QED BY <2>1, Unseen DEF Seen, feeVars
<1>. QED BY <1>1, <1>2, <1>3, <1>4, <1>5, <1>6, <1>7, <1>8, <1>9
         DEF CosmosNext, EthNext, Ante, Apply

\* Transactions of several messages, with their ante handlers, failures and
\* refunds, and Cosmos transactions are the transactions of the fee market: each
\* reserves the gas it declared once for each message, and uses no more.
THEOREM TransactionsImplementFeeMarket == CosmosSpec => ImplementsFeeMarket
<1>1. CosmosInit => FM!Init
  BY DEF CosmosInit, EthInit, Init, FM!Init
<1>. QED BY <1>1, StepsSeen, GasInvariance, FundsInvariance, PTL DEF CosmosSpec, ImplementsFeeMarket
=============================================================================
