---------------------------- MODULE FeeMarketProofs ----------------------------
(* The fee market for every block gas limit, integer width, set of parameter *)
(* values and decimal scale; sums; and what a message costs its sender and   *)
(* the fee collector.                                                        *)
EXTENDS CosmosTx, FiniteSetTheorems, TLAPS

-----------------------------------------------------------------------------
(* Numbers *)

\* A product of natural numbers is one, and grows with its factors.
LEMMA Products ==
    ASSUME NEW a \in Nat, NEW b \in Nat, NEW c \in Nat, a <= b
    PROVE  a * c \in Nat /\ b * c \in Nat /\ a * c <= b * c /\ (b - a) * c + a * c = b * c
  OBVIOUS

\* A multiple by a positive factor is no smaller than M.
LEMMA Below == ASSUME NEW M \in Nat \ {0}, NEW q \in Int, q >= 1 PROVE M * q >= M
  OBVIOUS

\* A multiple by a negative factor is no larger than -M.
LEMMA Above == ASSUME NEW M \in Nat \ {0}, NEW q \in Int, q <= -1 PROVE M * q <= -M
  OBVIOUS

\* Quotient and remainder, and what they make together.
LEMMA DivMod == ASSUME NEW M \in Nat \ {0}, NEW x \in Nat
  PROVE x % M \in 0..(M - 1) /\ x \div M \in Nat /\ x = M * (x \div M) + (x % M)
  OBVIOUS

\* The remainder is determined.
LEMMA ModUnique ==
  ASSUME NEW M \in Nat \ {0}, NEW q \in Int, NEW p \in Int, NEW r \in 0..(M-1), NEW s \in 0..(M-1),
         M * q + r = M * p + s
  PROVE r = s
<1>1. M * (q - p) = s - r
  OBVIOUS
<1>2. PICK d \in Int : d = q - p
  OBVIOUS
<1>3. ~ (d >= 1)
  BY <1>1, <1>2, Below
<1>4. ~ (d <= -1)
  BY <1>1, <1>2, Above
<1>5. d = 0
  BY <1>3, <1>4
<1>. QED BY <1>1, <1>2, <1>5

\* Wrapping a sum after each addition or once at the end is the same.
LEMMA ModAdd ==
  ASSUME NEW M \in Nat \ {0}, NEW x \in Nat, NEW d \in Nat
  PROVE ((x % M) + d) % M = (x + d) % M
<1>1. PICK q \in Nat, r \in 0..(M-1) : r = x % M /\ x = M * q + r
  BY DivMod, Zenon
<1>2. PICK y \in Nat : y = r + d
  OBVIOUS
<1>3. PICK p \in Nat, s \in 0..(M-1) : s = y % M /\ y = M * p + s
  BY DivMod, Zenon
<1>4. PICK z \in Nat : z = x + d
  OBVIOUS
<1>5. PICK o \in Nat, t \in 0..(M-1) : t = z % M /\ z = M * o + t
  BY DivMod, Zenon
<1>6. z = M * q + y
  BY <1>1, <1>2, <1>4
<1>7. z = M * q + (M * p + s)
  BY <1>3, <1>6
<1>8. M * (q + p) + s = M * o + t
  <2>1. M * (q + p) = M * q + M * p
    OBVIOUS
  <2>2. PICK a \in Nat, b \in Nat, c \in Nat : a = M * q /\ b = M * p /\ c = M * o
    OBVIOUS
  <2>3. z = a + (b + s) /\ z = c + t
    BY <1>5, <1>7, <2>2, Zenon
  <2>4. (a + b) + s = c + t
    BY <2>3
  <2>. QED BY <2>1, <2>2, <2>4
<1>9. s = t
  BY <1>8, ModUnique
<1>. QED BY <1>1, <1>2, <1>3, <1>4, <1>5, <1>9, Zenon

\* A set of natural numbers has its minimum in it.
LEMMA MinIn ==
    ASSUME NEW S \in SUBSET Nat, S # {}
    PROVE  Min(S) \in S
<1>. DEFINE less == {p \in Nat \X Nat : p[1] < p[2]}
<1>1. IsWellFoundedOn(less, Nat)
  BY NatLessThanWellFounded, Zenon DEF OpToRel
<1>2. \E n \in S : \A i \in S : ~ (<<i, n>> \in less)
  <2>. HIDE DEF less
  <2>. QED BY <1>1, WFMin, Zenon
<1>3. PICK n \in S : \A i \in S : ~ (<<i, n>> \in less)
  BY <1>2
<1>4. ASSUME NEW i \in S PROVE n <= i
  <2>1. i \in Nat /\ n \in Nat
    OBVIOUS
  <2>2. <<i, n>> \notin less
    BY <1>3
  <2>3. ~ (i < n)
    BY <2>1, <2>2
  <2>. QED BY <2>1, <2>3
<1>. QED BY <1>4, Zenon DEF Min

\* Integer division of a natural number is a natural number below it.
LEMMA DivNat ==
    ASSUME NEW a \in Nat, NEW b \in Nat \ {0}
    PROVE  a \div b \in Nat /\ a \div b <= a
  OBVIOUS

\* A divisor not above the dividend leaves a positive quotient.
LEMMA DivPositive ==
    ASSUME NEW a \in Nat, NEW b \in Nat \ {0}, b <= a
    PROVE  a \div b > 0
  OBVIOUS

\* The scaled reservation or the gas used, whichever is larger, lies between the
\* gas used and the larger of the two amounts: scaling is exact and truncation
\* loses nothing.
LEMMA LimitedWanted ==
    ASSUME NEW w \in Nat, NEW g \in Nat, NEW m \in 0..One
    PROVE  TruncateInt(Bigger(DecMul(NewDec(w), m), NewDec(g))) \in g..Bigger(w, g)
<1>1. One \in Nat /\ One > 1
  BY OneAssumption
<1>2. DecMul(NewDec(w), m) = w * m
  <2>. DEFINE n == w * m
  <2>1. n \in Nat /\ w * One * m = n * One
    BY <1>1
  <2>. HIDE DEF n
  <2>2. (n * One) \div One = n /\ (n * One) % One = 0
    BY <1>1, <2>1
  <2>. QED BY <1>1, <2>1, <2>2 DEF DecMul, NewDec, RoundHalfEven, n
<1>3. PICK k \in Nat : k = Bigger(w, g) /\ w <= k /\ g <= k
  BY DEF Bigger
<1>4. w * m \in Nat /\ w * m <= k * One /\ g * One \in Nat /\ g * One <= k * One
  <2>1. w * m <= w * One /\ w * m \in Nat
    BY <1>1
  <2>2. w * One <= k * One /\ g * One <= k * One /\ g * One \in Nat
    BY <1>1, <1>3
  <2>. QED BY <1>1, <1>3, <2>1, <2>2
<1>5. PICK x \in Nat : x = Bigger(w * m, g * One) /\ x <= k * One /\ g * One <= x
  BY <1>4 DEF Bigger
<1>6. x \div One \in Nat /\ x \div One <= k /\ g <= x \div One
  BY <1>1, <1>3, <1>5
<1>. QED BY <1>2, <1>3, <1>5, <1>6 DEF TruncateInt, NewDec

-----------------------------------------------------------------------------
(* Messages and what they cost *)

\* The fields of a message.
LEMMA MessageFields ==
    ASSUME NEW m \in Messages
    PROVE  /\ m.from \in Accounts /\ m.to \in Accounts \cup {Create} /\ m.nonce \in Nat
           /\ m.value \in Nat /\ m.gas \in Nat /\ m.tipCap \in Nat /\ m.feeCap \in Nat
<1>1. PICK p \in Payloads, n \in 0..MaxNonce :
        m = [nonce |-> n, from |-> p.from, to |-> p.to, value |-> p.value, gas |-> p.gas,
             feeCap |-> p.feeCap, tipCap |-> p.tipCap, data |-> p.data]
  BY DEF Messages
<1>. QED BY <1>1, EthTxAssumption

\* The price of gas is at most the fee cap.
LEMMA Prices ==
    ASSUME TypeOK, NEW m \in Messages
    PROVE  /\ EffectiveGasPrice(m) \in Nat /\ EffectiveGasPrice(m) <= m.feeCap
           /\ EffectiveFee(m) \in Nat /\ m.feeCap * m.gas \in Nat
           /\ EffectiveFee(m) <= m.feeCap * m.gas
<1>1. GetBaseFee \in Nat
  BY DEF TypeOK, Params, GetBaseFee
<1>2. m.tipCap \in Nat /\ m.feeCap \in Nat /\ m.gas \in Nat
  BY MessageFields
<1>3. EffectiveGasPrice(m) \in Nat /\ EffectiveGasPrice(m) <= m.feeCap
  BY <1>1, <1>2 DEF EffectiveGasPrice, Smaller
<1>. QED BY <1>2, <1>3, Products DEF EffectiveFee

\* The gas charged lies between what is consumed and the limit.
LEMMA GasCharged ==
    ASSUME TypeOK, NEW m \in Messages, NEW consumed \in Nat, consumed <= m.gas
    PROVE  GasUsed(m, consumed) \in Nat /\ GasUsed(m, consumed) <= m.gas
<1>1. m.gas \in Nat /\ params.minGasMultiplier \in 0..One
  BY MessageFields DEF TypeOK, Params
<1>2. GasUsed(m, consumed) \in consumed..Bigger(m.gas, consumed)
  BY <1>1, LimitedWanted, Zenon DEF GasUsed
<1>. QED BY <1>1, <1>2 DEF Bigger

\* Refunds of the EVM take nothing below zero.
LEMMA GasRefunded ==
    ASSUME NEW counter \in Nat, NEW consumed \in Nat
    PROVE  consumed - GasToRefund(counter, consumed) \in Nat
           /\ consumed - GasToRefund(counter, consumed) <= consumed
<1>1. consumed \div RefundQuotient \in Nat /\ consumed \div RefundQuotient <= consumed
  BY EthTxAssumption, DivNat
<1>. QED BY <1>1 DEF GasToRefund, Smaller

\* The developers' share is at most what the gas used costs.
LEMMA DeveloperShare ==
    ASSUME TypeOK, NEW m \in Messages, NEW used \in Nat
    PROVE  /\ DeveloperFee(m, used) \in Nat
           /\ DeveloperFee(m, used) <= used * EffectiveGasPrice(m)
<1>1. EffectiveGasPrice(m) \in Nat /\ DeveloperShares \in Nat /\ DeveloperShares <= One
      /\ One \in Nat \ {0}
  BY Prices, EthTxAssumption, OneAssumption
<1>2. PICK c \in Nat : c = used * EffectiveGasPrice(m)
  BY <1>1
<1>3. DeveloperShares * used * EffectiveGasPrice(m) = DeveloperShares * c
  BY <1>1, <1>2
<1>4. DeveloperShares * c \in Nat /\ DeveloperShares * c <= One * c
  BY <1>1, <1>2, Products
<1>5. PICK x \in Nat : x = DeveloperShares * c /\ x <= One * c
  BY <1>4
<1>6. x \div One \in Nat /\ x \div One <= c
  BY <1>1, <1>2, <1>5
<1>. QED BY <1>2, <1>3, <1>5, <1>6 DEF DeveloperFee, TruncateInt

-----------------------------------------------------------------------------
(* The fee market *)

\* The EIP-1559 rule yields an amount, one at or above the minimum gas price if
\* the parent's base fee was, one above the parent's if the gas is above the
\* target, and otherwise none above both the parent's and the minimum.
LEMMA NextFee ==
    ASSUME NEW p \in Params, NEW g \in Nat,
           p.elasticityMultiplier # 0, ParentGasTarget(p) = 0 => g = 0
    PROVE  /\ NextBaseFee(p, g) \in Nat
           /\ p.baseFee >= MinBaseFee(p) => NextBaseFee(p, g) >= MinBaseFee(p)
           /\ g > ParentGasTarget(p) => NextBaseFee(p, g) > p.baseFee
           /\ g <= ParentGasTarget(p) =>
                 NextBaseFee(p, g) <= Bigger(p.baseFee, MinBaseFee(p))
<1>1. /\ p.baseFee \in Nat /\ p.baseFeeChangeDenominator \in Nat \ {0}
      /\ p.elasticityMultiplier \in Nat \ {0} /\ p.minGasPrice \in Nat
  BY DEF Params
<1>2. MinBaseFee(p) \in Nat
  BY <1>1, OneAssumption, DivNat DEF MinBaseFee, TruncateInt
<1>3. ParentGasTarget(p) \in Nat
  <2>1. TargetLimit \in Nat
    BY FeeMarketAssumption DEF TargetLimit
  <2>. QED BY <1>1, <2>1, DivNat DEF ParentGasTarget
<1>4. \A d \in Nat : ParentGasTarget(p) # 0 => BaseFeeDelta(p, d) \in Nat
  <2>. TAKE d \in Nat
  <2>. HAVE ParentGasTarget(p) # 0
  <2>1. p.baseFee * d \in Nat
    BY <1>1
  <2>2. (p.baseFee * d) \div ParentGasTarget(p) \in Nat
    BY <1>3, <2>1, DivNat
  <2>. QED BY <1>1, <2>2, DivNat DEF BaseFeeDelta
<1>5. PICK t \in Nat : t = ParentGasTarget(p)
  BY <1>3
<1>6. CASE g = t
  BY <1>1, <1>2, <1>5, <1>6 DEF NextBaseFee, Bigger
<1>7. CASE g > t
  <2>1. BaseFeeDelta(p, g - t) \in Nat
    BY <1>4, <1>5, <1>7
  <2>2. NextBaseFee(p, g) = p.baseFee + Bigger(BaseFeeDelta(p, g - t), 1)
    BY <1>5, <1>7 DEF NextBaseFee
  <2>. QED BY <1>1, <1>2, <1>5, <1>7, <2>1, <2>2 DEF Bigger
<1>8. CASE g < t
  <2>1. BaseFeeDelta(p, t - g) \in Nat
    BY <1>4, <1>5, <1>8
  <2>2. NextBaseFee(p, g) = Bigger(p.baseFee - BaseFeeDelta(p, t - g), MinBaseFee(p))
    BY <1>5, <1>8 DEF NextBaseFee
  <2>. QED BY <1>1, <1>2, <1>5, <1>8, <2>1, <2>2 DEF Bigger
<1>. QED BY <1>5, <1>6, <1>7, <1>8

-----------------------------------------------------------------------------
(* Types, and what EndBlock stores.                                           *)

\* What BeginBlock reads lies between the gas used and the gas reserved, or used
\* if that is more, by the block it stems from.
DemandStored ==
    /\ transientGasWanted <= wanted
    /\ parent.used <= blockGasWanted /\ blockGasWanted <= Bigger(parent.wanted, parent.used)

\* The inductive invariant.
IInv == TypeOK /\ StoredFits /\ DemandStored

\* Genesis satisfies the invariant.
LEMMA InitIInv == Init => IInv
<1>. SUFFICES ASSUME Init PROVE IInv
  OBVIOUS
<1>1. params \in ParamSet /\ ParamSet \subseteq Params
  BY FeeMarketAssumption DEF Init
<1>2. MaxInt64 \in Nat /\ MaxUint64 \in Nat
  BY FeeMarketAssumption
<1>3. params \in Params
  BY <1>1
<1>4. /\ height \in Nat /\ phase \in {"commit", "txs", "gov"} /\ halted \in BOOLEAN
      /\ parent.used \in Nat /\ parent.wanted \in Nat
  BY Zenon DEF Init
<1>5. /\ blockGasWanted \in Nat /\ blockGasWanted <= MaxInt64 /\ blockGas \in Nat
      /\ transientGasWanted \in 0..MaxUint64 /\ txs \in Nat /\ wanted \in Nat
  BY <1>2 DEF Init
<1>6. DemandStored
  BY DEF Init, DemandStored, Bigger
<1>. QED BY <1>3, <1>4, <1>5, <1>6 DEF IInv, TypeOK, StoredFits

\* BeginBlock replaces the base fee by an amount.
LEMMA BeginBlockParams ==
    ASSUME TypeOK, BeginBlock
    PROVE  /\ params' \in Params
           /\ AtFloor => AtFloor'
           /\ params'.elasticityMultiplier = params.elasticityMultiplier
           /\ Recomputes(NextHeight) =>
                 /\ blockGasWanted > ParentGasTarget(params) => params'.baseFee > params.baseFee
                 /\ blockGasWanted <= ParentGasTarget(params) =>
                       params'.baseFee <= Bigger(params.baseFee, MinBaseFee(params))
<1>1. params \in Params /\ blockGasWanted \in Nat
  BY DEF TypeOK
<1>2. CASE ~Recomputes(NextHeight)
  BY <1>1, <1>2 DEF BeginBlock, AtFloor
<1>3. CASE Recomputes(NextHeight)
  <2>1. /\ params.elasticityMultiplier # 0
        /\ ParentGasTarget(params) = 0 => blockGasWanted = 0
    BY <1>1, <1>3 DEF BeginBlock, DividesByZero
  <2>2. PICK fee \in Nat : /\ fee = NextBaseFee(params, blockGasWanted)
                           /\ params.baseFee >= MinBaseFee(params) => fee >= MinBaseFee(params)
                           /\ blockGasWanted > ParentGasTarget(params) => fee > params.baseFee
                           /\ blockGasWanted <= ParentGasTarget(params) =>
                                 fee <= Bigger(params.baseFee, MinBaseFee(params))
    BY <1>1, <2>1, NextFee
  <2>3. params' = [params EXCEPT !.baseFee = fee]
    BY <1>3, <2>2 DEF BeginBlock
  <2>4. /\ params' \in Params /\ params'.baseFee = fee
        /\ params'.minGasPrice = params.minGasPrice
        /\ params'.elasticityMultiplier = params.elasticityMultiplier
    BY <1>1, <2>3 DEF Params
  <2>. QED BY <2>2, <2>4 DEF AtFloor, MinBaseFee
<1>. QED BY <1>2, <1>3

\* A transaction adds to the counters of the block, within the width of the
\* transient store; wrapping round only loses gas.
LEMMA DeliverCounts ==
    ASSUME TypeOK, transientGasWanted <= wanted, Deliver
    PROVE  /\ transientGasWanted' \in 0..MaxUint64 /\ transientGasWanted' <= wanted'
           /\ blockGas' \in Nat /\ txs' \in Nat /\ wanted' \in Nat
<1>0. PICK gas \in GasLimits : \E used \in 0..gas :
         (\E n \in 1..MaxMsgs : DeliverTx(n, gas, used)) \/ RefuseTx(used)
  BY DEF Deliver
<1>1. PICK used \in 0..gas :
         (\E n \in 1..MaxMsgs : DeliverTx(n, gas, used)) \/ RefuseTx(used)
  BY <1>0
<1>2. GasLimits \subseteq 0..MaxUint64 /\ MaxUint64 \in Nat /\ MaxMsgs \in Nat
  BY FeeMarketAssumption
<1>3. gas \in Nat /\ used \in Nat
  BY <1>1, <1>2
<1>4. /\ transientGasWanted \in 0..MaxUint64 /\ blockGas \in Nat /\ txs \in Nat
      /\ wanted \in Nat
  BY DEF TypeOK
<1>5. ASSUME NEW n \in 1..MaxMsgs, DeliverTx(n, gas, used)
      PROVE  /\ transientGasWanted' \in 0..MaxUint64 /\ transientGasWanted' <= wanted'
             /\ blockGas' \in Nat /\ txs' \in Nat /\ wanted' \in Nat
  <2>1. PICK add \in Nat : add = n * gas
    BY <1>2, <1>3
  <2>2. PICK sum \in Nat : sum = transientGasWanted + add /\ sum <= wanted + add
    BY <1>4, <2>1
  <2>3. sum % (MaxUint64 + 1) \in 0..MaxUint64 /\ sum % (MaxUint64 + 1) <= sum
    BY <1>2, <2>2
  <2>4. wanted' = wanted + add /\ blockGas' = blockGas + used /\ txs' = txs + 1
    BY <1>5, <2>1 DEF DeliverTx
  <2>5. transientGasWanted' \in {sum % (MaxUint64 + 1), transientGasWanted}
    BY <1>5, <2>1, <2>2 DEF DeliverTx, AddTransientGasWanted
  <2>. QED BY <1>2, <1>3, <1>4, <2>1, <2>2, <2>3, <2>4, <2>5
<1>6. CASE RefuseTx(used)
  BY <1>3, <1>4, <1>6 DEF RefuseTx
<1>. QED BY <1>1, <1>5, <1>6

\* EndBlock stores an amount that fits, or keeps the one it had.
LEMMA EndBlockStores ==
    ASSUME IInv, EndBlock
    PROVE  /\ blockGasWanted' \in Nat /\ blockGasWanted' <= MaxInt64
           /\ parent'.used \in Nat /\ parent'.wanted \in Nat
           /\ parent'.used <= blockGasWanted'
           /\ blockGasWanted' <= Bigger(parent'.wanted, parent'.used)
<1>1. /\ blockGasWanted \in Nat /\ blockGasWanted <= MaxInt64 /\ wanted \in Nat
      /\ transientGasWanted \in Nat /\ blockGas \in Nat /\ params \in Params
      /\ transientGasWanted <= wanted
  BY FeeMarketAssumption DEF IInv, TypeOK, StoredFits, DemandStored
<1>2. MaxInt64 \in Nat /\ MaxGas \in Int
  BY FeeMarketAssumption
<1>3. PICK g \in Nat : g = GasConsumedToLimit
  BY <1>1, <1>2 DEF GasConsumedToLimit, Smaller
<1>4. params.minGasMultiplier \in 0..One
  BY <1>1 DEF Params
<1>5. LimitedGasWanted(g) \in g..Bigger(transientGasWanted, g)
  BY <1>1, <1>4, LimitedWanted, Zenon DEF LimitedGasWanted
<1>6. CASE transientGasWanted <= MaxInt64 /\ g <= MaxInt64
  <2>1. blockGasWanted' = LimitedGasWanted(g) /\ parent' = [used |-> g, wanted |-> wanted]
    BY <1>3, <1>6 DEF EndBlock
  <2>2. parent'.used = g /\ parent'.wanted = wanted
    BY <2>1
  <2>. QED BY <1>1, <1>2, <1>3, <1>5, <1>6, <2>1, <2>2 DEF Bigger
<1>7. CASE ~(transientGasWanted <= MaxInt64 /\ g <= MaxInt64)
  <2>1. blockGasWanted' = blockGasWanted /\ parent' = parent
    BY <1>3, <1>7 DEF EndBlock
  <2>. QED BY <1>1, <2>1 DEF IInv, TypeOK, DemandStored
<1>. QED BY <1>6, <1>7

\* Every step keeps the invariant.
LEMMA NextIInv == IInv /\ [Next]_feeVars => IInv'
<1>. SUFFICES ASSUME IInv, [Next]_feeVars PROVE IInv'
  OBVIOUS
<1>1. TypeOK /\ StoredFits /\ DemandStored
  BY DEF IInv
<1>2. CASE BeginBlock
  <2>1. height' \in Nat
    BY <1>1, <1>2, FeeMarketAssumption DEF BeginBlock, NextHeight, Smaller, TypeOK
  <2>2. params' \in Params
    BY <1>1, <1>2, BeginBlockParams
  <2>3. MaxUint64 \in Nat
    BY FeeMarketAssumption
  <2>. QED BY <1>1, <1>2, <2>1, <2>2, <2>3
           DEF BeginBlock, FreshBlock, IInv, TypeOK, StoredFits, DemandStored
<1>3. CASE BeginBlockPanics
  BY <1>1, <1>3 DEF BeginBlockPanics, IInv, TypeOK, StoredFits, DemandStored
<1>4. CASE Deliver
  <2>1. UNCHANGED <<height, phase, params, blockGasWanted, halted, parent>>
    BY <1>4 DEF Deliver, DeliverTx, RefuseTx
  <2>. QED BY <1>1, <1>4, <2>1, DeliverCounts DEF IInv, TypeOK, StoredFits, DemandStored
<1>5. CASE \E p \in ParamSet : UpdateParams(p)
  <2>1. PICK p \in ParamSet : UpdateParams(p)
    BY <1>5
  <2>2. ParamSet \subseteq Params
    BY FeeMarketAssumption
  <2>3. p \in Params
    BY <2>1, <2>2
  <2>. QED BY <1>1, <2>1, <2>3 DEF UpdateParams, IInv, TypeOK, StoredFits, DemandStored
<1>6. CASE EndBlock
  BY <1>1, <1>6, EndBlockStores DEF EndBlock, IInv, TypeOK, StoredFits, DemandStored
<1>7. CASE UNCHANGED feeVars
  BY <1>1, <1>7 DEF feeVars, IInv, TypeOK, StoredFits, DemandStored
<1>. QED BY <1>2, <1>3, <1>4, <1>5, <1>6, <1>7 DEF Next

-----------------------------------------------------------------------------
(* Theorems.                                                                  *)

\* The invariant holds throughout.
LEMMA Invariance == Spec => []IInv
  BY InitIInv, NextIInv, PTL DEF Spec

\* The types hold, the transient gas counter's width and the validity of the
\* parameters among them, through every block and governance change.
THEOREM TypeCorrect == Spec => []TypeOK
<1>1. IInv => TypeOK
  BY DEF IInv
<1>. QED BY <1>1, Invariance, PTL

\* The gas wanted that EndBlock hands to the next BeginBlock fits an int64, for
\* every gas limit, reservation and minimum gas multiplier.
THEOREM StoredGasFits == Spec => []StoredFits
<1>1. IInv => StoredFits
  BY DEF IInv
<1>. QED BY <1>1, Invariance, PTL

\* No block takes a base fee below the minimum gas price; only a governance
\* change of both can.
THEOREM FloorIsKept == Spec => FloorKept
<1>1. IInv /\ [Next]_feeVars => [AtFloor /\ phase' # "gov" => AtFloor']_feeVars
  <2>. SUFFICES ASSUME IInv, [Next]_feeVars, AtFloor, phase' # "gov" PROVE AtFloor'
    OBVIOUS
  <2>1. CASE BeginBlock
    BY <2>1, BeginBlockParams DEF IInv
  <2>2. CASE params' = params
    BY <2>2 DEF AtFloor
  <2>3. CASE BeginBlockPanics \/ Deliver \/ EndBlock \/ UNCHANGED feeVars
    BY <2>2, <2>3
       DEF BeginBlockPanics, Deliver, DeliverTx, RefuseTx, EndBlock, feeVars
  <2>4. CASE \E p \in ParamSet : UpdateParams(p)
    BY <2>4 DEF UpdateParams
  <2>. QED BY <2>1, <2>3, <2>4 DEF Next
<1>. QED BY <1>1, Invariance, PTL DEF Spec, FloorKept

\* BeginBlock follows the demand of the last block whose amounts could be
\* stored, for every block gas limit and integer width, whether or not the
\* transient counter wrapped round: above the target the base fee rises, and it
\* does not rise when neither the gas used nor the gas reserved was above it.
THEOREM DemandIsFollowed == Spec => FollowsDemand
<1>. DEFINE Follows ==
        phase = "commit" /\ phase' = "txs" /\ Recomputes(height') =>
            LET target == ParentGasTarget(params) IN
            /\ parent.used > target => params'.baseFee > params.baseFee
            /\ parent.used <= target /\ parent.wanted <= target =>
                  params'.baseFee <= Bigger(params.baseFee, MinBaseFee(params))
<1>1. IInv /\ [Next]_feeVars => [Follows]_feeVars
  <2>. SUFFICES ASSUME IInv, [Next]_feeVars, phase = "commit", phase' = "txs",
                       Recomputes(height')
                PROVE  Follows
    OBVIOUS
  <2>1. BeginBlock
    BY DEF Next, BeginBlockPanics, Deliver, DeliverTx, RefuseTx, MayDeliver, UpdateParams,
           EndBlock, feeVars
  <2>2. height' = NextHeight
    BY <2>1 DEF BeginBlock
  <2>3. /\ blockGasWanted > ParentGasTarget(params) => params'.baseFee > params.baseFee
        /\ blockGasWanted <= ParentGasTarget(params) =>
              params'.baseFee <= Bigger(params.baseFee, MinBaseFee(params))
    BY <2>1, <2>2, BeginBlockParams DEF IInv
  <2>4. /\ blockGasWanted \in Nat /\ parent.used \in Nat /\ parent.wanted \in Nat
        /\ parent.used <= blockGasWanted /\ blockGasWanted <= Bigger(parent.wanted, parent.used)
    BY DEF IInv, TypeOK, DemandStored
  <2>5. params \in Params /\ params.elasticityMultiplier # 0
    BY <2>1, <2>2 DEF IInv, TypeOK, BeginBlock, DividesByZero
  <2>6. ParentGasTarget(params) \in Nat
    BY <2>5, DivNat, FeeMarketAssumption DEF Params, ParentGasTarget, TargetLimit
  <2>7. parent.used > ParentGasTarget(params) => blockGasWanted > ParentGasTarget(params)
    BY <2>4, <2>6
  <2>8. parent.used <= ParentGasTarget(params) /\ parent.wanted <= ParentGasTarget(params)
          => blockGasWanted <= ParentGasTarget(params)
    BY <2>4, <2>6 DEF Bigger
  <2>. QED BY <2>3, <2>7, <2>8
<1>. QED BY <1>1, Invariance, PTL DEF Spec, FollowsDemand

\* After a panic the block is not begun, and the parameters stay.
PanicInv == PanicsOnlyOnElasticity /\ (halted => phase = "commit")

\* BeginBlock divides by zero only if the elasticity multiplier is zero or above
\* the block's gas limit, two bounds the code does not check; no demand and no
\* other parameter makes it panic.
THEOREM PanicNeedsElasticity == Spec => []PanicsOnlyOnElasticity
<1>1. Init => PanicInv
  BY DEF Init, PanicInv, PanicsOnlyOnElasticity
<1>2. IInv /\ PanicInv /\ [Next]_feeVars => PanicInv'
  <2>. SUFFICES ASSUME IInv, PanicInv, [Next]_feeVars PROVE PanicInv'
    OBVIOUS
  <2>1. CASE BeginBlock
    BY <2>1 DEF BeginBlock, PanicInv, PanicsOnlyOnElasticity
  <2>2. CASE BeginBlockPanics
    <3>1. TargetLimit \in Nat
      BY FeeMarketAssumption DEF TargetLimit
    <3>2. params.elasticityMultiplier # 0 => ParentGasTarget(params) = 0
      BY <2>2 DEF BeginBlockPanics, DividesByZero
    <3>3. params.elasticityMultiplier \notin 1..TargetLimit
      BY <3>1, <3>2, DivPositive DEF ParentGasTarget
    <3>4. params' = params /\ phase' = "commit"
      BY <2>2 DEF BeginBlockPanics
    <3>. QED BY <3>3, <3>4 DEF PanicInv, PanicsOnlyOnElasticity
  <2>3. CASE Deliver
    BY <2>3 DEF Deliver, DeliverTx, RefuseTx, PanicInv, PanicsOnlyOnElasticity
  <2>4. CASE \E p \in ParamSet : UpdateParams(p)
    BY <2>4 DEF UpdateParams, PanicInv, PanicsOnlyOnElasticity
  <2>5. CASE EndBlock
    BY <2>5 DEF EndBlock, PanicInv, PanicsOnlyOnElasticity
  <2>6. CASE UNCHANGED feeVars
    BY <2>6 DEF feeVars, PanicInv, PanicsOnlyOnElasticity
  <2>. QED BY <2>1, <2>2, <2>3, <2>4, <2>5, <2>6 DEF Next
<1>3. PanicInv => PanicsOnlyOnElasticity
  BY DEF PanicInv
<1>. QED BY <1>1, <1>2, <1>3, Invariance, PTL DEF Spec

\* Induction over the finite subsets of a set, with a set for the predicate.
LEMMA SubsetInduction ==
    ASSUME NEW S, IsFiniteSet(S), NEW W,
           \A T \in SUBSET S : (\A U \in SUBSET T : U # T => U \in W) => T \in W
    PROVE  S \in W
<1>. DEFINE Bad == (SUBSET S) \ W
<1>. SUFFICES ASSUME Bad # {} PROVE FALSE
  OBVIOUS
<1>1. \E T \in Bad : \A U \in Bad : ~ (<<U, T>> \in StrictSubsetOrdering(S))
  <2>1. Bad \subseteq FiniteSubsetsOf(S)
    BY FS_Subset DEF FiniteSubsetsOf
  <2>2. IsWellFoundedOn(StrictSubsetOrdering(S), FiniteSubsetsOf(S))
    BY FS_StrictSubsetOrderingWellFounded
  <2>. HIDE DEF Bad
  <2>. QED BY <2>1, <2>2, WFMin
<1>2. PICK T \in Bad : \A U \in Bad : ~ (<<U, T>> \in StrictSubsetOrdering(S))
  BY <1>1
<1>3. ASSUME NEW U \in SUBSET T, U # T PROVE U \in W
  BY <1>2, <1>3, Zenon DEF StrictSubsetOrdering
<1>. QED BY <1>3

\* Induction over the naturals, over a set instead of a predicate.
LEMMA NatSetInduction ==
    ASSUME NEW W, 0 \in W, \A n \in Nat : n \in W => n + 1 \in W
    PROVE  Nat \subseteq W
<1>. DEFINE Bad == Nat \ W
            less == {p \in Nat \X Nat : p[1] < p[2]}
<1>. SUFFICES ASSUME Bad # {} PROVE FALSE
  OBVIOUS
<1>1. IsWellFoundedOn(less, Nat)
  BY NatLessThanWellFounded, Zenon DEF OpToRel
<1>2. \E n \in Bad : \A i \in Bad : ~ (<<i, n>> \in less)
  <2>1. Bad \subseteq Nat
    OBVIOUS
  <2>. HIDE DEF Bad, less
  <2>. QED BY <1>1, <2>1, WFMin, Zenon
<1>3. PICK n \in Bad : \A i \in Bad : ~ (<<i, n>> \in less)
  BY <1>2
<1>4. n # 0 /\ n - 1 \in Nat /\ n - 1 + 1 = n /\ n - 1 < n
  OBVIOUS
<1>5. n - 1 \in W
  BY <1>3, <1>4, Zenon
<1>. QED BY <1>4, <1>5

-----------------------------------------------------------------------------
(* Sums.  SumFunctionOnSet folds a recursive function on the subsets of the   *)
(* set; IsSum says that g is that function.                                   *)

Chosen(s) == CHOOSE x \in s : TRUE

SumBody(g, f, s) == IF s = {} THEN 0 ELSE f[Chosen(s)] + g[s \ {Chosen(s)}]

IsSum(g, f, S) == g = [s \in SUBSET S |-> SumBody(g, f, s)]

\* A nonempty set has the element chosen from it.
LEMMA ChosenIn == ASSUME NEW s, s # {} PROVE Chosen(s) \in s
  BY DEF Chosen

\* The recursive function exists on the subsets of a finite set.
LEMMA SumExists ==
    ASSUME NEW S, IsFiniteSet(S), NEW f
    PROVE  \E g : IsSum(g, f, S)
<1>. DEFINE UpTo(k) == {s \in SUBSET S : Cardinality(s) <= k}
            Part(k, g) == g = [s \in UpTo(k) |-> SumBody(g, f, s)]
            W == {k \in Nat : \E g : Part(k, g)}
<1>0. \A s \in SUBSET S : IsFiniteSet(s) /\ Cardinality(s) \in Nat /\ Cardinality(s) <= Cardinality(S)
  BY FS_Subset, FS_CardinalityType
<1>1. 0 \in W
  <2>. DEFINE g == [s \in UpTo(0) |-> 0]
  <2>1. \A s \in UpTo(0) : s = {}
    BY <1>0, FS_EmptySet
  <2>2. Part(0, g)
    BY <2>1 DEF SumBody
  <2>. QED BY <2>2, Zenon
<1>2. ASSUME NEW k \in Nat, k \in W PROVE k + 1 \in W
  <2>1. PICK g : Part(k, g)
    BY <1>2
  <2>. DEFINE h == [s \in UpTo(k + 1) |-> IF s \in UpTo(k) THEN g[s] ELSE f[Chosen(s)] + g[s \ {Chosen(s)}]]
  <2>2. ASSUME NEW s \in UpTo(k + 1), s # {}
        PROVE  /\ s \ {Chosen(s)} \in UpTo(k) /\ s \ {Chosen(s)} \in UpTo(k + 1)
    BY <1>0, <2>2, ChosenIn, FS_RemoveElement
  <2>3. ASSUME NEW s \in UpTo(k + 1) PROVE h[s] = SumBody(h, f, s)
    <3>1. CASE s = {}
      <4>1. s \in UpTo(k)
        BY <3>1, FS_EmptySet
      <4>. QED BY <2>1, <3>1, <4>1 DEF SumBody
    <3>2. CASE s # {} /\ s \in UpTo(k)
      <4>1. g[s] = f[Chosen(s)] + g[s \ {Chosen(s)}]
        BY <2>1, <3>2, Zenon DEF SumBody
      <4>2. h[s \ {Chosen(s)}] = g[s \ {Chosen(s)}]
        BY <2>2, <3>2
      <4>. QED BY <3>2, <4>1, <4>2 DEF SumBody
    <3>3. CASE s # {} /\ s \notin UpTo(k)
      <4>2. h[s \ {Chosen(s)}] = g[s \ {Chosen(s)}]
        BY <2>2, <3>3
      <4>. QED BY <3>3, <4>2 DEF SumBody
    <3>. QED BY <3>1, <3>2, <3>3
  <2>4. Part(k + 1, h)
    BY <2>3, Zenon
  <2>. HIDE DEF h, Part
  <2>. QED BY <2>4
<1>3. Cardinality(S) \in W
  <2>. HIDE DEF W
  <2>. QED BY <1>1, <1>2, FS_CardinalityType, NatSetInduction
<1>4. PICK g : Part(Cardinality(S), g)
  BY <1>3, Zenon
<1>5. UpTo(Cardinality(S)) = SUBSET S
  BY <1>0
<1>. QED BY <1>4, <1>5, Zenon DEF IsSum

\* It has one value on each subset, whatever the set it is defined for.
LEMMA SumAgrees ==
    ASSUME NEW S, IsFiniteSet(S), NEW f, NEW g, IsSum(g, f, S),
           NEW T \in SUBSET S, NEW h, IsSum(h, f, T)
    PROVE  g[T] = h[T]
<1>. DEFINE W == {U \in SUBSET T : g[U] = h[U]}
<1>1. IsFiniteSet(T)
  BY FS_Subset
<1>2. ASSUME NEW U \in SUBSET T, \A V \in SUBSET U : V # U => V \in W
      PROVE  U \in W
  <2>1. g[U] = SumBody(g, f, U) /\ h[U] = SumBody(h, f, U)
    BY DEF IsSum
  <2>2. CASE U = {}
    BY <2>1, <2>2 DEF SumBody
  <2>3. CASE U # {}
    <3>1. U \ {Chosen(U)} \in W
      BY <1>2, <2>3, ChosenIn
    <3>. QED BY <2>1, <2>3, <3>1 DEF SumBody
  <2>. QED BY <2>2, <2>3
<1>3. \A U \in SUBSET T : (\A V \in SUBSET U : V # U => V \in W) => U \in W
  BY <1>2
<1>4. T \in W
  <2>. HIDE DEF W
  <2>. QED BY <1>1, <1>3, SubsetInduction
<1>. QED BY <1>4

\* The sum over any subset is a value of the recursive function.
LEMMA SumIsValue ==
    ASSUME NEW S, IsFiniteSet(S), NEW f, NEW g, IsSum(g, f, S), NEW T \in SUBSET S
    PROVE  SumFunctionOnSet(f, T) = g[T]
<1>. DEFINE h == CHOOSE h : IsSum(h, f, T)
<1>1. IsFiniteSet(T)
  BY FS_Subset
<1>2. IsSum(h, f, T)
  BY <1>1, SumExists, Zenon
<1>3. SumFunctionOnSet(f, T) = h[T]
  BY Zenon DEF SumFunctionOnSet, FoldFunctionOnSet, MapThenFoldSet, IsSum, SumBody, Chosen
<1>. HIDE DEF h
<1>. QED BY <1>2, <1>3, SumAgrees

\* The sum over the empty set, and over a set and its chosen element.
LEMMA SumUnfold ==
    ASSUME NEW S, IsFiniteSet(S), NEW f
    PROVE  /\ S = {} => SumFunctionOnSet(f, S) = 0
           /\ S # {} => SumFunctionOnSet(f, S) = f[Chosen(S)] + SumFunctionOnSet(f, S \ {Chosen(S)})
<1>1. PICK g : IsSum(g, f, S)
  BY SumExists
<1>2. \A T \in SUBSET S : SumFunctionOnSet(f, T) = g[T]
  BY <1>1, SumIsValue
<1>3. g[S] = SumBody(g, f, S)
  BY <1>1 DEF IsSum
<1>. QED BY <1>2, <1>3 DEF SumBody

-----------------------------------------------------------------------------

\* Sums of integers are integers, and of natural numbers natural.
LEMMA SumType ==
    ASSUME NEW S, IsFiniteSet(S), NEW f
    PROVE  /\ (\A x \in S : f[x] \in Int) => SumFunctionOnSet(f, S) \in Int
           /\ (\A x \in S : f[x] \in Nat) => SumFunctionOnSet(f, S) \in Nat
<1>. DEFINE W == {T \in SUBSET S : /\ (\A x \in T : f[x] \in Int) => SumFunctionOnSet(f, T) \in Int
                                   /\ (\A x \in T : f[x] \in Nat) => SumFunctionOnSet(f, T) \in Nat}
<1>1. ASSUME NEW T \in SUBSET S, \A U \in SUBSET T : U # T => U \in W
      PROVE  T \in W
  <2>0. IsFiniteSet(T)
    BY FS_Subset
  <2>1. CASE T = {}
    BY <2>0, <2>1, SumUnfold
  <2>2. CASE T # {}
    <3>1. Chosen(T) \in T /\ T \ {Chosen(T)} \in W
      BY <1>1, <2>2, ChosenIn
    <3>2. SumFunctionOnSet(f, T) = f[Chosen(T)] + SumFunctionOnSet(f, T \ {Chosen(T)})
      BY <2>0, <2>2, SumUnfold
    <3>. QED BY <3>1, <3>2
  <2>. QED BY <2>1, <2>2
<1>2. \A T \in SUBSET S : (\A U \in SUBSET T : U # T => U \in W) => T \in W
  BY <1>1
<1>3. S \in W
  <2>. HIDE DEF W
  <2>. QED BY <1>2, SubsetInduction
<1>. QED BY <1>3

\* Any element may be summed first.
LEMMA SumRemove ==
    ASSUME NEW S, IsFiniteSet(S), NEW f, \A x \in S : f[x] \in Int, NEW a \in S
    PROVE  SumFunctionOnSet(f, S) = f[a] + SumFunctionOnSet(f, S \ {a})
<1>. DEFINE W == {T \in SUBSET S : \A x \in T :
                    SumFunctionOnSet(f, T) = f[x] + SumFunctionOnSet(f, T \ {x})}
<1>1. ASSUME NEW T \in SUBSET S, \A U \in SUBSET T : U # T => U \in W
      PROVE  T \in W
  <2>. SUFFICES ASSUME NEW x \in T
                PROVE  SumFunctionOnSet(f, T) = f[x] + SumFunctionOnSet(f, T \ {x})
    OBVIOUS
  <2>. DEFINE c == Chosen(T)
  <2>0. IsFiniteSet(T) /\ c \in T
    BY FS_Subset, ChosenIn
  <2>1. SumFunctionOnSet(f, T) = f[c] + SumFunctionOnSet(f, T \ {c})
    BY <2>0, SumUnfold, Zenon
  <2>2. CASE x # c
    <3>1. T \ {c} \in W /\ T \ {x} \in W /\ x \in T \ {c} /\ c \in T \ {x}
      BY <1>1, <2>0, <2>2
    <3>2. (T \ {c}) \ {x} = (T \ {x}) \ {c}
      OBVIOUS
    <3>3. SumFunctionOnSet(f, T \ {c}) = f[x] + SumFunctionOnSet(f, (T \ {x}) \ {c})
      BY <3>1, <3>2, Zenon
    <3>4. SumFunctionOnSet(f, T \ {x}) = f[c] + SumFunctionOnSet(f, (T \ {x}) \ {c})
      BY <3>1
    <3>5. IsFiniteSet((T \ {x}) \ {c}) /\ \A y \in (T \ {x}) \ {c} : f[y] \in Int
      BY FS_Subset
    <3>6. SumFunctionOnSet(f, (T \ {x}) \ {c}) \in Int
      BY <3>5, SumType
    <3>. QED BY <2>0, <2>1, <3>3, <3>4, <3>6
  <2>. QED BY <2>1, <2>2
<1>2. \A T \in SUBSET S : (\A U \in SUBSET T : U # T => U \in W) => T \in W
  BY <1>1, Zenon
<1>3. S \in W
  <2>. HIDE DEF W
  <2>. QED BY <1>2, SubsetInduction
<1>. QED BY <1>3

\* Functions with the same values on a set have the same sum.
LEMMA SumSame ==
    ASSUME NEW S, IsFiniteSet(S), NEW f, NEW h, \A x \in S : f[x] = h[x]
    PROVE  SumFunctionOnSet(f, S) = SumFunctionOnSet(h, S)
<1>. DEFINE W == {T \in SUBSET S : SumFunctionOnSet(f, T) = SumFunctionOnSet(h, T)}
<1>1. ASSUME NEW T \in SUBSET S, \A U \in SUBSET T : U # T => U \in W
      PROVE  T \in W
  <2>0. IsFiniteSet(T)
    BY FS_Subset
  <2>1. CASE T = {}
    BY <2>0, <2>1, SumUnfold
  <2>2. CASE T # {}
    <3>1. Chosen(T) \in T /\ T \ {Chosen(T)} \in W
      BY <1>1, <2>2, ChosenIn
    <3>2. /\ SumFunctionOnSet(f, T) = f[Chosen(T)] + SumFunctionOnSet(f, T \ {Chosen(T)})
          /\ SumFunctionOnSet(h, T) = h[Chosen(T)] + SumFunctionOnSet(h, T \ {Chosen(T)})
      BY <2>0, <2>2, SumUnfold
    <3>. QED BY <3>1, <3>2
  <2>. QED BY <2>1, <2>2
<1>2. \A T \in SUBSET S : (\A U \in SUBSET T : U # T => U \in W) => T \in W
  BY <1>1
<1>3. S \in W
  <2>. HIDE DEF W
  <2>. QED BY <1>2, SubsetInduction
<1>. QED BY <1>3

\* Changing one summand changes the sum by as much.
LEMMA SumChange ==
    ASSUME NEW S, IsFiniteSet(S), NEW f, NEW h, NEW a \in S,
           \A x \in S : f[x] \in Int, h[a] \in Int, \A x \in S \ {a} : h[x] = f[x]
    PROVE  SumFunctionOnSet(h, S) = SumFunctionOnSet(f, S) + h[a] - f[a]
<1>1. IsFiniteSet(S \ {a})
  BY FS_RemoveElement
<1>2. SumFunctionOnSet(h, S \ {a}) = SumFunctionOnSet(f, S \ {a}) /\ SumFunctionOnSet(f, S \ {a}) \in Int
  BY <1>1, SumSame, SumType
<1>3. SumFunctionOnSet(f, S) = f[a] + SumFunctionOnSet(f, S \ {a})
  BY SumRemove
<1>4. SumFunctionOnSet(h, S) = h[a] + SumFunctionOnSet(h, S \ {a})
  BY SumRemove
<1>5. PICK r \in Int, u \in Int, v \in Int :
        r = SumFunctionOnSet(f, S \ {a}) /\ u = f[a] /\ v = h[a]
  BY <1>2, Zenon
<1>6. SumFunctionOnSet(f, S) = u + r /\ SumFunctionOnSet(h, S) = v + r
  BY <1>2, <1>3, <1>4, <1>5, Zenon
<1>7. v + r = u + r + v - u
  BY ONLY <1>5
<1>. QED BY <1>5, <1>6, <1>7, Zenon

\* A range of numbers is a finite set.
LEMMA RangeFinite == ASSUME NEW k \in Int, NEW n \in Int PROVE IsFiniteSet(k..n)
  BY FS_Interval

\* A sum over a range: nothing if it is empty, else its first element and the rest.
LEMMA SumFirst ==
    ASSUME NEW k \in Int, NEW n \in Int, NEW f, \A i \in k..n : f[i] \in Int
    PROVE  /\ k > n => SumFunctionOnSet(f, k..n) = 0
           /\ k <= n => SumFunctionOnSet(f, k..n) = f[k] + SumFunctionOnSet(f, (k + 1)..n)
<1>1. IsFiniteSet(k..n)
  BY RangeFinite
<1>2. CASE k > n
  <2>1. k..n = {}
    BY <1>2
  <2>. QED BY <1>1, <1>2, <2>1, SumUnfold
<1>3. CASE k <= n
  <2>1. (k..n) \ {k} = (k + 1)..n /\ k \in k..n
    BY <1>3
  <2>2. SumFunctionOnSet(f, k..n) = f[k] + SumFunctionOnSet(f, (k..n) \ {k})
    BY <1>1, <2>1, SumRemove
  <2>3. SumFunctionOnSet(f, k..n) = f[k] + SumFunctionOnSet(f, (k + 1)..n)
    BY <2>1, <2>2, Zenon
  <2>. QED BY <1>3, <2>3
<1>. QED BY <1>2, <1>3

\* One summand more.
LEMMA SumInsert ==
    ASSUME NEW S, IsFiniteSet(S), NEW p, p \notin S, NEW T, T = S \cup {p}, NEW f, NEW h,
           \A i \in S : f[i] \in Int /\ h[i] = f[i], h[p] \in Int
    PROVE  SumFunctionOnSet(h, T) = SumFunctionOnSet(f, S) + h[p]
<1>1. IsFiniteSet(T) /\ p \in T /\ T \ {p} = S /\ \A i \in T : h[i] \in Int
  BY FS_AddElement
<1>2. SumFunctionOnSet(h, T) = h[p] + SumFunctionOnSet(h, S)
  BY <1>1, SumRemove
<1>3. SumFunctionOnSet(h, S) = SumFunctionOnSet(f, S)
  BY SumSame
<1>4. SumFunctionOnSet(f, S) \in Int
  BY SumType
<1>. QED BY <1>2, <1>3, <1>4

\* A sum is that of some of its summands and that of the others.
LEMMA SumSplit ==
    ASSUME NEW S, IsFiniteSet(S), NEW T, T \subseteq S, NEW f, \A i \in S : f[i] \in Int, NEW g,
           \A i \in S : g[i] = IF i \in T THEN 0 ELSE f[i]
    PROVE  SumFunctionOnSet(f, S) = SumFunctionOnSet(f, T) + SumFunctionOnSet(g, S)
<1>. DEFINE W == {U \in SUBSET S : SumFunctionOnSet(f, U)
                                     = SumFunctionOnSet(f, U \cap T) + SumFunctionOnSet(g, U)}
<1>0. \A i \in S : g[i] \in Int
  OBVIOUS
<1>1. ASSUME NEW U \in SUBSET S, \A V \in SUBSET U : V # U => V \in W
      PROVE  U \in W
  <2>0. IsFiniteSet(U) /\ IsFiniteSet(U \cap T)
    BY FS_Subset
  <2>1. CASE U = {}
    <3>1. U \cap T = {}
      BY <2>1
    <3>2. SumFunctionOnSet(f, U) = 0 /\ SumFunctionOnSet(g, U) = 0
      BY <2>0, <2>1, SumUnfold, Zenon
    <3>3. SumFunctionOnSet(f, U \cap T) = 0
      BY <2>1, <3>1, <3>2, Zenon
    <3>. QED BY <3>2, <3>3
  <2>2. CASE U # {}
    <3>0. PICK c \in U : TRUE
      BY <2>2
    <3>1. PICK V : V = U \ {c}
      BY Zenon
    <3>2. V \in SUBSET U /\ V # U /\ V \in SUBSET S /\ c \in S
      BY <3>1
    <3>3. IsFiniteSet(V) /\ IsFiniteSet(V \cap T)
      BY <3>2, FS_Subset
    <3>4. SumFunctionOnSet(f, V) = SumFunctionOnSet(f, V \cap T) + SumFunctionOnSet(g, V)
      BY <1>1, <3>2
    <3>5. SumFunctionOnSet(f, U) = f[c] + SumFunctionOnSet(f, V)
      BY <2>0, <3>1, SumRemove
    <3>6. SumFunctionOnSet(g, U) = g[c] + SumFunctionOnSet(g, V)
      BY <1>0, <2>0, <3>1, SumRemove
    <3>7. /\ f[c] \in Int /\ g[c] = (IF c \in T THEN 0 ELSE f[c])
      BY <3>2
    <3>8. SumFunctionOnSet(g, V) \in Int /\ SumFunctionOnSet(f, V \cap T) \in Int
      BY <1>0, <3>2, <3>3, SumType
    <3>9. SumFunctionOnSet(f, U \cap T)
            = (IF c \in T THEN f[c] ELSE 0) + SumFunctionOnSet(f, V \cap T)
      <4>1. CASE c \in T
        <5>1. c \in U \cap T /\ (U \cap T) \ {c} = V \cap T /\ \A i \in U \cap T : f[i] \in Int
          BY <3>1, <4>1
        <5>2. SumFunctionOnSet(f, U \cap T) = f[c] + SumFunctionOnSet(f, V \cap T)
          BY <2>0, <5>1, SumRemove
        <5>. QED BY <4>1, <5>2
      <4>2. CASE c \notin T
        <5>1. U \cap T = V \cap T
          BY <3>1, <4>2
        <5>2. SumFunctionOnSet(f, U \cap T) = SumFunctionOnSet(f, V \cap T)
          BY <5>1, Zenon
        <5>. QED BY <3>8, <4>2, <5>2
      <4>. QED BY <4>1, <4>2
    <3>10. SumFunctionOnSet(f, U) = SumFunctionOnSet(f, U \cap T) + SumFunctionOnSet(g, U)
      BY <3>4, <3>5, <3>6, <3>7, <3>8, <3>9
    <3>. QED BY <3>10
  <2>. QED BY <2>1, <2>2
<1>2. \A U \in SUBSET S : (\A V \in SUBSET U : V # U => V \in W) => U \in W
  BY <1>1
<1>3. S \in W
  <2>. HIDE DEF W
  <2>. QED BY <1>2, SubsetInduction
<1>4. S \cap T = T
  OBVIOUS
<1>. QED BY <1>3, <1>4, Zenon

\* The sum of equal summands.
LEMMA SumConstant ==
    ASSUME NEW S, IsFiniteSet(S), NEW c \in Int, NEW f, \A x \in S : f[x] = c
    PROVE  SumFunctionOnSet(f, S) = c * Cardinality(S)
<1>. DEFINE W == {T \in SUBSET S : SumFunctionOnSet(f, T) = c * Cardinality(T)}
<1>1. ASSUME NEW T \in SUBSET S, \A U \in SUBSET T : U # T => U \in W
      PROVE  T \in W
  <2>0. IsFiniteSet(T)
    BY FS_Subset
  <2>1. CASE T = {}
    <3>1. SumFunctionOnSet(f, T) = 0 /\ Cardinality(T) = 0
      BY <2>0, <2>1, SumUnfold, FS_EmptySet
    <3>. QED BY <3>1
  <2>2. CASE T # {}
    <3>0. PICK t \in T : TRUE
      BY <2>2
    <3>1. PICK U : U = T \ {t}
      BY Zenon
    <3>2. U \in W /\ IsFiniteSet(U) /\ Cardinality(U) = Cardinality(T) - 1
          /\ Cardinality(T) \in Int /\ Cardinality(U) \in Int
      BY <1>1, <2>0, <3>1, FS_RemoveElement, FS_CardinalityType
    <3>3. f[t] = c /\ \A x \in T : f[x] \in Int
      BY <3>1
    <3>4. SumFunctionOnSet(f, T) = f[t] + SumFunctionOnSet(f, U)
      BY <2>0, <3>1, <3>3, SumRemove
    <3>5. SumFunctionOnSet(f, T) = c + c * Cardinality(U)
      BY <3>2, <3>3, <3>4
    <3>6. c + c * Cardinality(U) = c * Cardinality(T)
      BY <3>2
    <3>. QED BY <3>5, <3>6
  <2>. QED BY <2>1, <2>2
<1>2. \A T \in SUBSET S : (\A U \in SUBSET T : U # T => U \in W) => T \in W
  BY <1>1
<1>3. S \in W
  <2>. HIDE DEF W
  <2>. QED BY <1>2, SubsetInduction
<1>. QED BY <1>3

\* Withdrawing from the first k delegations takes what they hold from the sum.
LEMMA RewardsZeroed ==
    ASSUME NEW r \in Seq(Nat), NEW k \in 0..Len(r), NEW z,
           z = [i \in DOMAIN r |-> IF i <= k THEN 0 ELSE r[i]]
    PROVE  /\ z \in Seq(Nat) /\ DOMAIN z = DOMAIN r
           /\ SumFunctionOnSet(r, DOMAIN r)
                = SumFunctionOnSet(r, 1..k) + SumFunctionOnSet(z, DOMAIN r)
<1>1. PICK S, T : S = 1..Len(r) /\ T = 1..k
  OBVIOUS
<1>2. DOMAIN r = S /\ T \subseteq S /\ IsFiniteSet(S) /\ \A i \in S : r[i] \in Nat
  BY <1>1, RangeFinite
<1>3. \A i \in S : z[i] = (IF i <= k THEN 0 ELSE r[i]) /\ z[i] \in Nat
  BY <1>2
<1>4. z \in Seq(Nat) /\ DOMAIN z = DOMAIN r
  <2>1. z \in [S -> Nat]
    BY <1>2, <1>3
  <2>2. z \in Seq(Nat)
    BY <1>1, <2>1
  <2>. QED BY <1>2, <2>1, <2>2
<1>5. \A i \in S : i \in T <=> i <= k
  BY <1>1
<1>6. \A i \in S : r[i] \in Int
  BY <1>2
<1>7. \A i \in S : z[i] = IF i \in T THEN 0 ELSE r[i]
  BY <1>3, <1>5
<1>8. SumFunctionOnSet(r, S) = SumFunctionOnSet(r, T) + SumFunctionOnSet(z, S)
  BY <1>2, <1>6, <1>7, SumSplit
<1>. QED BY <1>1, <1>2, <1>4, <1>8

-----------------------------------------------------------------------------
(* Worlds *)

\* All coins but burned ones and unclaimed rewards.
Coins(w) == SumFunctionOnSet(w.balance, Accounts) + w.feeCollector + w.distributed

\* From w to w2 no coins are made or lost, the fee collector pays at most f,
\* account a at most v, and no other account pays.
Costs(w, w2, a, v, f) ==
    /\ w2 \in World /\ Coins(w2) = Coins(w)
    /\ w2.feeCollector >= w.feeCollector - f
    /\ \A b \in Accounts : w2.balance[b] >= w.balance[b] - (IF b = a THEN v ELSE 0)

\* There are finitely many accounts.
LEMMA FiniteAccounts == IsFiniteSet(Accounts)
  BY EthTxAssumption

\* Changing one balance changes the sum of all by as much.
LEMMA BalancesChange ==
    ASSUME NEW b, NEW b2, NEW a \in Accounts,
           \A x \in Accounts : b[x] \in Int, b2[a] \in Int,
           \A x \in Accounts \ {a} : b2[x] = b[x]
    PROVE  SumFunctionOnSet(b2, Accounts) = SumFunctionOnSet(b, Accounts) + b2[a] - b[a]
  BY FiniteAccounts, SumChange

\* The fields of a world.
LEMMA WorldFields ==
    ASSUME NEW w \in World
    PROVE  /\ w.balance \in [Accounts -> Int] /\ w.nonce \in [Accounts -> Nat]
           /\ w.feeCollector \in Int /\ w.distributed \in Nat /\ Coins(w) \in Int
           /\ SumFunctionOnSet(w.balance, Accounts) \in Int
<1>1. /\ w.balance \in [Accounts -> Int] /\ w.nonce \in [Accounts -> Nat]
      /\ w.feeCollector \in Int /\ w.distributed \in Nat
  BY DEF World
<1>2. SumFunctionOnSet(w.balance, Accounts) \in Int
  BY <1>1, FiniteAccounts, SumType
<1>. QED BY <1>1, <1>2 DEF Coins

\* Payments add up.
LEMMA CostsAdd ==
    ASSUME NEW w \in World, NEW w2, NEW w3, NEW a \in Accounts,
           NEW v \in Nat, NEW v2 \in Nat, NEW f \in Nat, NEW f2 \in Nat,
           Costs(w, w2, a, v, f), Costs(w2, w3, a, v2, f2)
    PROVE  Costs(w, w3, a, v + v2, f + f2)
<1>1. w2 \in World /\ w3 \in World
  BY DEF Costs
<1>2. /\ w.balance \in [Accounts -> Int] /\ w.feeCollector \in Int
      /\ w2.balance \in [Accounts -> Int] /\ w2.feeCollector \in Int
      /\ w3.balance \in [Accounts -> Int] /\ w3.feeCollector \in Int
  BY <1>1, WorldFields
<1>3. Coins(w3) = Coins(w)
  BY DEF Costs
<1>4. w3.feeCollector >= w.feeCollector - (f + f2)
  BY <1>2 DEF Costs
<1>5. ASSUME NEW b \in Accounts
      PROVE  w3.balance[b] >= w.balance[b] - (IF b = a THEN v + v2 ELSE 0)
  <2>1. /\ w2.balance[b] >= w.balance[b] - (IF b = a THEN v ELSE 0)
        /\ w3.balance[b] >= w2.balance[b] - (IF b = a THEN v2 ELSE 0)
    BY DEF Costs
  <2>2. w.balance[b] \in Int /\ w2.balance[b] \in Int /\ w3.balance[b] \in Int
    BY <1>2
  <2>. QED BY <2>1, <2>2
<1>. QED BY <1>1, <1>3, <1>4, <1>5 DEF Costs

\* Nothing happens.
LEMMA CostsNothing ==
    ASSUME NEW w \in World, NEW a \in Accounts
    PROVE  Costs(w, w, a, 0, 0)
<1>1. w.balance \in [Accounts -> Int] /\ w.feeCollector \in Int
  BY WorldFields
<1>. QED BY <1>1 DEF Costs

\* One balance changes by d.
LEMMA BalanceBecomes ==
    ASSUME NEW b, NEW b2, NEW a \in Accounts, NEW d \in Int,
           \A x \in Accounts : b[x] \in Int,
           \A x \in Accounts : b2[x] = b[x] + (IF x = a THEN d ELSE 0)
    PROVE  SumFunctionOnSet(b2, Accounts) = SumFunctionOnSet(b, Accounts) + d
<1>1. /\ b[a] \in Int /\ b2[a] = b[a] + d /\ b2[a] \in Int
      /\ \A x \in Accounts \ {a} : b2[x] = b[x]
  OBVIOUS
<1>2. SumFunctionOnSet(b2, Accounts) = SumFunctionOnSet(b, Accounts) + b2[a] - b[a]
  BY <1>1, BalancesChange, Zenon
<1>3. SumFunctionOnSet(b, Accounts) \in Int
  BY FiniteAccounts, SumType
<1>. QED BY <1>1, <1>2, <1>3

\* The bank moves d coins from the fee collector to an account.
LEMMA CollectorPays ==
    ASSUME NEW w \in World, NEW a \in Accounts, NEW to \in Accounts, NEW d \in Nat, NEW w2,
           w2 = [w EXCEPT !.balance = [w.balance EXCEPT ![to] = w.balance[to] + d],
                          !.feeCollector = w.feeCollector - d]
    PROVE  Costs(w, w2, a, 0, d)
<1>1. w.balance \in [Accounts -> Int] /\ w.feeCollector \in Int /\ w.distributed \in Nat
      /\ SumFunctionOnSet(w.balance, Accounts) \in Int
  BY WorldFields
<1>2. PICK b : b = [w.balance EXCEPT ![to] = w.balance[to] + d]
  BY Zenon
<1>3. /\ b \in [Accounts -> Int]
      /\ SumFunctionOnSet(b, Accounts) = SumFunctionOnSet(w.balance, Accounts) + d
      /\ \A x \in Accounts : b[x] = w.balance[x] + (IF x = to THEN d ELSE 0)
  <2>1. /\ b \in [Accounts -> Int] /\ \A x \in Accounts : w.balance[x] \in Int
        /\ \A x \in Accounts : b[x] = w.balance[x] + (IF x = to THEN d ELSE 0)
    BY <1>1, <1>2
  <2>2. b[to] \in Int /\ \A x \in Accounts \ {to} : b[x] = w.balance[x]
    BY <2>1
  <2>3. SumFunctionOnSet(b, Accounts) = SumFunctionOnSet(w.balance, Accounts) + b[to] - w.balance[to]
    BY <2>1, <2>2, BalancesChange, Zenon
  <2>. QED BY <1>1, <2>1, <2>3
<1>4. /\ w2 \in World /\ w2.balance = b /\ w2.feeCollector = w.feeCollector - d
      /\ w2.distributed = w.distributed
  <2>1. PICK c \in Int : c = w.feeCollector - d
    BY <1>1
  <2>2. w2 = [w EXCEPT !.balance = b, !.feeCollector = c]
    BY <1>2, <2>1
  <2>3. w2 \in World /\ w2.balance = b /\ w2.feeCollector = c /\ w2.distributed = w.distributed
    BY <1>3, <2>2, Zenon DEF World
  <2>. QED BY <2>1, <2>3
<1>5. Coins(w2) = Coins(w)
  BY <1>1, <1>3, <1>4 DEF Coins
<1>6. ASSUME NEW x \in Accounts PROVE w2.balance[x] >= w.balance[x] - (IF x = a THEN 0 ELSE 0)
  BY <1>1, <1>3, <1>4
<1>7. w2.feeCollector >= w.feeCollector - d
  BY <1>1, <1>4
<1>. QED BY <1>4, <1>5, <1>6, <1>7 DEF Costs

\* An execution pays the message's value, and touches no other balance but to add.
LEMMA Executed ==
    ASSUME NEW w \in World, NEW m \in Messages
    PROVE  Costs(w, Execute(w, m), m.from, m.value, 0)
<1>1. w.balance \in [Accounts -> Int] /\ w.feeCollector \in Int /\ w.nonce \in [Accounts -> Nat]
  BY WorldFields
<1>2. m.from \in Accounts /\ Recipient(m) \in Accounts /\ m.value \in Nat /\ m.nonce + 1 \in Nat
  BY MessageFields, EthTxAssumption DEF Recipient
<1>. PICK to \in Accounts : to = Recipient(m)
  BY <1>2
<1>3. PICK b1 : b1 = [w.balance EXCEPT ![m.from] = w.balance[m.from] + (-m.value)]
  BY Zenon
<1>4. /\ b1 \in [Accounts -> Int]
      /\ SumFunctionOnSet(b1, Accounts) = SumFunctionOnSet(w.balance, Accounts) + (-m.value)
      /\ \A x \in Accounts : b1[x] = w.balance[x] + (IF x = m.from THEN -m.value ELSE 0)
  <2>1. PICK d \in Int : d = -m.value
    BY <1>2
  <2>2. PICK b : b = w.balance
    OBVIOUS
  <2>3. b \in [Accounts -> Int] /\ b1 = [b EXCEPT ![m.from] = b[m.from] + d]
    BY <1>1, <1>3, <2>1, <2>2, Zenon
  <2>4. /\ b1 \in [Accounts -> Int] /\ \A x \in Accounts : b[x] \in Int
        /\ \A x \in Accounts : b1[x] = b[x] + (IF x = m.from THEN d ELSE 0)
    BY <1>2, <2>3
  <2>5. SumFunctionOnSet(b1, Accounts) = SumFunctionOnSet(b, Accounts) + d
    <3>1. PICK a \in Accounts : a = m.from
      BY <1>2
    <3>2. /\ \A x \in Accounts : b[x] \in Int
          /\ \A x \in Accounts : b1[x] = b[x] + (IF x = a THEN d ELSE 0)
      BY <2>4, <3>1
    <3>. QED BY ONLY a \in Accounts, d \in Int, <3>2, BalanceBecomes
  <2>. QED BY <2>1, <2>2, <2>4, <2>5, Zenon
<1>5. PICK b2 : b2 = [b1 EXCEPT ![to] = b1[to] + m.value]
  BY Zenon
<1>6. /\ b2 \in [Accounts -> Int]
      /\ SumFunctionOnSet(b2, Accounts) = SumFunctionOnSet(b1, Accounts) + m.value
      /\ \A x \in Accounts : b2[x] = b1[x] + (IF x = to THEN m.value ELSE 0)
  <2>1. /\ b2 \in [Accounts -> Int] /\ m.value \in Int /\ \A x \in Accounts : b1[x] \in Int
        /\ \A x \in Accounts : b2[x] = b1[x] + (IF x = to THEN m.value ELSE 0)
    BY <1>2, <1>4, <1>5
  <2>. QED BY <2>1, BalanceBecomes, Zenon
<1>7. PICK w1 : w1 = [w EXCEPT !.balance = b2]
  BY Zenon
<1>8. Transfer(w, m.from, Recipient(m), m.value) = w1
  <2>1. w.balance[m.from] - m.value = w.balance[m.from] + (-m.value)
    BY <1>1, <1>2
  <2>. QED BY <1>3, <1>5, <1>7, <2>1, Zenon DEF Transfer
<1>9. /\ w1 \in World /\ w1.balance = b2 /\ w1.feeCollector = w.feeCollector
      /\ w1.distributed = w.distributed
  BY <1>6, <1>7 DEF World
<1>10. PICK w2 : w2 = Execute(w, m)
  OBVIOUS
<1>11. w2 = w1 \/ w2 = [w1 EXCEPT !.nonce[NewContract] = 1, !.nonce[m.from] = m.nonce + 1]
  BY <1>8, <1>10, Zenon DEF Execute
<1>12. /\ w2 \in World /\ w2.balance = b2 /\ w2.feeCollector = w.feeCollector
       /\ w2.distributed = w.distributed
  <2>1. PICK n : n = [w1.nonce EXCEPT ![NewContract] = 1, ![m.from] = m.nonce + 1]
    BY Zenon
  <2>2. n \in [Accounts -> Nat]
    BY <1>2, <1>9, <2>1, WorldFields
  <2>3. w2 = w1 \/ w2 = [w1 EXCEPT !.nonce = n]
    BY <1>9, <1>11, <2>1, Zenon DEF World
  <2>. QED BY <1>9, <2>2, <2>3 DEF World
<1>13. SumFunctionOnSet(b2, Accounts) = SumFunctionOnSet(w.balance, Accounts)
  BY <1>2, <1>4, <1>6, WorldFields
<1>14. Coins(w2) = Coins(w)
  BY <1>12, <1>13 DEF Coins
<1>15. ASSUME NEW x \in Accounts
       PROVE  w2.balance[x] >= w.balance[x] - (IF x = m.from THEN m.value ELSE 0)
  <2>1. PICK y \in Int, v \in Nat : y = w.balance[x] /\ v = m.value
    BY <1>1, <1>2
  <2>2. PICK z \in Int : z = b1[x] /\ z = y + (IF x = m.from THEN -v ELSE 0)
    BY <1>4, <2>1
  <2>3. w2.balance[x] = z + (IF x = to THEN v ELSE 0)
    BY <1>6, <1>12, <2>1, <2>2, Zenon
  <2>4. z + (IF x = to THEN v ELSE 0) >= z
    BY <2>1, <2>2
  <2>5. z >= y - (IF x = m.from THEN v ELSE 0)
    BY <2>1, <2>2
  <2>6. z + (IF x = to THEN v ELSE 0) >= y - (IF x = m.from THEN v ELSE 0)
    BY <2>1, <2>2, <2>4, <2>5
  <2>. QED BY <2>1, <2>3, <2>6, Zenon
<1>16. w2.feeCollector >= w.feeCollector - 0
  BY <1>1, <1>12
<1>. QED BY <1>10, <1>12, <1>14, <1>15, <1>16 DEF Costs

\* A larger bound on what the fee collector pays.
LEMMA CostsAtMost ==
    ASSUME NEW w \in World, NEW w2, NEW a, NEW v, NEW f \in Int, NEW f2 \in Int,
           Costs(w, w2, a, v, f), f <= f2
    PROVE  Costs(w, w2, a, v, f2)
<1>1. w2 \in World /\ w2.feeCollector >= w.feeCollector - f
  BY DEF Costs
<1>2. w.feeCollector \in Int /\ w2.feeCollector \in Int
  BY <1>1, WorldFields
<1>3. w2.feeCollector >= w.feeCollector - f2
  BY <1>1, <1>2
<1>. QED BY <1>3 DEF Costs

\* The bank moves d coins from the fee collector to the community pool.
LEMMA PoolFunded ==
    ASSUME NEW w \in World, NEW a \in Accounts, NEW d \in Nat, NEW w2,
           w2 = [w EXCEPT !.feeCollector = @ - d, !.distributed = @ + d]
    PROVE  Costs(w, w2, a, 0, d)
<1>1. w.balance \in [Accounts -> Int] /\ w.feeCollector \in Int /\ w.distributed \in Nat
      /\ SumFunctionOnSet(w.balance, Accounts) \in Int
  BY WorldFields
<1>2. PICK c \in Int, p \in Nat : c = w.feeCollector - d /\ p = w.distributed + d
  BY <1>1
<1>3. w2 = [w EXCEPT !.feeCollector = c, !.distributed = p]
  BY <1>2, Zenon
<1>4. w2 \in World /\ w2.feeCollector = c /\ w2.distributed = p /\ w2.balance = w.balance
  BY <1>3, Zenon DEF World
<1>5. Coins(w2) = Coins(w)
  BY <1>1, <1>2, <1>4 DEF Coins
<1>6. ASSUME NEW x \in Accounts PROVE w2.balance[x] >= w.balance[x] - (IF x = a THEN 0 ELSE 0)
  BY <1>1, <1>4
<1>7. w2.feeCollector >= w.feeCollector - d
  BY <1>1, <1>2, <1>4
<1>. QED BY <1>4, <1>5, <1>6, <1>7 DEF Costs

\* The revenue hook moves the developers' share.
LEMMA RevenuePaid ==
    ASSUME TypeOK, NEW w \in World, NEW m \in Messages, NEW used \in Nat
    PROVE  Costs(w, PostTxProcessing(w, m, used), m.from, 0, DeveloperFee(m, used))
<1>1. PICK d \in Nat : d = DeveloperFee(m, used)
  BY DeveloperShare
<1>2. m.from \in Accounts /\ m.to \in Accounts \cup {Create}
  BY MessageFields
<1>3. CASE HasRevenue(m) /\ m.to \notin Precompiles
  <2>1. PICK to \in Accounts : to = Withdrawer[m.to]
    BY <1>2, <1>3, EthTxAssumption DEF HasRevenue
  <2>2. PostTxProcessing(w, m, used)
          = [w EXCEPT !.balance = [w.balance EXCEPT ![to] = w.balance[to] + d],
                      !.feeCollector = w.feeCollector - d]
    <3>1. PostTxProcessing(w, m, used) = [w EXCEPT !.feeCollector = @ - d, !.balance[to] = @ + d]
      BY <1>1, <1>3, <2>1, Zenon DEF PostTxProcessing
    <3>. QED BY <3>1, Zenon DEF World
  <2>. QED BY <1>1, <1>2, <2>2, CollectorPays, Zenon
<1>5. CASE HasRevenue(m) /\ m.to \in Precompiles
  <2>1. PICK w2 : w2 = [w EXCEPT !.feeCollector = @ - d, !.distributed = @ + d]
    BY Zenon
  <2>2. PostTxProcessing(w, m, used) = w2
    BY <1>1, <1>5, <2>1, Zenon DEF PostTxProcessing
  <2>3. Costs(w, w2, m.from, 0, d)
    BY <1>2, <2>1, PoolFunded, Zenon
  <2>. QED BY <1>1, <2>2, <2>3
<1>4. CASE ~HasRevenue(m)
  <2>1. PostTxProcessing(w, m, used) = w
    BY <1>4 DEF PostTxProcessing
  <2>2. Costs(w, w, m.from, 0, 0)
    BY <1>2, CostsNothing
  <2>. QED BY <1>1, <2>1, <2>2, CostsAtMost
<1>. QED BY <1>3, <1>4, <1>5

\* The refund of what is left of the gas.
LEMMA Refunded ==
    ASSUME TypeOK, NEW w \in World, NEW m \in Messages, NEW leftover \in Nat
    PROVE  Costs(w, RefundGas(w, m, leftover), m.from, 0, leftover * EffectiveGasPrice(m))
<1>1. PICK d \in Nat : d = leftover * EffectiveGasPrice(m)
  BY Prices
<1>2. m.from \in Accounts
  BY MessageFields
<1>3. RefundGas(w, m, leftover)
        = [w EXCEPT !.balance = [w.balance EXCEPT ![m.from] = w.balance[m.from] + d],
                    !.feeCollector = w.feeCollector - d]
  <2>1. RefundGas(w, m, leftover) = [w EXCEPT !.balance[m.from] = @ + d, !.feeCollector = @ - d]
    BY <1>1, Zenon DEF RefundGas
  <2>. QED BY <2>1 DEF World
<1>. QED BY <1>1, <1>2, <1>3, CollectorPays, Zenon

\* What becomes of a message costs the sender no more than its value and the fee
\* collector no more than the fee it took in for it: the developers' share comes
\* out of the gas used, the refund out of the gas left.
LEMMA MessagePaid ==
    ASSUME TypeOK, NEW w \in World, NEW m \in Messages, NEW used \in Nat, used <= m.gas
    PROVE  /\ Costs(w, RefundGas(w, m, m.gas - used), m.from, 0, EffectiveFee(m))
           /\ Costs(w, RefundGas(PostTxProcessing(Execute(w, m), m, used), m, m.gas - used),
                    m.from, m.value, EffectiveFee(m))
<1>1. m.from \in Accounts /\ m.value \in Nat /\ m.gas \in Nat
  BY MessageFields
<1>2. PICK price \in Nat : price = EffectiveGasPrice(m)
  BY Prices
<1>3. PICK left \in Nat : left = m.gas - used
  BY <1>1
<1>4. PICK d \in Nat : d = DeveloperFee(m, used) /\ d <= used * price
  BY <1>2, DeveloperShare
<1>5. PICK r \in Nat : r = left * price
  BY <1>2, <1>3
<1>6. PICK fee \in Nat : fee = EffectiveFee(m) /\ r <= fee /\ d + r <= fee
  <2>1. used * price \in Nat /\ left * price + used * price = m.gas * price
    BY <1>1, <1>2, <1>3, Products
  <2>. QED BY <1>1, <1>2, <1>4, <1>5, <2>1, Prices DEF EffectiveFee
<1>7. \A x \in World : Costs(x, RefundGas(x, m, left), m.from, 0, r)
  BY <1>2, <1>5, Refunded
<1>8. Costs(w, RefundGas(w, m, left), m.from, 0, fee)
  BY <1>6, <1>7, CostsAtMost
<1>9. PICK w1 \in World : w1 = Execute(w, m) /\ Costs(w, w1, m.from, m.value, 0)
  BY Executed DEF Costs
<1>10. PICK w2 \in World : w2 = PostTxProcessing(w1, m, used) /\ Costs(w1, w2, m.from, 0, d)
  BY <1>4, RevenuePaid DEF Costs
<1>11. PICK w3 : w3 = RefundGas(w2, m, left) /\ Costs(w2, w3, m.from, 0, r)
  BY <1>7
<1>12. Costs(w, w2, m.from, m.value + 0, 0 + d)
  BY <1>1, <1>9, <1>10, CostsAdd
<1>13. m.value + 0 = m.value /\ 0 + d = d /\ d + r \in Int
  BY <1>1
<1>14. Costs(w, w3, m.from, m.value + 0, d + r)
  BY <1>1, <1>11, <1>12, <1>13, CostsAdd
<1>15. Costs(w, w3, m.from, m.value, fee)
  BY <1>6, <1>13, <1>14, CostsAtMost
<1>. QED BY <1>3, <1>6, <1>8, <1>9, <1>10, <1>11, <1>15
=============================================================================
