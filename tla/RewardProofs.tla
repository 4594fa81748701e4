-------------------------- MODULE RewardProofs --------------------------
(* Rewards, for every duration, period length, parameter set and bonded      *)
(* amount: the registrations of fee revenue, the decimals and the curve of   *)
(* the mint, the clock of epochs, and what the mint does with its coins.     *)
EXTENDS Inflation, Revenue, NaturalsInduction, WellFoundedInduction, TLAPS

-----------------------------------------------------------------------------
(* Revenue: registrations and their two indexes *)

\* The inductive invariant of the revenue module: types and the agreement of the three stores.
RevenueInv == RevenueTypeOK /\ IndexesAgree

\* Texts decode to the addresses they spell.
LEMMA Decodes ==
    /\ \A t \in Text(Accounts) : Decoded(t) \in Accounts
    /\ \A t \in Text(Accounts \cup Contracts) : Decoded(t) \in Accounts \cup Contracts
    /\ \A a \in Accounts : String(a) \in Text(Accounts) /\ Decoded(String(a)) = a
    /\ \A a \in Accounts \cup Contracts :
          /\ String(a) \in Text(Accounts \cup Contracts) /\ Decoded(String(a)) = a
          /\ String(a) # Default
    /\ Default \notin Text(Accounts \cup Contracts)
<1>1. ASSUME NEW A, NEW t \in Text(A) PROVE Decoded(t) \in A
  BY DEF Text, Decoded
<1>2. ASSUME NEW A, NEW a \in A PROVE String(a) \in Text(A) /\ Decoded(String(a)) = a
  BY DEF Text, Decoded, String
<1>3. Default \notin Text(Accounts \cup Contracts)
  BY RevenueAssumption, Zenon
<1>4. ASSUME NEW a \in Accounts \cup Contracts PROVE String(a) # Default
  BY <1>2, <1>3, Zenon
<1>. QED BY <1>1, <1>2, <1>3, <1>4, Zenon

\* Every genesis satisfies the invariant.
LEMMA RevenueInitInv == RevenueInit => RevenueInv
<1>. SUFFICES ASSUME RevenueInit PROVE RevenueInv
  OBVIOUS
<1>1. PICK S \in SUBSET Contracts : revenues \in [S -> Revenue]
  BY DEF RevenueInit
<1>2. Registered \subseteq Contracts /\ \A c \in Registered : revenues[c] \in Revenue
  BY <1>1 DEF Registered
<1>3. \A c \in Registered :
         /\ Decoded(revenues[c].deployer) \in Accounts
         /\ revenues[c].withdrawer # Default => Decoded(revenues[c].withdrawer) \in Accounts \cup Contracts
  BY <1>2, Decodes DEF Revenue, Withdrawers
<1>4. deployerMap \subseteq Accounts \X Contracts
  BY <1>2, <1>3 DEF RevenueInit, DeployerIndex, Registered
<1>5. withdrawerMap \subseteq (Accounts \cup Contracts) \X Contracts
  BY <1>2, <1>3 DEF RevenueInit, WithdrawerIndex, Registered
<1>. QED BY <1>2, <1>4, <1>5 DEF RevenueInit, RevenueInv, RevenueTypeOK, IndexesAgree

\* Storing a registration: the table afterwards.
LEMMA SetTable ==
    ASSUME RevenueTypeOK, NEW c \in Contracts, NEW r \in Revenue, revenues' = SetRevenue(c, r)
    PROVE  /\ DOMAIN revenues' = Registered \cup {c}
           /\ revenues'[c] = r
           /\ \A x \in Registered \ {c} : revenues'[x] = revenues[x]
           /\ Registered' \subseteq Contracts
           /\ \A x \in Registered' : revenues'[x] \in Revenue
  BY DEF SetRevenue, RevenueTypeOK, Registered

\* Registering a contract adds it to the table and to both indexes.
LEMMA RegisterStep ==
    ASSUME RevenueInv, NEW d \in Text(Accounts), NEW c \in Contracts, NEW w \in Withdrawers,
           RegisterRevenue(d, c, w)
    PROVE  RevenueInv'
<1>. PICK a \in Accounts : a = Decoded(d) /\ String(a) \in Text(Accounts) /\ Decoded(String(a)) = a
  BY Decodes
<1>1. PICK e \in Withdrawers : e = Effective(d, w)
  BY Decodes DEF Effective, Withdrawers
<1>2. PICK r \in Revenue : r = [deployer |-> String(a), withdrawer |-> e]
  BY <1>1, Zenon DEF Revenue
<1>3. /\ RevenueTypeOK /\ IndexesAgree /\ c \notin Registered
      /\ revenues' = SetRevenue(c, r) /\ UNCHANGED <<enabled, code>>
      /\ deployerMap' = deployerMap \cup {<<a, c>>}
      /\ withdrawerMap' = SetWithdrawerMap(withdrawerMap, e, c)
  BY <1>1, <1>2 DEF RegisterRevenue, RevenueInv
<1>4. /\ DOMAIN revenues' = Registered \cup {c} /\ revenues'[c] = r
      /\ \A x \in Registered \ {c} : revenues'[x] = revenues[x]
      /\ Registered' \subseteq Contracts /\ \A x \in Registered' : revenues'[x] \in Revenue
  BY <1>3, SetTable, Zenon
<1>5. deployerMap' = DeployerIndex(revenues') /\ withdrawerMap' = WithdrawerIndex(revenues')
  <2>1. PICK s, t : s = revenues /\ t = revenues'
    OBVIOUS
  <2>2. /\ DOMAIN t = DOMAIN s \cup {c} /\ Decoded(t[c].deployer) = a /\ t[c].withdrawer = e
        /\ \A x \in DOMAIN s \ {c} : t[x] = s[x]
        /\ c \notin DOMAIN s
    BY <1>2, <1>3, <1>4, <2>1 DEF Registered
  <2>3. DeployerIndex(t) = DeployerIndex(s) \cup {<<a, c>>}
    BY ONLY <2>2 DEF DeployerIndex
  <2>4. WithdrawerIndex(t) = SetWithdrawerMap(WithdrawerIndex(s), e, c)
    BY ONLY <2>2 DEF WithdrawerIndex, SetWithdrawerMap
  <2>. QED BY <1>3, <2>1, <2>3, <2>4, Zenon DEF IndexesAgree
<1>6. /\ deployerMap' \subseteq Accounts \X Contracts
      /\ withdrawerMap' \subseteq (Accounts \cup Contracts) \X Contracts
  <2>1. e = Default \/ Decoded(e) \in Accounts \cup Contracts
    BY <1>1, Decodes, Zenon DEF Withdrawers
  <2>2. <<a, c>> \in Accounts \X Contracts
    OBVIOUS
  <2>3. e # Default => <<Decoded(e), c>> \in (Accounts \cup Contracts) \X Contracts
    BY <2>1, Zenon
  <2>. QED BY <1>3, <2>2, <2>3, Zenon DEF RevenueTypeOK, SetWithdrawerMap
<1>. QED BY <1>3, <1>4, <1>5, <1>6 DEF RevenueInv, RevenueTypeOK, IndexesAgree

\* Changing the withdrawer replaces one entry of the withdrawer index.
LEMMA UpdateStep ==
    ASSUME RevenueInv, NEW d \in Text(Accounts), NEW c \in Contracts,
           NEW w \in Withdrawers \ {Default}, UpdateRevenue(d, c, w)
    PROVE  RevenueInv'
<1>1. PICK e \in Withdrawers : e = IF w = d THEN Default ELSE w
  BY DEF Withdrawers
<1>2. PICK old : old = revenues[c].withdrawer
  OBVIOUS
<1>3. PICK r : r = [revenues[c] EXCEPT !.withdrawer = e]
  BY Zenon
<1>4. /\ RevenueTypeOK /\ IndexesAgree /\ c \in Registered
      /\ revenues' = SetRevenue(c, r) /\ UNCHANGED <<enabled, code, deployerMap>>
      /\ withdrawerMap' = SetWithdrawerMap(DeleteWithdrawerMap(withdrawerMap, old, c), e, c)
  BY <1>1, <1>2, <1>3 DEF UpdateRevenue, RevenueInv
<1>5. r \in Revenue /\ r.deployer = revenues[c].deployer /\ r.withdrawer = e
  <2>1. revenues[c] \in Revenue
    BY <1>4 DEF RevenueTypeOK
  <2>. QED BY <1>1, <1>3, <2>1 DEF Revenue
<1>6. /\ DOMAIN revenues' = Registered \cup {c} /\ revenues'[c] = r
      /\ \A x \in Registered \ {c} : revenues'[x] = revenues[x]
      /\ Registered' \subseteq Contracts /\ \A x \in Registered' : revenues'[x] \in Revenue
  BY <1>4, <1>5, SetTable, Zenon
<1>7. deployerMap' = DeployerIndex(revenues') /\ withdrawerMap' = WithdrawerIndex(revenues')
  <2>1. PICK s, t : s = revenues /\ t = revenues'
    OBVIOUS
  <2>2. /\ c \in DOMAIN s /\ DOMAIN t = DOMAIN s
        /\ t[c].deployer = s[c].deployer /\ s[c].withdrawer = old /\ t[c].withdrawer = e
        /\ \A x \in DOMAIN s \ {c} : t[x] = s[x]
    BY <1>2, <1>4, <1>5, <1>6, <2>1 DEF Registered
  <2>3. DeployerIndex(t) = DeployerIndex(s)
    BY ONLY <2>2 DEF DeployerIndex
  <2>4. PICK kept : kept = {<<Decoded(s[x].withdrawer), x>> :
                               x \in {y \in DOMAIN s \ {c} : s[y].withdrawer # Default}}
    BY Zenon
  <2>5. DeleteWithdrawerMap(WithdrawerIndex(s), old, c) = kept
    BY ONLY <2>2, <2>4 DEF WithdrawerIndex, DeleteWithdrawerMap
  <2>6. WithdrawerIndex(t) = SetWithdrawerMap(kept, e, c)
    BY ONLY <2>2, <2>4 DEF WithdrawerIndex, SetWithdrawerMap
  <2>. QED BY <1>4, <2>1, <2>3, <2>5, <2>6, Zenon DEF IndexesAgree
<1>8. withdrawerMap' \subseteq (Accounts \cup Contracts) \X Contracts
  <2>1. e = Default \/ Decoded(e) \in Accounts \cup Contracts
    BY <1>1, Decodes, Zenon DEF Withdrawers
  <2>2. e # Default => <<Decoded(e), c>> \in (Accounts \cup Contracts) \X Contracts
    BY <2>1, Zenon
  <2>3. DeleteWithdrawerMap(withdrawerMap, old, c) \subseteq withdrawerMap
    BY Zenon DEF DeleteWithdrawerMap
  <2>. QED BY <1>4, <2>2, <2>3, Zenon DEF RevenueTypeOK, SetWithdrawerMap
<1>. QED BY <1>4, <1>6, <1>7, <1>8 DEF RevenueInv, RevenueTypeOK, IndexesAgree

\* Cancelling removes the contract from the table and from both indexes.
LEMMA CancelStep ==
    ASSUME RevenueInv, NEW d \in Text(Accounts), NEW c \in Contracts, CancelRevenue(d, c)
    PROVE  RevenueInv'
<1>1. /\ RevenueTypeOK /\ IndexesAgree /\ c \in Registered /\ revenues[c].deployer = d
      /\ UNCHANGED <<enabled, code>> /\ revenues' = [x \in Registered \ {c} |-> revenues[x]]
      /\ deployerMap' = deployerMap \ {<<Decoded(d), c>>}
      /\ withdrawerMap' = DeleteWithdrawerMap(withdrawerMap, revenues[c].withdrawer, c)
  BY DEF CancelRevenue, DeleteRevenue, RevenueInv
<1>2. /\ DOMAIN revenues' = Registered \ {c}
      /\ \A x \in Registered \ {c} : revenues'[x] = revenues[x]
  BY <1>1
<1>3. deployerMap' = DeployerIndex(revenues')
  BY <1>1, <1>2 DEF IndexesAgree, DeployerIndex, Registered
<1>4. withdrawerMap' = WithdrawerIndex(revenues')
  <2>1. PICK s, t, old : s = revenues /\ t = revenues' /\ old = revenues[c].withdrawer
    BY Zenon
  <2>2. /\ c \in DOMAIN s /\ s[c].withdrawer = old /\ DOMAIN t = DOMAIN s \ {c}
        /\ \A x \in DOMAIN s \ {c} : t[x] = s[x]
    BY <1>1, <1>2, <2>1, Zenon DEF Registered
  <2>3. WithdrawerIndex(t) = DeleteWithdrawerMap(WithdrawerIndex(s), old, c)
    BY ONLY <2>2 DEF WithdrawerIndex, DeleteWithdrawerMap
  <2>. QED BY <1>1, <2>1, <2>3, Zenon DEF IndexesAgree
<1>5. Registered' \subseteq Contracts /\ \A x \in Registered' : revenues'[x] \in Revenue
  BY <1>1, <1>2 DEF RevenueTypeOK, Registered
<1>6. /\ deployerMap' \subseteq Accounts \X Contracts
      /\ withdrawerMap' \subseteq (Accounts \cup Contracts) \X Contracts
  BY <1>1 DEF RevenueTypeOK, DeleteWithdrawerMap
<1>. QED BY <1>1, <1>3, <1>4, <1>5, <1>6, Zenon DEF RevenueInv, RevenueTypeOK, IndexesAgree

\* Every step keeps the invariant.
LEMMA RevenueNextInv == RevenueInv /\ [RevenueNext]_revenueVars => RevenueInv'
<1>. SUFFICES ASSUME RevenueInv, [RevenueNext]_revenueVars PROVE RevenueInv'
  OBVIOUS
<1>1. ASSUME NEW d \in Text(Accounts), NEW c \in Contracts, NEW w \in Withdrawers,
             RegisterRevenue(d, c, w)
      PROVE  RevenueInv'
  BY <1>1, RegisterStep
<1>2. ASSUME NEW d \in Text(Accounts), NEW c \in Contracts, NEW w \in Withdrawers \ {Default},
             UpdateRevenue(d, c, w)
      PROVE  RevenueInv'
  BY <1>2, UpdateStep
<1>3. ASSUME NEW d \in Text(Accounts), NEW c \in Contracts, CancelRevenue(d, c)
      PROVE  RevenueInv'
  BY <1>3, CancelStep
<1>4. CASE UNCHANGED stores /\ enabled' \in BOOLEAN /\ code' \subseteq Contracts
  BY <1>4 DEF RevenueInv, RevenueTypeOK, IndexesAgree, stores, Registered
<1>5. CASE \E b \in BOOLEAN : UpdateRevenueParams(b)
  BY <1>4, <1>5 DEF UpdateRevenueParams, RevenueInv, RevenueTypeOK
<1>6. CASE \E c \in Contracts : Deploy(c) \/ SelfDestruct(c)
  BY <1>4, <1>6 DEF Deploy, SelfDestruct, RevenueInv, RevenueTypeOK
<1>7. CASE UNCHANGED revenueVars
  BY <1>4, <1>7 DEF revenueVars, RevenueInv, RevenueTypeOK
<1>. QED BY <1>1, <1>2, <1>3, <1>5, <1>6, <1>7 DEF RevenueNext

\* The invariant holds throughout.
LEMMA RevenueInvariance == RevenueSpec => []RevenueInv
  BY RevenueInitInv, RevenueNextInv, PTL DEF RevenueSpec

\* The stores are well typed, in particular no index entry has the empty
\* withdraw address.
THEOREM RevenueTypesHold == RevenueSpec => []RevenueTypeOK
<1>1. RevenueInv => RevenueTypeOK
  BY DEF RevenueInv
<1>. QED BY <1>1, RevenueInvariance, PTL

\* The deployer and the withdrawer index list exactly the registrations, after
\* every sequence of registrations, updates and cancellations.
THEOREM IndexesAreExact == RevenueSpec => []IndexesAgree
<1>1. RevenueInv => IndexesAgree
  BY DEF RevenueInv
<1>. QED BY <1>1, RevenueInvariance, PTL

\* A registration keeps its deployer, who derives the contract's address, and
\* changes only while revenue is enabled.
THEOREM DeployerNeverChanges == RevenueSpec => DeployerFixed
<1>1. RevenueInv /\ [RevenueNext]_revenueVars => [DeployerKept]_revenueVars
  <2>. SUFFICES ASSUME RevenueInv, RevenueNext PROVE DeployerKept
    OBVIOUS
  <2>1. ASSUME NEW d \in Text(Accounts), NEW c \in Contracts, NEW w \in Withdrawers,
               RegisterRevenue(d, c, w)
        PROVE  DeployerKept
    <3>1. PICK a \in Accounts : a = Decoded(d) /\ Decoded(String(a)) = a
      BY Decodes
    <3>. QED BY <2>1, <3>1 DEF RegisterRevenue, SetRevenue, Registered, DeployerKept
  <2>2. ASSUME NEW d \in Text(Accounts), NEW c \in Contracts, NEW w \in Withdrawers \ {Default},
               UpdateRevenue(d, c, w)
        PROVE  DeployerKept
    <3>1. revenues[c] \in Revenue
      BY <2>2 DEF UpdateRevenue, RevenueInv, RevenueTypeOK
    <3>. QED BY <2>2, <3>1 DEF UpdateRevenue, SetRevenue, Registered, DeployerKept, Revenue
  <2>3. ASSUME NEW d \in Text(Accounts), NEW c \in Contracts, CancelRevenue(d, c)
        PROVE  DeployerKept
    BY <2>3 DEF CancelRevenue, DeleteRevenue, Registered, DeployerKept
  <2>4. CASE UNCHANGED stores
    BY <2>4 DEF stores, Registered, DeployerKept
  <2>. QED BY <2>1, <2>2, <2>3, <2>4
           DEF RevenueNext, UpdateRevenueParams, Deploy, SelfDestruct
<1>. QED BY <1>1, RevenueInvariance, PTL DEF RevenueSpec, DeployerFixed

-----------------------------------------------------------------------------
(* Induction *)

\* Induction over the naturals, over a set instead of a predicate.
LEMMA NatSetInduction ==
    ASSUME NEW W, 0 \in W, \A n \in Nat : n \in W => n + 1 \in W
    PROVE  Nat \subseteq W
<1>. DEFINE Bad == Nat \ W
            less == {p \in Nat \X Nat : p[1] < p[2]}
<1>. SUFFICES ASSUME Bad # {} PROVE FALSE
  OBVIOUS
<1>1. IsWellFoundedOn(less, Nat)
  BY NatLessThanWellFounded, Zenon DEF OpToRel
<1>2. \E n \in Bad : \A i \in Bad : ~ (<<i, n>> \in less)
  <2>1. Bad \subseteq Nat
    OBVIOUS
  <2>. HIDE DEF Bad, less
  <2>. QED BY <1>1, <2>1, WFMin, Zenon
<1>3. PICK n \in Bad : \A i \in Bad : ~ (<<i, n>> \in less)
  BY <1>2
<1>4. n # 0 /\ n - 1 \in Nat /\ n - 1 + 1 = n /\ n - 1 < n
  OBVIOUS
<1>5. n - 1 \in W
  BY <1>3, <1>4, Zenon
<1>. QED BY <1>4, <1>5

-----------------------------------------------------------------------------
(* Decimals.                                                                *)

\* A quotient and a remainder.
LEMMA DivMod ==
    ASSUME NEW n \in Nat, NEW m \in Nat, m > 0
    PROVE  /\ n \div m \in Nat /\ n % m \in Nat
           /\ n % m < m /\ n = (n \div m) * m + (n % m)
OBVIOUS

\* Quotients are in the order of their dividends.
LEMMA DivOrder ==
    ASSUME NEW m \in Nat, m > 0, NEW x \in Nat, NEW y \in Nat, x <= y
    PROVE  x \div m <= y \div m
<1>1. PICK q \in Nat, r \in Nat, s \in Nat, t \in Nat :
        /\ q = x \div m /\ r = x % m /\ s = y \div m /\ t = y % m
        /\ x = q * m + r /\ r < m /\ y = s * m + t /\ t < m
  BY DivMod
<1>2. ASSUME s < q PROVE FALSE
  <2>1. (s + 1) * m <= q * m /\ (s + 1) * m = s * m + m
    BY <1>2
  <2>. QED BY <1>1, <2>1
<1>. QED BY <1>1, <1>2

\* Rounding moves a quotient by at most one.
LEMMA RoundNat ==
    ASSUME NEW n \in Nat, NEW m \in Nat, m > 0
    PROVE  /\ RoundHalfEven(n, m) \in Nat
           /\ RoundHalfEven(n, m) = n \div m \/ RoundHalfEven(n, m) = n \div m + 1
BY DivMod DEF RoundHalfEven

\* A multiple needs no rounding.
LEMMA RoundExact ==
    ASSUME NEW k \in Nat, NEW m \in Nat, m > 0
    PROVE  RoundHalfEven(k * m, m) = k
<1>1. (k * m) \div m = k /\ (k * m) % m = 0
  OBVIOUS
<1>. QED BY <1>1 DEF RoundHalfEven

\* Rounding keeps the order.
LEMMA RoundOrder ==
    ASSUME NEW m \in Nat, m > 0, NEW x \in Nat, NEW y \in Nat, x <= y
    PROVE  RoundHalfEven(x, m) <= RoundHalfEven(y, m)
<1>1. PICK q \in Nat, r \in Nat, s \in Nat, t \in Nat :
        /\ q = x \div m /\ r = x % m /\ s = y \div m /\ t = y % m
        /\ x = q * m + r /\ r < m /\ y = s * m + t /\ t < m
  BY DivMod
<1>2. q <= s
  BY <1>1, DivOrder
<1>3. PICK u \in Nat, v \in Nat :
        /\ u = RoundHalfEven(x, m) /\ (u = q \/ u = q + 1)
        /\ v = RoundHalfEven(y, m) /\ (v = s \/ v = s + 1)
  <2>1. /\ RoundHalfEven(x, m) \in Nat
        /\ RoundHalfEven(x, m) = q \/ RoundHalfEven(x, m) = q + 1
    BY <1>1, RoundNat, Zenon
  <2>2. /\ RoundHalfEven(y, m) \in Nat
        /\ RoundHalfEven(y, m) = s \/ RoundHalfEven(y, m) = s + 1
    BY <1>1, RoundNat, Zenon
  <2>. QED BY <2>1, <2>2, Zenon
<1>4. CASE q = s
  <2>1. r <= t
    BY <1>1, <1>4
  <2>2. /\ u = IF 2 * r < m \/ (2 * r = m /\ q % 2 = 0) THEN q ELSE q + 1
        /\ v = IF 2 * t < m \/ (2 * t = m /\ q % 2 = 0) THEN q ELSE q + 1
    BY <1>1, <1>3, <1>4 DEF RoundHalfEven
  <2>. QED BY <1>3, <2>1, <2>2
<1>5. CASE q # s
  BY <1>2, <1>3, <1>5
<1>. QED BY <1>4, <1>5

\* The scale of the decimals is positive.
LEMMA OnePositive == One \in Nat /\ One > 0
BY OneAssumption

\* Products of naturals are in the order of their factors.
LEMMA TimesOrder ==
    ASSUME NEW a \in Nat, NEW b \in Nat, NEW c \in Nat, NEW d \in Nat, a <= c, b <= d
    PROVE  a * b \in Nat /\ c * d \in Nat /\ a * b <= c * d
<1>1. a * b <= c * b /\ c * b <= c * d
  OBVIOUS
<1>. QED BY <1>1

\* A product of decimals is a decimal, in the order of its factors.
LEMMA MulOrder ==
    ASSUME NEW a \in Nat, NEW b \in Nat, NEW c \in Nat, NEW d \in Nat, a <= c, b <= d
    PROVE  DecMul(a, b) \in Nat /\ DecMul(c, d) \in Nat /\ DecMul(a, b) <= DecMul(c, d)
<1>1. PICK x \in Nat, y \in Nat : x = a * b /\ y = c * d /\ x <= y
  BY TimesOrder
<1>2. RoundHalfEven(x, One) \in Nat /\ RoundHalfEven(y, One) \in Nat
      /\ RoundHalfEven(x, One) <= RoundHalfEven(y, One)
  BY <1>1, OnePositive, RoundNat, RoundOrder, Zenon
<1>. QED BY <1>1, <1>2, Zenon DEF DecMul

\* Multiplying by a whole number is exact.
LEMMA MulWhole ==
    ASSUME NEW a \in Nat, NEW n \in Nat
    PROVE  DecMul(a, NewDec(n)) = a * n
<1>1. PICK k \in Nat : k = a * n /\ a * (n * One) = k * One
  BY OnePositive
<1>2. RoundHalfEven(k * One, One) = k
  BY OnePositive, RoundExact
<1>. QED BY <1>1, <1>2, Zenon DEF DecMul, NewDec

\* A share of at most 1.0 takes at most the whole.
LEMMA MulShare ==
    ASSUME NEW a \in Nat, NEW s \in 0 .. One
    PROVE  DecMul(a, s) \in 0 .. a
<1>1. s \in Nat /\ s <= One /\ One \in Nat /\ a <= a
  BY OnePositive
<1>2. DecMul(a, s) \in Nat /\ DecMul(a, s) <= DecMul(a, One)
  BY <1>1, MulOrder
<1>3. DecMul(a, One) = a
  BY OnePositive, RoundExact, Zenon DEF DecMul
<1>. QED BY <1>2, <1>3

\* A quotient is a decimal, in the order of its dividend.
LEMMA QuoOrder ==
    ASSUME NEW a \in Nat, NEW b \in Nat, a <= b, NEW m \in Nat, m > 0
    PROVE  DecQuo(a, m) \in Nat /\ DecQuo(b, m) \in Nat /\ DecQuo(a, m) <= DecQuo(b, m)
<1>1. PICK x \in Nat, y \in Nat : x = a * One * One /\ y = b * One * One /\ x <= y
  <2>1. a * One \in Nat /\ b * One \in Nat /\ a * One <= b * One
    BY OnePositive, TimesOrder
  <2>2. a * One * One \in Nat /\ b * One * One \in Nat /\ a * One * One <= b * One * One
    BY <2>1, OnePositive, TimesOrder
  <2>. QED BY <2>2, Zenon
<1>2. PICK q \in Nat, s \in Nat : q = x \div m /\ s = y \div m /\ q <= s
  BY <1>1, DivMod, DivOrder
<1>3. RoundHalfEven(q, One) \in Nat /\ RoundHalfEven(s, One) \in Nat
      /\ RoundHalfEven(q, One) <= RoundHalfEven(s, One)
  BY <1>2, OnePositive, RoundNat, RoundOrder
<1>. QED BY <1>1, <1>2, <1>3, Zenon DEF DecQuo

\* A part of a whole is at most 1.0.
LEMMA QuoShare ==
    ASSUME NEW m \in Nat, m > 0, NEW a \in 0 .. m
    PROVE  DecQuo(a, m) \in 0 .. One
<1>1. DecQuo(a, m) \in Nat /\ DecQuo(a, m) <= DecQuo(m, m)
  BY QuoOrder
<1>2. DecQuo(m, m) = One
  <2>1. PICK w \in Nat : w = One * One /\ m * One * One = w * m
    BY OnePositive
  <2>2. (w * m) \div m = w
    OBVIOUS
  <2>3. RoundHalfEven(One * One, One) = One
    BY OnePositive, RoundExact
  <2>. QED BY <2>1, <2>2, <2>3, Zenon DEF DecQuo
<1>. QED BY <1>1, <1>2

-----------------------------------------------------------------------------
(* The power loop.                                                          *)

\* One round of the loop, over what is left of it.
PowerRound(rest, i) ==
    [d \in Nat |-> [tmp \in Nat |->
        IF i <= 1 THEN DecMul(d, tmp)
        ELSE rest[DecMul(d, d)][IF i % 2 = 1 THEN DecMul(tmp, d) ELSE tmp]]]

\* The loop for counters up to n.
IsPower(g, n) == g = [i \in 0 .. n |-> PowerRound(g[i \div 2], i)]

\* The counter shrinks, and the last round needs nothing after it.
LEMMA Halved ==
    ASSUME NEW i \in Nat, i > 1
    PROVE  i \div 2 \in 0 .. i - 1
OBVIOUS

\* The last round of Power asks for no other round.
LEMMA LastRound ==
    ASSUME NEW i \in Nat, i <= 1, NEW r, NEW s
    PROVE  PowerRound(r, i) = PowerRound(s, i)
BY DEF PowerRound

\* Tables of the loop exist for all counters up to n.
LEMMA PowerExists ==
    ASSUME NEW n \in Nat
    PROVE  \E g : IsPower(g, n)
<1>. DEFINE W == {k \in Nat : \E g : IsPower(g, k)}
<1>1. 0 \in W
  <2>1. PICK g : g = [i \in 0 .. 0 |-> PowerRound(0, i)]
    BY Zenon
  <2>2. ASSUME NEW i \in 0 .. 0 PROVE PowerRound(0, i) = PowerRound(g[i \div 2], i)
    BY LastRound
  <2>3. IsPower(g, 0)
    BY <2>1, <2>2 DEF IsPower
  <2>. QED BY <2>3
<1>2. ASSUME NEW k \in Nat, k \in W PROVE k + 1 \in W
  <2>1. PICK g : IsPower(g, k)
    BY <1>2
  <2>2. PICK h : h = [i \in 0 .. k + 1 |-> PowerRound(g[i \div 2], i)]
    BY Zenon
  <2>3. ASSUME NEW i \in 0 .. k PROVE h[i] = g[i]
    BY <2>1, <2>2 DEF IsPower
  <2>4. ASSUME NEW i \in 0 .. k + 1
        PROVE  PowerRound(h[i \div 2], i) = PowerRound(g[i \div 2], i)
    <3>1. CASE i <= 1
      BY <3>1, LastRound
    <3>2. CASE i > 1
      <4>1. i \div 2 \in 0 .. k
        BY <3>2, Halved
      <4>. QED BY <2>3, <4>1, Zenon
    <3>. QED BY <3>1, <3>2
  <2>5. IsPower(h, k + 1)
    BY <2>2, <2>4 DEF IsPower
  <2>. QED BY <2>5
<1>3. Nat \subseteq W
  <2>. HIDE DEF W
  <2>. QED BY <1>1, <1>2, NatSetInduction
<1>. QED BY <1>3

\* Two loops agree where both are defined.
LEMMA PowerAgrees ==
    ASSUME NEW n \in Nat, NEW m \in Nat, NEW g, IsPower(g, n), NEW h, IsPower(h, m),
           NEW i \in Nat, i <= n, i <= m
    PROVE  g[i] = h[i]
<1>. DEFINE W == {k \in Nat : \A j \in 0 .. k : j <= n /\ j <= m => g[j] = h[j]}
<1>1. ASSUME NEW j \in Nat, j <= n, j <= m, j > 1 => g[j \div 2] = h[j \div 2]
      PROVE  g[j] = h[j]
  <2>1. g[j] = PowerRound(g[j \div 2], j) /\ h[j] = PowerRound(h[j \div 2], j)
    BY <1>1 DEF IsPower
  <2>2. PowerRound(g[j \div 2], j) = PowerRound(h[j \div 2], j)
    <3>1. CASE j <= 1
      BY <3>1, LastRound
    <3>2. CASE j > 1
      BY <1>1, <3>2, Zenon
    <3>. QED BY <3>1, <3>2
  <2>. QED BY <2>1, <2>2, Zenon
<1>2. 0 \in W
  BY <1>1
<1>3. ASSUME NEW k \in Nat, k \in W PROVE k + 1 \in W
  <2>1. ASSUME NEW j \in 0 .. k + 1, j <= n, j <= m PROVE g[j] = h[j]
    <3>1. ASSUME j > 1 PROVE g[j \div 2] = h[j \div 2]
      <4>1. j \div 2 \in 0 .. j - 1
        BY <3>1, Halved
      <4>2. j \div 2 \in 0 .. k /\ j \div 2 <= n /\ j \div 2 <= m
        BY <2>1, <4>1
      <4>. QED BY <1>3, <4>2
    <3>. QED BY <1>1, <2>1, <3>1
  <2>. QED BY <2>1
<1>4. Nat \subseteq W
  <2>. HIDE DEF W
  <2>. QED BY <1>2, <1>3, NatSetInduction
<1>. QED BY <1>4

\* The recursive definition has its meaning: a loop is a round and the rest.
LEMMA PowerUnfold ==
    ASSUME NEW i \in Nat
    PROVE  PowerLoop[i] = PowerRound(PowerLoop[i \div 2], i)
<1>. DEFINE IsLoop(f) == f = [k \in Nat |-> PowerRound(f[k \div 2], k)]
            part(k) == CHOOSE g : IsPower(g, k)
<1>1. PICK f : f = [k \in Nat |-> part(k)[k]]
  BY Zenon
<1>2. ASSUME NEW k \in Nat PROVE IsPower(part(k), k)
  BY PowerExists, Zenon
<1>. HIDE DEF part
<1>3. ASSUME NEW k \in Nat PROVE f[k] = PowerRound(f[k \div 2], k)
  <2>1. f[k] = part(k)[k]
    BY <1>1
  <2>2. part(k)[k] = PowerRound(part(k)[k \div 2], k)
    BY <1>2 DEF IsPower
  <2>3. CASE k <= 1
    BY <2>1, <2>2, <2>3, LastRound
  <2>4. CASE k > 1
    <3>1. PICK j \in Nat : j = k \div 2 /\ j <= k
      BY <2>4, Halved
    <3>2. part(k)[j] = part(j)[j] /\ f[j] = part(j)[j]
      BY <1>1, <1>2, <3>1, PowerAgrees
    <3>. QED BY <2>1, <2>2, <3>1, <3>2, Zenon
  <2>. QED BY <2>3, <2>4
<1>4. IsLoop(f)
  <2>1. f = [k \in Nat |-> f[k]]
    BY <1>1
  <2>. QED BY <1>3, <2>1
<1>5. PowerLoop = CHOOSE f0 : IsLoop(f0)
  BY Zenon DEF PowerLoop, PowerRound
<1>6. IsLoop(PowerLoop)
  BY <1>4, <1>5, Zenon
<1>. QED BY <1>6

\* One round of the loop, applied: the last one, an odd one and an even one.
LEMMA PowerLast ==
    ASSUME NEW i \in Nat, i <= 1, NEW d \in Nat, NEW t \in Nat
    PROVE  PowerLoop[i][d][t] = DecMul(d, t)
<1>1. PICK rest : PowerLoop[i] = PowerRound(rest, i)
  BY PowerUnfold, Zenon
<1>2. PowerRound(rest, i)[d][t] = DecMul(d, t)
  BY Zenon DEF PowerRound
<1>. QED BY <1>1, <1>2, Zenon

\* An odd round multiplies the base into tmp and squares it.
LEMMA PowerOdd ==
    ASSUME NEW i \in Nat, i > 1, i % 2 = 1, NEW d \in Nat, NEW t \in Nat
    PROVE  PowerLoop[i][d][t] = PowerLoop[i \div 2][DecMul(d, d)][DecMul(t, d)]
<1>1. PICK rest : rest = PowerLoop[i \div 2] /\ PowerLoop[i] = PowerRound(rest, i)
  BY PowerUnfold, Zenon
<1>2. ~(i <= 1)
  OBVIOUS
<1>3. PowerRound(rest, i)[d][t] = rest[DecMul(d, d)][DecMul(t, d)]
  BY <1>2, Zenon DEF PowerRound
<1>. QED BY <1>1, <1>3, Zenon

\* An even round only squares the base.
LEMMA PowerEven ==
    ASSUME NEW i \in Nat, i > 1, i % 2 = 0, NEW d \in Nat, NEW t \in Nat
    PROVE  PowerLoop[i][d][t] = PowerLoop[i \div 2][DecMul(d, d)][t]
<1>1. PICK rest : rest = PowerLoop[i \div 2] /\ PowerLoop[i] = PowerRound(rest, i)
  BY PowerUnfold, Zenon
<1>2. ~(i <= 1) /\ i % 2 # 1
  OBVIOUS
<1>3. PowerRound(rest, i)[d][t] = rest[DecMul(d, d)][t]
  BY <1>2, Zenon DEF PowerRound
<1>. QED BY <1>1, <1>3, Zenon

\* A power of a decimal of at most 1.0 is one, whatever is rounded on the way.
LEMMA PowerShare ==
    ASSUME NEW d \in 0 .. One, NEW n \in Nat
    PROVE  DecPower(d, n) \in 0 .. One
<1>. DEFINE Share == 0 .. One
            W == {k \in Nat : \A i \in 0 .. k : \A e \in Share, t \in Share : PowerLoop[i][e][t] \in Share}
<1>1. /\ One \in Share /\ Share \subseteq Nat
      /\ \A e \in Share, t \in Share : DecMul(e, t) \in Share
  <2>1. One \in Share /\ Share \subseteq Nat
    BY OnePositive
  <2>2. ASSUME NEW e \in Share, NEW t \in Share PROVE DecMul(e, t) \in Share
    <3>1. e \in Nat /\ e <= One /\ DecMul(e, t) \in 0 .. e
      BY MulShare
    <3>. QED BY <3>1, OnePositive
  <2>. QED BY <2>1, <2>2
<1>. HIDE DEF Share
<1>2. ASSUME NEW i \in Nat, NEW e \in Share, NEW t \in Share,
             i > 1 => \A x \in Share, y \in Share : PowerLoop[i \div 2][x][y] \in Share
      PROVE  PowerLoop[i][e][t] \in Share
  <2>1. e \in Nat /\ t \in Nat
    BY <1>1
  <2>2. PICK x \in Share, y \in Share : x = DecMul(e, e) /\ y = DecMul(t, e)
    BY <1>1, Zenon
  <2>3. CASE i <= 1
    BY <1>1, <2>1, <2>3, PowerLast
  <2>4. CASE i > 1 /\ i % 2 = 1
    BY <1>2, <2>1, <2>2, <2>4, PowerOdd
  <2>5. CASE i > 1 /\ i % 2 = 0
    BY <1>2, <2>1, <2>2, <2>5, PowerEven
  <2>. QED BY <2>3, <2>4, <2>5
<1>3. 0 \in W
  BY <1>2
<1>4. ASSUME NEW k \in Nat, k \in W PROVE k + 1 \in W
  <2>1. ASSUME NEW i \in 0 .. k + 1, NEW e \in Share, NEW t \in Share
        PROVE  PowerLoop[i][e][t] \in Share
    <3>1. i > 1 => i \div 2 \in 0 .. k
      BY Halved
    <3>. QED BY <1>2, <1>4, <3>1
  <2>. QED BY <2>1
<1>5. n \in W
  <2>. HIDE DEF W
  <2>. QED BY <1>3, <1>4, NatSetInduction
<1>6. PowerLoop[n][d][One] \in Share
  <2>1. d \in Share /\ n \in 0 .. n
    BY DEF Share
  <2>. QED BY <1>1, <1>5, <2>1, Zenon
<1>. QED BY <1>1, <1>6, Zenon DEF DecPower, Share

\* A loop that starts from a larger product ends at one that is no smaller.
LEMMA PowerOrder ==
    ASSUME NEW n \in Nat, NEW d \in Nat, NEW s \in Nat, NEW t \in Nat, s <= t
    PROVE  PowerLoop[n][d][s] <= PowerLoop[n][d][t]
<1>. DEFINE Ordered(i) == \A e \in Nat, x \in Nat, y \in Nat :
                              x <= y => PowerLoop[i][e][x] <= PowerLoop[i][e][y]
            W == {k \in Nat : \A i \in 0 .. k : Ordered(i)}
<1>1. ASSUME NEW i \in Nat, i > 1 => Ordered(i \div 2) PROVE Ordered(i)
  <2>. SUFFICES ASSUME NEW e \in Nat, NEW x \in Nat, NEW y \in Nat, x <= y
                PROVE  PowerLoop[i][e][x] <= PowerLoop[i][e][y]
    OBVIOUS
  <2>. HIDE DEF Ordered
  <2>1. e <= e /\ x <= x
    OBVIOUS
  <2>2. PICK f \in Nat, u \in Nat, v \in Nat :
          f = DecMul(e, e) /\ u = DecMul(x, e) /\ v = DecMul(y, e) /\ u <= v
    <3>1. DecMul(e, e) \in Nat /\ DecMul(x, e) \in Nat /\ DecMul(y, e) \in Nat
          /\ DecMul(x, e) <= DecMul(y, e)
      BY <2>1, MulOrder
    <3>. QED BY <3>1, Zenon
  <2>3. DecMul(e, x) <= DecMul(e, y)
    BY <2>1, MulOrder
  <2>4. CASE i <= 1
    BY <2>3, <2>4, PowerLast
  <2>5. CASE i > 1 /\ i % 2 = 1
    <3>1. PowerLoop[i][e][x] = PowerLoop[i \div 2][f][u]
      BY <2>2, <2>5, PowerOdd
    <3>3. PowerLoop[i][e][y] = PowerLoop[i \div 2][f][v]
      BY <2>2, <2>5, PowerOdd
    <3>2. PowerLoop[i \div 2][f][u] <= PowerLoop[i \div 2][f][v]
      BY <1>1, <2>2, <2>5, Zenon DEF Ordered
    <3>. QED BY <3>1, <3>2, <3>3, Zenon
  <2>6. CASE i > 1 /\ i % 2 = 0
    <3>1. PowerLoop[i][e][x] = PowerLoop[i \div 2][f][x]
      BY <2>2, <2>6, PowerEven
    <3>3. PowerLoop[i][e][y] = PowerLoop[i \div 2][f][y]
      BY <2>2, <2>6, PowerEven
    <3>2. PowerLoop[i \div 2][f][x] <= PowerLoop[i \div 2][f][y]
      BY <1>1, <2>2, <2>6, Zenon DEF Ordered
    <3>. QED BY <3>1, <3>2, <3>3, Zenon
  <2>. QED BY <2>4, <2>5, <2>6
<1>. HIDE DEF Ordered
<1>2. 0 \in W
  BY <1>1
<1>3. ASSUME NEW k \in Nat, k \in W PROVE k + 1 \in W
  <2>1. ASSUME NEW i \in 0 .. k + 1 PROVE Ordered(i)
    <3>1. i > 1 => i \div 2 \in 0 .. k
      BY Halved
    <3>. QED BY <1>1, <1>3, <3>1
  <2>. QED BY <2>1
<1>4. n \in W
  <2>. HIDE DEF W
  <2>. QED BY <1>2, <1>3, NatSetInduction
<1>5. n \in 0 .. n
  OBVIOUS
<1>. QED BY <1>4, <1>5, Zenon DEF Ordered

\* Counting one more never gives more: the loop for n has gathered a product
\* of at least its base where the loop for n + 1 has gathered nothing.
LEMMA PowerFalls ==
    ASSUME NEW n \in Nat, n >= 1, NEW d \in 0 .. One, NEW t \in 0 .. One, d <= t
    PROVE  PowerLoop[n + 1][d][One] <= PowerLoop[n][d][t]
<1>. DEFINE Share == 0 .. One
            Falls(i) == \A e \in Share, x \in Share :
                            e <= x => PowerLoop[i + 1][e][One] <= PowerLoop[i][e][x]
            W == {k \in Nat : \A i \in 1 .. k : Falls(i)}
<1>1. /\ One \in Nat /\ One \in Share /\ Share \subseteq Nat
      /\ \A e \in Share, x \in Share : DecMul(e, x) \in Share
      /\ \A e \in Share : DecMul(One, e) = e /\ DecMul(e, One) = e
  <2>1. One \in Nat /\ One \in Share /\ Share \subseteq Nat
    BY OnePositive
  <2>2. ASSUME NEW e \in Share, NEW x \in Share PROVE DecMul(e, x) \in Share
    <3>1. e \in Nat /\ e <= One /\ DecMul(e, x) \in 0 .. e
      BY MulShare
    <3>. QED BY <3>1, OnePositive
  <2>3. ASSUME NEW e \in Share PROVE DecMul(One, e) = e /\ DecMul(e, One) = e
    <3>1. e \in Nat /\ One * e = e * One
      BY OnePositive
    <3>2. RoundHalfEven(e * One, One) = e
      BY <3>1, OnePositive, RoundExact, Zenon
    <3>. QED BY <3>1, <3>2, Zenon DEF DecMul
  <2>. QED BY <2>1, <2>2, <2>3, Zenon
<1>. HIDE DEF Share
<1>2. ASSUME NEW i \in Nat, i >= 1, i > 1 => Falls(i \div 2) PROVE Falls(i)
  <2>. SUFFICES ASSUME NEW e \in Share, NEW x \in Share, e <= x
                PROVE  PowerLoop[i + 1][e][One] <= PowerLoop[i][e][x]
    OBVIOUS
  <2>. HIDE DEF Falls
  <2>0. e \in Nat /\ x \in Nat /\ e <= e /\ i + 1 \in Nat /\ i + 1 > 1
    BY <1>1, <1>2
  <2>1. PICK f \in Share, u \in Share : f = DecMul(e, e) /\ u = DecMul(x, e)
    BY <1>1, Zenon
  <2>2. f \in Nat /\ f <= u
    BY <1>1, <2>0, <2>1, MulOrder
  <2>3. CASE i = 1
    <3>0. 1 \in Nat /\ 1 <= 1 /\ 2 \in Nat /\ 2 > 1 /\ 2 % 2 = 0 /\ 2 \div 2 = 1
      OBVIOUS
    <3>1. PowerLoop[1][e][x] = DecMul(e, x)
      BY <2>0, <3>0, PowerLast
    <3>2. PowerLoop[2][e][One] = f
      <4>1. PowerLoop[2][e][One] = PowerLoop[1][f][One]
        BY <1>1, <2>0, <2>1, <3>0, PowerEven
      <4>2. PowerLoop[1][f][One] = DecMul(f, One)
        BY <1>1, <2>2, <3>0, PowerLast
      <4>. QED BY <1>1, <4>1, <4>2, Zenon
    <3>3. DecMul(e, e) <= DecMul(e, x)
      BY <2>0, MulOrder
    <3>4. 1 + 1 = 2
      OBVIOUS
    <3>. QED BY <2>1, <2>3, <3>1, <3>2, <3>3, <3>4, Zenon
  <2>4. CASE i > 1 /\ i % 2 = 0
    <3>1. PICK h \in Nat : h = i \div 2 /\ h = (i + 1) \div 2 /\ (i + 1) % 2 = 1
      BY <2>4
    <3>2. PowerLoop[i + 1][e][One] = PowerLoop[h][f][e]
      BY <1>1, <2>0, <2>1, <3>1, PowerOdd
    <3>3. PowerLoop[i][e][x] = PowerLoop[h][f][x]
      BY <2>0, <2>1, <2>4, <3>1, PowerEven
    <3>. QED BY <2>0, <2>2, <3>2, <3>3, PowerOrder, Zenon
  <2>5. CASE i > 1 /\ i % 2 = 1
    <3>1. PICK h \in Nat : h = i \div 2 /\ h + 1 = (i + 1) \div 2 /\ (i + 1) % 2 = 0 /\ h >= 1
      BY <2>5
    <3>2. PowerLoop[i + 1][e][One] = PowerLoop[h + 1][f][One]
      BY <1>1, <2>0, <2>1, <3>1, PowerEven
    <3>3. PowerLoop[i][e][x] = PowerLoop[h][f][u]
      BY <2>0, <2>1, <2>5, <3>1, PowerOdd
    <3>4. Falls(h)
      BY <1>2, <2>5, <3>1, Zenon
    <3>. QED BY <2>2, <3>2, <3>3, <3>4, Zenon DEF Falls
  <2>6. i = 1 \/ (i > 1 /\ i % 2 = 0) \/ (i > 1 /\ i % 2 = 1)
    BY <1>2
  <2>. QED BY <2>3, <2>4, <2>5, <2>6, Zenon
<1>. HIDE DEF Falls
<1>3. 0 \in W
  OBVIOUS
<1>4. ASSUME NEW k \in Nat, k \in W PROVE k + 1 \in W
  <2>1. ASSUME NEW i \in 1 .. k + 1 PROVE Falls(i)
    <3>1. i > 1 => i \div 2 \in 1 .. k
      <4>1. ASSUME i > 1 PROVE i \div 2 \in 1 .. k
        BY <4>1
      <4>. QED BY <4>1
    <3>. QED BY <1>2, <1>4, <3>1
  <2>. QED BY <2>1
<1>5. n \in W
  <2>. HIDE DEF W
  <2>. QED BY <1>3, <1>4, NatSetInduction
<1>6. n \in 1 .. n
  OBVIOUS
<1>7. d \in Share /\ t \in Share
  BY DEF Share
<1>. QED BY <1>5, <1>6, <1>7, Zenon DEF Falls

\* The power never grows with its exponent, whatever is rounded on the way.
LEMMA PowerDecays ==
    ASSUME NEW d \in 0 .. One, NEW n \in Nat
    PROVE  DecPower(d, n + 1) <= DecPower(d, n)
<1>1. One \in 0 .. One /\ d <= One /\ n + 1 \in Nat /\ n + 1 # 0
  BY OnePositive
<1>2. CASE n = 0
  <2>1. DecPower(d, n) = One
    BY <1>2, Zenon DEF DecPower
  <2>. QED BY <1>1, <2>1, PowerShare
<1>3. CASE n # 0
  <2>1. n >= 1
    BY <1>3
  <2>2. PowerLoop[n + 1][d][One] <= PowerLoop[n][d][One]
    BY <1>1, <2>1, PowerFalls, Zenon
  <2>. QED BY <1>1, <1>3, <2>2, Zenon DEF DecPower
<1>. QED BY <1>2, <1>3

\* Nor with any number of periods.
LEMMA PowerDecaysOn ==
    ASSUME NEW d \in 0 .. One, NEW n \in Nat, NEW m \in Nat, n <= m
    PROVE  DecPower(d, m) <= DecPower(d, n)
<1>. DEFINE W == {k \in Nat : DecPower(d, n + k) <= DecPower(d, n)}
<1>1. \A k \in Nat : DecPower(d, k) \in Nat
  BY PowerShare
<1>2. 0 \in W
  <2>1. n + 0 = n
    OBVIOUS
  <2>2. DecPower(d, n) <= DecPower(d, n)
    BY <1>1
  <2>. QED BY <2>1, <2>2
<1>3. ASSUME NEW k \in Nat, k \in W PROVE k + 1 \in W
  <2>1. PICK j \in Nat : j = n + k /\ j + 1 = n + (k + 1)
    OBVIOUS
  <2>2. DecPower(d, j + 1) <= DecPower(d, j) /\ DecPower(d, j) <= DecPower(d, n)
    BY <1>3, <2>1, PowerDecays
  <2>3. DecPower(d, j + 1) <= DecPower(d, n)
    BY <1>1, <2>2
  <2>. QED BY <2>1, <2>3
<1>4. Nat \subseteq W
  <2>. HIDE DEF W
  <2>. QED BY <1>2, <1>3, NatSetInduction
<1>5. m - n \in Nat /\ n + (m - n) = m
  OBVIOUS
<1>. QED BY <1>4, <1>5

-----------------------------------------------------------------------------
(* The curve.                                                               *)

\* The share of its full size that the incentive of a bonded ratio loses.
Bonded(calc, ratio) ==
    DecMul(calc.maxVariance,
           DecQuo(IF ratio >= calc.bondingTarget THEN calc.bondingTarget ELSE ratio, calc.bondingTarget))

\* A period's total before it is divided among the epochs.
PeriodTotal(calc, per, ratio) ==
    DecMul(DecMul(calc.a, DecPower(One - calc.r, per)), One + calc.maxVariance - Bonded(calc, ratio)) + calc.c

\* The ranges of the parameters that validateExponentialCalculation leaves.
LEMMA CalculationFields ==
    ASSUME NEW calc \in Calculation
    PROVE  /\ calc.a \in Nat /\ calc.c \in Nat /\ calc.maxVariance \in Nat
           /\ calc.r \in 0 .. One /\ calc.bondingTarget \in 1 .. One
BY DEF Calculation

\* What an epoch mints of a total, in base units and in the order of totals.
LEMMA PerEpochOrder ==
    ASSUME NEW x \in Nat, NEW y \in Nat, x <= y
    PROVE  /\ \E q \in Nat : PerEpoch(x) = q * One
           /\ PerEpoch(x) \in Nat /\ PerEpoch(y) \in Nat /\ PerEpoch(x) <= PerEpoch(y)
<1>1. PICK f \in Nat, e \in Nat : f = NewDec(ReductionFactor) /\ e = NewDec(EpochsPerPeriod) /\ f > 0 /\ e > 0
  <2>1. 3 * One \in Nat /\ 3 * One > 0
    BY OnePositive
  <2>2. EpochsPerPeriod * One \in Nat /\ EpochsPerPeriod * One > 0
    BY OnePositive, PeriodAssumption
  <2>. QED BY <2>1, <2>2, Zenon DEF NewDec, ReductionFactor
<1>2. PICK u \in Nat, v \in Nat : u = DecQuo(x, f) /\ v = DecQuo(y, f) /\ u <= v
  <2>1. DecQuo(x, f) \in Nat /\ DecQuo(y, f) \in Nat /\ DecQuo(x, f) <= DecQuo(y, f)
    BY <1>1, QuoOrder, Zenon
  <2>. QED BY <2>1, Zenon
<1>3. PICK p \in Nat, q \in Nat : p = DecQuo(u, e) /\ q = DecQuo(v, e) /\ p <= q
  <2>1. DecQuo(u, e) \in Nat /\ DecQuo(v, e) \in Nat /\ DecQuo(u, e) <= DecQuo(v, e)
    BY <1>1, <1>2, QuoOrder, Zenon
  <2>. QED BY <2>1, Zenon
<1>4. p * One \in Nat /\ q * One \in Nat /\ p * One <= q * One
  BY <1>3, OnePositive, TimesOrder
<1>5. PerEpoch(x) = p * One /\ PerEpoch(y) = q * One
  BY <1>1, <1>2, <1>3, Zenon DEF PerEpoch
<1>. QED BY <1>4, <1>5, Zenon

\* The incentive loses at most its variance.
LEMMA BondedBounds ==
    ASSUME NEW calc \in Calculation, NEW ratio \in Nat
    PROVE  Bonded(calc, ratio) \in 0 .. calc.maxVariance
<1>1. PICK m \in Nat, t \in Nat : m = calc.maxVariance /\ t = calc.bondingTarget /\ t > 0
  BY CalculationFields, OnePositive
<1>2. PICK b \in 0 .. t : b = IF ratio >= t THEN t ELSE ratio
  OBVIOUS
<1>3. DecQuo(b, t) \in 0 .. One
  BY <1>1, QuoShare, Zenon
<1>4. DecMul(m, DecQuo(b, t)) \in 0 .. m
  BY <1>3, MulShare, Zenon
<1>. QED BY <1>1, <1>2, <1>4, Zenon DEF Bonded

\* It loses more as more is bonded, up to the target.
LEMMA BondedOrder ==
    ASSUME NEW calc \in Calculation, NEW ratio \in Nat, NEW higher \in Nat, ratio <= higher
    PROVE  /\ Bonded(calc, ratio) <= Bonded(calc, higher)
           /\ ratio >= calc.bondingTarget => Bonded(calc, ratio) = Bonded(calc, higher)
<1>1. PICK m \in Nat, t \in Nat : m = calc.maxVariance /\ t = calc.bondingTarget /\ t > 0
  BY CalculationFields, OnePositive
<1>2. PICK b \in Nat, c \in Nat :
        /\ b = IF ratio >= t THEN t ELSE ratio
        /\ c = IF higher >= t THEN t ELSE higher
        /\ b <= c /\ (ratio >= t => b = c) /\ m <= m
  OBVIOUS
<1>3. PICK x \in Nat, y \in Nat : x = DecQuo(b, t) /\ y = DecQuo(c, t) /\ x <= y
  <2>1. DecQuo(b, t) \in Nat /\ DecQuo(c, t) \in Nat /\ DecQuo(b, t) <= DecQuo(c, t)
    BY <1>1, <1>2, QuoOrder, Zenon
  <2>. QED BY <2>1, Zenon
<1>4. DecMul(m, x) <= DecMul(m, y)
  BY <1>2, <1>3, MulOrder, Zenon
<1>5. Bonded(calc, ratio) = DecMul(m, x) /\ Bonded(calc, higher) = DecMul(m, y)
  BY <1>1, <1>2, <1>3, Zenon DEF Bonded
<1>6. ratio >= calc.bondingTarget => x = y
  BY <1>1, <1>2, <1>3, Zenon
<1>. QED BY <1>4, <1>5, <1>6, Zenon

\* The total of a period lies between the long-term rate and the full rate.
LEMMA TotalBounds ==
    ASSUME NEW calc \in Calculation, NEW per \in Nat, NEW ratio \in Nat
    PROVE  /\ PeriodTotal(calc, per, ratio) \in Nat
           /\ calc.c \in Nat /\ calc.c <= PeriodTotal(calc, per, ratio)
           /\ DecMul(calc.a, One + calc.maxVariance) + calc.c \in Nat
           /\ PeriodTotal(calc, per, ratio) <= DecMul(calc.a, One + calc.maxVariance) + calc.c
<1>1. PICK a \in Nat, c \in Nat, m \in Nat : a = calc.a /\ c = calc.c /\ m = calc.maxVariance
  BY CalculationFields, Zenon
<1>2. PICK s \in 0 .. m : s = Bonded(calc, ratio)
  BY <1>1, BondedBounds, Zenon
<1>3. One - calc.r \in 0 .. One
  BY CalculationFields, OnePositive
<1>4. PICK e \in 0 .. a : e = DecMul(a, DecPower(One - calc.r, per))
  BY <1>3, PowerShare, MulShare, Zenon
<1>5. PICK i \in Nat, f \in Nat : i = One + m - s /\ f = One + m /\ i <= f /\ e \in Nat /\ e <= a
  BY OnePositive
<1>6. PICK x \in Nat, y \in Nat : x = DecMul(e, i) /\ y = DecMul(a, f) /\ x <= y
  <2>1. DecMul(e, i) \in Nat /\ DecMul(a, f) \in Nat /\ DecMul(e, i) <= DecMul(a, f)
    BY <1>5, MulOrder, Zenon
  <2>. QED BY <2>1, Zenon
<1>7. x + c \in Nat /\ c <= x + c /\ y + c \in Nat /\ x + c <= y + c
  BY ONLY <1>6, c \in Nat
<1>8. PeriodTotal(calc, per, ratio) = x + c /\ DecMul(calc.a, One + calc.maxVariance) + calc.c = y + c
  BY <1>1, <1>2, <1>4, <1>5, <1>6, Zenon DEF PeriodTotal
<1>. QED BY <1>1, <1>7, <1>8, Zenon

\* The curve mints its share of the period's total, and nothing is rounded
\* when tokens become base units.
LEMMA ProvisionIs ==
    ASSUME NEW calc \in Calculation, NEW per \in Nat, NEW ratio \in Nat
    PROVE  CalculateEpochMintProvision(calc, per, ratio) = PerEpoch(PeriodTotal(calc, per, ratio))
<1>1. PICK q : q = DecQuo(DecQuo(PeriodTotal(calc, per, ratio), NewDec(ReductionFactor)), NewDec(EpochsPerPeriod))
  OBVIOUS
<1>2. CalculateEpochMintProvision(calc, per, ratio) = DecMul(q, NewDec(One))
  BY <1>1, Zenon DEF CalculateEpochMintProvision, PeriodTotal, Bonded
<1>3. q \in Nat
  <2>1. PICK f \in Nat, e \in Nat : f = NewDec(ReductionFactor) /\ e = NewDec(EpochsPerPeriod) /\ f > 0 /\ e > 0
    <3>1. 3 * One \in Nat /\ 3 * One > 0
      BY OnePositive
    <3>2. EpochsPerPeriod * One \in Nat /\ EpochsPerPeriod * One > 0
      BY OnePositive, PeriodAssumption
    <3>. QED BY <3>1, <3>2, Zenon DEF NewDec, ReductionFactor
  <2>2. PICK t \in Nat : t = PeriodTotal(calc, per, ratio) /\ t <= t
    BY TotalBounds
  <2>3. PICK u \in Nat : u = DecQuo(t, f) /\ u <= u
    BY <2>1, <2>2, QuoOrder
  <2>4. DecQuo(u, e) \in Nat
    BY <2>1, <2>3, QuoOrder
  <2>. QED BY <1>1, <2>1, <2>2, <2>3, <2>4, Zenon
<1>4. DecMul(q, NewDec(One)) = q * One
  BY <1>3, MulWhole, OnePositive, Zenon
<1>. QED BY <1>1, <1>2, <1>4, Zenon DEF PerEpoch

\* The provision of an epoch is a natural number of whole base units between
\* the long-term rate and the full rate, for every admitted curve, period and
\* bonded ratio, whatever is rounded on the way (CalculateEpochMintProvision).
THEOREM ProvisionsWithinRates ==
    ASSUME NEW calc \in Calculation, NEW per \in Nat, NEW ratio \in Nat
    PROVE  /\ CalculateEpochMintProvision(calc, per, ratio) \in Nat
           /\ WithinRates(calc, per, ratio)
<1>1. PICK t \in Nat, c \in Nat, f \in Nat :
        /\ t = PeriodTotal(calc, per, ratio) /\ c = calc.c
        /\ f = DecMul(calc.a, One + calc.maxVariance) + calc.c
        /\ c <= t /\ t <= f
  BY TotalBounds, Zenon
<1>2. /\ PerEpoch(c) <= PerEpoch(t) /\ PerEpoch(t) <= PerEpoch(f) /\ PerEpoch(t) \in Nat
      /\ \E q \in Nat : PerEpoch(t) = q * One
  BY <1>1, PerEpochOrder, Zenon
<1>3. PerEpoch(t) % One = 0
  BY <1>2, OnePositive
<1>4. CalculateEpochMintProvision(calc, per, ratio) = PerEpoch(t)
  BY <1>1, ProvisionIs, Zenon
<1>. QED BY <1>1, <1>2, <1>3, <1>4, Zenon DEF WithinRates

\* The provision never grows with the period nor with what is bonded, and no
\* longer depends on what is bonded above the target.
THEOREM ProvisionsNeverGrow ==
    ASSUME NEW calc \in Calculation, NEW per \in Nat, NEW later \in Nat, per <= later,
           NEW ratio \in Nat, NEW higher \in Nat, ratio <= higher
    PROVE  NeverGrows(calc, per, ratio, later, higher)
<1>1. PICK m \in Nat, c \in Nat, a \in Nat : m = calc.maxVariance /\ c = calc.c /\ a = calc.a /\ a <= a
  <2>1. calc.maxVariance \in Nat /\ calc.c \in Nat /\ calc.a \in Nat /\ calc.a <= calc.a
    BY CalculationFields
  <2>. QED BY <2>1, Zenon
<1>2. PICK s \in 0 .. m, z \in 0 .. m :
        /\ s = Bonded(calc, ratio) /\ z = Bonded(calc, higher) /\ s <= z
        /\ ratio >= calc.bondingTarget => s = z
  BY <1>1, BondedBounds, BondedOrder, Zenon
<1>3. One - calc.r \in 0 .. One
  BY CalculationFields, OnePositive
<1>4. PICK p \in Nat, q \in Nat :
        p = DecPower(One - calc.r, per) /\ q = DecPower(One - calc.r, later) /\ q <= p
  <2>1. DecPower(One - calc.r, per) \in 0 .. One /\ DecPower(One - calc.r, later) \in 0 .. One
        /\ DecPower(One - calc.r, later) <= DecPower(One - calc.r, per)
    BY <1>3, PowerShare, PowerDecaysOn, Zenon
  <2>2. 0 .. One \subseteq Nat
    OBVIOUS
  <2>. QED BY <2>1, <2>2, Zenon
<1>5. PICK e \in Nat, f \in Nat : e = DecMul(a, p) /\ f = DecMul(a, q) /\ f <= e
  <2>1. DecMul(a, p) \in Nat /\ DecMul(a, q) \in Nat /\ DecMul(a, q) <= DecMul(a, p)
    BY <1>1, <1>4, MulOrder, Zenon
  <2>. QED BY <2>1, Zenon
<1>6. PICK i \in Nat, j \in Nat : i = One + m - s /\ j = One + m - z /\ j <= i
  BY <1>2, OnePositive
<1>7. PICK x \in Nat, y \in Nat : x = DecMul(e, i) /\ y = DecMul(f, j) /\ y <= x
  <2>1. DecMul(e, i) \in Nat /\ DecMul(f, j) \in Nat /\ DecMul(f, j) <= DecMul(e, i)
    BY <1>5, <1>6, MulOrder
  <2>. QED BY <2>1, Zenon
<1>8. x + c \in Nat /\ y + c \in Nat /\ y + c <= x + c
  BY ONLY <1>7, c \in Nat
<1>9. PerEpoch(y + c) <= PerEpoch(x + c)
  BY <1>8, PerEpochOrder, Zenon
<1>10. /\ CalculateEpochMintProvision(calc, per, ratio) = PerEpoch(x + c)
       /\ CalculateEpochMintProvision(calc, later, higher) = PerEpoch(y + c)
  <2>1. PeriodTotal(calc, per, ratio) = x + c /\ PeriodTotal(calc, later, higher) = y + c
    BY <1>1, <1>2, <1>4, <1>5, <1>6, <1>7, Zenon DEF PeriodTotal
  <2>. QED BY <2>1, ProvisionIs
<1>11. ratio >= calc.bondingTarget /\ later = per => PerEpoch(y + c) = PerEpoch(x + c)
  BY <1>2, <1>4, <1>5, <1>6, <1>7, Zenon
<1>. QED BY <1>9, <1>10, <1>11, Zenon DEF NeverGrows

-----------------------------------------------------------------------------
(* The clock.                                                               *)

\* Inflation follows days, the identifier whose skipped epochs are counted.
FollowsDays == EpochIdentifier = "day"

ClockInv == EpochsTypeOK /\ EpochAligned

\* The walk of BeginBlocker visits stored identifiers.
LEMMA Walk ==
    ASSUME EpochsTypeOK, todo # <<>>
    PROVE  /\ Head(todo) \in Identifiers
           /\ Tail(todo) \in {KeyOrder, Tail(KeyOrder), <<>>}
<1>1. Tail(KeyOrder) = <<"week">> /\ Tail(Tail(KeyOrder)) = <<>> /\ Head(Tail(KeyOrder)) = "week"
  BY DEF KeyOrder
<1>2. CASE todo = KeyOrder
  BY <1>2 DEF KeyOrder, Identifiers
<1>3. CASE todo = Tail(KeyOrder)
  BY <1>1, <1>3 DEF Identifiers
<1>. QED BY <1>2, <1>3 DEF EpochsTypeOK

\* An epoch info with another number and start time.
LEMMA UpdatedInfo ==
    ASSUME NEW ei \in EpochInfo, NEW n \in Nat, NEW t \in Int
    PROVE  [ei EXCEPT !.currentEpoch = n, !.currentEpochStartTime = t] \in EpochInfo
BY Zenon DEF EpochInfo

\* Genesis leaves every epoch info unstarted.
LEMMA InitClock == EpochsInit => ClockInv
<1>. SUFFICES ASSUME EpochsInit PROVE ClockInv
  OBVIOUS
<1>1. PICK start \in [Identifiers -> StartTimes] :
         epochs = [id \in Identifiers |-> InitGenesis(Unstarted(start[id]))]
  BY DEF EpochsInit
<1>2. ASSUME NEW id \in Identifiers
      PROVE  epochs[id] \in EpochInfo /\ epochs[id].started = FALSE /\ epochs[id].currentEpoch = 0
  <2>1. start[id] \in Int /\ GenesisTime \in Int /\ ZeroTime \in Int
    <3>1. start[id] \in StartTimes
      BY <1>1
    <3>2. GenesisTime \in Int /\ ZeroTime \in Int
      BY EpochsAssumption
    <3>3. StartTimes \subseteq Int
      BY EpochsAssumption
    <3>. QED BY <3>1, <3>2, <3>3, Zenon
  <2>2. epochs[id] = InitGenesis(Unstarted(start[id]))
    BY <1>1
  <2>3. PICK ei \in EpochInfo :
           ei = Unstarted(start[id]) /\ ei.started = FALSE /\ ei.currentEpoch = 0
    <3>1. 0 \in Nat /\ FALSE \in BOOLEAN
      OBVIOUS
    <3>2. Unstarted(start[id]) \in EpochInfo
      BY <2>1, <3>1, Zenon DEF Unstarted, EpochInfo
    <3>3. Unstarted(start[id]).started = FALSE /\ Unstarted(start[id]).currentEpoch = 0
      BY DEF Unstarted
    <3>. QED BY <3>2, <3>3, Zenon
  <2>4. epochs[id] = ei \/ epochs[id] = [ei EXCEPT !.startTime = GenesisTime]
    BY <2>2, <2>3, Zenon DEF InitGenesis
  <2>. QED BY <2>1, <2>3, <2>4 DEF EpochInfo
<1>3. epochs \in [Identifiers -> EpochInfo]
  BY <1>1, <1>2, Zenon
<1>4. blockTime \in Int /\ todo = <<>> /\ ended \in [id : Identifiers \cup {"none"}, number : Nat]
  BY EpochsAssumption DEF EpochsInit, NoCall
<1>5. EpochAligned
  BY <1>2, Zenon DEF EpochAligned
<1>. QED BY <1>3, <1>4, <1>5, Zenon DEF ClockInv, EpochsTypeOK

\* A block time later than the last one keeps the clock aligned.
LEMMA NewBlockClock == ClockInv /\ NewBlock => ClockInv'
BY EpochsAssumption DEF ClockInv, NewBlock, EpochsTypeOK, EpochAligned, EpochInfo

\* The first epoch of an identifier starts at its start time.
LEMMA VisitStartClock == ClockInv /\ VisitStart => ClockInv'
<1>. SUFFICES ASSUME ClockInv, VisitStart PROVE ClockInv'
  OBVIOUS
<1>. DEFINE id == Head(todo)
<1>1. id \in Identifiers /\ EpochsTypeOK /\ EpochAligned
  BY Walk DEF ClockInv, VisitStart
<1>2. /\ epochs' = [epochs EXCEPT ![id] = StartInitialEpoch(epochs[id])]
      /\ epochs[id].startTime <= blockTime /\ blockTime' = blockTime /\ ended' = ended
      /\ todo' = Tail(todo) /\ todo # <<>>
  BY DEF VisitStart, ShouldInitialEpochStart
<1>. HIDE DEF id
<1>3. epochs'[id] \in EpochInfo /\ epochs'[id].started /\ epochs'[id].currentEpoch = 1
      /\ epochs'[id].startTime = epochs[id].startTime
      /\ epochs'[id].currentEpochStartTime = epochs[id].startTime
  BY <1>1, <1>2, Zenon DEF EpochsTypeOK, EpochInfo, StartInitialEpoch
<1>4. EpochsTypeOK'
  BY <1>1, <1>2, <1>3, Walk DEF EpochsTypeOK
<1>5. \A j \in Identifiers : j # id => epochs'[j] = epochs[j]
  BY <1>1, <1>2 DEF EpochsTypeOK
<1>6. epochs[id].startTime \in Int /\ Duration[id] \in Nat /\ blockTime \in Int
  BY <1>1, EpochsAssumption DEF EpochsTypeOK, EpochInfo
<1>7. epochs'[id].currentEpochStartTime
          = epochs'[id].startTime + (epochs'[id].currentEpoch - 1) * Duration[id]
  BY <1>3, <1>6
<1>8. EpochAligned'
  BY <1>1, <1>2, <1>3, <1>5, <1>6, <1>7 DEF EpochAligned
<1>. QED BY <1>4, <1>8 DEF ClockInv

\* An epoch that may end belongs to a started identifier.
LEMMA EndStarted ==
    ASSUME ClockInv, VisitEnd
    PROVE  /\ Head(todo) \in Identifiers /\ epochs[Head(todo)].started
           /\ epochs' = [epochs EXCEPT ![Head(todo)] = EndEpoch(Head(todo), epochs[Head(todo)])]
           /\ ended' = [id |-> Head(todo), number |-> epochs[Head(todo)].currentEpoch + 1]
           /\ blockTime' = blockTime /\ todo' = Tail(todo) /\ todo # <<>>
           /\ blockTime > epochs[Head(todo)].currentEpochStartTime + Duration[Head(todo)]
<1>1. Head(todo) \in Identifiers /\ epochs[Head(todo)] \in EpochInfo
  BY Walk DEF ClockInv, VisitEnd, EpochsTypeOK
<1>. QED BY <1>1 DEF VisitEnd, ShouldEpochEnd, ShouldInitialEpochStart, EndEpoch, EpochInfo

\* The next epoch starts where the last one ends.
LEMMA VisitEndClock == ClockInv /\ VisitEnd => ClockInv'
<1>. SUFFICES ASSUME ClockInv, VisitEnd PROVE ClockInv'
  OBVIOUS
<1>. DEFINE id == Head(todo)
<1>1. /\ id \in Identifiers /\ epochs[id].started
      /\ epochs' = [epochs EXCEPT ![id] = EndEpoch(id, epochs[id])]
      /\ ended' = [id |-> id, number |-> epochs[id].currentEpoch + 1]
      /\ blockTime' = blockTime /\ todo' = Tail(todo) /\ todo # <<>>
      /\ blockTime > epochs[id].currentEpochStartTime + Duration[id]
  BY EndStarted
<1>. HIDE DEF id
<1>2. EpochsTypeOK /\ EpochAligned
  BY DEF ClockInv
<1>3. epochs[id] \in EpochInfo /\ Duration[id] \in Nat /\ blockTime \in Int
  BY <1>1, <1>2, EpochsAssumption DEF EpochsTypeOK
<1>4. epochs'[id] \in EpochInfo /\ epochs'[id].started
      /\ epochs'[id].currentEpoch = epochs[id].currentEpoch + 1
      /\ epochs'[id].startTime = epochs[id].startTime
      /\ epochs'[id].currentEpochStartTime = epochs[id].currentEpochStartTime + Duration[id]
  <2>1. epochs'[id] = EndEpoch(id, epochs[id])
    BY <1>1, <1>2 DEF EpochsTypeOK
  <2>2. /\ epochs'[id].currentEpoch = epochs[id].currentEpoch + 1
        /\ epochs'[id].startTime = epochs[id].startTime
        /\ epochs'[id].started = epochs[id].started
        /\ epochs'[id].currentEpochStartTime = epochs[id].currentEpochStartTime + Duration[id]
    BY <1>3, <2>1 DEF EpochInfo, EndEpoch
  <2>3. epochs'[id] \in EpochInfo
    <3>1. epochs[id].currentEpoch + 1 \in Nat /\ epochs[id].currentEpochStartTime + Duration[id] \in Int
      BY <1>3 DEF EpochInfo
    <3>. QED BY <1>3, <2>1, <3>1, UpdatedInfo, ZenonT(30) DEF EndEpoch
  <2>. QED BY <1>1, <2>2, <2>3, Zenon
<1>5. EpochsTypeOK'
  BY <1>1, <1>2, <1>3, <1>4, Walk, Zenon DEF EpochsTypeOK, EpochInfo
<1>6. \A j \in Identifiers : j # id => epochs'[j] = epochs[j]
  BY <1>1, <1>2 DEF EpochsTypeOK
<1>7. epochs'[id].currentEpochStartTime
          = epochs'[id].startTime + (epochs'[id].currentEpoch - 1) * Duration[id]
  <2>1. epochs[id].currentEpochStartTime
          = epochs[id].startTime + (epochs[id].currentEpoch - 1) * Duration[id]
    BY <1>1, <1>2 DEF EpochAligned
  <2>2. \A n \in Nat, d \in Nat : (n + 1 - 1) * d = (n - 1) * d + d
    OBVIOUS
  <2>. QED BY <1>3, <1>4, <2>1, <2>2 DEF EpochInfo
<1>8. /\ epochs'[id].currentEpochStartTime <= blockTime
      /\ epochs'[id].currentEpoch >= 1
  BY <1>1, <1>3, <1>4 DEF EpochInfo
<1>9. EpochAligned'
  BY <1>1, <1>2, <1>4, <1>6, <1>7, <1>8 DEF EpochAligned
<1>. QED BY <1>5, <1>9 DEF ClockInv

\* A visit that changes nothing.
LEMMA VisitNothingClock == ClockInv /\ VisitNothing => ClockInv'
BY Walk DEF ClockInv, VisitNothing, EpochsTypeOK, EpochAligned

-----------------------------------------------------------------------------
(* The mint.                                                                *)

\* A share of an amount is exact before it is truncated, and no larger.
LEMMA Proportions ==
    ASSUME NEW amount \in Nat, NEW share \in 0 .. One
    PROVE  GetProportions(amount, share) \in 0 .. amount
<1>1. One \in Nat /\ One > 1
  BY OneAssumption
<1>2. DecMul(NewDec(amount), share) = amount * share
  <2>. DEFINE n == amount * share
  <2>1. n \in Nat /\ amount * One * share = n * One
    BY <1>1
  <2>. HIDE DEF n
  <2>2. (n * One) \div One = n /\ (n * One) % One = 0
    BY <1>1, <2>1
  <2>. QED BY <1>1, <2>1, <2>2 DEF DecMul, NewDec, RoundHalfEven, n
<1>3. amount * share \in Nat /\ amount * share <= amount * One
  BY <1>1
<1>4. (amount * share) \div One \in Nat /\ (amount * share) \div One <= amount
  <2>. DEFINE k == amount * share
  <2>1. k \in Nat /\ k <= amount * One
    BY <1>3
  <2>. HIDE DEF k
  <2>2. k \div One <= amount /\ k \div One \in Nat
    BY <1>1, <2>1
  <2>. QED BY <2>2 DEF k
<1>. QED BY <1>2, <1>4 DEF GetProportions, TruncateInt

\* The bonded ratio is a natural number whatever the supply.
LEMMA RatioNat ==
    ASSUME supply \in Nat, NEW b \in BondedAmounts
    PROVE  BondedRatio(b) \in Nat
<1>1. One \in Nat /\ b \in Nat /\ TeamAlloc \in Nat /\ b * One \in Nat
  BY OneAssumption, InflationAssumption
<1>2. \A n \in Nat, s \in Int : s > 0 => n \div s \in Nat
  OBVIOUS
<1>. QED BY <1>1, <1>2 DEF BondedRatio, DecQuoInt, NewDec

\* Minting allocates every coin it creates.
LEMMA MintCoins ==
    ASSUME TypeOK, MintedIsAllocated,
           NEW id, NEW number, NEW b \in BondedAmounts, Mint(id, number, b)
    PROVE  /\ supply' \in Nat /\ moduleBalance' \in Nat /\ feeCollector' \in Nat
           /\ communityPool' \in Nat
           /\ MintedIsAllocated'
<1>. DEFINE provision == Provision(b)
            amount == TruncateInt(provision)
            staking == GetProportions(amount, params.stakingRewards)
<1>1. provision \in Nat
  <2>1. BondedRatio(b) \in Nat /\ period \in Nat /\ params \in ParamSet
    BY RatioNat DEF TypeOK
  <2>2. Provision(b) \in Nat
    <3>1. params.calculation \in Calculation
      BY <2>1, InflationAssumption DEF Validate
    <3>. QED BY <2>1, <3>1, ProvisionsWithinRates, Zenon DEF Provision
  <2>3. Provision(b) > 0
    BY DEF Mint
  <2>. QED BY <2>2, <2>3
<1>2. amount \in Nat
  <2>1. One \in Nat /\ One > 0
    BY OneAssumption
  <2>. HIDE DEF provision
  <2>. QED BY <1>1, <2>1 DEF TruncateInt
<1>3. params.stakingRewards \in 0 .. One
  <2>1. Validate(params)
    BY InflationAssumption DEF TypeOK
  <2>. QED BY <2>1, OneAssumption DEF Validate
<1>. HIDE DEF amount
<1>4. staking \in 0 .. amount
  BY <1>2, <1>3, Proportions
<1>. HIDE DEF staking
<1>5. \/ UNCHANGED <<supply, moduleBalance, feeCollector, communityPool>>
      \/ /\ supply' = supply + amount
         /\ feeCollector' = feeCollector + staking
         /\ communityPool' = communityPool + moduleBalance + amount - staking
         /\ moduleBalance' = 0
  BY DEF Mint, MintAndAllocate, coinVars, amount, provision, staking
<1>6. /\ supply \in Nat /\ feeCollector \in Nat /\ communityPool \in Nat /\ InitialSupply \in Nat
      /\ moduleBalance = 0 /\ supply = InitialSupply + feeCollector + communityPool
  BY InflationAssumption DEF TypeOK, MintedIsAllocated
<1>. QED BY <1>2, <1>4, <1>5, <1>6 DEF MintedIsAllocated

\* The inductive invariant: the clock, the count of epochs that ties it to the
\* period, and the allocation of coins.
IInv ==
    /\ TypeOK /\ EpochAligned
    /\ EveryEpochCounted /\ PeriodCountsMints /\ MintedIsAllocated

\* Genesis: period 0, nothing minted, no epoch started.
LEMMA InitIInv == Init => IInv
<1>. SUFFICES ASSUME Init PROVE IInv
  OBVIOUS
<1>1. ClockInv
  BY InitClock DEF Init
<1>2. \A id \in Identifiers : ~epochs[id].started
  BY DEF Init, EpochsInit, InitGenesis, Unstarted
<1>3. EveryEpochCounted
  BY <1>2, InflationAssumption DEF EveryEpochCounted, Init
<1>4. PeriodCountsMints
  BY PeriodAssumption DEF PeriodCountsMints, Init
<1>5. MintedIsAllocated
  BY InflationAssumption DEF MintedIsAllocated, Init
<1>. QED BY <1>1, <1>3, <1>4, <1>5, InflationAssumption, Zenon DEF Init, IInv, ClockInv, TypeOK

\* The ways an epoch can end: skipped, of another identifier, without a
\* provision, with a mint, or with a failed one.
LEMMA HookCases ==
    ASSUME NEW id, NEW number, AfterEpochEnd(id, number)
    PROVE  \/ /\ skippedEpochs' = IF id = "day" THEN skippedEpochs + 1 ELSE skippedEpochs
              /\ UNCHANGED <<period, coinVars, halted, minted, unpaid>>
           \/ id # EpochIdentifier /\ UNCHANGED <<period, skippedEpochs, coinVars, halted, minted, unpaid>>
           \/ /\ id = EpochIdentifier /\ unpaid' = unpaid + 1
              /\ UNCHANGED <<period, skippedEpochs, coinVars, halted, minted>>
           \/ \E b \in BondedAmounts : Mint(id, number, b) /\ id = EpochIdentifier
           \/ halted' = TRUE /\ UNCHANGED <<period, skippedEpochs, coinVars, minted, unpaid>>
BY DEF AfterEpochEnd, Skip, OtherEpoch, NoProvision, Mint, MintFails

\* The epoch ends: either the count of minted or of skipped epochs follows the
\* clock, and the period follows the minted epochs.
LEMMA EndOfEpochStep ==
    ASSUME FollowsDays, IInv, EndOfEpoch
    PROVE  IInv'
<1>. DEFINE id == Head(todo)
<1>1. /\ id \in Identifiers /\ epochs[id].started
      /\ epochs' = [epochs EXCEPT ![id] = EndEpoch(id, epochs[id])]
      /\ ended' = [id |-> id, number |-> epochs[id].currentEpoch + 1]
  BY EndStarted, Zenon DEF EndOfEpoch, IInv, TypeOK, ClockInv
<1>2. ClockInv'
  BY VisitEndClock DEF EndOfEpoch, IInv, TypeOK, ClockInv
<1>3. PICK number : number = epochs[id].currentEpoch + 1 /\ AfterEpochEnd(id, number)
  BY <1>1 DEF EndOfEpoch
<1>. HIDE DEF id
<1>4. /\ params' = params /\ updates' = updates /\ ~halted
      /\ TypeOK /\ EveryEpochCounted /\ PeriodCountsMints /\ MintedIsAllocated
  BY DEF EndOfEpoch, IInv
<1>5. /\ epochs["day"] \in EpochInfo /\ epochs'["day"] \in EpochInfo
      /\ id = "day" => /\ epochs'["day"].currentEpoch = epochs["day"].currentEpoch + 1
                       /\ epochs'["day"].started
      /\ id # "day" => epochs'["day"] = epochs["day"]
  <2>1. epochs["day"] \in EpochInfo /\ epochs'["day"] \in EpochInfo
    BY <1>2, <1>4 DEF ClockInv, TypeOK, EpochsTypeOK, Identifiers
  <2>2. id # "day" => epochs'["day"] = epochs["day"]
    BY <1>1, <1>4 DEF TypeOK, EpochsTypeOK
  <2>3. id = "day" => epochs'["day"] = EndEpoch("day", epochs["day"])
    BY <1>1, <1>4 DEF TypeOK, EpochsTypeOK
  <2>4. /\ EndEpoch("day", epochs["day"]).currentEpoch = epochs["day"].currentEpoch + 1
        /\ EndEpoch("day", epochs["day"]).started = epochs["day"].started
    BY <2>1 DEF EndEpoch, EpochInfo
  <2>. QED BY <1>1, <2>1, <2>2, <2>3, <2>4
<1>6. /\ minted \in Nat /\ skippedEpochs \in Nat /\ period \in Nat
      /\ unpaid \in Nat
      /\ minted + unpaid + skippedEpochs = IF epochs["day"].started THEN epochs["day"].currentEpoch - 1 ELSE 0
      /\ EpochsPerPeriod * period <= minted + unpaid
      /\ unpaid = 0 => minted < EpochsPerPeriod * (period + 1)
  BY <1>4 DEF TypeOK, EveryEpochCounted, PeriodCountsMints, FollowsDays
<1>7. CASE /\ skippedEpochs' = IF id = "day" THEN skippedEpochs + 1 ELSE skippedEpochs
           /\ UNCHANGED <<period, coinVars, halted, minted, unpaid>>
  <2>1. EveryEpochCounted'
    BY <1>1, <1>5, <1>6, <1>7 DEF EveryEpochCounted, FollowsDays, EpochInfo
  <2>. QED BY <1>2, <1>4, <1>7, <2>1
           DEF IInv, ClockInv, TypeOK, PeriodCountsMints, MintedIsAllocated, coinVars
<1>8. CASE id # "day" /\ UNCHANGED <<period, skippedEpochs, coinVars, halted, minted, unpaid>>
  <2>1. EveryEpochCounted'
    BY <1>4, <1>5, <1>8 DEF EveryEpochCounted, FollowsDays
  <2>. QED BY <1>2, <1>4, <1>8, <2>1
           DEF IInv, ClockInv, TypeOK, PeriodCountsMints, MintedIsAllocated, coinVars
<1>12. CASE /\ id = "day" /\ unpaid' = unpaid + 1
            /\ UNCHANGED <<period, skippedEpochs, coinVars, halted, minted>>
  <2>1. EveryEpochCounted'
    BY <1>1, <1>5, <1>6, <1>12 DEF EveryEpochCounted, FollowsDays, EpochInfo
  <2>2. EpochsPerPeriod * period \in Nat
    BY <1>6, PeriodAssumption
  <2>3. PeriodCountsMints'
    BY <1>6, <1>12, <2>2 DEF PeriodCountsMints
  <2>. QED BY <1>2, <1>4, <1>6, <1>12, <2>1, <2>3
           DEF IInv, ClockInv, TypeOK, MintedIsAllocated, coinVars
<1>9. ASSUME NEW b \in BondedAmounts, id = "day", Mint(id, number, b)
      PROVE  IInv'
  <2>1. /\ supply' \in Nat /\ moduleBalance' \in Nat /\ feeCollector' \in Nat
        /\ communityPool' \in Nat /\ MintedIsAllocated'
    BY <1>4, <1>9, MintCoins
  <2>2. /\ minted' = minted + 1 /\ skippedEpochs' = skippedEpochs /\ halted' = halted /\ unpaid' = unpaid
        /\ period' = IF PeriodPassed(epochs["day"].currentEpoch + 1) THEN period + 1 ELSE period
    BY <1>3, <1>9 DEF Mint
  <2>3. epochs["day"].currentEpoch + 1 = minted + unpaid + skippedEpochs + 2
    BY <1>1, <1>5, <1>6, <1>9 DEF EpochInfo
  <2>4. EveryEpochCounted'
    BY <1>4, <1>5, <1>6, <1>9, <2>2, <2>3 DEF EveryEpochCounted, FollowsDays, EpochInfo
  <2>5. EpochsPerPeriod \in Nat /\ EpochsPerPeriod > 0
    BY PeriodAssumption
  <2>6. EpochsPerPeriod * (period + 1) = EpochsPerPeriod * period + EpochsPerPeriod
        /\ EpochsPerPeriod * (period + 1 + 1) = EpochsPerPeriod * period + EpochsPerPeriod + EpochsPerPeriod
        /\ EpochsPerPeriod * period \in Nat
    BY <1>6, <2>5
  <2>7. PeriodPassed(epochs["day"].currentEpoch + 1)
           <=> minted + unpaid + 1 >= EpochsPerPeriod * period + EpochsPerPeriod
    BY <1>6, <2>3, <2>5, <2>6 DEF PeriodPassed
  <2>8. PeriodCountsMints'
    <3>1. CASE PeriodPassed(epochs["day"].currentEpoch + 1)
      BY <1>6, <2>2, <2>5, <2>6, <2>7, <3>1 DEF PeriodCountsMints
    <3>2. CASE ~PeriodPassed(epochs["day"].currentEpoch + 1)
      BY <1>6, <2>2, <2>5, <2>6, <2>7, <3>2 DEF PeriodCountsMints
    <3>. QED BY <3>1, <3>2
  <2>. QED BY <1>2, <1>4, <1>6, <2>1, <2>2, <2>4, <2>8 DEF IInv, ClockInv, TypeOK
<1>10. CASE halted' = TRUE /\ UNCHANGED <<period, skippedEpochs, coinVars, minted, unpaid>>
  BY <1>2, <1>4, <1>10
     DEF IInv, ClockInv, TypeOK, EveryEpochCounted, PeriodCountsMints, MintedIsAllocated, coinVars
<1>11. \/ /\ skippedEpochs' = IF id = "day" THEN skippedEpochs + 1 ELSE skippedEpochs
          /\ UNCHANGED <<period, coinVars, halted, minted, unpaid>>
       \/ id # "day" /\ UNCHANGED <<period, skippedEpochs, coinVars, halted, minted, unpaid>>
       \/ /\ id = "day" /\ unpaid' = unpaid + 1
          /\ UNCHANGED <<period, skippedEpochs, coinVars, halted, minted>>
       \/ \E b \in BondedAmounts : Mint(id, number, b) /\ id = "day"
       \/ halted' = TRUE /\ UNCHANGED <<period, skippedEpochs, coinVars, minted, unpaid>>
  BY <1>3, HookCases, Zenon DEF FollowsDays
<1>. QED BY <1>7, <1>8, <1>9, <1>10, <1>11, <1>12, Zenon

\* A step in which only the clock moves.
LEMMA ClockStep ==
    ASSUME IInv, ClockInv', UNCHANGED inflationVars,
           epochs[EpochIdentifier].started => epochs'[EpochIdentifier] = epochs[EpochIdentifier],
           ~epochs[EpochIdentifier].started =>
               ~epochs'[EpochIdentifier].started \/ epochs'[EpochIdentifier].currentEpoch = 1
    PROVE  IInv'
<1>1. EveryEpochCounted'
  <2>1. /\ EveryEpochCounted /\ minted \in Nat /\ skippedEpochs \in Nat /\ unpaid \in Nat
        /\ unpaid' = unpaid /\ minted' = minted /\ skippedEpochs' = skippedEpochs /\ halted' = halted
    BY DEF IInv, TypeOK, inflationVars
  <2>. QED BY <2>1 DEF EveryEpochCounted
<1>. QED BY <1>1 DEF IInv, ClockInv, TypeOK, PeriodCountsMints, MintedIsAllocated, inflationVars, coinVars

\* Every step of the composed modules preserves the invariant.
LEMMA NextIInv ==
    ASSUME FollowsDays, IInv, [Next]_vars
    PROVE  IInv'
<1>1. ClockInv /\ EpochIdentifier \in Identifiers
  BY InflationAssumption DEF IInv, TypeOK, ClockInv
<1>2. CASE BeginBlock
  BY <1>1, <1>2, NewBlockClock, ClockStep DEF BeginBlock, NewBlock
<1>3. CASE StartEpoch
  <2>1. ClockInv' /\ UNCHANGED inflationVars
    BY <1>1, <1>3, VisitStartClock DEF StartEpoch
  <2>2. PICK id \in Identifiers :
           /\ ~epochs[id].started
           /\ epochs' = [epochs EXCEPT ![id] = StartInitialEpoch(epochs[id])]
    BY <1>1, <1>3, Walk, Zenon DEF StartEpoch, VisitStart, ShouldInitialEpochStart, ClockInv
  <2>3. epochs \in [Identifiers -> EpochInfo]
    BY <1>1 DEF ClockInv, EpochsTypeOK
  <2>4. \A j \in Identifiers : j # id => epochs'[j] = epochs[j]
    BY <2>2, <2>3
  <2>5. epochs'[id].currentEpoch = 1
    BY <2>2, <2>3 DEF StartInitialEpoch, EpochInfo
  <2>. QED BY <1>1, <2>1, <2>2, <2>4, <2>5, ClockStep
<1>4. CASE EndOfEpoch
  BY <1>4, EndOfEpochStep
<1>5. CASE SameEpoch
  BY <1>1, <1>5, VisitNothingClock, ClockStep DEF SameEpoch, VisitNothing
<1>6. CASE UpdateParams
  BY <1>6 DEF UpdateParams, IInv, TypeOK, EpochsTypeOK, EpochAligned, EveryEpochCounted,
              PeriodCountsMints, MintedIsAllocated, epochVars, coinVars
<1>7. CASE UNCHANGED vars
  BY <1>7 DEF vars, epochVars, inflationVars, IInv, TypeOK, EpochsTypeOK, EpochAligned,
              EveryEpochCounted, PeriodCountsMints, MintedIsAllocated, coinVars
<1>. QED BY <1>2, <1>3, <1>4, <1>5, <1>6, <1>7 DEF Next

\* The invariant holds in every reachable state.
THEOREM Invariance ==
    ASSUME FollowsDays
    PROVE  Spec => []IInv
<1>1. IInv /\ [Next]_vars => IInv'
  BY NextIInv
<1>. QED BY <1>1, InitIInv, PTL DEF Spec

\* Every step keeps the clock aligned, whatever the hook does.
LEMMA ClockNext == ASSUME ClockInv, [Next]_vars PROVE ClockInv'
<1>1. CASE BeginBlock
  BY <1>1, NewBlockClock DEF BeginBlock
<1>2. CASE StartEpoch
  BY <1>2, VisitStartClock DEF StartEpoch
<1>3. CASE EndOfEpoch
  BY <1>3, VisitEndClock DEF EndOfEpoch
<1>4. CASE SameEpoch
  BY <1>4, VisitNothingClock DEF SameEpoch
<1>5. CASE UpdateParams \/ UNCHANGED vars
  BY <1>5 DEF UpdateParams, vars, epochVars, ClockInv, EpochsTypeOK, EpochAligned
<1>. QED BY <1>1, <1>2, <1>3, <1>4, <1>5 DEF Next

\* The clock never drifts: whatever the block times, epoch n of an identifier
\* starts n - 1 durations after its start time.  This needs no hypothesis.
THEOREM ClockAligned == Spec => []EpochAligned
<1>1. Init => ClockInv
  BY InitClock DEF Init
<1>2. ClockInv /\ [Next]_vars => ClockInv'
  BY ClockNext
<1>3. ClockInv => EpochAligned
  BY DEF ClockInv
<1>. QED BY <1>1, <1>2, <1>3, PTL DEF Spec

\* A period of the mint curve is exactly EpochsPerPeriod minting epochs long,
\* whatever was skipped, as long as there was something to mint, provided
\* inflation follows days.
THEOREM PeriodsAreExact ==
    ASSUME FollowsDays
    PROVE  Spec => []PeriodCountsMints
<1>1. IInv => PeriodCountsMints
  BY DEF IInv
<1>. QED BY <1>1, Invariance, PTL

\* What the coins need: no count of epochs, and no identifier.
CoinInv == TypeOK /\ MintedIsAllocated

\* The end of an epoch moves coins only by a mint.
LEMMA EndOfEpochCoins ==
    ASSUME CoinInv, EpochsTypeOK', EndOfEpoch
    PROVE  CoinInv'
<1>1. /\ TypeOK /\ MintedIsAllocated /\ params' = params /\ updates' = updates
  BY DEF CoinInv, EndOfEpoch
<1>2. PICK id, number : AfterEpochEnd(id, number)
  BY DEF EndOfEpoch
<1>3. ASSUME NEW b \in BondedAmounts, Mint(id, number, b)
      PROVE  CoinInv'
  <2>1. /\ supply' \in Nat /\ moduleBalance' \in Nat /\ feeCollector' \in Nat
        /\ communityPool' \in Nat /\ MintedIsAllocated'
    BY <1>1, <1>3, MintCoins
  <2>2. /\ minted' = minted + 1 /\ skippedEpochs' = skippedEpochs /\ halted' = halted /\ unpaid' = unpaid
        /\ period' \in {period, period + 1}
    BY <1>3 DEF Mint
  <2>. QED BY <1>1, <2>1, <2>2 DEF CoinInv, TypeOK
<1>4. CASE ~ \E b \in BondedAmounts : Mint(id, number, b)
  <2>1. /\ UNCHANGED <<period, coinVars, minted>>
        /\ skippedEpochs' \in {skippedEpochs, skippedEpochs + 1} /\ unpaid' \in {unpaid, unpaid + 1}
    BY <1>2, <1>4, HookCases, Zenon
  <2>2. halted' = halted \/ halted' = TRUE
    BY <1>2, <1>4, HookCases, Zenon
  <2>3. halted' \in BOOLEAN
    BY <1>1, <2>2, Zenon DEF TypeOK
  <2>. QED BY <1>1, <2>1, <2>3 DEF CoinInv, TypeOK, MintedIsAllocated, coinVars
<1>. QED BY <1>3, <1>4

\* No minted coin stays in the module account and none is lost to rounding,
\* whatever identifier inflation follows.
THEOREM CoinsAreAllocated ==
    Spec => []MintedIsAllocated
<1>. DEFINE Inv == CoinInv /\ ClockInv
<1>1. Init => Inv
  BY InitIInv DEF IInv, CoinInv, ClockInv, TypeOK
<1>2. Inv /\ [Next]_vars => Inv'
  <2>. SUFFICES ASSUME Inv, [Next]_vars PROVE Inv'
    OBVIOUS
  <2>1. ClockInv'
    BY ClockNext
  <2>2. EpochsTypeOK'
    BY <2>1 DEF ClockInv
  <2>3. CASE EndOfEpoch
    BY <2>1, <2>2, <2>3, EndOfEpochCoins
  <2>4. CASE BeginBlock \/ StartEpoch \/ SameEpoch \/ UNCHANGED vars
    BY <2>1, <2>2, <2>4
       DEF BeginBlock, StartEpoch, SameEpoch, vars, inflationVars, coinVars, CoinInv, TypeOK, MintedIsAllocated
  <2>5. CASE UpdateParams
    BY <2>1, <2>2, <2>5 DEF UpdateParams, coinVars, CoinInv, TypeOK, MintedIsAllocated
  <2>. QED BY <2>3, <2>4, <2>5 DEF Next
<1>3. Inv => MintedIsAllocated
  BY DEF CoinInv
<1>. QED BY <1>1, <1>2, <1>3, PTL DEF Spec

\* Every ended epoch was minted, had nothing to mint or was skipped: none is
\* lost or counted twice.
THEOREM EpochsAreCounted ==
    ASSUME FollowsDays
    PROVE  Spec => []EveryEpochCounted
<1>1. IInv => EveryEpochCounted
  BY DEF IInv
<1>. QED BY <1>1, Invariance, PTL
=============================================================================
