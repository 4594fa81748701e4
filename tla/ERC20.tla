------------------------------- MODULE ERC20 -------------------------------
(* x/erc20 and the ICS-20 transfers around it: coins and tokens of a pair    *)
(* are converted into each other, by messages of the holder, when coins      *)
(* arrive over IBC, before they leave and when they come back.  A pair is    *)
(* named once: its denomination determines its contract.  The bank, the EVM  *)
(* and ibc-go are modelled from how the module uses them; a message that     *)
(* fails leaves no trace.                                                    *)
EXTENDS Integers, FiniteSetsExt

CONSTANTS NativeCoins,     \* pairs whose contract the module deployed and owns
          NativeERC20s,    \* contracts of others that may be registered
          Total,           \* value of a pair in coins and tokens together
          Amounts,         \* amounts converted and transferred
          Abroad,          \* coins of a pair that genesis may find in ICS-20's custody
          Packets          \* transfers that may be on their way

Pairs == NativeCoins \cup NativeERC20s

ASSUME ERC20Assumption ==
    /\ NativeCoins \cap NativeERC20s = {}
    /\ Total \in Nat /\ Abroad \subseteq 0 .. Total
    /\ Amounts \subseteq Nat \ {0}

VARIABLES enableErc20,    \* module parameter
          tokenPairs,     \* store: the pairs that are registered
          denomMap,       \* store: denominations with a pair
          erc20Map,       \* store: contracts with a pair
          pairEnabled,    \* the field Enabled of each pair
          metadata,       \* bank: denominations whose metadata is set
          contractCode,   \* EVM: contracts that have code
          userCoin,       \* coins of the holder
          userToken,      \* tokens of the holder
          escrowCoin,     \* coins of the module account
          escrowToken,    \* tokens of the module account
          channel,        \* coins ICS-20 has taken in custody: escrowed, or burned if vouchers
          packets         \* transfers of the holder: none, in flight or failed

registryVars == <<tokenPairs, denomMap, erc20Map, pairEnabled, metadata>>
holdings == <<userCoin, userToken, escrowCoin, escrowToken>>
erc20Vars == <<enableErc20, registryVars, contractCode, holdings, channel, packets>>

NoPacket == [state |-> "none", pair |-> "none", amount |-> 0]

\* Genesis registers the module's own pairs; part of the coins is elsewhere.
ERC20Init ==
    /\ enableErc20 = TRUE
    /\ tokenPairs = NativeCoins /\ denomMap = NativeCoins /\ erc20Map = NativeCoins
    /\ pairEnabled = [d \in Pairs |-> TRUE]
    /\ metadata = NativeCoins
    /\ contractCode = [d \in Pairs |-> TRUE]
    /\ channel \in [Pairs -> Abroad \cup {0}] /\ \A d \in NativeERC20s : channel[d] = 0
    /\ userCoin = [d \in Pairs |-> IF d \in NativeCoins THEN Total - channel[d] ELSE 0]
    /\ userToken = [d \in Pairs |-> IF d \in NativeCoins THEN 0 ELSE Total]
    /\ escrowCoin = [d \in Pairs |-> 0] /\ escrowToken = [d \in Pairs |-> 0]
    /\ packets = [p \in Packets |-> NoPacket]

-----------------------------------------------------------------------------
(* The registry.                                                            *)

\* Fault: the contract's entry is forgotten.
DeleteTokenPair_KeepsERC20Map(d) ==
    /\ tokenPairs' = tokenPairs \ {d} /\ denomMap' = denomMap \ {d}
    /\ UNCHANGED <<erc20Map, pairEnabled, metadata>>

\* The metadata of the denomination stays.
DeleteTokenPair(d) ==
    /\ tokenPairs' = tokenPairs \ {d} /\ denomMap' = denomMap \ {d} /\ erc20Map' = erc20Map \ {d}
    /\ UNCHANGED <<pairEnabled, metadata>>

\* A contract can be registered once: afterwards the metadata of its
\* denomination is there, even if the pair is not.
RegisterERC20(d) ==
    /\ enableErc20
    /\ d \in NativeERC20s /\ contractCode[d]
    /\ d \notin erc20Map /\ d \notin metadata /\ d \notin denomMap
    /\ metadata' = metadata \cup {d}
    /\ tokenPairs' = tokenPairs \cup {d}
    /\ denomMap' = denomMap \cup {d} /\ erc20Map' = erc20Map \cup {d}
    /\ pairEnabled' = [pairEnabled EXCEPT ![d] = TRUE]
    /\ UNCHANGED <<enableErc20, contractCode, holdings, channel, packets>>

ToggleConversion(d) ==
    /\ enableErc20
    /\ d \in denomMap /\ d \in tokenPairs
    /\ pairEnabled' = [pairEnabled EXCEPT ![d] = ~@]
    /\ UNCHANGED <<enableErc20, tokenPairs, denomMap, erc20Map, metadata, contractCode,
                   holdings, channel, packets>>

SetParams ==
    /\ enableErc20' = ~enableErc20
    /\ UNCHANGED <<registryVars, contractCode, holdings, channel, packets>>

\* A contract of others may destroy itself, and all its balances with it.
DestroyContract(d) ==
    /\ d \in NativeERC20s /\ contractCode[d]
    /\ contractCode' = [contractCode EXCEPT ![d] = FALSE]
    /\ userToken' = [userToken EXCEPT ![d] = 0]
    /\ escrowToken' = [escrowToken EXCEPT ![d] = 0]
    /\ UNCHANGED <<enableErc20, registryVars, userCoin, escrowCoin, channel, packets>>

-----------------------------------------------------------------------------
(* Conversions.  "coins" is what the holder has of the denomination when a   *)
(* conversion starts and "sent" what leaves the holder right after it, in    *)
(* the same message; a transfer of a contract of others may arrive short.    *)

\* The pair is looked up by denomination or by contract.
MintingEnabled(d, map) == enableErc20 /\ d \in map /\ d \in tokenPairs /\ pairEnabled[d]

\* Coins into tokens: coins are escrowed and tokens minted.
ConvertCoinNativeCoin(d, coins, amount) ==
    /\ amount <= coins
    /\ userCoin' = [userCoin EXCEPT ![d] = coins - amount]
    /\ escrowCoin' = [escrowCoin EXCEPT ![d] = @ + amount]
    /\ userToken' = [userToken EXCEPT ![d] = @ + amount]
    /\ UNCHANGED escrowToken

\* Fault: what the holder receives is not compared with the amount.
ConvertCoinNativeERC20_Unchecked(d, coins, amount) ==
    /\ amount <= coins /\ amount <= escrowToken[d]
    /\ \E received \in 0..amount :
          /\ userToken' = [userToken EXCEPT ![d] = @ + received]
          /\ escrowToken' = [escrowToken EXCEPT ![d] = @ - amount]
    /\ userCoin' = [userCoin EXCEPT ![d] = coins - amount]
    /\ UNCHANGED escrowCoin

\* Coins into tokens: coins are escrowed, tokens released, the coins burned.
ConvertCoinNativeERC20(d, coins, amount) ==
    /\ amount <= coins /\ amount <= escrowToken[d]
    /\ \E received \in 0..amount :
          /\ received = amount
          /\ userToken' = [userToken EXCEPT ![d] = @ + received]
          /\ escrowToken' = [escrowToken EXCEPT ![d] = @ - amount]
    /\ userCoin' = [userCoin EXCEPT ![d] = coins - amount]
    /\ UNCHANGED escrowCoin

\* Tokens into coins: tokens are burned and coins released.
ConvertERC20NativeCoin(d, amount, sent) ==
    /\ amount <= userToken[d] /\ amount <= escrowCoin[d]
    /\ userToken' = [userToken EXCEPT ![d] = @ - amount]
    /\ escrowCoin' = [escrowCoin EXCEPT ![d] = @ - amount]
    /\ userCoin' = [userCoin EXCEPT ![d] = @ + amount - sent]
    /\ UNCHANGED escrowToken

\* Fault: the escrow is not compared with the amount after the transfer.
ConvertERC20NativeToken_Unchecked(d, amount, sent) ==
    /\ amount <= userToken[d]
    /\ userToken' = [userToken EXCEPT ![d] = @ - amount]
    /\ \E received \in 0..amount : escrowToken' = [escrowToken EXCEPT ![d] = @ + received]
    /\ userCoin' = [userCoin EXCEPT ![d] = @ + amount - sent]
    /\ UNCHANGED escrowCoin

\* Tokens into coins: tokens are escrowed and coins minted.
ConvertERC20NativeToken(d, amount, sent) ==
    /\ amount <= userToken[d]
    /\ userToken' = [userToken EXCEPT ![d] = @ - amount]
    /\ \E received \in 0..amount :
          received = amount /\ escrowToken' = [escrowToken EXCEPT ![d] = @ + received]
    /\ userCoin' = [userCoin EXCEPT ![d] = @ + amount - sent]
    /\ UNCHANGED escrowCoin

\* ConvertCoin: the pair of a contract that is gone is deleted, and the
\* message succeeds without a conversion.
ConvertCoin(d, coins, amount) ==
    /\ MintingEnabled(d, denomMap)
    /\ \/ /\ ~contractCode[d]
          /\ DeleteTokenPair(d)
          /\ userCoin' = [userCoin EXCEPT ![d] = coins]
          /\ UNCHANGED <<userToken, escrowCoin, escrowToken>>
       \/ /\ contractCode[d] /\ d \in NativeCoins
          /\ ConvertCoinNativeCoin(d, coins, amount)
          /\ UNCHANGED registryVars
       \/ /\ contractCode[d] /\ d \in NativeERC20s
          /\ ConvertCoinNativeERC20(d, coins, amount)
          /\ UNCHANGED registryVars

ConvertERC20(d, amount, sent) ==
    /\ MintingEnabled(d, erc20Map)
    /\ \/ /\ ~contractCode[d] /\ sent = 0
          /\ DeleteTokenPair(d)
          /\ UNCHANGED holdings
       \/ /\ contractCode[d] /\ d \in NativeCoins
          /\ ConvertERC20NativeCoin(d, amount, sent)
          /\ UNCHANGED registryVars
       \/ /\ contractCode[d] /\ d \in NativeERC20s
          /\ ConvertERC20NativeToken(d, amount, sent)
          /\ UNCHANGED registryVars

MsgConvertCoin(d, amount) ==
    /\ ConvertCoin(d, userCoin[d], amount)
    /\ UNCHANGED <<enableErc20, contractCode, channel, packets>>

MsgConvertERC20(d, amount) ==
    /\ ConvertERC20(d, amount, 0)
    /\ UNCHANGED <<enableErc20, contractCode, channel, packets>>

-----------------------------------------------------------------------------
(* Transfers over IBC.  The staking denomination and module accounts, which  *)
(* are never converted for, are left out.                                    *)

Idle(p) == packets[p].state = "none"

\* The transfer of ICS-20 itself.
SendPacket(p, d, amount) ==
    /\ channel' = [channel EXCEPT ![d] = @ + amount]
    /\ packets' = [packets EXCEPT ![p] = [state |-> "sent", pair |-> d, amount |-> amount]]

\* What is on its way; the rest of what ICS-20 keeps is held on the other chain.
InFlight(d) ==
    MapThenSumSet(LAMBDA p : packets[p].amount, {p \in Packets : packets[p].pair = d})

\* ICS-20 gives coins back, to refund or because they return.
ReleaseCoins(d, amount) ==
    /\ amount <= channel[d]
    /\ channel' = [channel EXCEPT ![d] = @ - amount]

\* How Transfer finds the pair: the denomination of a contract's coin holds
\* the contract's address.
LookedUp(d) == IF d \in NativeERC20s THEN erc20Map ELSE denomMap

\* Transfer with coins only: there is no pair to use, or enough of them.
TransferCoins(p, d, amount) ==
    /\ Idle(p) /\ amount <= userCoin[d]
    /\ userCoin' = [userCoin EXCEPT ![d] = @ - amount]
    /\ SendPacket(p, d, amount)
    /\ UNCHANGED <<enableErc20, registryVars, contractCode, userToken, escrowCoin, escrowToken>>

\* Transfer that converts the missing coins first.  If the contract is gone
\* nothing is converted, and the transfer fails for lack of coins.
TransferConverting(p, d, amount) ==
    /\ Idle(p) /\ userCoin[d] < amount
    /\ MintingEnabled(d, LookedUp(d))
    /\ ConvertERC20(d, amount - userCoin[d], amount)
    /\ SendPacket(p, d, amount)
    /\ UNCHANGED <<enableErc20, contractCode>>

\* The other chain accepts: the acknowledgement changes nothing here.
PacketAccepted(p) ==
    /\ packets[p].state = "sent"
    /\ packets' = [packets EXCEPT ![p] = NoPacket]
    /\ UNCHANGED <<enableErc20, registryVars, contractCode, holdings, channel>>

\* The other chain answers with an error, or the packet times out.
PacketFails(p) ==
    /\ packets[p].state = "sent"
    /\ packets' = [packets EXCEPT ![p].state = "failed"]
    /\ UNCHANGED <<enableErc20, registryVars, contractCode, holdings, channel>>

\* Fault: a refund waits until the module is enabled.
ConvertCoinToERC20FromPacket_WhenEnabled(d, amount) ==
    ConvertCoin(d, userCoin[d] + amount, amount)

\* The refunded coins are converted back; the pair is not asked whether it is
\* enabled, so the conversion, and the refund with it, may be refused.
ConvertCoinToERC20FromPacket(d, amount) ==
    IF enableErc20 /\ d \in denomMap
    THEN ConvertCoin(d, userCoin[d] + amount, amount)
    ELSE userCoin' = [userCoin EXCEPT ![d] = @ + amount]
         /\ UNCHANGED <<registryVars, userToken, escrowCoin, escrowToken>>

\* OnAcknowledgementPacket with an error, and OnTimeoutPacket: ICS-20 refunds
\* the coins, then they are converted.
OnPacketFailed(p) ==
    /\ packets[p].state = "failed"
    /\ ConvertCoinToERC20FromPacket(packets[p].pair, packets[p].amount)
    /\ ReleaseCoins(packets[p].pair, packets[p].amount)
    /\ packets' = [packets EXCEPT ![p] = NoPacket]
    /\ UNCHANGED <<enableErc20, contractCode>>

\* OnRecvPacket: after ICS-20 has credited the coins the whole balance is
\* converted; if that fails the error acknowledgement undoes the receipt.
\* Nothing is converted when sender and recipient are the same address.
OnRecvPacket(d, amount, recovery) ==
    LET coins == userCoin[d] + amount IN
    /\ amount <= channel[d] - InFlight(d)
    /\ ReleaseCoins(d, amount)
    /\ IF enableErc20 /\ ~recovery /\ d \in denomMap /\ pairEnabled[d]
       THEN ConvertCoin(d, coins, coins)
       ELSE userCoin' = [userCoin EXCEPT ![d] = coins]
            /\ UNCHANGED <<registryVars, userToken, escrowCoin, escrowToken>>
    /\ UNCHANGED <<enableErc20, contractCode, packets>>

ERC20Next ==
    \/ SetParams
    \/ \E d \in Pairs :
          \/ RegisterERC20(d) \/ ToggleConversion(d) \/ DestroyContract(d)
          \/ \E amount \in Amounts :
                \/ MsgConvertCoin(d, amount) \/ MsgConvertERC20(d, amount)
                \/ \E recovery \in BOOLEAN : OnRecvPacket(d, amount, recovery)
                \/ \E p \in Packets : TransferCoins(p, d, amount) \/ TransferConverting(p, d, amount)
    \/ \E p \in Packets : PacketAccepted(p) \/ PacketFails(p) \/ OnPacketFailed(p)

\* A relayer keeps submitting acknowledgements and timeouts until they pass,
\* and every packet is answered or times out.
ERC20Spec ==
    /\ ERC20Init /\ [][ERC20Next]_erc20Vars
    /\ \A p \in Packets : WF_erc20Vars(OnPacketFailed(p)) /\ WF_erc20Vars(PacketAccepted(p) \/ PacketFails(p))

-----------------------------------------------------------------------------
(* Properties.                                                              *)

ERC20TypeOK ==
    /\ enableErc20 \in BOOLEAN
    /\ tokenPairs \subseteq Pairs /\ denomMap \subseteq Pairs /\ erc20Map \subseteq Pairs
    /\ pairEnabled \in [Pairs -> BOOLEAN] /\ contractCode \in [Pairs -> BOOLEAN]
    /\ metadata \subseteq Pairs
    /\ userCoin \in [Pairs -> Nat] /\ userToken \in [Pairs -> Nat]
    /\ escrowCoin \in [Pairs -> Nat] /\ escrowToken \in [Pairs -> Nat]
    /\ channel \in [Pairs -> Nat]
    /\ packets \in [Packets -> {NoPacket} \cup [state : {"sent", "failed"}, pair : Pairs, amount : Amounts]]

\* The three stores of the registry name the same pairs, through
\* registrations and the deletions that conversions make on the way.
RegistryAgrees == denomMap = tokenPairs /\ erc20Map = tokenPairs

\* Every token of the module's own contracts is backed by an escrowed coin,
\* and every coin of a contract of others, in flight or abroad included, by
\* an escrowed token, so a conversion back never fails for want of them.
Backed ==
    /\ ERC20TypeOK
    /\ \A d \in NativeCoins : escrowCoin[d] = userToken[d]
    /\ \A d \in NativeERC20s :
          contractCode[d] => escrowToken[d] = userCoin[d] + channel[d]

\* Conversions, transfers, refunds and receipts in any order neither create
\* nor lose value: while the contract lives, coins and tokens of the holder
\* and the coins ICS-20 keeps add up to what there was.
ValueKept ==
    \A d \in Pairs :
        contractCode[d] => userCoin[d] + userToken[d] + channel[d] = Total

\* A transfer that failed is refunded, unless the pair is disabled: then
\* acknowledgement and timeout keep failing until it is enabled again.
RefundsArrive ==
    \A p \in Packets :
        packets[p].state = "failed" ~>
            \/ packets[p].state = "none"
            \/ ~pairEnabled[packets[p].pair]
=============================================================================
