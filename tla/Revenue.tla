------------------------------ MODULE Revenue ------------------------------
(* x/revenue/v1: which contracts share in transaction fees, and who gets the*)
(* share.  A registration lives in three stores: by contract, by deployer   *)
(* and by withdrawer.  Contracts come and go underneath.                    *)
(*                                                                          *)
(* Messages and registrations hold addresses as text, and bech32 accepts    *)
(* two texts for an address: one in lower and one in upper case.  The code  *)
(* compares texts; the indexes are keyed by the addresses they decode to.   *)
EXTENDS Naturals

CONSTANTS Accounts,    \* addresses of externally owned accounts
          Contracts,   \* contract addresses
          Origin,      \* contract |-> the account whose nonces derive its address, or None
          Default      \* the empty withdraw address

VARIABLES enabled,        \* parameter EnableRevenue
          code,           \* contracts with code
          revenues,       \* store: contract |-> deployer and withdrawer
          deployerMap,    \* store: <<deployer, contract>>
          withdrawerMap   \* store: <<withdrawer, contract>>

stores == <<revenues, deployerMap, withdrawerMap>>
revenueVars == <<enabled, code, stores>>

Text(A) == [addr : A, upper : BOOLEAN]
String(a) == [addr |-> a, upper |-> FALSE]     \* how the code spells an address
Decoded(t) == t.addr

ASSUME RevenueAssumption ==
    /\ Accounts \cap Contracts = {}
    /\ Default \notin Accounts
    /\ Default \notin Text(Accounts \cup Contracts)
    /\ Origin \in [Contracts -> Accounts \cup {Default}]

\* A contract cannot be its own deployer; anyone may be the withdrawer.
Withdrawers == Text(Accounts \cup Contracts) \cup {Default}
Revenue == [deployer : Text(Accounts), withdrawer : Withdrawers]

Registered == DOMAIN revenues

RevenueTypeOK ==
    /\ enabled \in BOOLEAN
    /\ code \subseteq Contracts
    /\ Registered \subseteq Contracts
    /\ \A c \in Registered : revenues[c] \in Revenue
    /\ deployerMap \subseteq Accounts \X Contracts
    /\ withdrawerMap \subseteq (Accounts \cup Contracts) \X Contracts

\* What the two indexes must hold for a table of registrations.
DeployerIndex(table) == {<<Decoded(table[c].deployer), c>> : c \in DOMAIN table}
WithdrawerIndex(table) ==
    {<<Decoded(table[c].withdrawer), c>> : c \in {x \in DOMAIN table : table[x].withdrawer # Default}}

\* InitGenesis: a validated genesis lists each contract once.
RevenueInit ==
    /\ enabled \in BOOLEAN
    /\ code \in SUBSET Contracts
    /\ \E S \in SUBSET Contracts : revenues \in [S -> Revenue]
    /\ deployerMap = DeployerIndex(revenues)
    /\ withdrawerMap = WithdrawerIndex(revenues)

SetRevenue(c, r) == [x \in Registered \cup {c} |-> IF x = c THEN r ELSE revenues[x]]
DeleteRevenue(c) == [x \in Registered \ {c} |-> revenues[x]]

-----------------------------------------------------------------------------
(* Messages.  The deployer has signed: it is an account without code.       *)

\* The index with the entry of a withdraw address, and without it: the default
\* has no entry.
SetWithdrawerMap(index, w, c) == IF w = Default THEN index ELSE index \cup {<<Decoded(w), c>>}
DeleteWithdrawerMap(index, w, c) == IF w = Default THEN index ELSE index \ {<<Decoded(w), c>>}

\* The withdraw address a registration stores: none when the message has none or
\* spells it like the deployer.
Effective(deployer, withdrawer) ==
    IF withdrawer \in {Default, deployer} THEN Default ELSE String(Decoded(withdrawer))

\* Fault: the address is not derived from the deployer's.
RegisterRevenue_AnyDeployer(deployer, c, withdrawer) ==
    LET w == Effective(deployer, withdrawer) IN
    /\ enabled /\ c \notin Registered /\ c \in code
    /\ revenues' = SetRevenue(c, [deployer |-> String(Decoded(deployer)), withdrawer |-> w])
    /\ deployerMap' = deployerMap \cup {<<Decoded(deployer), c>>}
    /\ withdrawerMap' = SetWithdrawerMap(withdrawerMap, w, c)
    /\ UNCHANGED <<enabled, code>>

RegisterRevenue(deployer, c, withdrawer) ==
    LET w == Effective(deployer, withdrawer) IN
    /\ enabled
    /\ c \notin Registered
    /\ c \in code
    /\ Origin[c] = Decoded(deployer)
    /\ revenues' = SetRevenue(c, [deployer |-> String(Decoded(deployer)), withdrawer |-> w])
    /\ deployerMap' = deployerMap \cup {<<Decoded(deployer), c>>}
    /\ withdrawerMap' = SetWithdrawerMap(withdrawerMap, w, c)
    /\ UNCHANGED <<enabled, code>>

\* Fault: the old withdrawer stays in the index.
UpdateRevenue_KeepsOld(deployer, c, withdrawer) ==
    LET w == IF withdrawer = deployer THEN Default ELSE withdrawer IN
    /\ enabled
    /\ c \in Registered /\ revenues[c].deployer = deployer
    /\ w # revenues[c].withdrawer
    /\ withdrawerMap' = SetWithdrawerMap(withdrawerMap, w, c)
    /\ revenues' = SetRevenue(c, [revenues[c] EXCEPT !.withdrawer = w])
    /\ UNCHANGED <<enabled, code, deployerMap>>

\* The new withdraw address is stored as the message spells it.
UpdateRevenue(deployer, c, withdrawer) ==
    LET w == IF withdrawer = deployer THEN Default ELSE withdrawer IN
    /\ enabled
    /\ c \in Registered /\ revenues[c].deployer = deployer
    /\ w # revenues[c].withdrawer
    /\ LET kept == DeleteWithdrawerMap(withdrawerMap, revenues[c].withdrawer, c)
       IN  withdrawerMap' = SetWithdrawerMap(kept, w, c)
    /\ revenues' = SetRevenue(c, [revenues[c] EXCEPT !.withdrawer = w])
    /\ UNCHANGED <<enabled, code, deployerMap>>

CancelRevenue(deployer, c) ==
    /\ enabled
    /\ c \in Registered /\ revenues[c].deployer = deployer
    /\ revenues' = DeleteRevenue(c)
    /\ deployerMap' = deployerMap \ {<<Decoded(deployer), c>>}
    /\ withdrawerMap' = DeleteWithdrawerMap(withdrawerMap, revenues[c].withdrawer, c)
    /\ UNCHANGED <<enabled, code>>

UpdateRevenueParams(b) == enabled' = b /\ UNCHANGED <<code, stores>>

\* The EVM creates contracts and destroys them, registered or not.
Deploy(c) == code' = code \cup {c} /\ UNCHANGED <<enabled, stores>>
SelfDestruct(c) == code' = code \ {c} /\ UNCHANGED <<enabled, stores>>

RevenueNext ==
    \/ \E d \in Text(Accounts), c \in Contracts :
          \/ \E w \in Withdrawers : RegisterRevenue(d, c, w)
          \/ \E w \in Withdrawers \ {Default} : UpdateRevenue(d, c, w)
          \/ CancelRevenue(d, c)
    \/ \E b \in BOOLEAN : UpdateRevenueParams(b)
    \/ \E c \in Contracts : Deploy(c) \/ SelfDestruct(c)

RevenueSpec == RevenueInit /\ [][RevenueNext]_revenueVars

-----------------------------------------------------------------------------
(* Properties.                                                              *)

\* The two indexes list exactly the registrations: nothing a registration, an
\* update or a cancellation left behind, in particular not the withdrawer of
\* an earlier update, whichever way its address was spelled.  A genesis exported
\* now and imported gives this state.
IndexesAgree ==
    /\ deployerMap = DeployerIndex(revenues)
    /\ withdrawerMap = WithdrawerIndex(revenues)

\* A step that leaves registrations with their deployer, and lets them appear
\* or change only while revenue is enabled and for the contract's deployer.
DeployerKept ==
    /\ \A c \in Registered \cap DOMAIN revenues' :
          revenues'[c].deployer = revenues[c].deployer
    /\ revenues' # revenues => enabled
    /\ \A c \in (DOMAIN revenues') \ Registered :
          Decoded(revenues'[c].deployer) = Origin[c] /\ c \in code

\* A registration never passes from one deployer to another; the deployer is the
\* account the contract's address derives from.
DeployerFixed == [][DeployerKept]_revenueVars
=============================================================================
