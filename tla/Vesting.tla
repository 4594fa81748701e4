------------------------------ MODULE Vesting ------------------------------
(* x/vesting around one account: it becomes a clawback account, is funded by *)
(* grants, delegates and spends, and ends by a conversion or a clawback of   *)
(* the funder or of governance.  The staking, bank and governance modules    *)
(* are modelled from how x/vesting uses them.                                *)
EXTENDS ClawbackAccount, TLC

CONSTANTS Funders,      \* addresses that may fund
          Grants,       \* grants [start, lockup, vesting] a message may carry
          Genesis,      \* schedules [lockupStart, lockup, vestingStart, vesting] of genesis accounts
          OwnCoins,     \* coins the account has of its own at the start
          Amounts,      \* amounts moved by sends and delegations
          Proposals,    \* clawback proposals on the account
          MaxGrants,    \* bound: grants in all
          MaxSlash,     \* bound: coins slashed
          MaxTime       \* bound: block time

VARIABLES now,         \* block time
          acct,        \* the clawback account, or Plain
          balance,     \* bank balance of the account
          bonded,      \* delegated and bonded
          unbonding,   \* delegated and on its way back
          govDisabled, \* store: governance may not claw back from the account
          active,      \* store: a clawback proposal is active for the account
          status,      \* governance: where each proposal is
          grants,      \* history: the schedules the account was granted
          funded,      \* history: grants so far
          optedOut,    \* history: what the message that created the account asked for
          slashed,     \* history: coins lost to slashing
          overlap      \* history: a proposal ended while another was being voted on

coinVars == <<balance, bonded, unbonding, slashed>>
accountVars == <<acct, govDisabled, grants, funded, optedOut>>
govVars == <<active, status, overlap>>
vars == <<now, accountVars, coinVars, govVars>>

Plain == [funder |-> "none"]
IsClawback == acct # Plain

VestingTypeOK ==
    /\ now \in 0..MaxTime
    /\ balance \in Nat /\ bonded \in Nat /\ unbonding \in Nat /\ slashed \in 0..MaxSlash
    /\ govDisabled \in BOOLEAN /\ active \in BOOLEAN
    /\ status \in [Proposals -> {"none", "deposit", "voting", "ended"}]
    /\ IsClawback => acct.funder \in Funders /\ acct.delegatedVesting \in Nat /\ acct.delegatedFree \in Nat

-----------------------------------------------------------------------------
(* The genesis account, built by add-genesis-account from two files.        *)

\* An absent schedule releases everything at once.
Instant(periods, other) == IF periods = <<>> THEN <<Period(0, TotalAmount(other))>> ELSE periods

GenesisAccount(funder, g) ==
    LET aligned == AlignSchedules(g.lockupStart, g.vestingStart, g.lockup, g.vesting)
        lockup == Instant(aligned.a, aligned.b)
        vesting == Instant(aligned.b, aligned.a)
    IN  NewClawbackVestingAccount(funder, TotalAmount(vesting), aligned.start, lockup, vesting)

\* What the grant of a genesis file or of a message releases, schedule by schedule.
Granted(lockupStart, lockup, vestingStart, vesting) ==
    [lockupStart |-> lockupStart, lockup |-> Instant(lockup, vesting),
     vestingStart |-> vestingStart, vesting |-> Instant(vesting, lockup)]

InitPlain == acct = Plain /\ grants = <<>> /\ funded = 0 /\ balance = OwnCoins

InitGenesis ==
    \E f \in Funders, g \in Genesis :
        /\ acct = GenesisAccount(f, g)
        /\ Validate(acct)
        /\ grants = <<Granted(g.lockupStart, g.lockup, g.vestingStart, g.vesting)>>
        /\ funded = 1
        /\ balance = acct.original

Init ==
    /\ now = 0
    /\ InitPlain \/ InitGenesis
    /\ bonded = 0 /\ unbonding = 0 /\ slashed = 0
    /\ govDisabled = FALSE /\ optedOut = FALSE
    /\ active = FALSE /\ overlap = FALSE
    /\ status = [p \in Proposals |-> "none"]

-----------------------------------------------------------------------------
(* The messages of the module.                                              *)

CreateClawbackVestingAccount(funder, enableGovClawback) ==
    /\ ~IsClawback
    /\ acct' = EmptyAccount(funder)
    /\ govDisabled' = (govDisabled \/ ~enableGovClawback)
    /\ optedOut' = ~enableGovClawback
    /\ UNCHANGED <<now, grants, funded, coinVars, govVars>>

\* The account with the schedules of a grant joined to its own.
Merged(start, lockup, vesting, coins) ==
    LET accStart == IF acct.lockup = <<>> /\ acct.vesting = <<>> THEN start ELSE acct.start
        newLockup == DisjunctPeriods(accStart, start, acct.lockup, lockup)
        newVesting == DisjunctPeriods(accStart, start, acct.vesting, vesting)
    IN  [acct EXCEPT !.start = newLockup.start, !.end = Later(newLockup.end, newVesting.end),
                     !.lockup = newLockup.periods, !.vesting = newVesting.periods,
                     !.original = @ + coins]

\* Fault: the delegations are counted on top of those tracked so far.
AddGrant_AddsTracking(start, lockup, vesting, coins) ==
    TrackDelegation(Merged(start, lockup, vesting, coins), now, bonded + unbonding)

\* addGrant: the delegations are split anew, from what is really delegated.
AddGrant(start, lockup, vesting, coins) ==
    LET va == Merged(start, lockup, vesting, coins)
        delegated == bonded + unbonding
        vestingPart == Earlier(delegated, GetVestingCoins(va, now))
    IN  [va EXCEPT !.delegatedVesting = vestingPart, !.delegatedFree = delegated - vestingPart]

FundVestingAccount(funder, g) ==
    LET lockup == Instant(g.lockup, g.vesting)
        vesting == Instant(g.vesting, g.lockup)
    IN  /\ IsClawback /\ acct.funder = funder
        /\ funded < MaxGrants /\ funded' = funded + 1
        /\ acct' = AddGrant(g.start, lockup, vesting, TotalAmount(vesting))
        /\ balance' = balance + TotalAmount(vesting)
        /\ grants' = Append(grants, Granted(g.start, g.lockup, g.start, g.vesting))
        /\ UNCHANGED <<now, govDisabled, optedOut, bonded, unbonding, slashed, govVars>>

\* The account is stored as an ordinary one: its schedules are gone.
BecomesPlain == acct' = Plain /\ grants' = <<>> /\ optedOut' = FALSE /\ UNCHANGED funded

HasPeriods == acct.vesting # <<>> \/ acct.lockup # <<>>

\* The account becomes a plain one, then the unvested coins are sent: if they
\* are not there the whole message fails.
TransferClawback ==
    LET toClawBack == ComputeClawback(acct, now).coins IN
    /\ toClawBack <= balance
    /\ balance' = balance - toClawBack
    /\ BecomesPlain
    /\ govDisabled' = FALSE
    /\ UNCHANGED <<now, bonded, unbonding, slashed>>

\* Fault: an active proposal does not keep the funder from it.
Clawback_DuringVote(funder) ==
    /\ IsClawback /\ HasPeriods
    /\ acct.funder = funder
    /\ TransferClawback
    /\ UNCHANGED govVars

\* Clawback by the funder.
Clawback(funder) ==
    /\ ~active
    /\ IsClawback /\ HasPeriods
    /\ acct.funder = funder
    /\ TransferClawback
    /\ UNCHANGED govVars

UpdateVestingFunder(funder, newFunder) ==
    /\ ~active
    /\ IsClawback /\ acct.funder = funder /\ newFunder # funder
    /\ acct' = [acct EXCEPT !.funder = newFunder]
    /\ UNCHANGED <<now, govDisabled, grants, funded, optedOut, coinVars, govVars>>

ConvertVestingAccount ==
    /\ IsClawback /\ GetVestingCoins(acct, now) = 0
    /\ BecomesPlain
    /\ govDisabled' = FALSE
    /\ UNCHANGED <<now, coinVars, govVars>>

-----------------------------------------------------------------------------
(* The holder: sends through the bank, delegations through the ante handler. *)

Send(amount) ==
    /\ amount <= balance - IF IsClawback THEN LockedCoins(acct, now) ELSE 0
    /\ balance' = balance - amount
    /\ UNCHANGED <<now, accountVars, bonded, unbonding, slashed, govVars>>

\* VestingDelegationDecorator: something has vested, and what stays in the
\* balance covers all that has not.
MayDelegate(amount) ==
    IsClawback => /\ GetVestedOnly(acct, now) > 0
                  /\ amount <= Later(balance - GetUnvestedOnly(acct, now), 0)

Delegate(amount) ==
    /\ MayDelegate(amount) /\ amount <= balance
    /\ balance' = balance - amount /\ bonded' = bonded + amount
    /\ acct' = IF IsClawback THEN TrackDelegation(acct, now, amount) ELSE acct
    /\ UNCHANGED <<now, govDisabled, grants, funded, optedOut, unbonding, slashed, govVars>>

Undelegate(amount) ==
    /\ amount <= bonded
    /\ bonded' = bonded - amount /\ unbonding' = unbonding + amount
    /\ UNCHANGED <<now, accountVars, balance, slashed, govVars>>

CompleteUnbonding ==
    /\ unbonding > 0
    /\ balance' = balance + unbonding /\ unbonding' = 0
    /\ acct' = IF IsClawback THEN TrackUndelegation(acct, unbonding) ELSE acct
    /\ UNCHANGED <<now, govDisabled, grants, funded, optedOut, bonded, slashed, govVars>>

\* Slashing takes delegated coins and leaves the account as it is.
Slash ==
    /\ slashed < MaxSlash /\ slashed' = slashed + 1
    /\ \/ bonded > 0 /\ bonded' = bonded - 1 /\ UNCHANGED unbonding
       \/ unbonding > 0 /\ unbonding' = unbonding - 1 /\ UNCHANGED bonded
    /\ UNCHANGED <<now, accountVars, balance, govVars>>

-----------------------------------------------------------------------------
(* Governance.                                                              *)

Voting == {p \in Proposals : status[p] = "voting"}

\* Clawback on behalf of governance, whoever the funder is.
GovClawbackAllowed == IsClawback /\ HasPeriods /\ ~govDisabled
GovClawbackSucceeds == GovClawbackAllowed /\ ComputeClawback(acct, now).coins <= balance

\* The governance module tries the proposal on a cached context first.
\* AfterProposalSubmission does nothing.
SubmitProposal(p) ==
    /\ status[p] = "none" /\ GovClawbackSucceeds
    /\ status' = [status EXCEPT ![p] = "deposit"]
    /\ UNCHANGED <<now, accountVars, coinVars, active, overlap>>

\* Once the deposits reach the minimum every further deposit sets the mark again.
AfterProposalDeposit(p, reached) == active' = (active \/ reached)

\* A deposit, which may open the vote.
Deposit(p, reached) ==
    /\ status[p] \in {"deposit", "voting"}
    /\ status[p] = "voting" => reached
    /\ status' = [status EXCEPT ![p] = IF reached THEN "voting" ELSE @]
    /\ AfterProposalDeposit(p, reached)
    /\ overlap' = (overlap /\ ~reached)
    /\ UNCHANGED <<now, accountVars, coinVars>>

\* AfterProposalFailedMinDeposit does nothing.
DepositPeriodEnds(p) ==
    /\ status[p] = "deposit"
    /\ status' = [status EXCEPT ![p] = "ended"]
    /\ UNCHANGED <<now, accountVars, coinVars, active, overlap>>

\* Fault: the mark is removed only with a proposal that passed.
AfterProposalVotingPeriodEnded_IfPassed(p, passed) == active' = (active /\ ~passed)

AfterProposalVotingPeriodEnded(p, passed) == active' = FALSE

\* The end of the vote: a passed proposal is executed (HandleClawbackProposal),
\* without effect if the clawback fails; then the hook runs.
VotingPeriodEnds(p, passed) ==
    /\ status[p] = "voting"
    /\ status' = [status EXCEPT ![p] = "ended"]
    /\ IF passed /\ GovClawbackSucceeds
       THEN TransferClawback
       ELSE UNCHANGED <<now, accountVars, coinVars>>
    /\ AfterProposalVotingPeriodEnded(p, passed)
    /\ overlap' = (Voting # {p})

Tick == now < MaxTime /\ now' = now + 1 /\ UNCHANGED <<accountVars, coinVars, govVars>>

Next ==
    \/ Tick
    \/ \E f \in Funders, b \in BOOLEAN : CreateClawbackVestingAccount(f, b)
    \/ \E f \in Funders, g \in Grants : FundVestingAccount(f, g)
    \/ \E f \in Funders : Clawback(f)
    \/ \E f, n \in Funders : UpdateVestingFunder(f, n)
    \/ ConvertVestingAccount
    \/ \E a \in Amounts : Send(a) \/ Delegate(a) \/ Undelegate(a)
    \/ CompleteUnbonding
    \/ Slash
    \/ \E p \in Proposals : SubmitProposal(p) \/ DepositPeriodEnds(p)
    \/ \E p \in Proposals, b \in BOOLEAN : Deposit(p, b) \/ VotingPeriodEnds(p, b)

Spec == Init /\ [][Next]_vars

-----------------------------------------------------------------------------
(* Properties.                                                              *)

SumOverGrants(amount(_)) == MapThenSumSet(LAMBDA i : amount(grants[i]), DOMAIN grants)

\* However many grants were joined into one account, in whatever order and
\* with whatever start times, its two schedules read at every time what the
\* grants would release one by one; up to the start of the earliest, nothing.
ReadsAsGranted ==
    IsClawback => \A t \in 0..MaxTime :
        LET started == t > acct.start IN
        /\ GetVestedOnly(acct, t) =
              IF started THEN SumOverGrants(LAMBDA g : Released(g.vestingStart, g.vesting, t)) ELSE 0
        /\ GetUnlockedOnly(acct, t) =
              IF started THEN SumOverGrants(LAMBDA g : Released(g.lockupStart, g.lockup, t)) ELSE 0

\* The coins that are not both vested and unlocked cannot leave the account:
\* with what is delegated, and short only of what was slashed, they are there,
\* through delegations, undelegations and grants in any order; and nothing is
\* overdrawn.
GrantCovered ==
    /\ VestingTypeOK
    /\ IsClawback => GetVestingCoins(acct, now) <= balance + bonded + unbonding + slashed

\* The account ComputeClawback returns keeps what was earned: at every time it
\* reads what the account read, up to the amount vested at the clawback.
ClawbackKeepsEarned ==
    IsClawback /\ HasPeriods =>
        LET after == ComputeClawback(acct, now)
            vested == GetVestedOnly(acct, now)
        IN  /\ after.coins + after.acc.original = acct.original
            /\ \A t \in 0..MaxTime :
                  /\ GetVestedOnly(after.acc, t) = Earlier(GetVestedOnly(acct, t), vested)
                  /\ GetUnlockedOnly(after.acc, t) = Earlier(GetUnlockedOnly(acct, t), vested)

\* While a clawback proposal is voted on, the funder neither claws back what
\* has not been released nor is replaced, so that the vote decides; unless the
\* mark went with another proposal that ended meanwhile.
VoteShielded ==
    [][ Voting # {} /\ ~overlap /\ IsClawback /\ status' = status =>
        (IsClawback' /\ acct'.funder = acct.funder) \/ GetVestingCoins(acct, now) = 0 ]_vars

\* The two entries kept beside the account follow it: the mark of an active
\* proposal never outlives the vote, after which the funder can act again; and
\* governance is kept from exactly the accounts that opted out when they were
\* created, however often an account is converted, clawed back and created again.
MarksFollow ==
    /\ active => Voting # {}
    /\ govDisabled = (IsClawback /\ optedOut)
=============================================================================
