-------------------------- MODULE ClawbackAccount --------------------------
(* x/vesting/types/clawback_vesting_account.go: an account whose coins are   *)
(* released by two schedules, a lockup and a vesting one.  Vested coins are  *)
(* the holder's, unlocked ones may move; what is not vested may be clawed    *)
(* back by the funder.                                                       *)
EXTENDS Schedules

\* The zero value of a Go time, before the Unix epoch.
ZeroTime == -1

\* CreateClawbackVestingAccount: an account without any grant.
EmptyAccount(funder) ==
    [funder |-> funder, start |-> ZeroTime, end |-> 0, lockup |-> <<>>, vesting |-> <<>>,
     original |-> 0, delegatedVesting |-> 0, delegatedFree |-> 0]

NewClawbackVestingAccount(funder, coins, start, lockup, vesting) ==
    LET aligned == AlignSchedules(start, start, lockup, vesting) IN
    [funder |-> funder, start |-> start, end |-> aligned.end,
     lockup |-> aligned.a, vesting |-> aligned.b,
     original |-> coins, delegatedVesting |-> 0, delegatedFree |-> 0]

GetUnlockedOnly(va, t) == ReadSchedule(va.start, va.end, va.lockup, va.original, t)
GetVestedOnly(va, t) == ReadSchedule(va.start, va.end, va.vesting, va.original, t)
GetUnvestedOnly(va, t) == va.original - GetVestedOnly(va, t)

\* What is both vested and unlocked, and what is not.
GetVestedCoins(va, t) == Earlier(GetUnlockedOnly(va, t), GetVestedOnly(va, t))
GetVestingCoins(va, t) == va.original - GetVestedCoins(va, t)

\* The bank keeps what is vesting and not delegated.
LockedCoins(va, t) == Later(GetVestingCoins(va, t) - va.delegatedVesting, 0)

\* A delegation takes the vesting coins first.
TrackDelegation(va, t, amount) ==
    LET x == Earlier(Later(GetVestingCoins(va, t) - va.delegatedVesting, 0), amount) IN
    [va EXCEPT !.delegatedVesting = @ + x, !.delegatedFree = @ + amount - x]

\* What comes back are the free coins first.
TrackUndelegation(va, amount) ==
    LET x == Earlier(va.delegatedFree, amount)
        y == Earlier(va.delegatedVesting, amount - x)
    IN  [va EXCEPT !.delegatedVesting = @ - y, !.delegatedFree = @ - x]

\* Fault: the lockup is dropped with the unvested periods.
ComputeClawback_Unlocks(va, t) ==
    LET vested == GetVestedOnly(va, t)
        kept == Prefix(va.vesting, ReadPastPeriodCount(va.start, va.end, va.vesting, t))
    IN  [acc |-> [va EXCEPT !.original = vested, !.end = va.start + TotalLength(kept),
                            !.lockup = <<Period(0, vested)>>, !.vesting = kept],
         coins |-> GetUnvestedOnly(va, t)]

\* The account without its future vesting events and the amount to claw back.
ComputeClawback(va, t) ==
    LET vested == GetVestedOnly(va, t)
        kept == Prefix(va.vesting, ReadPastPeriodCount(va.start, va.end, va.vesting, t))
        capped == ConjunctPeriods(va.start, va.start, va.lockup, <<Period(0, vested)>>)
    IN  [acc |-> [va EXCEPT !.original = vested,
                            !.end = Later(va.start + TotalLength(kept), capped.end),
                            !.lockup = capped.periods, !.vesting = kept],
         coins |-> GetUnvestedOnly(va, t)]

\* What Validate accepts: both schedules end by the end of the account and
\* release the original amount.
Validate(va) ==
    /\ va.start < va.end
    /\ \A periods \in {va.lockup, va.vesting} :
          /\ va.start + TotalLength(periods) <= va.end
          /\ TotalAmount(periods) = va.original
=============================================================================
