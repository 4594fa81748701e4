----------------------------- MODULE MCVesting -----------------------------
(* A small instance of x/vesting.                                            *)
EXTENDS Vesting

G(start, lockup, vesting) == [start |-> start, lockup |-> lockup, vesting |-> vesting]

\* Vesting without a lockup; a lockup without vesting that starts earlier; both.
MCGrants == {G(1, <<>>, <<Period(1, 1), Period(2, 1)>>),
             G(0, <<Period(3, 1)>>, <<>>),
             G(2, <<Period(1, 2)>>, <<Period(2, 1), Period(1, 1)>>)}

\* Lockup and vesting files with different start times.
MCGenesis == {[lockupStart |-> 2, lockup |-> <<Period(1, 2)>>,
               vestingStart |-> 0, vesting |-> <<Period(1, 1), Period(3, 1)>>]}

\* Neither funders nor proposals are told apart by more than their name.
MCSymmetry == Permutations(Funders) \cup Permutations(Proposals)
=============================================================================
