----------------------------- MODULE MCAccounts -----------------------------
\* Accounts for TLC: the first identity's SCID projects to an address, the second is of
\* another method and has none.  Threads are interchangeable.
EXTENDS Accounts, TLC
CONSTANTS d1, d2, s1
MCScid == [d \in Dids |-> IF d = d1 THEN s1 ELSE None]
Symmetric == Permutations(Threads)
=============================================================================
