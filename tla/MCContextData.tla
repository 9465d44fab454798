---------------------------- MODULE MCContextData -----------------------------
EXTENDS ContextData, TLC

CONSTANTS a1, a2, a3, n1, n2, k1, d1, x1, x2, u1, u2, none

\* a1 is committed; a2 and a3 can be created in the block being executed.
MCAddrs    == {a1, a2, a3}
MCNewAddrs == {a2, a3}
\* Every account has its own name; a3's name parses as an address.
MCNameOf   == (a1 :> n1) @@ (a2 :> n2) @@ (a3 :> a3)
\* a2 takes the name of a1, which can be deleted first.
MCSharedNameOf == (a1 :> n1) @@ (a2 :> n1) @@ (a3 :> a3)
MCAddressLikeName == {a3}
MCLoaderAcc  == (a1 :> TRUE) @@ (a2 :> FALSE) @@ (a3 :> FALSE)
MCLoaderPD   == k1 :> x1
MCLoaderUTXO == {u1}
\* a1 has sent no transaction yet; account data key d1 holds x1.
MCLoaderSeq  == (a1 :> 0) @@ (a2 :> 0) @@ (a3 :> 0)
MCLoaderAD   == d1 :> x1
\* For the run on account data, process data, outputs and events: no accounts.
MCNoAddrs == {}
MCNoNameOf == [a \in {} |-> none]
MCNoLoaderAcc == [a \in {} |-> FALSE]
MCNoLoaderPD == [k \in {} |-> none]
MCNoLoaderSeq == [a \in {} |-> 0]
MCNoLoaderAD == [k \in {} |-> none]

=============================================================================
