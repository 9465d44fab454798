----------------------------- MODULE FlatContext ------------------------------
(***************************************************************************)
(* What the layered state context promises its callers (spec 3, 4.4 and    *)
(* 8.3-8.4): each snapshot is a plain map of account status, sequence,    *)
(* account data, process data, spendable outputs and the event log;       *)
(* operations act on the                                                   *)
(* newest snapshot; a new                                                  *)
(* snapshot starts as a copy of the newest; reverting a snapshot restores  *)
(* the one below it exactly.  ret is the result of the last operation.     *)
(***************************************************************************)
EXTENDS Naturals, Sequences, SequencesExt

CONSTANTS
  Addrs, NewAddrs, Keys, Vals, Ids, Absent, MaxDepth,
  LoaderAcc, LoaderPD, LoaderUTXO, AddressLikeName, NameOf,
  LoaderSeq, AccKeys, LoaderAD, MaxSeq, SeqAddrs, MaxEvents

VARIABLES views, ret

vars == <<views, ret>>

Top == views[Len(views)]

Root == [acc |-> [a \in Addrs |-> IF LoaderAcc[a] THEN "live" ELSE "none"],
         sq  |-> LoaderSeq,
         ad  |-> LoaderAD,
         pd  |-> LoaderPD,
         ux  |-> [i \in Ids |-> IF i \in LoaderUTXO THEN "ok" ELSE "none"],
         ev  |-> <<>>]

Init == views = <<Root>> /\ ret = [op |-> "init", arg |-> Absent, res |-> Absent]

\* The newest snapshot becomes v and the operation returns res.
Do(op, arg, v, res) ==
  /\ views' = [views EXCEPT ![Len(views)] = v]
  /\ ret' = [op |-> op, arg |-> arg, res |-> res]

Account(a) == Do("Account", a, Top, Top.acc[a])
HasAccount(a) == Do("HasAccount", a, Top, Top.acc[a] = "live")

CreateAccount(op, a) ==
  CASE a \notin NewAddrs           -> Do(op, a, Top, "height")
    [] NameOf[a] \in AddressLikeName -> Do(op, a, Top, "addrname")
    [] Top.acc[a] = "live"         -> Do(op, a, Top, "exist")
    [] OTHER -> Do(op, a, [Top EXCEPT !.acc[a] = "live"], "ok")

\* A name resolves to the live account that holds it.  A name no live
\* account holds resolves to no address, or to an account of that name
\* that was deleted (a deleted account's name may linger below the newest
\* snapshot).
NameHolders(n, status) == {a \in Addrs : NameOf[a] = n /\ Top.acc[a] = status}
AddressByName(n) ==
  \E r \in IF NameHolders(n, "live") # {} THEN NameHolders(n, "live")
           ELSE NameHolders(n, "deleted") \cup {"none"} :
    Do("AddressByName", n, Top, r)

DeleteAccount(a) ==
  IF Top.acc[a] # "live" THEN Do("DeleteAccount", a, Top, Top.acc[a])
  ELSE Do("DeleteAccount", a, [Top EXCEPT !.acc[a] = "deleted", !.sq[a] = Absent], "ok")

\* A deleted account has no sequence: what Seq returns for it is not
\* specified, and AddSeq leaves it deleted.
Sequence(a) ==
  IF Top.sq[a] = Absent THEN \E r \in 0..MaxSeq : Do("Seq", a, Top, r)
  ELSE Do("Seq", a, Top, Top.sq[a])
AddSeq(a) ==
  IF Top.sq[a] = Absent THEN Do("AddSeq", a, Top, "ok")
  ELSE Do("AddSeq", a, [Top EXCEPT !.sq[a] = @ + 1], "ok")

AccountData(k) == Do("AccountData", k, Top, Top.ad[k])
SetAccountData(k, v) == Do("SetAccountData", <<k, v>>, [Top EXCEPT !.ad[k] = v], "ok")

ProcessData(k) == Do("ProcessData", k, Top, Top.pd[k])
SetProcessData(k, v) == Do("SetProcessData", <<k, v>>, [Top EXCEPT !.pd[k] = v], "ok")

UTXO(i) == Do("UTXO", i, Top, Top.ux[i])
CreateUTXO(i) ==
  Do("CreateUTXO", i, Top, IF Top.ux[i] = "none" THEN "ok"
                           ELSE IF Top.ux[i] = "ok" THEN "exist" ELSE "used")
DeleteUTXO(i) ==
  IF Top.ux[i] # "ok" THEN Do("DeleteUTXO", i, Top, Top.ux[i])
  ELSE Do("DeleteUTXO", i, [Top EXCEPT !.ux[i] = "used"], "ok")

\* The log of a snapshot continues the log it was taken from, and its
\* n-th event has the number n - 1.
EmitEvent ==
  /\ Len(Top.ev) < MaxEvents
  /\ Do("EmitEvent", Absent, [Top EXCEPT !.ev = Append(@, Len(@))], "ok")

Snapshot ==
  /\ Len(views) < MaxDepth
  /\ views' = Append(views, Top)
  /\ ret' = [op |-> "Snapshot", arg |-> Absent, res |-> "ok"]

Revert ==
  /\ Len(views) > 1
  /\ views' = Front(views)
  /\ ret' = [op |-> "Revert", arg |-> Absent, res |-> "ok"]

Next ==
  \/ \E a \in Addrs :
       \/ Account(a) \/ HasAccount(a) \/ DeleteAccount(a)
       \/ \E op \in {"CreateAccount", "CreateAccountIgnoreDelete"} : CreateAccount(op, a)
  \/ \E n \in {NameOf[a] : a \in Addrs} : AddressByName(n)
  \/ \E a \in SeqAddrs : Sequence(a) \/ AddSeq(a)
  \/ \E k \in AccKeys : AccountData(k) \/ \E v \in Vals \cup {Absent} : SetAccountData(k, v)
  \/ \E k \in Keys : ProcessData(k) \/ \E v \in Vals \cup {Absent} : SetProcessData(k, v)
  \/ \E i \in Ids : UTXO(i) \/ CreateUTXO(i) \/ DeleteUTXO(i)
  \/ EmitEvent
  \/ Snapshot \/ Revert

Spec == Init /\ [][Next]_vars

=============================================================================
