----------------------------- MODULE ContextData ------------------------------
(***************************************************************************)
(* The layered state overlay, src/core/types/context_data.go.              *)
(*                                                                         *)
(* A context is a stack of ContextData layers: layer 1's Parent is nil and *)
(* it reads through to the loader (committed state); layer i reads through *)
(* to layer i - 1.  Operations act on the newest layer, the only one with  *)
(* isTop set; a read that falls through to a lower layer or the loader is  *)
(* memoised into the newest layer.  An account is modelled by its address  *)
(* and name, a sequence by a bounded number, an account data or process    *)
(* data key, a value and an output by small sets, an event by its number; *)
(* Hash and Dump are not modelled.                                         *)
(***************************************************************************)
EXTENDS Naturals, Sequences, SequencesExt

CONSTANTS
  Addrs,            \* account addresses
  NewAddrs,         \* addresses whose embedded height is the TargetHeight
  NameOf,           \* Addrs -> names: acc.Name() of the account at an address
  AddressLikeName,  \* names common.ParseAddress accepts
  Keys,             \* process data keys (pid + name)
  Vals,             \* non-empty process data values
  Ids,              \* UTXO ids
  Absent,           \* no entry in a map; nil / empty value
  MaxDepth,         \* snapshots on the stack
  LoaderAcc,        \* Addrs -> BOOLEAN: accounts of the committed state
  LoaderPD,         \* Keys -> Vals \cup {Absent}: committed process data
  LoaderUTXO,       \* unspent outputs of the committed state
  LoaderSeq,        \* Addrs -> 0..MaxSeq: committed sequences
  AccKeys,          \* account data keys (address + pid + name)
  LoaderAD,         \* AccKeys -> Vals \cup {Absent}: committed account data
  MaxSeq,           \* the largest sequence AddSeq may reach
  SeqAddrs,         \* the addresses whose sequence is read and advanced
  MaxEvents         \* the events one context may emit

Names == {NameOf[a] : a \in Addrs}

\* One ContextData: SeqMap (0 for no entry: only positive values are put),
\* AccountMap (address -> account name), DeletedAccountMap, AccountNameMap,
\* AccountDataMap, DeletedAccountDataMap, ProcessDataMap,
\* DeletedProcessDataMap, UTXOMap, CreatedUTXOMap, DeletedUTXOMap, Events
\* (each by the number SetN gave it) and EventN.
EmptyLayer ==
  [sq   |-> [a \in Addrs |-> 0],
   acc  |-> [a \in Addrs |-> Absent], del  |-> {},
   ad   |-> [k \in AccKeys |-> Absent], adel |-> {},
   name |-> [n \in Names |-> Absent],
   pd   |-> [k \in Keys |-> Absent],  pdel |-> {},
   ux   |-> {}, cux |-> {}, dux |-> {},
   ev   |-> <<>>, en |-> 0]

\* Fault variant: the new layer's EventN starts at zero.
NewLayerZero(en) == EmptyLayer

\* NewContextData, lines 35-58: empty maps, EventN taken from the parent.
NewLayer(en) == [EmptyLayer EXCEPT !.en = en]

VARIABLES
  ctx,    \* the layers, oldest first
  ret     \* [op, arg, res]: the last operation and its result

vars == <<ctx, ret>>

Top == Len(ctx)

Result(op, arg, res) == ret' = [op |-> op, arg |-> arg, res |-> res]

-----------------------------------------------------------------------------
(* Reads, resolved from layer i down to the loader.                        *)

\* Account, lines 92-123: "deleted" for ErrDeletedAccount, "none" for
\* ErrNotExistAccount, else the account's name.
RECURSIVE AccountAt(_, _)
AccountAt(i, a) ==
  IF i = 0 THEN (IF LoaderAcc[a] THEN NameOf[a] ELSE "none")
  ELSE IF a \in ctx[i].del THEN "deleted"
  ELSE IF ctx[i].acc[a] # Absent THEN ctx[i].acc[a]
  ELSE AccountAt(i - 1, a)

\* HasAccount, lines 157-168.
RECURSIVE HasAccountAt(_, _)
HasAccountAt(i, a) ==
  IF i = 0 THEN LoaderAcc[a]
  ELSE IF a \in ctx[i].del THEN FALSE
  ELSE IF ctx[i].acc[a] # Absent THEN TRUE
  ELSE HasAccountAt(i - 1, a)

\* AddressByName, lines 126-154, and HasAccountName, lines 171-179: the
\* name index has no tombstones.
RECURSIVE AddressByNameAt(_, _)
AddressByNameAt(i, n) ==
  IF i = 0 THEN (IF \E a \in Addrs : LoaderAcc[a] /\ NameOf[a] = n
                   THEN CHOOSE a \in Addrs : LoaderAcc[a] /\ NameOf[a] = n
                   ELSE "none")
  ELSE IF ctx[i].name[n] # Absent THEN ctx[i].name[n]
  ELSE AddressByNameAt(i - 1, n)
HasAccountNameAt(i, n) == AddressByNameAt(i, n) # "none"

\* Seq, lines 61-81: 0 for an account deleted in this layer.
RECURSIVE SeqAt(_, _)
SeqAt(i, a) ==
  IF i = 0 THEN LoaderSeq[a]
  ELSE IF a \in ctx[i].del THEN 0
  ELSE IF ctx[i].sq[a] > 0 THEN ctx[i].sq[a]
  ELSE SeqAt(i - 1, a)

\* AccountData, lines 258-295: Absent for nil.
RECURSIVE AccountDataAt(_, _)
AccountDataAt(i, k) ==
  IF i = 0 THEN LoaderAD[k]
  ELSE IF k \in ctx[i].adel THEN Absent
  ELSE IF ctx[i].ad[k] # Absent THEN ctx[i].ad[k]
  ELSE AccountDataAt(i - 1, k)

\* ProcessData, lines 390-425: Absent for nil.
RECURSIVE ProcessDataAt(_, _)
ProcessDataAt(i, k) ==
  IF i = 0 THEN LoaderPD[k]
  ELSE IF k \in ctx[i].pdel THEN Absent
  ELSE IF ctx[i].pd[k] # Absent THEN ctx[i].pd[k]
  ELSE ProcessDataAt(i - 1, k)

\* UTXO, lines 326-357: "used" for ErrUsedUTXO, "none" for ErrNotExistUTXO.
RECURSIVE UTXOAt(_, _)
UTXOAt(i, id) ==
  IF i = 0 THEN (IF id \in LoaderUTXO THEN "ok" ELSE "none")
  ELSE IF id \in ctx[i].dux THEN "used"
  ELSE IF id \in ctx[i].ux THEN "ok"
  ELSE UTXOAt(i - 1, id)

\* HasUTXO, lines 310-323: also consults CreatedUTXOMap.
RECURSIVE HasUTXOAt(_, _)
HasUTXOAt(i, id) ==
  IF i = 0 THEN id \in LoaderUTXO
  ELSE IF id \in ctx[i].dux THEN FALSE
  ELSE IF id \in ctx[i].ux \/ id \in ctx[i].cux THEN TRUE
  ELSE HasUTXOAt(i - 1, id)

\* The memoisation into the newest layer of a value read from below it.
MemoAccount(l, a, r) ==
  IF r \in Names /\ l.acc[a] = Absent THEN [l EXCEPT !.acc[a] = r] ELSE l
MemoUTXO(l, id, r) ==
  IF r = "ok" THEN [l EXCEPT !.ux = @ \cup {id}] ELSE l

-----------------------------------------------------------------------------
(* Operations on the newest layer.                                         *)

Account(a) ==
  LET r == AccountAt(Top, a)
  IN  /\ ctx' = [ctx EXCEPT ![Top] = MemoAccount(@, a, r)]
      /\ Result("Account", a, IF r \in Names THEN "live" ELSE r)

HasAccount(a) ==
  /\ Result("HasAccount", a, HasAccountAt(Top, a))
  /\ UNCHANGED ctx

AddressByName(n) ==
  LET r == AddressByNameAt(Top, n)
  IN  /\ ctx' = [ctx EXCEPT ![Top] =
                   IF r # "none" /\ @.name[n] = Absent
                     THEN [@ EXCEPT !.name[n] = r] ELSE @]
      /\ Result("AddressByName", n, r)

\* Fault variant: the account is created without its name index entry.
CreateAccountNoName(op, a) ==
  LET n == NameOf[a]
      r == CASE a \notin NewAddrs        -> "height"
             [] n \in AddressLikeName    -> "addrname"
             [] HasAccountAt(Top, a)     -> "exist"
             [] HasAccountNameAt(Top, n) -> "name"
             [] OTHER                    -> "ok"
  IN  /\ ctx' = IF r = "ok" THEN [ctx EXCEPT ![Top].acc[a] = n] ELSE ctx
      /\ Result(op, a, r)

\* CreateAccount, lines 182-210, and CreateAccountIgnoreDelete, lines
\* 213-245: the latter also passes an ErrDeletedAccount from the two
\* lookups, which return errors only from the loader.  The empty address
\* has height 0 and is not in NewAddrs.
CreateAccount(op, a) ==
  LET n == NameOf[a]
      r == CASE a \notin NewAddrs        -> "height"
             [] n \in AddressLikeName    -> "addrname"
             [] HasAccountAt(Top, a)     -> "exist"
             [] HasAccountNameAt(Top, n) -> "name"
             [] OTHER                    -> "ok"
  IN  /\ ctx' = IF r = "ok"
                  THEN [ctx EXCEPT ![Top].acc[a] = n, ![Top].name[n] = a]
                  ELSE ctx
      /\ Result(op, a, r)

\* DeleteAccount, lines 248-256: the Account lookup (and its memoisation),
\* then the tombstone; the name is removed from the newest layer only.
\* Fault variant: the account is dropped from the newest layer without a
\* tombstone.
DeleteAccountNoTombstone(a) ==
  LET r == AccountAt(Top, a)
  IN  IF r \notin Names
        THEN /\ ctx' = [ctx EXCEPT ![Top] = MemoAccount(@, a, r)]
             /\ Result("DeleteAccount", a, r)
        ELSE /\ ctx' = [ctx EXCEPT ![Top].acc[a] = Absent, ![Top].name[r] = Absent]
             /\ Result("DeleteAccount", a, "ok")

DeleteAccount(a) ==
  LET r == AccountAt(Top, a)
  IN  IF r \notin Names
        THEN /\ ctx' = [ctx EXCEPT ![Top] = MemoAccount(@, a, r)]
             /\ Result("DeleteAccount", a, r)
        ELSE /\ ctx' = [ctx EXCEPT ![Top].del = @ \cup {a},
                                   ![Top].acc[a] = Absent,
                                   ![Top].name[r] = Absent]
             /\ Result("DeleteAccount", a, "ok")

\* A positive sequence read from below the newest layer is put into it.
MemoSeq(l, a, r) == IF r > 0 /\ l.sq[a] = 0 /\ a \notin l.del THEN [l EXCEPT !.sq[a] = r] ELSE l

Sequence(a) ==
  LET r == SeqAt(Top, a)
  IN  /\ ctx' = [ctx EXCEPT ![Top] = MemoSeq(@, a, r)]
      /\ Result("Seq", a, r)

\* AddSeq, lines 84-89: Seq (whose memoisation the put overwrites), plus one.
AddSeq(a) ==
  /\ SeqAt(Top, a) < MaxSeq
  /\ ctx' = IF a \in ctx[Top].del THEN ctx
             ELSE [ctx EXCEPT ![Top].sq[a] = SeqAt(Top, a) + 1]
  /\ Result("AddSeq", a, "ok")

AccountData(k) ==
  LET r == AccountDataAt(Top, k)
  IN  /\ ctx' = [ctx EXCEPT ![Top] =
                   IF r # Absent /\ @.ad[k] = Absent /\ k \notin @.adel
                     THEN [@ EXCEPT !.ad[k] = r] ELSE @]
      /\ Result("AccountData", k, r)

\* SetAccountData, lines 298-307: an empty value is a deletion.
SetAccountData(k, v) ==
  /\ ctx' = [ctx EXCEPT ![Top] =
               IF v = Absent THEN [@ EXCEPT !.ad[k] = Absent, !.adel = @ \cup {k}]
               ELSE [@ EXCEPT !.ad[k] = v, !.adel = @ \ {k}]]
  /\ Result("SetAccountData", <<k, v>>, "ok")

ProcessData(k) ==
  LET r == ProcessDataAt(Top, k)
  IN  /\ ctx' = [ctx EXCEPT ![Top] =
                   IF r # Absent /\ @.pd[k] = Absent /\ k \notin @.pdel
                     THEN [@ EXCEPT !.pd[k] = r] ELSE @]
      /\ Result("ProcessData", k, r)

\* Fault variant: a value written after a deletion stays shadowed by the
\* deletion marker.
SetProcessDataKeepMarker(k, v) ==
  /\ ctx' = [ctx EXCEPT ![Top] =
               IF v = Absent THEN [@ EXCEPT !.pd[k] = Absent, !.pdel = @ \cup {k}]
               ELSE [@ EXCEPT !.pd[k] = v]]
  /\ Result("SetProcessData", <<k, v>>, "ok")

\* SetProcessData, lines 428-438: an empty value is a deletion.
SetProcessData(k, v) ==
  /\ ctx' = [ctx EXCEPT ![Top] =
               IF v = Absent THEN [@ EXCEPT !.pd[k] = Absent, !.pdel = @ \cup {k}]
               ELSE [@ EXCEPT !.pd[k] = v, !.pdel = @ \ {k}]]
  /\ Result("SetProcessData", <<k, v>>, "ok")

UTXO(id) ==
  LET r == UTXOAt(Top, id)
  IN  /\ ctx' = [ctx EXCEPT ![Top] = MemoUTXO(@, id, r)]
      /\ Result("UTXO", id, r)

\* CreateUTXO, lines 360-370: the existence check is a UTXO lookup.
CreateUTXO(id) ==
  LET r == UTXOAt(Top, id)
  IN  /\ ctx' = [ctx EXCEPT ![Top] =
                   IF r = "none" THEN [@ EXCEPT !.cux = @ \cup {id}]
                   ELSE MemoUTXO(@, id, r)]
      /\ Result("CreateUTXO", id, IF r = "ok" THEN "exist" ELSE IF r = "none" THEN "ok" ELSE r)

\* DeleteUTXO, lines 373-379.
DeleteUTXO(id) ==
  LET r == UTXOAt(Top, id)
  IN  /\ ctx' = [ctx EXCEPT ![Top] =
                   IF r = "ok" THEN [MemoUTXO(@, id, r) EXCEPT !.dux = @ \cup {id}]
                   ELSE @]
      /\ Result("DeleteUTXO", id, r)

\* EmitEvent, lines 381-386: the event is numbered EventN, a uint16.
EmitEvent ==
  /\ ctx[Top].en < MaxEvents
  /\ ctx' = [ctx EXCEPT ![Top].ev = Append(@, ctx[Top].en),
                        ![Top].en = (@ + 1) % 65536]
  /\ Result("EmitEvent", Absent, "ok")

\* Context.Snapshot pushes NewContextData(loader, top) (lines 35-58) and the
\* old top loses isTop; Context.Revert discards the newest layers.
Snapshot ==
  /\ Top < MaxDepth
  /\ ctx' = Append(ctx, NewLayer(ctx[Top].en))
  /\ Result("Snapshot", Absent, "ok")

Revert ==
  /\ Top > 1
  /\ ctx' = Front(ctx)
  /\ Result("Revert", Absent, "ok")

-----------------------------------------------------------------------------
Init ==
  /\ ctx = <<NewLayer(0)>>
  /\ ret = [op |-> "init", arg |-> Absent, res |-> Absent]

\* Addresses are unique to the transaction that creates them
\* (common.NewAddress(height, index, nonce)): an address is not created
\* again while the context still sees it, live or deleted.
Fresh(a) == ~HasAccountAt(Top, a) /\ AccountAt(Top, a) # "deleted"

Next ==
  \/ \E a \in Addrs :
       \/ Account(a) \/ HasAccount(a) \/ DeleteAccount(a)
       \/ Fresh(a) /\ \E op \in {"CreateAccount", "CreateAccountIgnoreDelete"} :
                        CreateAccount(op, a)
  \/ \E n \in Names : AddressByName(n)
  \/ \E a \in SeqAddrs : Sequence(a) \/ AddSeq(a)
  \/ \E k \in AccKeys : AccountData(k) \/ \E v \in Vals \cup {Absent} : SetAccountData(k, v)
  \/ \E k \in Keys : ProcessData(k) \/ \E v \in Vals \cup {Absent} : SetProcessData(k, v)
  \/ \E id \in Ids : UTXO(id) \/ CreateUTXO(id) \/ DeleteUTXO(id)
  \/ EmitEvent
  \/ Snapshot \/ Revert

Spec == Init /\ [][Next]_vars

-----------------------------------------------------------------------------
(* Properties.                                                             *)

\* The view snapshot i offers: what the reads resolve to through it.  The
\* sequence of a deleted account is not part of it.
View(i) ==
  [acc |-> [a \in Addrs |-> IF AccountAt(i, a) \in Names THEN "live"
                            ELSE AccountAt(i, a)],
   sq  |-> [a \in Addrs |-> IF AccountAt(i, a) = "deleted" THEN Absent
                            ELSE SeqAt(i, a)],
   ad  |-> [k \in AccKeys |-> AccountDataAt(i, k)],
   pd  |-> [k \in Keys |-> ProcessDataAt(i, k)],
   ux  |-> [id \in Ids |-> UTXOAt(i, id)],
   ev  |-> FlattenSeq([j \in 1..i |-> ctx[j].ev])]

Flat == INSTANCE FlatContext WITH views <- [i \in 1..Len(ctx) |-> View(i)]

\* The layers behave as a stack of plain maps: every read returns what the
\* flat map holds (tombstones shadow the parent and the loader, spec 8.3),
\* memoisation into the newest layer never changes a value any snapshot
\* shows, and a revert restores the snapshot below exactly (spec 8.4).
ImplementsFlatContext == Flat!Spec

\* HasUTXO and UTXO agree on every output: an output HasUTXO reports is one
\* UTXO returns and DeleteUTXO can spend (spec 4.4: every accessor follows
\* tombstone, local map, parent).
UTXOViewsAgree == \A id \in Ids : HasUTXOAt(Top, id) <=> UTXOAt(Top, id) = "ok"

\* CreateAccountIgnoreDelete inserts the account although its name belonged
\* to an account that was deleted (the comment of line 212; spec 4.4: the
\* prior occupant was tombstoned in this same layer).
IgnoreDeleteReusesDeletedName ==
  [][\A a \in Addrs :
       ( /\ ret'.op = "CreateAccountIgnoreDelete" /\ ret'.arg = a
         /\ a \in NewAddrs /\ NameOf[a] \notin AddressLikeName
         /\ \E b \in Addrs \ {a} : NameOf[b] = NameOf[a] /\ b \in ctx[Top].del
         /\ \A b \in Addrs \ {a} : NameOf[b] = NameOf[a] => AccountAt(Top, b) = "deleted")
       => ret'.res = "ok"]_vars

=============================================================================
