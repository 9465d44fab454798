---------------------------- MODULE FormulatorNode -----------------------------
(***************************************************************************)
(* The formulator's reconciliation of generated blocks and observer        *)
(* finalisation signatures, src/pof/formulator_node_observer.go.           *)
(*                                                                         *)
(* Every observer peer has its own receive loop (onObserverRecv).  The     *)
(* BlockGenMessage and BlockObSignMessage handlers read the chain height   *)
(* without fr.Lock, then take fr.Lock to merge the message into            *)
(* lastGenItemMap, then spawn `go fr.updateByGenItem()`.  updateByGenItem  *)
(* runs entirely under fr.Lock: it commits the lowest pending height while *)
(* its item holds both a block and a signature, and otherwise executes the *)
(* pending block speculatively to cache its Context.                       *)
(*                                                                         *)
(* A block is identified with its header hash.  A header names its parent  *)
(* by PrevHash, so a block is modelled as its ancestry: the sequence of    *)
(* generator variants from height 1 to its own height.  The committed      *)
(* chain is such a sequence too, and ConnectBlock accepts b iff b extends  *)
(* the chain by one (height and PrevHash check of the chain package).      *)
(***************************************************************************)
EXTENDS Naturals, Sequences, SequencesExt

CONSTANTS
  Observers,    \* observer peers connected to this formulator
  MaxHeight,    \* heights 1..MaxHeight are modelled
  Final,        \* generator variant the observers finalise at every height
  Rival,        \* variant of a competing generator (other timeout count)
  Self,         \* variant of this formulator's own blocks (Config.Formulator)
  MaxBlocks,    \* maxBlocksPerFormulator (10 in cmd/formulator/main.go)
  RetryLimit,   \* retries of a BlockReqMessage for a future height (10)
  MaxAhead      \* lookahead of a BlockReqMessage for a future height (10)

ASSUME MaxHeight \in Nat \ {0}
\* Self is one of the two variants where this formulator's own blocks are
\* modelled, and another value where it only reconciles others' blocks.
ASSUME Final # Rival
ASSUME MaxBlocks \in Nat \ {0} /\ RetryLimit \in Nat /\ MaxAhead \in Nat

Heights  == 1..MaxHeight
Variants == {Final, Rival}

\* Blocks as ancestries; the empty sequence is no block (a nil pointer).
Blocks  == UNION {[1..h -> Variants] : h \in Heights}
NoBlock == <<>>

FinalBlock(h) == [i \in 1..h |-> Final]
RivalBlock(h) == Append(FinalBlock(h - 1), Rival)

\* Observers relay the blocks of the generators that were asked for a block
\* (the finalised one and a competitor built on the same parent) and sign
\* only the block they finalise.
GenMsgs  == [type : {"gen"},  blk : {FinalBlock(h) : h \in Heights}
                                   \cup {RivalBlock(h) : h \in Heights}]
SignMsgs == [type : {"sign"}, blk : {FinalBlock(h) : h \in Heights}]
\* BlockReqMessage{TargetHeight, TimeoutCount}; its PrevHash is the
\* observers' last hash, FinalBlock(h - 1).  `top' abstracts the identity
\* checks: Formulator, FormulatorPublicHash and TopRank(TimeoutCount).
TimeoutCounts == {0, 1}
ReqMsgs  == [type : {"req"}, h : Heights, tc : TimeoutCounts, top : BOOLEAN]
Msgs     == GenMsgs \cup SignMsgs \cup ReqMsgs
NoMsg    == [type |-> "none", blk |-> NoBlock]
NoReq    == [type |-> "none", h |-> 0, tc |-> 0, top |-> FALSE]

MsgHeight(m) == IF m.type = "req" THEN m.h ELSE Len(m.blk)

\* genItem{BlockGen, ObSign, Context, Recv}.  ObSign is represented by the
\* block whose header hash it signs, Context by the block it executed.
Items  == [gen : Blocks \cup {NoBlock}, sign : Blocks \cup {NoBlock},
           ctx : Blocks \cup {NoBlock}, recv : BOOLEAN]
NoItem == [gen |-> NoBlock, sign |-> NoBlock, ctx |-> NoBlock, recv |-> FALSE]

VARIABLES
  chain,           \* committed chain: Provider().Height() = Len(chain)
  lastGenItemMap,  \* height -> genItem, NoItem where the map has no entry
  delivered,       \* observer -> messages its receive loop has read
  inflight,        \* observer -> [msg, th]: message checked without fr.Lock,
                   \*   waiting for it; th is the TargetHeight read (line 63)
  updPending,      \* number of spawned updateByGenItem goroutines not yet run
  lastReqMessage,  \* the accepted block request, NoReq for nil
  lastGenHeight,   \* height of the last block genBlock produced
  retries,         \* BlockReqMessage retry goroutines [msg, n, th, o]; th = 0
                   \*   while sleeping, else waiting for fr.Lock
  genWaiting,      \* generation goroutines [msg, o] waiting for genLock
  gen,             \* genBlock: idle, or paused between sub-blocks holding
                   \*   genLock: [st, i, remain, tip] (tip: last own block)
  sent             \* own blocks genBlock sent to a requester (line 508)

vars == <<chain, lastGenItemMap, delivered, inflight, updPending,
          lastReqMessage, lastGenHeight, retries, genWaiting, gen, sent>>
genVars == <<lastReqMessage, lastGenHeight, retries, genWaiting, gen, sent>>

Idle    == [msg |-> NoMsg, th |-> 0]
GenIdle == [st |-> "idle", i |-> 0, remain |-> 0, tip |-> NoBlock]

TargetHeight == Len(chain) + 1

-----------------------------------------------------------------------------
(* Collaborators of the chain package (not under src/).                    *)

\* ConnectBlock: header height and PrevHash must extend the chain.
ConnectBlockOK(c, b) == Front(b) = c

\* ConnectBlockWithContext additionally requires the cached context to be
\* the result of executing b (ContextHash of the header).
ConnectBlockWithContextOK(c, b, ctx) == Front(b) = c /\ ctx = b

\* ExecuteBlockOnContext: the block must extend the context's last hash.
ExecuteOK(b, base) == Front(b) = base

-----------------------------------------------------------------------------
(* updateByGenItem, lines 317-415.                                         *)

\* The speculative pass (lines 331-370): walk the run of items holding a
\* BlockGen, skipping those with a cached Context, and execute item's block
\* (the item at the lowest height, line 349/357) on the context threaded
\* from the previous target.
RECURSIVE Speculate(_, _, _, _)
Speculate(m, t, base, blk) ==
  IF t > MaxHeight \/ m[t].gen = NoBlock THEN m
  ELSE IF m[t].ctx # NoBlock THEN Speculate(m, t + 1, m[t].gen, blk)
  ELSE IF ~ExecuteOK(blk, base) THEN m
  ELSE Speculate([m EXCEPT ![t].ctx = blk], t + 1, m[t].gen, blk)

\* Fault variant: the loop returns after one commit instead of advancing to
\* the next height's item in the same pass.
UpdateLoopOnce(c, m) ==
  LET h == Len(c) + 1
  IN  IF h > MaxHeight \/ m[h].gen = NoBlock \/ m[h].sign = NoBlock
        THEN <<c, m>>
      ELSE IF ~ConnectBlockOK(c, m[h].gen) THEN <<c, [m EXCEPT ![h] = NoItem]>>
      ELSE <<m[h].gen, [m EXCEPT ![h] = NoItem]>>

\* The commit loop: returns <<chain, lastGenItemMap>> after the pass.  A
\* failed commit deletes the item (and re-requests the height, line 386).
RECURSIVE UpdateLoop(_, _)
UpdateLoop(c, m) ==
  LET h    == Len(c) + 1
      item == m[h]
      ok   == IF item.ctx # NoBlock
                THEN ConnectBlockWithContextOK(c, item.gen, item.ctx)
                ELSE ConnectBlockOK(c, item.gen)
  IN  IF h > MaxHeight \/ item.gen = NoBlock THEN <<c, m>>
      ELSE IF item.sign = NoBlock THEN <<c, Speculate(m, h, c, item.gen)>>
      ELSE IF ~ok THEN <<c, [m EXCEPT ![h] = NoItem]>>
      ELSE UpdateLoop(item.gen, [m EXCEPT ![h] = NoItem])

UpdateByGenItem ==
  /\ updPending > 0
  /\ LET r == UpdateLoop(chain, lastGenItemMap)
     IN  /\ chain' = r[1]
         /\ lastGenItemMap' = r[2]
  /\ updPending' = updPending - 1
  /\ UNCHANGED <<delivered, inflight, genVars>>

-----------------------------------------------------------------------------
(* Message handlers, lines 56-228.                                         *)

\* The receive loop reads a message and runs the handler up to fr.Lock.  A
\* message for a committed height is dropped; a BlockGenMessage of another
\* generator clears lastReqMessage (lines 164-168), cancelling generation.
\* BlockReqMessages take the lock-free part of ReqAccepted below.  The
\* observers relay and sign this formulator's blocks only after it sent them.
Receive(o, m) ==
  /\ inflight[o] = Idle
  /\ m \notin delivered[o]
  /\ m.type # "req"
  /\ Last(m.blk) = Self => m.blk \in sent
  /\ delivered' = [delivered EXCEPT ![o] = @ \cup {m}]
  /\ IF MsgHeight(m) < TargetHeight
       THEN UNCHANGED <<inflight, lastReqMessage>>
       ELSE /\ inflight' = [inflight EXCEPT ![o] = [msg |-> m, th |-> 0]]
            /\ lastReqMessage' = IF m.type = "gen" /\ Last(m.blk) # Self
                                   THEN NoReq ELSE lastReqMessage
  /\ UNCHANGED <<chain, lastGenItemMap, updPending, lastGenHeight, retries,
                 genWaiting, gen, sent>>

\* Fault variant: the BlockGenMessage is stored without comparing it with
\* the ObSign already held for its height.
StoreBlockGenNoSignCheck(o) ==
  LET m == inflight[o].msg
  IN  /\ m.type = "gen"
      /\ inflight' = [inflight EXCEPT ![o] = Idle]
      /\ lastGenItemMap' = [lastGenItemMap EXCEPT
                              ![Len(m.blk)].gen = m.blk, ![Len(m.blk)].recv = TRUE]
      /\ updPending' = updPending + 1
      /\ UNCHANGED <<chain, delivered, genVars>>

\* BlockGenMessage under fr.Lock (lines 169-191): refused when the item's
\* ObSign signs another header, otherwise stored with Recv set.
StoreBlockGen(o) ==
  LET m    == inflight[o].msg
      h    == Len(m.blk)
      item == lastGenItemMap[h]
  IN  /\ m.type = "gen"
      /\ inflight' = [inflight EXCEPT ![o] = Idle]
      /\ IF item.sign # NoBlock /\ item.sign # m.blk
           THEN UNCHANGED <<lastGenItemMap, updPending>>
           ELSE /\ lastGenItemMap' = [lastGenItemMap EXCEPT
                                        ![h].gen = m.blk, ![h].recv = TRUE]
                /\ updPending' = updPending + 1
      /\ UNCHANGED <<chain, delivered, genVars>>

\* Fault variants: the signature is stored without dropping a mismatching
\* BlockGen, or without spawning updateByGenItem afterwards.
StoreObSignKeepGen(o) ==
  LET m == inflight[o].msg
  IN  /\ m.type = "sign"
      /\ inflight' = [inflight EXCEPT ![o] = Idle]
      /\ lastGenItemMap' = [lastGenItemMap EXCEPT ![Len(m.blk)].sign = m.blk]
      /\ updPending' = updPending + 1
      /\ UNCHANGED <<chain, delivered, genVars>>
StoreObSignNoUpdate(o) ==
  LET m == inflight[o].msg
  IN  /\ m.type = "sign"
      /\ inflight' = [inflight EXCEPT ![o] = Idle]
      /\ lastGenItemMap' =
           [lastGenItemMap EXCEPT ![Len(m.blk)] =
              IF @.gen # NoBlock /\ @.gen # m.blk
                THEN [@ EXCEPT !.gen = NoBlock, !.ctx = NoBlock, !.sign = m.blk]
                ELSE [@ EXCEPT !.sign = m.blk]]
      /\ UNCHANGED <<chain, delivered, updPending, genVars>>

\* BlockObSignMessage under fr.Lock (lines 201-227): a stored BlockGen of
\* another header is dropped together with its Context; the signature is
\* stored.
StoreObSign(o) ==
  LET m    == inflight[o].msg
      h    == m.blk
  IN  /\ m.type = "sign"
      /\ inflight' = [inflight EXCEPT ![o] = Idle]
      /\ lastGenItemMap' =
           [lastGenItemMap EXCEPT ![Len(h)] =
              IF @.gen # NoBlock /\ @.gen # h
                THEN [@ EXCEPT !.gen = NoBlock, !.ctx = NoBlock, !.sign = h]
                ELSE [@ EXCEPT !.sign = h]]
      /\ updPending' = updPending + 1
      /\ UNCHANGED <<chain, delivered, genVars>>

\* BlockReqMessage before fr.Lock (lines 63-82).  `expired' is whether 30s
\* have passed since lastGenTime; a request at or below lastGenHeight then
\* clears lastReqMessage.  The request passes on unless it is for a
\* committed height, a recently generated height, or not above the accepted
\* request.
ReqLastReq(m, expired) ==
  IF m.h >= TargetHeight /\ m.h <= lastGenHeight /\ expired
    THEN NoReq ELSE lastReqMessage
ReqAccepted(m, expired) ==
  /\ m.h >= TargetHeight
  /\ m.h <= lastGenHeight => expired
  /\ ReqLastReq(m, expired) # NoReq => m.h > ReqLastReq(m, expired).h

ReceiveReq(o, m) ==
  /\ inflight[o] = Idle
  /\ m \notin delivered[o]
  /\ m.type = "req"
  /\ delivered' = [delivered EXCEPT ![o] = @ \cup {m}]
  /\ \E expired \in BOOLEAN :
       /\ lastReqMessage' = ReqLastReq(m, expired)
       /\ inflight' = [inflight EXCEPT ![o] =
                         IF ReqAccepted(m, expired)
                           THEN [msg |-> m, th |-> TargetHeight] ELSE Idle]
  /\ UNCHANGED <<chain, lastGenItemMap, updPending, lastGenHeight, retries,
                 genWaiting, gen, sent>>

\* BlockReqMessage under fr.Lock (lines 84-131), against the TargetHeight
\* th read before the lock.  A request for a future height is retried after
\* 50ms by a new goroutine (and the missing blocks are requested, line 104);
\* an authenticated request for the next height becomes lastReqMessage and
\* spawns the generation goroutine.
ReqLocked(m, th, n, o, rs) ==
  IF m.h > th
    THEN /\ retries' = IF m.h > th + MaxAhead \/ n >= RetryLimit THEN rs
                       ELSE rs \cup {[msg |-> m, n |-> n + 1, th |-> 0, o |-> o]}
         /\ UNCHANGED <<lastReqMessage, genWaiting>>
  ELSE IF ~m.top \/ FinalBlock(m.h - 1) # chain
    THEN /\ retries' = rs
         /\ UNCHANGED <<lastReqMessage, genWaiting>>
  ELSE /\ lastReqMessage' = m
       /\ genWaiting' = genWaiting \cup {[msg |-> m, o |-> o]}
       /\ retries' = rs

StoreReq(o) ==
  /\ inflight[o].msg.type = "req"
  /\ inflight' = [inflight EXCEPT ![o] = Idle]
  /\ ReqLocked(inflight[o].msg, inflight[o].th, 0, o, retries)
  /\ UNCHANGED <<chain, lastGenItemMap, delivered, updPending, lastGenHeight,
                 gen, sent>>

\* A retry goroutine wakes and runs the handler again (line 108): first the
\* part before fr.Lock, then the part under it.
RetryWake(r) ==
  /\ r.th = 0
  /\ \E expired \in BOOLEAN :
       /\ lastReqMessage' = ReqLastReq(r.msg, expired)
       /\ retries' = (retries \ {r}) \cup
                       IF ReqAccepted(r.msg, expired)
                         THEN {[r EXCEPT !.th = TargetHeight]} ELSE {}
  /\ UNCHANGED <<chain, lastGenItemMap, delivered, inflight, updPending,
                 lastGenHeight, genWaiting, gen, sent>>

RetryStore(r) ==
  /\ r.th > 0
  /\ ReqLocked(r.msg, r.th, r.n, r.o, retries \ {r})
  /\ UNCHANGED <<chain, lastGenItemMap, delivered, inflight, updPending,
                 lastGenHeight, gen, sent>>

-----------------------------------------------------------------------------
(* The generation goroutine (lines 133-155) and genBlock (lines 417-563).  *)

\* Fault variant: lastGenHeight records the height after the block made.
WriteOwnBlockPastHeight(b) ==
  /\ sent' = sent \cup {b}
  /\ lastGenItemMap' = [lastGenItemMap EXCEPT ![Len(b)] =
                          [gen |-> b, sign |-> NoBlock, ctx |-> b, recv |-> FALSE]]
  /\ lastGenHeight' = Len(b) + 1

\* genBlock writes each sub-block into lastGenItemMap with its context,
\* replacing whatever item the height had (line 512), and records
\* lastGenHeight.  Transactions, timestamps and signing are abstracted.
WriteOwnBlock(b) ==
  /\ sent' = sent \cup {b}
  /\ lastGenItemMap' = [lastGenItemMap EXCEPT ![Len(b)] =
                          [gen |-> b, sign |-> NoBlock, ctx |-> b, recv |-> FALSE]]
  /\ lastGenHeight' = Len(b)

\* RemainBlocks (lines 420-423): for TimeoutCount 0 the blocks this
\* formulator already made in a row (consensus state) are subtracted, which
\* can leave none to make.
RemainChoices(m) == IF m.tc = 0 THEN 0..MaxBlocks ELSE {MaxBlocks}

\* The goroutine takes genLock and fr.Lock, re-checks the height and the
\* accepted request, and genBlock makes the first sub-block on NewContext().
GenStart(g) ==
  /\ gen = GenIdle
  /\ genWaiting' = genWaiting \ {g}
  /\ IF \/ g.msg.h < TargetHeight
        \/ lastReqMessage # NoReq /\ g.msg.h < lastReqMessage.h
        \/ TargetHeight > MaxHeight
       THEN UNCHANGED <<lastGenItemMap, lastGenHeight, gen, sent>>
       ELSE \E rb \in RemainChoices(g.msg) :
              IF rb = 0 THEN UNCHANGED <<lastGenItemMap, lastGenHeight, gen, sent>>
              ELSE LET b == Append(chain, Self)
                   IN  /\ WriteOwnBlock(b)
                       /\ gen' = [st |-> "paused", i |-> 1, remain |-> rb,
                                  tip |-> b]
  /\ UNCHANGED <<chain, delivered, inflight, updPending, lastReqMessage,
                 retries>>

\* Checkpoint after a sub-block (lines 519-560): with fr.Lock released,
\* genBlock ends when lastReqMessage was cleared; otherwise, with fr.Lock
\* taken again, it makes the next sub-block on NextContext of the last one
\* until RemainBlocks are made.  Heights beyond MaxHeight end the model run.
GenResume ==
  /\ gen.st = "paused"
  /\ IF \/ lastReqMessage = NoReq
        \/ gen.i >= gen.remain
        \/ Len(gen.tip) >= MaxHeight
       THEN /\ gen' = GenIdle
            /\ UNCHANGED <<lastGenItemMap, lastGenHeight, sent>>
       ELSE LET b == Append(gen.tip, Self)
            IN  /\ WriteOwnBlock(b)
                /\ gen' = [gen EXCEPT !.i = @ + 1, !.tip = b]
  /\ UNCHANGED <<chain, delivered, inflight, updPending, lastReqMessage,
                 retries, genWaiting>>

-----------------------------------------------------------------------------
Init ==
  /\ chain = <<>>
  /\ lastGenItemMap = [h \in Heights |-> NoItem]
  /\ delivered = [o \in Observers |-> {}]
  /\ inflight = [o \in Observers |-> Idle]
  /\ updPending = 0
  /\ lastReqMessage = NoReq
  /\ lastGenHeight = 0
  /\ retries = {}
  /\ genWaiting = {}
  /\ gen = GenIdle
  /\ sent = {}

Next ==
  \/ \E o \in Observers, m \in Msgs : Receive(o, m) \/ ReceiveReq(o, m)
  \/ \E o \in Observers : StoreBlockGen(o) \/ StoreObSign(o) \/ StoreReq(o)
  \/ \E r \in retries : RetryWake(r) \/ RetryStore(r)
  \/ \E g \in genWaiting : GenStart(g)
  \/ GenResume
  \/ UpdateByGenItem

Spec == Init /\ [][Next]_vars

-----------------------------------------------------------------------------
(* Properties.                                                             *)

TypeOK ==
  /\ chain \in Seq(Variants) /\ Len(chain) <= MaxHeight
  /\ lastGenItemMap \in [Heights -> Items]
  /\ delivered \in [Observers -> SUBSET Msgs]
  /\ inflight \in [Observers -> [msg : Msgs \cup {NoMsg}, th : 0..MaxHeight + 1]]
  /\ updPending \in Nat
  /\ lastReqMessage \in ReqMsgs \cup {NoReq}
  /\ lastGenHeight \in 0..MaxHeight
  /\ \A r \in retries : r.msg \in ReqMsgs /\ r.n \in 1..RetryLimit /\ r.o \in Observers
  /\ \A g \in genWaiting : g.msg \in ReqMsgs /\ g.o \in Observers
  /\ gen.st \in {"idle", "paused"} /\ gen.tip \in Blocks \cup {NoBlock}
  /\ sent \subseteq Blocks

\* An item holds a block and a signature for it: it is ready to commit.
Ready(h) == lastGenItemMap[h].gen # NoBlock /\ lastGenItemMap[h].sign # NoBlock

\* The formulator only ever commits the blocks the observers finalised, even
\* though BlockGen and ObSign messages of competing headers reach it from
\* several observers in any order (the merge in the two handlers).
ChainIsFinal == chain = FinalBlock(Len(chain))

\* When no handler is between its check and its store and no
\* updateByGenItem goroutine is pending, the next height is not left ready:
\* the commit loop of updateByGenItem advances through every ready height.
NoReadyItemStranded ==
  (updPending = 0 /\ \A o \in Observers : inflight[o] = Idle)
     => ~(TargetHeight <= MaxHeight /\ Ready(TargetHeight))

\* An item holding the finalised block and its signature only leaves
\* lastGenItemMap by being committed (spec 4.3: the block is committed
\* using the cached context if present, else executed fresh).
FinalItemNeverEvicted ==
  [][\A h \in Heights :
       (Ready(h) /\ lastGenItemMap'[h] = NoItem) => Len(chain') >= h]_vars

\* Every entry of lastGenItemMap is for a height not yet committed: entries
\* are removed when their height is committed.
NoStaleItem ==
  \A h \in Heights : lastGenItemMap[h] # NoItem => h > Len(chain)

\* An observer's finalisation signature, once merged into lastGenItemMap,
\* stays there until its height is committed: observers send it once, and
\* genBlock (line 512) as well as the handlers must not discard it.
SignNeverDropped ==
  [][\A h \in Heights :
       (lastGenItemMap[h].sign # NoBlock /\ lastGenItemMap'[h].sign = NoBlock)
          => Len(chain') >= h]_vars

=============================================================================
