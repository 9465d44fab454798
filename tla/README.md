# TLA+ models of fleta_v1

These are model-checked specifications of the concurrent and crash-sensitive parts of fleta_v1. Each module is translated from the Go source under `src/`, and `PROJECT.json` names the lines each definition models. Run everything from this directory:

    tlc -workers 2 -config <cfg> <MC module>

## The system and its parts

The source has 31 Go files. Only some of them carry state that interleaves, persists or crashes.

| Part | Source | What it does | Modelled |
|---|---|---|---|
| FormulatorNode observer side | `src/pof/formulator_node_observer.go` | One receive loop per observer peer. It handles BlockReq (start generating), BlockGen (a block relayed by the observers) and ObSign (the observers' finalisation signature). Items live in `lastGenItemMap` per height. `updateByGenItem` commits ready heights and speculatively executes pending blocks. `genBlock` produces up to `maxBlocksPerFormulator` sub-blocks, releasing `fr.Lock` between them. | `FormulatorNode` (partly) |
| Block messages | `src/pof/messages.go` | BlockReqMessage, BlockGenMessage, BlockObSignMessage | As records in `FormulatorNode` |
| ObserverFormulatorService | `src/pof/observer_formulator_service.go` | The observer's map from formulator ID to its websocket peer. Each connection has a handler goroutine that handshakes, replaces the formulator's old peer, serves packets, and removes the peer when it ends. | `FormulatorService` |
| Pile | `src/core/pile/pile.go` | Chunk file of the block store. AppendData writes a record and its offset. It then writes the HeadHeight/CheckA/CheckB triple, syncing after each field. LoadPile repairs a triple a crash left inconsistent. | `Pile`, refining `AppendLog` |
| ContextData | `src/core/types/context_data.go` | Layered state overlay used to execute blocks. Reads go through the parent chain to the loader and are memoised into the top layer. Deletions are tombstones. | `ContextData`, refining `FlatContext` (partly) |
| Chain utilities | `src/core/chain/util.go` | Merkle level root (`BuildLevelRoot`), transaction hashing, name predicates | `LevelRoot` (partly: `BuildLevelRoot` only) |
| Address codec | `src/common/address.go` | Address layout, checksum, text form and parse | `AddressCodec` |
| Process modules | `src/process/*` | Gateway, vault, formulator and payment transactions executed on a context | not yet |
| Types, tx pool seq cache, encoding factory | `src/core/types/*`, `src/core/txpool`, `src/encoding` | Declarations and interfaces | not modelled (no state changes) |
| Commands | `src/cmd/*` | Wiring and configuration | not modelled (I/O); `SetSyncMode(true)` is Pile's `SyncMode` |

Context, chain and consensus objects that the code calls are not under `src/`; examples are ConnectBlock and the rank table. They appear as small operators, marked `spec_modelled` in the map.

## Modules

### `FormulatorNode`, checked through `MCFormulatorNode`

**Blocks.** A block is modelled as its ancestry: a sequence of generator variants.
- `Final` is the variant the observers finalise, and `Rival` is a competitor on the same parent.
- `Self` is this formulator's own block.
- ConnectBlock accepts `b` iff `Front(b)` is the chain. This is the height and PrevHash check.

**State.**
- `chain` is the committed chain.
- `lastGenItemMap` maps each height to a `genItem{gen, sign, ctx, recv}`.
- The generation side is `lastReqMessage`, `lastGenHeight`, the waiting generation goroutines, `genBlock`'s progress, and the retry goroutines.

**Handlers.** Each handler is two actions, because the code reads the chain height before `fr.Lock` and stores under it:
- `Receive` / `ReceiveReq` are the lock-free checks.
- `StoreBlockGen` / `StoreObSign` / `StoreReq` are the locked stores.
- Another observer's handler, or `updateByGenItem`, can run between the two.

**`updateByGenItem`.** It is one action, since it holds `fr.Lock` throughout. Its commit loop is the RECURSIVE `UpdateLoop`, and its speculation pass is `Speculate`.

**Generation.** `GenStart` is the goroutine's re-check plus the first sub-block. `GenResume` is the checkpoint between sub-blocks, where handlers may run. It merges genBlock's check of `lastReqMessage` (lines 530-540, taken without `fr.Lock`) with the next sub-block's write (lines 542 and 512). A handler that clears `lastReqMessage` and stores an item after the check, but before the write, is therefore not modelled. No passing property depends on that window. `RetryWake` / `RetryStore` are the 50 ms retry goroutines of a BlockReq for a future height.

**Environment constraint.** Observers relay or sign this formulator's block only after it sent it (`sent`).

Not modelled: the Status, BlockMessage and Tx handlers, peer bookkeeping, `tryRequestNext`, and genBlock's timestamps and txpool use. The reasons are given under "Not modelled" below.

### `Pile` and `AppendLog`, checked through `MCPile`

**The file.** It is modelled as the page cache the process writes into and the disk a crash falls back to.
- Dirty parts are written back in any order.
- The three height fields share one sector, and each offset slot and record is written back on its own.
- `file.Sync()` flushes everything.

**Actions.**
- `AppendWrite`, `WriteA`, `WriteB` and `AppendSync` are the stretches of `AppendData` between syncs.
- `LoadPile` and `LoadSync` are recovery and its repair sync.
- `Close`, `Crash` and the write-backs are the lifetime and the OS.
- `GetHash` and `GetData` (which also stands for `GetDatas`) are the reads. They hold `p.Lock`, so they run between appends. A read goes through the offset slot before the height: a slot that was never written reads as 0, which points into the header.

**Abstract spec.** `AppendLog` is the abstract log. A crash keeps every acknowledged record, and keeps the pending record whole or not at all. `Pile` maps its state onto `AppendLog`:
- the open chunk's records up to `HeadHeight`;
- for a closed chunk, what `LoadPile` would recover.

### `ContextData` and `FlatContext`, checked through `MCContextData`

**State.** `ctx` is the stack of layers, oldest first. Each layer has:
- `SeqMap` (0 stands for no entry, since only positive sequences are put);
- `AccountMap`, `DeletedAccountMap` and `AccountNameMap`;
- `AccountDataMap` and `DeletedAccountDataMap`, keyed by a small set `AccKeys` that stands for address + pid + name (the code never checks that the account exists);
- `ProcessDataMap` and `DeletedProcessDataMap`;
- `UTXOMap`, `CreatedUTXOMap` and `DeletedUTXOMap`;
- `Events`, each event kept as the number `SetN` gave it, and `EventN`. A new layer (`NewLayer`, from `NewContextData`) takes `EventN` from its parent, and `EmitEvent` advances it modulo 2^16.

**Reads.** The reads (`AccountAt`, `UTXOAt`, ...) are RECURSIVE over the layer index, down to the loader. Each operation is one action: its read, its memoisation into the top layer, and its write. `ret` records the operation's result.

**Refinement.** `FlatContext` says what the overlay promises: every snapshot is a plain map, and Revert restores the one below. The refinement maps each layer to the view its reads resolve to. A snapshot's event log is the concatenation of the `Events` of its layers, and `FlatContext` requires the n-th event of a log to have number n - 1. In `FlatContext`, a name resolves to the live account that holds it (`NameHolders`). A name that no live account holds resolves to no address, or to a deleted holder, because the code lets a deleted account's name linger below the newest layer (finding 4). So the name index is checked, including its memoisation and the `AccountNameMap` put of `CreateAccount`. The lingering name itself is allowed.

**Sequences of deleted accounts.** `Seq` returns 0 for an account deleted in the same layer, but an account deleted in a lower layer still reads its sequence from below, and `AddSeq` then puts it into the top layer. `FlatContext` therefore leaves the sequence of a deleted account unspecified, and the view shows none. Addresses are never recreated (`Fresh`), so the value is never read back as a live account's sequence. Only the `SeqAddrs` are read and advanced, which keeps the state space small.

**Address uniqueness.** `Fresh` encodes that an address is created once. NewAddress embeds height, index and nonce.

**Not modelled:** Hash and Dump, which serialise the maps.

### `FormulatorService`, checked through `MCFormulatorService`

**State.**
- `peerMap` is `ms.peerMap`.
- `pc` is the point each connection's handler goroutine is at.
- `closed` says whether each websocket is closed.
- `victim` is the peer a handler's current `RemovePeer` took out and has yet to close.
- `sendPeer` is the peer a `SendTo` looked up and has not sent to yet.
- `recvd` is the set of connections a `SendTo` packet was written to while they were open.

A connection stands for its peer, and `ConnOf` gives its formulator.

**Actions.**
- `RemovePeer` is two steps: `RemoveLocked` deletes under `ms.Lock`, and `RemoveClose` closes the removed peer after unlocking.
- The handler is `Accept`, then `Handshake` or `HandshakeFail`.
- After a successful handshake it runs `RemoveOld`/`RemoveOldClose` (line 126), then `Put` (lines 127-129).
- `ServeEnd` ends the read loop on a closed connection, and `RecvError` ends it on a rejected packet.
- `DeferRemove`/`DeferRemoveClose` are the deferred `RemovePeer(p.ID())` and `conn.Close()`.
- `Drop` is the network closing a connection.
- `SendTo` (lines 79-89) is two steps: `SendToLookup` reads `peerMap` under `ms.Lock`, and `SendPacket` sends after the unlock. A `Drop` or a newer connection's `RemoveOldClose` can close the peer in between. The packet is then lost, and `SendTo` still returns nil. TLC reaches this state. No property states delivery, because the code promises none.

`PeerCount`, `Peer` and `FormulatorMap` only read `peerMap` under the lock, so they need no action.

The handshake's contents and the ObserverNode callbacks are abstracted to success or failure.

### `LevelRoot`, checked through `MCLevelRoot`

**Code operators.** `Hash16`, `BuildLevel` and `BuildLevelRoot` follow `util.go`. The hash is a term: a group padded with `EmptyHash` to `hashPerLevel` entries. The fixed appender bytes are left out, and `DoubleHash` is taken as injective.

**Reference.** `TreeRoot` is a RECURSIVE tree of depth 4 in which a subtree without leaves is left out of its parent's group.

**State machine.** The list grows one hash at a time, up to one past the limit.

### `AddressCodec`, checked through `MCAddressCodec`

**Code operators.** `Checksum`, `String`, `ParseAddress`, `MarshalJSON` and `UnmarshalJSON` follow `address.go` byte by byte: trimming, the 7- and 15-byte buffers, the XOR of the tail with the base, the symbol cut at the first zero, and the split at `_`.

**Representation.** base58 is a library, so an encoding is an opaque token that decodes to its bytes. A string is a sequence of characters and tokens.

**State machine.** An address is built one byte at a time from a small set of values per position. That is every `NewAddress` result over those values.

## Runs

| Run | What it checks | Result |
|---|---|---|
| `formulator_gen` (`FormulatorNode_gen.cfg`) | This formulator is the finalised generator. Two observers relay the finalisation signatures and a rival's BlockGen for height 1, in any order and duplicated. There are two requests (timeout counts 0 and 1) and one retry, and the rival's BlockGen cancels generation. Checks TypeOK, `ChainIsFinal` (only finalised blocks are committed) and `NoReadyItemStranded` (when nothing is pending, the next height is not left ready). | pass (~2M states, ~2 min) |
| `formulator_final_evicted` | `FinalItemNeverEvicted`: a ready finalised item only leaves the map by commit | violated: finding 1 |
| `formulator_sign_dropped` | `SignNeverDropped`: a stored ObSign stays until its height commits | violated: finding 3 |
| `pile` (`Pile.cfg`) | Two crashes at any point and any write-back order. Checks `RecoveryNeverFails` (LoadPile fails only on a chunk whose header never reached disk), `ImplementsAppendLog`, and `GetDataReadsLog` (GetData returns the acknowledged record or ErrInvalidHeight). | pass |
| `context_accounts` | Accounts, the name index and sequences over 2 layers: `ImplementsFlatContext` | pass |
| `context_data` | Account data, process data, outputs and events over 2 layers: `ImplementsFlatContext` | pass |
| `formulator_service` (`FormulatorService.cfg`) | Three connections of one formulator, dropped at any point. Checks `MappedHandlerAlive` (peerMap only holds peers whose handler runs), and, under fairness, `ClosedLeavesMap` (a closed mapped peer is removed). `SendTo` races the handlers. | pass |
| `formulator_service_leak` | `OpenServedIsMapped` | violated: finding 6 |
| `formulator_service_defer` | `DeferredRemovesOwnPeer` | violated: finding 7 |
| `level_root` (`LevelRoot.cfg`) | `LevelRootIsTreeRoot`, with two hashes per level, for every list of 0 to 17 hashes | pass (262,143 states) |
| `address_codec` (`AddressCodec.cfg`) | `RoundTripOnDomain`: UnmarshalJSON inverts MarshalJSON on addresses with a zero magic or a proper symbol | pass |
| `address_json_roundtrip` | `JSONRoundTrip` on every address | violated: finding 8 |

Each property of a passing run has a mutant in `PROJECT.json`. A mutant is a fault variant of a mapped definition (a dropped check, a missing sync, a missing tombstone, ...), and the property catches it.

## Findings

1. **Finalised block evicted.** The BlockGen handler keeps the Context speculated from a rival block when it stores the finalised one (lines 179-180). The commit with that context fails, and the finalised, signed item is deleted (lines 383-387).
2. **Item for a committed height.** The BlockGen and ObSign handlers check the height before `fr.Lock`. A duplicate relay can therefore create an item for a height `updateByGenItem` just committed, and nothing removes it.
3. **Two generation goroutines for one height.** Two observers' identical BlockReqs both pass the lock-free check (lines 76-80). The goroutine re-check (line 146) lets an equal height through. The second `genBlock` overwrites an item holding a signature (line 512).
4. **Inherited name survives deletion.** DeleteAccount removes the name only from the top layer's name index. CreateAccountIgnoreDelete then refuses a name whose owner was deleted in the same layer, contrary to its comment (line 212) and spec 4.4.
5. **HasUTXO and UTXO disagree.** HasUTXO consults CreatedUTXOMap but UTXO does not. An output created in the context is present for one and absent for the other.

6. **Orphaned connection.** The handler removes the formulator's old peer (line 126) and puts the new one (lines 127-129) under two separate locks. Two concurrent handshakes of one formulator both remove, then both put. The first connection is overwritten but never closed: the observer keeps serving a connection `SendTo` cannot reach.
7. **Deferred RemovePeer removes the successor.** `defer ms.RemovePeer(p.ID())` (line 130) removes by ID. When a reconnected formulator's old handler ends, it deletes and closes the new connection.
8. **Address text form not parseable.** With a zero base (bytes 6-7) and a non-zero later byte, `String` writes 15 bytes without a symbol, but `ParseAddress` needs 7 (line 132). `UnmarshalJSON` rejects `MarshalJSON`'s output.

Four further disagreements are stated as properties and have a cfg each. TLC finds each one violated, but they are not in the run list of `PROJECT.json`:
- `NoStaleItem` (`FormulatorNode_NoStaleItem.cfg`). Finding 2.
- `IgnoreDeleteReusesDeletedName` (`ContextData_IgnoreDelete.cfg`). Finding 4.
- `UTXOViewsAgree` (`ContextData_UTXOViews.cfg`). Finding 5.
- `ParseNeverMisreads` (`AddressCodec_ParseNeverMisreads.cfg`). `String` cuts the symbol at the first zero byte of the XORed tail (line 71). `ParseAddress` pads it with zeros before the XOR (line 141). The XOR checksum of the different address it rebuilds can still match, so `UnmarshalJSON` silently returns another address.

## Bounds and why they suffice

**FormulatorNode: 2 observers, heights 1..2, 2 variants.**
- Two observers are the least needed for duplicate relays.
- Two heights are the least for a commit loop that must advance past one height, and for requests for a future height.
- Two variants are the least for a rival.
- `MaxBlocks = 2` gives a second sub-block after a checkpoint.
- `MaxAhead = 1` and `RetryLimit` 1-2 let a retry fire and be exhausted.
- Observers are symmetric (`SYMMETRY Symm`).

**Pile: 3 heights, 2 values, 2 crashes.** This covers a crash during a repair after a crash during an append. The three-field recovery cases all occur.

**ContextData: 3 addresses.**
- One is committed, one is new, and one has an address-like name.
- `context_accounts`: the committed account's sequence runs 0..1 (`MaxSeq = 1`), so AddSeq, its memoisation in a later layer, and AddSeq on a deleted account all occur.
- `context_data`: one process data key and one account data key, both committed with value `x1`. The one value is enough because a write is told apart from a tombstone, not from another value. Two outputs (one committed) and two events let a second event be emitted after a Snapshot or a Revert.
- 2 layers in both runs, which give read-through across a non-top layer and memoisation. A third layer, or a second value, takes the data run past five minutes.

**FormulatorService: one formulator, three connections.** Two connections give a reconnect, and concurrent handshakes. The third lets a newer connection arrive while an old handler's deferred RemovePeer is pending.

**LevelRoot: two hashes per level, two leaf values.** The code is generic in `hashPerLevel`. With 2, the four levels hold 16 leaves, so every partial group at every level, the exact limit and one past it are all reached.

**AddressCodec.** Per position:
- the height bytes and byte 6 take {0,1};
- the index bytes take {0};
- the base bytes take {0,1};
- the tail bytes take {0,1,94,95}, which includes `_` (95) and values whose XOR with the base is 0 or `_`.

These values reach every branch of `String` and `ParseAddress`.

## Fairness

`FormulatorService` assumes weak fairness of each handler goroutine's own steps (`HandlerStep`). A goroutine that can run is scheduled, and once its connection is closed every read fails. The network, the formulators and the packets they send are not fair. `ClosedLeavesMap` is checked under this fairness. That every handler on a closed connection finishes is not stated separately: each of its steps is enabled once the connection is closed, so it would only restate the fairness.

For `FormulatorNode`, no liveness property is checked. Its handlers are driven by network delivery, which the code does not control. `NoReadyItemStranded` states the progress obligation of `updateByGenItem` as an invariant over quiescent states.

One liveness property was tried: under weak fairness of the spawned goroutines (the store steps, the retry goroutine, `GenStart`, `GenResume` and `UpdateByGenItem`), an accepted request with a nonzero timeout count leads to this formulator's block for that height. TLC's liveness checking is not sound under symmetry, and without `SYMMETRY` the `formulator_gen` instance did not finish in 10 minutes. A smaller instance would no longer hold a rival relay together with a retry. So the property is not part of the project.

## Not modelled, and the plan

- **Pile reads:** the data index checks and gzip of GetData/GetDatas are left out, since a record is one value. GetHash has no HeadHeight check (line 295). With the invariant `~(read.op = "GetHash" /\ read.h > head /\ read.res \in Vals)`, TLC finds the hash of a rolled-back append returned after a crash. No run in the list checks this.
- **Chain utilities:** `HashTransaction` is encoding plus a hash. The name predicates have no state.
- **ContextData:** Hash. It digests `SeqMap`, `AccountMap`, `AccountDataMap`, `UTXOMap` and `ProcessDataMap`, and those also hold values that reads memoise. Two contexts with the same writes but different reads therefore have different digests. The memoisation itself is modelled. A digest-agreement property would be a violation run, and the list has no room for one. EmitEvent's counter wraps after 65536 events, which is far past the bound of 2 events.
- **Process modules (`src/process/*`):** spec.md puts per-transaction business logic out of scope. Their Validate and Execute call the vault (`WithFee`, `SubBalance`, `AddBalance`), the admin process and the executor pipeline, and none of those is under `src/`. An action for them would be written from guesses, not from code.
- **FormulatorNode sync path:** `StatusMessage`, `BlockMessage` and `tryRequestNext` (lines 229-316) are left out. They add blocks that arrive from observers outside generation. With them, the `formulator_gen` instance, already at 2 million states, would no longer finish. `tryRequestNext` checks `lastGenItemMap` under `fr.Lock` and then looks at the request timer after the unlock, so it can send a redundant request. This is listed as a hazard.
- **genBlock timestamps (lines 425-453):** blocks are abstract in the model. When the local clock is behind the chain, `EndBlockTime` is computed before `StartBlockTime` is raised. Every sub-block is then capped and bumped to the previous timestamp + 1ns. Whether observers accept such blocks depends on code that is not under `src/`.
- **genBlock's sleep under `lastReqLock` (lines 530-540):** the sleep is part of the atomic `GenResume` step. It delays every BlockReq, BlockGen and BlockObSign handler, but it cannot deadlock, because every path takes `fr.Lock` before `lastReqLock`. The delay is timing, which the model does not measure.
- **Formulator account type, core types and interfaces:** `formulator_account.go`, the header and sign types, `provider.go`, `seqcache.go` and `encoding/factory.go` declare types and interfaces, with no state-changing code.
- **Command-line programs:** configuration and wiring (I/O). Their one modelled choice, `SetSyncMode(true)`, is the `SyncMode` constant of `Pile`.
- **Tx handler and txpool use in genBlock (lines 262-284, 455-496):** transaction execution belongs to the process modules above.
