--------------------------- MODULE FormulatorService ---------------------------
(***************************************************************************)
(* The observer's table of connected formulators,                          *)
(* src/pof/observer_formulator_service.go.                                 *)
(*                                                                         *)
(* Every websocket connection is served by its own handler goroutine (the  *)
(* closure registered in server, lines 102-137): the handshake, then       *)
(* RemovePeer(ID) of an older connection of the same formulator, then the  *)
(* new peer is put into peerMap, handleConnection reads packets until the  *)
(* connection fails, and the deferred RemovePeer(p.ID()) and conn.Close()  *)
(* run.  RemovePeer (lines 56-68) deletes under ms.Lock and closes the     *)
(* removed peer after unlocking, so it is two steps.  A connection is      *)
(* identified with its peer; the formulator that opened it is ConnOf[c].   *)
(* SendTo (lines 79-89) looks the peer up under ms.Lock and sends after    *)
(* unlocking, so it is two steps too: the peer may be closed in between.   *)
(***************************************************************************)
EXTENDS Naturals, FiniteSets

CONSTANTS
  Formulators,  \* formulator addresses (peer IDs)
  Conns,        \* connections the formulators open
  ConnOf,       \* Conns -> Formulators: the formulator of a connection
  None          \* no peer

ASSUME ConnOf \in [Conns -> Formulators] /\ None \notin Conns

VARIABLES
  peerMap,  \* ms.peerMap: formulator -> peer, None where it has no entry
  pc,       \* connection -> the point its handler goroutine is at
  closed,   \* connection -> the websocket is closed
  victim,   \* connection -> the peer its current RemovePeer removed, to close
  sendPeer, \* the peer a SendTo looked up and has not yet sent to, or None
  recvd     \* connections a SendTo packet was written to while open

vars == <<peerMap, pc, closed, victim, sendPeer, recvd>>

\* Handler points: "new" (not accepted yet), "hs" (handshaking), "rm" and
\* "rmClose" (RemovePeer(ID) before the put), "put", "serve", "drm" and
\* "drmClose" (the deferred RemovePeer), "done".
Points == {"new", "hs", "rm", "rmClose", "put", "serve", "drm", "drmClose", "done"}

Init ==
  /\ peerMap = [f \in Formulators |-> None]
  /\ pc = [c \in Conns |-> "new"]
  /\ closed = [c \in Conns |-> FALSE]
  /\ victim = [c \in Conns |-> None]
  /\ sendPeer = None
  /\ recvd = {}

-----------------------------------------------------------------------------
(* The locked and the unlocked half of RemovePeer, lines 56-68.            *)

\* Fault variant: the entry is looked up but not deleted.
RemoveLockedNoDelete(c, next) ==
  /\ victim' = [victim EXCEPT ![c] = peerMap[ConnOf[c]]]
  /\ pc' = [pc EXCEPT ![c] = next]
  /\ UNCHANGED <<peerMap, closed, sendPeer, recvd>>

RemoveLocked(c, next) ==
  LET id == ConnOf[c]
  IN  /\ victim' = [victim EXCEPT ![c] = peerMap[id]]
      /\ peerMap' = [peerMap EXCEPT ![id] = None]
      /\ pc' = [pc EXCEPT ![c] = next]
      /\ UNCHANGED <<closed, sendPeer, recvd>>

RemoveClose(c, next) ==
  /\ closed' = IF victim[c] # None THEN [closed EXCEPT ![victim[c]] = TRUE]
               ELSE closed
  /\ victim' = [victim EXCEPT ![c] = None]
  /\ pc' = [pc EXCEPT ![c] = next]
  /\ UNCHANGED <<peerMap, sendPeer, recvd>>

-----------------------------------------------------------------------------
(* The handler goroutine of a connection.                                  *)

\* The formulator connects and upgrader.Upgrade accepts (lines 102-107).
Accept(c) ==
  /\ pc[c] = "new"
  /\ pc' = [pc EXCEPT ![c] = "hs"]
  /\ UNCHANGED <<peerMap, closed, victim, sendPeer, recvd>>

\* sendHandshake, recvHandshake and IsFormulator (lines 109-122) all pass.
Handshake(c) ==
  /\ pc[c] = "hs"
  /\ ~closed[c]
  /\ pc' = [pc EXCEPT ![c] = "rm"]
  /\ UNCHANGED <<peerMap, closed, victim, sendPeer, recvd>>

\* One of them fails (a read on a closed connection always does): the
\* handler returns and the deferred conn.Close() runs.
HandshakeFail(c) ==
  /\ pc[c] = "hs"
  /\ pc' = [pc EXCEPT ![c] = "done"]
  /\ closed' = [closed EXCEPT ![c] = TRUE]
  /\ UNCHANGED <<peerMap, victim, sendPeer, recvd>>

\* ms.RemovePeer(ID) (line 126).
RemoveOld(c) == pc[c] = "rm" /\ RemoveLocked(c, "rmClose")
RemoveOldClose(c) == pc[c] = "rmClose" /\ RemoveClose(c, "put")

\* ms.peerMap[ID] = p under ms.Lock (lines 127-129).
Put(c) ==
  /\ pc[c] = "put"
  /\ peerMap' = [peerMap EXCEPT ![ConnOf[c]] = c]
  /\ pc' = [pc EXCEPT ![c] = "serve"]
  /\ UNCHANGED <<closed, victim, sendPeer, recvd>>

\* handleConnection (lines 141-158) returns when ReadPacket fails on the
\* closed connection, or when onFormulatorRecv rejects a packet.
ServeEnd(c) ==
  /\ pc[c] = "serve"
  /\ closed[c]
  /\ pc' = [pc EXCEPT ![c] = "drm"]
  /\ UNCHANGED <<peerMap, closed, victim, sendPeer, recvd>>

RecvError(c) ==
  /\ pc[c] = "serve"
  /\ ~closed[c]
  /\ pc' = [pc EXCEPT ![c] = "drm"]
  /\ UNCHANGED <<peerMap, closed, victim, sendPeer, recvd>>

\* defer ms.RemovePeer(p.ID()) (line 130), then defer conn.Close() (line 107).
\* Fault variant: no deferred RemovePeer.
DeferRemoveSkip(c) ==
  /\ pc[c] = "drm"
  /\ pc' = [pc EXCEPT ![c] = "drmClose"]
  /\ UNCHANGED <<peerMap, closed, victim, sendPeer, recvd>>
DeferRemove(c) == pc[c] = "drm" /\ RemoveLocked(c, "drmClose")
DeferRemoveClose(c) ==
  /\ pc[c] = "drmClose"
  /\ closed' = [c2 \in Conns |-> closed[c2] \/ c2 = c \/ c2 = victim[c]]
  /\ victim' = [victim EXCEPT ![c] = None]
  /\ pc' = [pc EXCEPT ![c] = "done"]
  /\ UNCHANGED <<peerMap, sendPeer, recvd>>

\* SendTo, lines 79-89: the peer is looked up under ms.Lock; without an
\* entry SendTo returns ErrNotExistFormulatorPeer and nothing is sent.
SendToLookup(f) ==
  /\ sendPeer = None
  /\ sendPeer' = peerMap[f]
  /\ UNCHANGED <<peerMap, pc, closed, victim, recvd>>

\* p.SendPacket after ms.Unlock, on the peer looked up: a connection closed
\* in between drops the packet, and SendTo still returns nil.
SendPacket ==
  /\ sendPeer # None
  /\ recvd' = IF closed[sendPeer] THEN recvd ELSE recvd \cup {sendPeer}
  /\ sendPeer' = None
  /\ UNCHANGED <<peerMap, pc, closed, victim>>

\* The network or the formulator drops a connection.
Drop(c) ==
  /\ ~closed[c]
  /\ pc[c] # "new"
  /\ closed' = [closed EXCEPT ![c] = TRUE]
  /\ UNCHANGED <<peerMap, pc, victim, sendPeer, recvd>>

\* The steps a handler goroutine takes by itself once it can.
HandlerStep(c) ==
  \/ Handshake(c) \/ (closed[c] /\ HandshakeFail(c))
  \/ RemoveOld(c) \/ RemoveOldClose(c) \/ Put(c)
  \/ ServeEnd(c) \/ DeferRemove(c) \/ DeferRemoveClose(c)

Next ==
  \/ \E f \in Formulators : SendToLookup(f)
  \/ SendPacket
  \/ \E c \in Conns :
    \/ Accept(c) \/ HandshakeFail(c) \/ RecvError(c) \/ Drop(c)
    \/ HandlerStep(c)

\* Goroutines are scheduled: a handler that can take a step takes it.  The
\* network, the formulators and the packets they send are not fair.
Fairness == \A c \in Conns : WF_vars(HandlerStep(c))

Spec == Init /\ [][Next]_vars /\ Fairness

-----------------------------------------------------------------------------
(* Properties.                                                             *)

\* SendTo and FormulatorMap only see peers whose handler still runs: the
\* deferred RemovePeer of a finished handler has taken its peer out, so no
\* block request is sent into a connection nobody serves.
MappedHandlerAlive ==
  \A f \in Formulators :
    peerMap[f] # None => pc[peerMap[f]] \in {"serve", "drm"}

\* A closed connection does not stay in peerMap: its handler's deferred
\* RemovePeer, or a newer connection of the formulator, replaces it.
ClosedLeavesMap ==
  \A c \in Conns : (closed[c] /\ peerMap[ConnOf[c]] = c) ~> peerMap[ConnOf[c]] # c


\* A connection that is open and served is the formulator's entry in
\* peerMap, unless a RemovePeer is about to close it: otherwise the
\* observer keeps reading from a formulator it can never send to.
OpenServedIsMapped ==
  \A c \in Conns :
    (pc[c] = "serve" /\ ~closed[c] /\ \A d \in Conns : victim[d] # c)
      => peerMap[ConnOf[c]] = c

\* The deferred RemovePeer of a finished handler only removes that
\* handler's own peer (line 130: it removes by ID, not by peer).
DeferredRemovesOwnPeer ==
  \A c \in Conns : (pc[c] = "drmClose" /\ victim[c] # None) => victim[c] = c

=============================================================================
