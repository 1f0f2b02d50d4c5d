---------------------------- MODULE SessionProofs ----------------------------
(***************************************************************************)
(* Proofs about the session layer over an arbitrary transport (Session):   *)
(* type correctness, and that the host maps agree, hold established        *)
(* sessions only, and leave no phantom peer, for any set of hosts and any  *)
(* buffer sizes.                                                           *)
(***************************************************************************)
EXTENDS SessionProps, TLAPS


-----------------------------------------------------------------------------
(* Type correctness.                                                       *)

MapsTyped ==
    /\ transportToLogical \in [Host -> Host \cup {Nil}]
    /\ logicalToTransport \in [Host -> Host \cup {Nil}]

\* The host-map operations keep the maps well typed.
LEMMA MapTypes ==
    ASSUME SessionTypeOK, NEW t \in Host, NEW l \in Host
    PROVE  /\ mapToHost(t) \in Host
           /\ resolveUnderlyingHost(l) \in Host
           /\ setServerMapping(t, l) => MapsTyped'
           /\ cleanupServerMapping(t) => MapsTyped'
<1>1. mapToHost(t) \in Host
  BY Zenon DEF SessionTypeOK, mapToHost
<1>2. resolveUnderlyingHost(l) \in Host
  BY Zenon DEF SessionTypeOK, resolveUnderlyingHost
<1>3. ASSUME setServerMapping(t, l) PROVE MapsTyped'
  BY Zenon, <1>3 DEF SessionTypeOK, setServerMapping, MapsTyped
<1>4. ASSUME cleanupServerMapping(t) PROVE MapsTyped'
  BY Zenon, <1>4 DEF SessionTypeOK, cleanupServerMapping, MapsTyped
<1> QED BY Zenon, <1>1, <1>2, <1>3, <1>4

\* What the handler queues are channel operations of the declared kinds.
LEMMA EffectTypes ==
    ASSUME NEW h \in Host
    PROVE  /\ \A o \in {"connect", "disconnect", "send"}, k \in Kind,
                 l \in Host \cup {Nil} : Call(o, h, k, l) \in Effect
           /\ \A ty \in {"SessionConnected", "SessionDisconnected",
                         "SessionFailed", "SessionVersionMismatch"} :
                Emit(ty, h) \in Effect /\ EmitUnguarded(ty, h) \in Effect
           /\ \A m \in Message : Push(m) \in Effect
<1>1. \A o \in {"connect", "disconnect", "send"}, k \in Kind,
         l \in Host \cup {Nil} : Call(o, h, k, l) \in Effect
  BY Zenon DEF Call, Effect, RequestOf, Request
<1>2. \A ty \in {"SessionConnected", "SessionDisconnected",
                 "SessionFailed", "SessionVersionMismatch"} :
        Emit(ty, h) \in Effect /\ EmitUnguarded(ty, h) \in Effect
  BY Zenon DEF Emit, EmitUnguarded, Effect, EventOf, SessionEvent
<1>3. \A m \in Message : Push(m) \in Effect
  BY Zenon DEF Push, Effect
<1> QED BY Zenon, <1>1, <1>2, <1>3

\* Queue facts used throughout: taking the head, appending, short queues.
LEMMA QueueFacts ==
    ASSUME NEW S
    PROVE  /\ \A q \in Seq(S) : q # <<>> =>
                /\ Head(q) \in S /\ Tail(q) \in Seq(S)
                /\ Len(q) \in Nat /\ Len(Tail(q)) = Len(q) - 1
           /\ \A q \in Seq(S), x \in S :
                /\ Append(q, x) \in Seq(S)
                /\ Len(q) \in Nat /\ Len(Append(q, x)) = Len(q) + 1
           /\ <<>> \in Seq(S)
           /\ \A x, y \in S : <<x>> \in Seq(S) /\ <<x, y>> \in Seq(S)
OBVIOUS

\* Every state-machine step keeps the maps, the queued operations and the
\* set of announced peers well typed.
FsmTyped ==
    /\ sessions \in [Host -> [state : State, logical : Host \cup {Nil}]]
    /\ MapsTyped
    /\ todo \in Seq(Effect)
    /\ announced \in SUBSET Host

\* ... a connect request (connectClient).
LEMMA ConnectTypes ==
    ASSUME TypeOK, NEW t \in Dial, handleClientConnectRequested(t)
    PROVE  FsmTyped'
<1>0. t \in Host
  BY Zenon, SessionAssumption
<1>1. <<Call("connect", t, "app", Nil)>> \in Seq(Effect)
  BY <1>0, EffectTypes, QueueFacts DEF Kind
<1>2. (todo \in Seq(Effect))'
  BY Zenon, <1>1 DEF TypeOK, SessionTypeOK, handleClientConnectRequested
<1>3. (sessions \in [Host -> [state : State, logical : Host \cup {Nil}]])'
  <2>1. CASE sessions[t].state \in {"Idle", "Failed", "Closing"}
    BY <1>0, <2>1 DEF TypeOK, SessionTypeOK, handleClientConnectRequested, State
  <2>2. CASE sessions[t].state \notin {"Idle", "Failed", "Closing"}
    BY <1>0, <2>2 DEF TypeOK, SessionTypeOK, handleClientConnectRequested, State
  <2> QED BY Zenon, <2>1, <2>2
<1> QED
  BY Zenon, <1>2, <1>3 DEF TypeOK, SessionTypeOK, handleClientConnectRequested, FsmTyped, MapsTyped

\* ... a Connected event: a client session has a logical host to name.
LEMMA ConnectedTypes ==
    ASSUME TypeOK, ClientNamesPeer, NEW t \in Host, handleConnected(t)
    PROVE  FsmTyped'
<1> DEFINE l == sessions[t].logical
<1>1. CASE sessions[t].state = "HandshakingClient"
  <2>1. l \in Host
    BY Zenon, <1>1, SessionAssumption DEF ClientNamesPeer
  <2>2. /\ Call("send", t, "hello", Self) \in Effect
        /\ Emit("SessionConnected", l) \in Effect
        /\ Emit("SessionFailed", l) \in Effect
    BY Zenon, <2>1, EffectTypes, SessionAssumption DEF Kind
  <2>a. /\ <<Call("send", t, "hello", Self), Emit("SessionConnected", l)>> \in Seq(Effect)
        /\ <<Emit("SessionFailed", l)>> \in Seq(Effect)
    BY Zenon, <2>2, QueueFacts
  <2>3. (todo \in Seq(Effect))'
    BY Zenon, <1>1, <2>a DEF handleConnected
  <2>4. MapsTyped'
    BY Zenon, <1>1, <2>1, MapTypes DEF handleConnected, TypeOK, SessionTypeOK, MapsTyped
  <2>5. (sessions \in [Host -> [state : State, logical : Host \cup {Nil}]])'
    BY <1>1 DEF handleConnected, TypeOK, SessionTypeOK, State, MoveTo
  <2>6. (announced \in SUBSET Host)'
    BY Zenon, <1>1, <2>1 DEF handleConnected, TypeOK, SessionTypeOK
  <2> QED BY Zenon, <2>3, <2>4, <2>5, <2>6 DEF FsmTyped
<1>2. CASE sessions[t].state # "HandshakingClient"
  BY <1>2 DEF handleConnected, TypeOK, SessionTypeOK, State, MoveTo, FsmTyped,
              MapsTyped, maps
<1> QED BY Zenon, <1>1, <1>2

\* ... a Disconnected or Failed event.
LEMMA DisconnectedTypes ==
    ASSUME TypeOK, NEW t \in Host, handleDisconnected(t) \/ handleFailed(t)
    PROVE  FsmTyped'
<1>1. /\ mapToHost(t) \in Host
      /\ Emit("SessionDisconnected", mapToHost(t)) \in Effect
      /\ Emit("SessionFailed", mapToHost(t)) \in Effect
  BY Zenon, MapTypes, EffectTypes DEF TypeOK
<1>a. /\ <<Emit("SessionDisconnected", mapToHost(t))>> \in Seq(Effect)
      /\ <<Emit("SessionFailed", mapToHost(t))>> \in Seq(Effect)
  BY Zenon, <1>1, QueueFacts
<1>2. (todo \in Seq(Effect))'
  BY Zenon, <1>a DEF handleDisconnected, handleFailed, TypeOK, SessionTypeOK
<1>3. MapsTyped'
  BY Zenon, MapTypes DEF handleDisconnected, handleFailed, TypeOK, SessionTypeOK, MapsTyped
<1>4. (sessions \in [Host -> [state : State, logical : Host \cup {Nil}]])'
  BY DEF handleDisconnected, handleFailed, TypeOK, SessionTypeOK, State, MoveTo
<1>5. (announced \in SUBSET Host)'
  BY Zenon DEF handleDisconnected, handleFailed, TypeOK, SessionTypeOK
<1> QED BY Zenon, <1>2, <1>3, <1>4, <1>5 DEF FsmTyped

\* ... a handshake message, whatever it carries.
LEMMA HandshakeTypes ==
    ASSUME TypeOK, NEW t \in Host,
           \/ \E l \in Host : handleServerHello(t, l)
           \/ \E k \in Kind : handleIgnoredHandshake(t, k)
           \/ handleVersionMismatch(t)
    PROVE  FsmTyped'
<1>1. CASE \E l \in Host : handleServerHello(t, l)
  <2> PICK l \in Host : handleServerHello(t, l)
    BY Zenon, <1>1
  <2>1. Call("send", t, "ack", Nil) \in Effect /\ Emit("SessionConnected", l) \in Effect
    BY Zenon, EffectTypes DEF Kind
  <2>2. (todo \in Seq(Effect))'
    BY Zenon, <2>1, QueueFacts DEF handleServerHello
  <2>3. MapsTyped'
    BY Zenon, MapTypes DEF handleServerHello, TypeOK
  <2> QED
    BY Zenon, <2>2, <2>3 DEF handleServerHello, TypeOK, SessionTypeOK, State, FsmTyped
<1>2. CASE \E k \in Kind : handleIgnoredHandshake(t, k)
  BY <1>2 DEF handleIgnoredHandshake, TypeOK, SessionTypeOK, State, MoveTo,
              Handshaking, FsmTyped, MapsTyped
<1>3. CASE handleVersionMismatch(t)
  <2>1. /\ EmitUnguarded("SessionVersionMismatch", t) \in Effect
        /\ Call("disconnect", t, "app", Nil) \in Effect
    BY Zenon, EffectTypes DEF Kind
  <2>2. (todo \in Seq(Effect))'
    BY Zenon, <1>3, <2>1, QueueFacts DEF handleVersionMismatch
  <2> QED
    BY Zenon, <1>3, <2>2 DEF handleVersionMismatch, TypeOK, SessionTypeOK, State, MoveTo,
                      Handshaking, FsmTyped, MapsTyped
<1> QED BY Zenon, <1>1, <1>2, <1>3

-----------------------------------------------------------------------------
(* The maps and the state machines.                                        *)

FsmSafe == ClientNamesPeer /\ MapsAgree /\ MappedIsUp /\ DialNamesItself

\* A new entry for a session that had none, and that is now established.
LEMMA MappingAdded ==
    ASSUME TypeOK, FsmSafe, NEW t \in Host, NEW l \in Host,
           ~Up(t), t \in Dial => l = t,
           setServerMapping(t, l),
           sessions' = [sessions EXCEPT ![t] = [state |-> "Established", logical |-> l]]
    PROVE  FsmSafe'
<1>1. transportToLogical[t] = Nil
  BY Zenon DEF FsmSafe, MappedIsUp
<1>2. ClientNamesPeer'
  BY Zenon DEF FsmSafe, ClientNamesPeer, TypeOK, SessionTypeOK
<1>3. MappedIsUp'
  BY Zenon DEF FsmSafe, MappedIsUp, Up, TypeOK, SessionTypeOK, setServerMapping
<1>4. MapsAgree'
  BY Zenon, <1>1, LayerAssumption
     DEF FsmSafe, MapsAgree, TypeOK, SessionTypeOK, setServerMapping
<1>5. DialNamesItself'
  BY DEF FsmSafe, DialNamesItself, TypeOK, SessionTypeOK, setServerMapping
<1> QED BY Zenon, <1>2, <1>3, <1>4, <1>5 DEF FsmSafe

\* Entries go away together: what is left in the maps still agrees.
LEMMA MappingRemoved ==
    ASSUME TypeOK, MapsAgree, DialNamesItself, NEW t \in Host, cleanupServerMapping(t)
    PROVE  /\ MapsAgree' /\ DialNamesItself'
           /\ transportToLogical'[t] = Nil
           /\ \A u \in Host \ {t} : transportToLogical'[u] = transportToLogical[u]
<1>1. CASE transportToLogical[t] = Nil
  BY Zenon, <1>1 DEF cleanupServerMapping, MapsAgree, DialNamesItself
<1>2. CASE transportToLogical[t] # Nil
  <2>1. /\ transportToLogical' = [transportToLogical EXCEPT ![t] = Nil]
        /\ logicalToTransport' = [logicalToTransport EXCEPT ![transportToLogical[t]] = Nil]
    BY Zenon, <1>2 DEF cleanupServerMapping
  <2>2. transportToLogical[t] \in Host
    BY Zenon, <1>2 DEF TypeOK, SessionTypeOK
  <2>3. MapsAgree'
    BY Zenon, <2>1, <2>2 DEF MapsAgree, TypeOK, SessionTypeOK
  <2>4. DialNamesItself'
    BY Zenon, <2>1, SessionAssumption DEF DialNamesItself, TypeOK, SessionTypeOK
  <2> QED BY Zenon, <2>1, <2>3, <2>4 DEF TypeOK, SessionTypeOK
<1> QED BY Zenon, <1>1, <1>2

\* A session moves to st with its map entries gone.
LEMMA SessionClosed ==
    ASSUME TypeOK, FsmSafe, NEW t \in Host, NEW st \in {"Closing", "Failed"},
           cleanupServerMapping(t), MoveTo(t, st)
    PROVE  FsmSafe'
<1>1. MapsAgree' /\ DialNamesItself'
  BY Zenon, MappingRemoved DEF FsmSafe
<1>2. ClientNamesPeer'
  BY Zenon DEF FsmSafe, ClientNamesPeer, TypeOK, SessionTypeOK, MoveTo
<1>3. MappedIsUp'
  BY Zenon, MappingRemoved DEF FsmSafe, MappedIsUp, Up, TypeOK, SessionTypeOK, MoveTo
<1> QED BY Zenon, <1>1, <1>2, <1>3 DEF FsmSafe

\* A session that is not established moves on without touching the maps.
LEMMA SessionMoved ==
    ASSUME TypeOK, FsmSafe, NEW t \in Host,
           NEW s \in [state : State, logical : Host \cup {Nil}],
           ~Up(t), s.state = "HandshakingClient" => t \in Dial /\ s.logical = t,
           sessions' = [sessions EXCEPT ![t] = s],
           UNCHANGED <<transportToLogical, logicalToTransport>>
    PROVE  FsmSafe'
<1>1. ClientNamesPeer'
  BY Zenon DEF FsmSafe, ClientNamesPeer, TypeOK, SessionTypeOK
<1>2. MappedIsUp'
  BY Zenon DEF FsmSafe, MappedIsUp, Up, TypeOK, SessionTypeOK
<1>3. MapsAgree' /\ DialNamesItself'
  BY Zenon DEF FsmSafe, MapsAgree, DialNamesItself
<1> QED BY Zenon, <1>1, <1>2, <1>3 DEF FsmSafe

\* NoPhantomPeer needs protocols to disconnect only addresses they dialled.
PhantomSafe == Hang \subseteq Dial => NoPhantomPeer
Safe == FsmSafe /\ PhantomSafe

\* Announced peers keep the session behind them when only session t changes,
\* unless it was the established one.
LEMMA PhantomKept ==
    ASSUME TypeOK, NoPhantomPeer, NEW t \in Host,
           \A u \in Host \ {t} : /\ sessions'[u] = sessions[u]
                                 /\ transportToLogical'[u] = transportToLogical[u],
           NEW l \in announced,
           ~Up(t) \/ ~(transportToLogical[t] = l \/ (t = l /\ transportToLogical[t] = Nil))
    PROVE  \E u \in Host :
              /\ Up(u)'
              /\ transportToLogical'[u] = l \/ (u = l /\ transportToLogical'[u] = Nil)
BY Zenon DEF NoPhantomPeer, Up

\* Steps that leave the maps and the announced peers alone keep them safe.
LEMMA UnchangedSafe ==
    ASSUME Safe, UNCHANGED <<maps, announced>>
    PROVE  Safe'
BY Zenon DEF Safe, FsmSafe, PhantomSafe, ClientNamesPeer, MapsAgree, MappedIsUp,
       DialNamesItself, NoPhantomPeer, Up, maps

\* A connect request starts a handshake or renames a session, never an
\* established one's map entry (handleClientConnectRequested).
LEMMA ConnectSafe ==
    ASSUME TypeOK, Safe, NEW t \in Dial, handleClientConnectRequested(t)
    PROVE  Safe'
<1>0. t \in Host
  BY Zenon, SessionAssumption
<1>1. CASE sessions[t].state \in {"Idle", "Failed", "Closing"}
  <2>1. sessions' = [sessions EXCEPT ![t] = [state |-> "HandshakingClient", logical |-> t]]
    BY Zenon, <1>1 DEF handleClientConnectRequested
  <2>2. ~Up(t)
    BY Zenon, <1>1 DEF Up
  <2>3. UNCHANGED <<transportToLogical, logicalToTransport, announced>>
    BY Zenon DEF handleClientConnectRequested
  <2>4. FsmSafe'
    BY Zenon, <1>0, <2>1, <2>2, <2>3, SessionMoved DEF Safe, State
  <2>5. \A u \in Host \ {t} : sessions'[u] = sessions[u]
    BY Zenon, <2>1 DEF TypeOK, SessionTypeOK
  <2>6. PhantomSafe'
    BY <1>0, <2>2, <2>3, <2>5, PhantomKept DEF Safe, PhantomSafe, NoPhantomPeer
  <2> QED BY Zenon, <2>4, <2>6 DEF Safe
<1>2. CASE sessions[t].state \notin {"Idle", "Failed", "Closing"}
  <2>1. sessions' = [sessions EXCEPT ![t] = [state |-> @.state, logical |-> t]]
    BY Zenon, <1>2 DEF handleClientConnectRequested
  <2>2. UNCHANGED <<transportToLogical, logicalToTransport, announced>>
    BY Zenon DEF handleClientConnectRequested
  <2>3. \A u \in Host : sessions'[u].state = sessions[u].state
    BY Zenon, <1>0, <2>1 DEF TypeOK, SessionTypeOK
  <2>4. ClientNamesPeer'
    BY Zenon, <1>0, <2>1 DEF TypeOK, SessionTypeOK, Safe, FsmSafe, ClientNamesPeer
  <2>5. MapsAgree' /\ DialNamesItself' /\ MappedIsUp'
    BY Zenon, <2>2, <2>3 DEF Safe, FsmSafe, MapsAgree, DialNamesItself, MappedIsUp, Up
  <2>6. PhantomSafe'
    BY Zenon, <2>2, <2>3 DEF Safe, PhantomSafe, NoPhantomPeer, Up
  <2> QED BY Zenon, <2>4, <2>5, <2>6 DEF Safe, FsmSafe
<1> QED BY Zenon, <1>1, <1>2

\* A session that was not established is now, for peer l.
LEMMA EstablishedSafe ==
    ASSUME TypeOK, Safe, NEW t \in Host, NEW l \in Host,
           ~Up(t), t \in Dial => l = t,
           setServerMapping(t, l), announced' = announced \cup {l},
           sessions' = [sessions EXCEPT ![t] = [state |-> "Established", logical |-> l]]
    PROVE  Safe'
<1>1. FsmSafe'
  BY Zenon, MappingAdded DEF Safe
<1>2. /\ Up(t)' /\ transportToLogical'[t] = l
      /\ \A u \in Host \ {t} : /\ sessions'[u] = sessions[u]
                               /\ transportToLogical'[u] = transportToLogical[u]
  BY Zenon DEF TypeOK, SessionTypeOK, Up, setServerMapping
<1>3. PhantomSafe'
  <2> SUFFICES ASSUME NoPhantomPeer, NEW p \in announced'
               PROVE  \E u \in Host :
                        /\ Up(u)'
                        /\ transportToLogical'[u] = p \/ (u = p /\ transportToLogical'[u] = Nil)
    BY Zenon DEF Safe, PhantomSafe, NoPhantomPeer
  <2>1. CASE p = l
    BY Zenon, <1>2, <2>1
  <2>2. CASE p # l
    BY Zenon, <1>2, <2>2, PhantomKept
  <2> QED BY Zenon, <2>1, <2>2
<1> QED BY Zenon, <1>1, <1>3 DEF Safe

\* A session ends, and the peer it stood for is no longer announced.
LEMMA EndedSafe ==
    ASSUME TypeOK, Safe, NEW t \in Host, NEW st \in {"Closing", "Failed"},
           cleanupServerMapping(t), MoveTo(t, st),
           announced' = announced \ {mapToHost(t)}
    PROVE  Safe'
<1>1. FsmSafe'
  BY Zenon, SessionClosed DEF Safe
<1>2. \A u \in Host \ {t} : /\ sessions'[u] = sessions[u]
                            /\ transportToLogical'[u] = transportToLogical[u]
  BY Zenon, MappingRemoved DEF Safe, FsmSafe, TypeOK, SessionTypeOK, MoveTo
<1>3. PhantomSafe'
  <2> SUFFICES ASSUME NoPhantomPeer, NEW p \in announced, p # mapToHost(t)
               PROVE  \E u \in Host :
                        /\ Up(u)'
                        /\ transportToLogical'[u] = p \/ (u = p /\ transportToLogical'[u] = Nil)
    BY Zenon DEF Safe, PhantomSafe, NoPhantomPeer
  <2>1. ~(transportToLogical[t] = p \/ (t = p /\ transportToLogical[t] = Nil))
    BY Zenon, LayerAssumption DEF mapToHost, TypeOK, SessionTypeOK
  <2> QED BY Zenon, <1>2, <2>1, PhantomKept
<1> QED BY Zenon, <1>1, <1>3 DEF Safe

\* A session that was not established moves on, with no event.
LEMMA MovedSafe ==
    ASSUME TypeOK, Safe, NEW t \in Host, NEW st \in State \ {"HandshakingClient"},
           ~Up(t), MoveTo(t, st),
           UNCHANGED <<transportToLogical, logicalToTransport>>,
           announced' \subseteq announced
    PROVE  Safe'
<1>1. FsmSafe'
  BY Zenon, SessionMoved DEF Safe, MoveTo, TypeOK, SessionTypeOK
<1>2. \A u \in Host \ {t} : sessions'[u] = sessions[u]
  BY Zenon DEF TypeOK, SessionTypeOK, MoveTo
<1>3. PhantomSafe'
  BY <1>2, PhantomKept DEF Safe, PhantomSafe, NoPhantomPeer
<1> QED BY Zenon, <1>1, <1>3 DEF Safe

\* A Connected event keeps the maps safe in every state (handleConnected).
LEMMA ConnectedSafe ==
    ASSUME TypeOK, Safe, NEW t \in Host, handleConnected(t)
    PROVE  Safe'
<1> DEFINE Client == sessions[t].state = "HandshakingClient"
<1>1. CASE /\ Client
           /\ MoveTo(t, "Established") /\ setServerMapping(t, sessions[t].logical)
           /\ announced' = announced \cup {sessions[t].logical}
  <2>1. t \in Dial /\ sessions[t].logical = t
    BY Zenon, <1>1 DEF Safe, FsmSafe, ClientNamesPeer
  <2>2. /\ sessions' = [sessions EXCEPT ![t] = [state |-> "Established", logical |-> t]]
        /\ setServerMapping(t, t)
        /\ announced' = announced \cup {t}
    BY Zenon, <1>1, <2>1 DEF MoveTo
  <2> QED BY Zenon, <1>1, <2>2, EstablishedSafe DEF Up
<1>2. CASE /\ Client
           /\ MoveTo(t, "Failed") /\ announced' \subseteq announced
           /\ UNCHANGED <<transportToLogical, logicalToTransport>>
  BY Zenon, <1>2, MovedSafe DEF Up, State
<1>3. CASE sessions[t].state \in {"Idle", "HandshakingServer"}
  <2>1. /\ MoveTo(t, "HandshakingServer") /\ announced' \subseteq announced
        /\ UNCHANGED <<transportToLogical, logicalToTransport>>
    BY Zenon, <1>3 DEF handleConnected
  <2> QED BY Zenon, <1>3, <2>1, MovedSafe DEF Up, State
<1>4. CASE sessions[t].state \in {"Established", "Failed", "Closing"}
  <2>1. UNCHANGED <<maps, announced>>
    BY Zenon, <1>4 DEF handleConnected
  <2> QED BY Zenon, <2>1, UnchangedSafe
<1>5. ASSUME Client
      PROVE  \/ /\ MoveTo(t, "Established") /\ setServerMapping(t, sessions[t].logical)
                /\ announced' = announced \cup {sessions[t].logical}
             \/ /\ MoveTo(t, "Failed") /\ announced' \subseteq announced
                /\ UNCHANGED <<transportToLogical, logicalToTransport>>
  BY Zenon, <1>5 DEF handleConnected
<1>6. sessions[t].state \in State
  BY Zenon DEF TypeOK, SessionTypeOK
<1> QED
  BY Zenon, <1>1, <1>2, <1>3, <1>4, <1>5, <1>6 DEF State

\* So do Disconnected and Failed events (handleDisconnected, handleFailed).
LEMMA DisconnectedSafe ==
    ASSUME TypeOK, Safe, NEW t \in Host, handleDisconnected(t) \/ handleFailed(t)
    PROVE  Safe'
<1>1. CASE handleFailed(t)
  BY Zenon, <1>1, EndedSafe DEF handleFailed
<1>2. CASE handleDisconnected(t) /\ sessions[t].state \in
             {"Established", "HandshakingClient", "HandshakingServer"}
  <2>1. /\ MoveTo(t, "Closing") /\ cleanupServerMapping(t)
        /\ announced' = announced \ {mapToHost(t)}
    BY Zenon, <1>2 DEF handleDisconnected
  <2> QED BY Zenon, <2>1, EndedSafe
<1>3. CASE handleDisconnected(t) /\ sessions[t].state \notin
             {"Established", "HandshakingClient", "HandshakingServer"}
  <2>1. /\ MoveTo(t, "Failed") /\ announced' \subseteq announced
        /\ UNCHANGED <<transportToLogical, logicalToTransport>>
    BY Zenon, <1>3 DEF handleDisconnected
  <2> QED BY Zenon, <1>3, <2>1, MovedSafe DEF Up, State
<1> QED BY Zenon, <1>1, <1>2, <1>3

\* And so does every handshake message (handleHandshakeMessage), given that a
\* Hello from a dialled address announces that address.
LEMMA HandshakeSafe ==
    ASSUME TypeOK, Safe, NEW t \in Host,
           \/ \E l \in Host : (t \in Dial => l = t) /\ handleServerHello(t, l)
           \/ \E k \in Kind : handleIgnoredHandshake(t, k)
           \/ handleVersionMismatch(t)
    PROVE  Safe'
<1>1. CASE \E l \in Host : (t \in Dial => l = t) /\ handleServerHello(t, l)
  <2> PICK l \in Host : (t \in Dial => l = t) /\ handleServerHello(t, l)
    BY Zenon, <1>1
  <2>1. ~Up(t)
    BY Zenon DEF handleServerHello, ServerSide, Up
  <2> QED BY Zenon, <2>1, EstablishedSafe DEF handleServerHello
<1>2. CASE (\E k \in Kind : handleIgnoredHandshake(t, k)) \/ handleVersionMismatch(t)
  <2>1. /\ MoveTo(t, Handshaking(t)) /\ announced' \subseteq announced
        /\ UNCHANGED <<transportToLogical, logicalToTransport, announced>>
    BY Zenon, <1>2 DEF handleIgnoredHandshake, handleVersionMismatch
  <2>2. CASE sessions[t].state = "Idle"
    <3>1. MoveTo(t, "HandshakingServer") /\ ~Up(t)
      BY Zenon, <2>1, <2>2 DEF Handshaking, Up
    <3> QED BY Zenon, <2>1, <3>1, MovedSafe DEF State
  <2>3. CASE sessions[t].state # "Idle"
    <3>1. sessions' = sessions
      BY Zenon, <2>1, <2>3 DEF Handshaking, MoveTo, TypeOK, SessionTypeOK
    <3> QED BY Zenon, <2>1, <3>1, UnchangedSafe DEF maps
  <2> QED BY Zenon, <2>2, <2>3
<1> QED BY Zenon, <1>1, <1>2

\* Disconnect drops the entry of a session that stays established for now.
LEMMA HangSafe ==
    ASSUME TypeOK, Safe, NEW t \in Hang, cleanupServerMapping(t),
           UNCHANGED <<sessions, announced>>
    PROVE  Safe'
<1>0. t \in Host
  BY Zenon, SessionAssumption
<1>1. /\ MapsAgree' /\ DialNamesItself'
      /\ transportToLogical'[t] = Nil
      /\ \A u \in Host \ {t} : transportToLogical'[u] = transportToLogical[u]
  BY Zenon, <1>0, MappingRemoved DEF Safe, FsmSafe
<1>2. ClientNamesPeer' /\ MappedIsUp'
  BY Zenon, <1>1 DEF Safe, FsmSafe, ClientNamesPeer, MappedIsUp, Up
<1>3. PhantomSafe'
  <2> SUFFICES ASSUME Hang \subseteq Dial, NoPhantomPeer, NEW p \in announced
               PROVE  \E u \in Host :
                        /\ Up(u)'
                        /\ transportToLogical'[u] = p \/ (u = p /\ transportToLogical'[u] = Nil)
    BY Zenon DEF Safe, PhantomSafe, NoPhantomPeer
  <2>1. PICK u \in Host : /\ Up(u)
                          /\ transportToLogical[u] = p \/ (u = p /\ transportToLogical[u] = Nil)
    BY Zenon DEF NoPhantomPeer
  <2>2. CASE u # t
    BY Zenon, <1>1, <2>1, <2>2 DEF Up
  <2>3. CASE u = t
    <3>1. transportToLogical[t] \in {t, Nil}
      BY Zenon DEF Safe, FsmSafe, DialNamesItself
    <3>2. p = t
      BY Zenon, <2>1, <2>3, <3>1, LayerAssumption DEF TypeOK, SessionTypeOK
    <3> QED BY Zenon, <1>1, <2>1, <2>3, <3>2 DEF Up
  <2> QED BY Zenon, <2>2, <2>3
<1> QED BY Zenon, <1>1, <1>2, <1>3 DEF Safe, FsmSafe

-----------------------------------------------------------------------------
(* Each action preserves the invariant.                                    *)

Inductive == IInv /\ PhantomSafe

\* An input that leaves the upward channels alone keeps the types.
LEMMA InputTypes ==
    ASSUME TypeOK, FsmTyped', UpUnchanged
    PROVE  SessionTypeOK'
BY Zenon DEF TypeOK, SessionTypeOK, FsmTyped, MapsTyped, UpUnchanged, ups

\* A step below an unchanged outChannel keeps the Hellos waiting in it.
LEMMA HellosKept ==
    ASSUME HelloNamed, UNCHANGED outChannel
    PROVE  HelloNamed'
BY Zenon DEF HelloNamed

\* Reading a message leaves the Hellos behind it as they were.
LEMMA HellosRead ==
    ASSUME TypeOK, HelloNamed, outChannel # <<>>, outChannel' = Tail(outChannel)
    PROVE  HelloNamed'
<1>1. outChannel \in Seq(Message)
  BY Zenon DEF TypeOK, LayerTypeOK
<1>2. /\ Len(outChannel) \in Nat /\ Len(Tail(outChannel)) = Len(outChannel) - 1
      /\ \A i \in 1..Len(Tail(outChannel)) : Tail(outChannel)[i] = outChannel[i + 1]
  BY <1>1
<1> QED BY <1>2 DEF HelloNamed

\* A message that arrives joins the queue; a Hello among them is named.
LEMMA HellosArrive ==
    ASSUME TypeOK, HelloNamed, NEW m \in Message, outChannel' = Append(outChannel, m),
           m.kind = "hello" => m.from \in Host /\ (m.host \in Dial => m.from = m.host)
    PROVE  HelloNamed'
<1>1. outChannel \in Seq(Message)
  BY Zenon DEF TypeOK, LayerTypeOK
<1>2. /\ Len(outChannel) \in Nat /\ Len(Append(outChannel, m)) = Len(outChannel) + 1
      /\ \A i \in 1..Len(outChannel) : Append(outChannel, m)[i] = outChannel[i]
      /\ Append(outChannel, m)[Len(outChannel) + 1] = m
  BY <1>1
<1> QED BY <1>2 DEF HelloNamed

\* The calls of the protocols: Connect, Disconnect and Send.
LEMMA CallsStep ==
    ASSUME Inductive, Calls
    PROVE  Inductive'
<1>0. TypeOK /\ HelloNamed /\ Safe
  BY Zenon DEF Inductive, IInv, Safe, FsmSafe
<1>1. ASSUME NEW h \in Dial, Connect(h) PROVE Inductive'
  <2>1. FsmTyped' /\ Safe'
    BY Zenon, <1>0, <1>1, ConnectTypes, ConnectSafe DEF Connect
  <2>2. SessionTypeOK' /\ LayerTypeOK' /\ HelloNamed'
    BY Zenon, <1>0, <1>1, <2>1, InputTypes, HellosKept DEF Connect, TypeOK, LayerTypeOK, layerVars
  <2> QED BY Zenon, <2>1, <2>2 DEF Inductive, IInv, Safe, FsmSafe, TypeOK
<1>2. ASSUME NEW h \in Hang, Disconnect(h) PROVE Inductive'
  <2>0. h \in Host
    BY Zenon, SessionAssumption
  <2>1. Safe'
    BY Zenon, <1>0, <1>2, HangSafe DEF Disconnect
  <2>2. <<Call("disconnect", h, "app", Nil)>> \in Seq(Effect)
    BY <2>0, EffectTypes, QueueFacts DEF Kind
  <2>3. MapsTyped'
    BY Zenon, <1>0, <1>2, <2>0, MapTypes DEF Disconnect, TypeOK
  <2>4. FsmTyped'
    BY Zenon, <1>0, <1>2, <2>2, <2>3 DEF Disconnect, TypeOK, SessionTypeOK, FsmTyped
  <2>5. SessionTypeOK' /\ LayerTypeOK' /\ HelloNamed'
    BY Zenon, <1>0, <1>2, <2>4, InputTypes, HellosKept DEF Disconnect, TypeOK, LayerTypeOK, layerVars
  <2> QED BY Zenon, <2>1, <2>5 DEF Inductive, IInv, Safe, FsmSafe, TypeOK
<1>3. ASSUME NEW h \in Host, Send(h) PROVE Inductive'
  <2>1. Safe'
    BY Zenon, <1>0, <1>3, UnchangedSafe DEF Send
  <2>2. <<Call("send", resolveUnderlyingHost(h), "app", Nil)>> \in Seq(Effect)
    BY Zenon, <1>0, MapTypes, EffectTypes, QueueFacts DEF Kind, TypeOK
  <2>3. FsmTyped'
    BY Zenon, <1>0, <1>3, <2>2 DEF Send, TypeOK, SessionTypeOK, FsmTyped, MapsTyped, maps
  <2>4. SessionTypeOK' /\ LayerTypeOK' /\ HelloNamed'
    BY Zenon, <1>0, <1>3, <2>3, InputTypes, HellosKept DEF Send, TypeOK, LayerTypeOK, layerVars
  <2> QED BY Zenon, <2>1, <2>4 DEF Inductive, IInv, Safe, FsmSafe, TypeOK
<1> QED BY Zenon, <1>1, <1>2, <1>3 DEF Calls

\* What the transport reports: events and messages.
LEMMA ReportStep ==
    ASSUME Inductive, transportEventHandler \/ transportMessageHandler
    PROVE  Inductive'
<1>0. TypeOK /\ HelloNamed /\ Safe /\ ClientNamesPeer
  BY Zenon DEF Inductive, IInv, Safe, FsmSafe
<1>1. CASE transportEventHandler
  <2> DEFINE e == Head(outEvents)
  <2>1. /\ e \in Event /\ e.host \in Host
        /\ outEvents' \in Seq(Event) /\ Len(outEvents') <= OutBuf
    <3>1. /\ outEvents \in Seq(Event) /\ Len(outEvents) <= OutBuf
          /\ outEvents # <<>> /\ outEvents' = Tail(outEvents)
      BY Zenon, <1>0, <1>1 DEF transportEventHandler, TypeOK, LayerTypeOK
    <3>2. e \in Event /\ outEvents' \in Seq(Event) /\ Len(outEvents') <= OutBuf
      BY <3>1, QueueFacts, LayerAssumption
    <3> QED BY Zenon, <3>2 DEF Event
  <2>2. handleConnected(e.host) \/ handleDisconnected(e.host) \/ handleFailed(e.host)
    BY Zenon, <1>1 DEF transportEventHandler
  <2>3. FsmTyped' /\ Safe'
    BY Zenon, <1>0, <2>1, <2>2, ConnectedTypes, DisconnectedTypes, ConnectedSafe, DisconnectedSafe
  <2>4. SessionTypeOK' /\ HelloNamed'
    BY Zenon, <1>0, <1>1, <2>3, InputTypes, HellosKept DEF transportEventHandler
  <2>5. LayerTypeOK'
    BY Zenon, <1>0, <1>1, <2>1 DEF transportEventHandler, TypeOK, LayerTypeOK
  <2> QED BY Zenon, <2>3, <2>4, <2>5 DEF Inductive, IInv, Safe, FsmSafe, TypeOK
<1>2. CASE transportMessageHandler
  <2> DEFINE m == Head(outChannel)
  <2>1. /\ m \in Message /\ m.host \in Host
        /\ outChannel' \in Seq(Message) /\ Len(outChannel') <= OutBuf
    <3>1. /\ outChannel \in Seq(Message) /\ Len(outChannel) <= OutBuf
          /\ outChannel # <<>> /\ outChannel' = Tail(outChannel)
      BY Zenon, <1>0, <1>2 DEF transportMessageHandler, TypeOK, LayerTypeOK
    <3>2. m \in Message /\ outChannel' \in Seq(Message) /\ Len(outChannel') <= OutBuf
      BY <3>1, QueueFacts, LayerAssumption
    <3> QED BY Zenon, <3>2 DEF Message
  <2>2. m.kind = "hello" => m.from \in Host /\ (m.host \in Dial => m.from = m.host)
    <3>1. m = outChannel[1] /\ 1 \in 1..Len(outChannel)
      BY <1>0, <1>2 DEF transportMessageHandler, TypeOK, LayerTypeOK
    <3> QED BY Zenon, <1>0, <3>1 DEF HelloNamed
  <2>3. FsmTyped' /\ Safe'
    <3>1. CASE UNCHANGED <<maps, announced>> /\ (todo' = <<Push(m)>> \/ UNCHANGED todo)
      <4>1. <<Push(m)>> \in Seq(Effect)
        BY Zenon, <2>1, EffectTypes, QueueFacts
      <4>2. FsmTyped'
        BY Zenon, <1>0, <3>1, <4>1 DEF TypeOK, SessionTypeOK, FsmTyped, MapsTyped, maps
      <4> QED BY Zenon, <1>0, <3>1, <4>2, UnchangedSafe
    <3>2. CASE m.kind = "hello" /\ handleServerHello(m.host, m.from)
      BY Zenon, <1>0, <2>1, <2>2, <3>2, HandshakeTypes, HandshakeSafe
    <3>3. CASE \/ m.kind \in Kind /\ handleIgnoredHandshake(m.host, m.kind)
               \/ handleVersionMismatch(m.host)
      BY Zenon, <1>0, <2>1, <3>3, HandshakeTypes, HandshakeSafe
    <3> QED BY Zenon, <1>2, <3>1, <3>2, <3>3 DEF transportMessageHandler
  <2>4. SessionTypeOK' /\ HelloNamed'
    BY Zenon, <1>0, <1>2, <2>3, InputTypes, HellosRead DEF transportMessageHandler
  <2>5. LayerTypeOK'
    BY Zenon, <1>0, <1>2, <2>1 DEF transportMessageHandler, TypeOK, LayerTypeOK
  <2> QED BY Zenon, <2>3, <2>4, <2>5 DEF Inductive, IInv, Safe, FsmSafe, TypeOK
<1> QED BY Zenon, <1>1, <1>2

\* The channel operations of the handler change the channels only.
LEMMA OperationStep ==
    ASSUME Inductive, HandlerReturns \/ TransportCall \/ EmitEvent \/ PushMessage
                      \/ GiveUpOperation
    PROVE  Inductive'
<1>0. TypeOK /\ HelloNamed /\ Safe
  BY Zenon DEF Inductive, IInv, Safe, FsmSafe
<1>1. UNCHANGED <<maps, announced>> /\ UNCHANGED outChannel
  BY Zenon DEF HandlerReturns, TransportCall, EmitEvent, PushMessage, GiveUpOperation, layerVars
<1>2. Safe' /\ HelloNamed'
  BY Zenon, <1>0, <1>1, UnchangedSafe, HellosKept
<1>3. todo # <<>> => Head(todo) \in Effect /\ Tail(todo) \in Seq(Effect)
  BY Zenon, <1>0, QueueFacts DEF TypeOK, SessionTypeOK
<1>4. TypeOK'
  <2>1. CASE HandlerReturns
    BY Zenon, <1>0, <2>1 DEF HandlerReturns, TypeOK, LayerTypeOK, SessionTypeOK, layerVars, maps, ups
  <2>2. CASE TransportCall
    <3>1. Head(todo).arg \in Request /\ Tail(todo) \in Seq(Effect)
      BY Zenon, <1>3, <2>2 DEF TransportCall, Doing, Effect
    <3> QED BY Zenon, <1>0, <2>2, <3>1
            DEF TransportCall, Done, UpUnchanged, TypeOK, LayerTypeOK, SessionTypeOK, maps, ups
  <2>3. CASE EmitEvent
    <3>1. Head(todo).arg \in SessionEvent /\ Tail(todo) \in Seq(Effect)
      BY Zenon, <1>3, <2>3 DEF EmitEvent, Doing, Effect
    <3>2. /\ outChannelEvents' \in Seq(SessionEvent)
          /\ Len(outChannelEvents') <= EventsBuf
      BY <1>0, <2>3, <3>1, QueueFacts, SessionAssumption
         DEF EmitEvent, TypeOK, SessionTypeOK
    <3> QED BY Zenon, <1>0, <2>3, <3>1, <3>2
            DEF EmitEvent, Done, TypeOK, LayerTypeOK, SessionTypeOK, layerVars, maps
  <2>4. CASE PushMessage
    <3>1. Head(todo).arg \in Message /\ Tail(todo) \in Seq(Effect)
      BY Zenon, <1>3, <2>4 DEF PushMessage, Doing, Effect
    <3>2. /\ outMessages' \in Seq(Message)
          /\ Len(outMessages') <= MsgsBuf
      BY <1>0, <2>4, <3>1, QueueFacts, SessionAssumption
         DEF PushMessage, TypeOK, SessionTypeOK
    <3> QED BY Zenon, <1>0, <2>4, <3>1, <3>2
            DEF PushMessage, Done, TypeOK, LayerTypeOK, SessionTypeOK, layerVars, maps
  <2>5. CASE GiveUpOperation
    BY Zenon, <1>0, <1>3, <2>5
       DEF GiveUpOperation, Done, TypeOK, LayerTypeOK, SessionTypeOK, layerVars, maps, ups
  <2> QED BY Zenon, <2>1, <2>2, <2>3, <2>4, <2>5
<1> QED BY Zenon, <1>2, <1>4 DEF Inductive, IInv, Safe, FsmSafe

\* The transport and the runtime touch their ends of the channels only.
LEMMA EnvironmentStep ==
    ASSUME Inductive, Environment
    PROVE  Inductive'
<1>0. TypeOK /\ HelloNamed /\ Safe
  BY Zenon DEF Inductive, IInv, Safe, FsmSafe
<1>1. UNCHANGED <<maps, announced>>
  BY Zenon DEF Environment, TransportEvent, TransportMessage, TransportServes, TransportCancel,
         RuntimeReadsEvent, RuntimeReadsMessage, Cancel, sessionVars
<1>2. Safe'
  BY Zenon, <1>0, <1>1, UnchangedSafe
<1>3. ASSUME NEW e \in Event, TransportEvent(e) PROVE TypeOK' /\ HelloNamed'
  <2>1. outEvents' \in Seq(Event) /\ Len(outEvents') <= OutBuf
    BY <1>0, <1>3, QueueFacts, LayerAssumption DEF TransportEvent, TypeOK, LayerTypeOK
  <2>2. TypeOK'
    BY Zenon, <1>0, <1>3, <2>1
       DEF TransportEvent, TypeOK, LayerTypeOK, SessionTypeOK, sessionVars, maps, ups
  <2> QED BY Zenon, <1>0, <1>3, <2>2, HellosKept DEF TransportEvent
<1>4. ASSUME NEW m \in Payload, TransportMessage(m) PROVE TypeOK' /\ HelloNamed'
  <2>1. m \in Message /\ (m.kind = "hello" => m.from \in Host)
    BY Zenon, SessionAssumption DEF Payload, Message
  <2>2. outChannel' \in Seq(Message) /\ Len(outChannel') <= OutBuf
    BY SMTT(30), <1>0, <1>4, <2>1, QueueFacts, LayerAssumption DEF TransportMessage, TypeOK, LayerTypeOK
  <2>3. TypeOK'
    BY Zenon, <1>0, <1>4, <2>2
       DEF TransportMessage, TypeOK, LayerTypeOK, SessionTypeOK, sessionVars, maps, ups
  <2> QED BY Zenon, <1>0, <1>4, <2>1, <2>3, HellosArrive DEF TransportMessage
<1>5. ASSUME TransportServes \/ TransportCancel PROVE TypeOK' /\ HelloNamed'
  BY Zenon, <1>0, <1>5, HellosKept
     DEF TransportServes, TransportCancel, TypeOK, LayerTypeOK, SessionTypeOK,
         sessionVars, maps, ups
<1>6. ASSUME RuntimeReadsEvent PROVE TypeOK' /\ HelloNamed'
  <2>1. /\ outChannelEvents' \in Seq(SessionEvent)
        /\ Len(outChannelEvents') <= EventsBuf
    BY <1>0, <1>6, QueueFacts, SessionAssumption DEF RuntimeReadsEvent, TypeOK, SessionTypeOK
  <2> QED BY Zenon, <1>0, <1>6, <2>1, HellosKept
          DEF RuntimeReadsEvent, TypeOK, LayerTypeOK, SessionTypeOK, layerVars, maps
<1>7. ASSUME RuntimeReadsMessage PROVE TypeOK' /\ HelloNamed'
  <2>1. outMessages' \in Seq(Message) /\ Len(outMessages') <= MsgsBuf
    BY <1>0, <1>7, QueueFacts, SessionAssumption DEF RuntimeReadsMessage, TypeOK, SessionTypeOK
  <2> QED BY Zenon, <1>0, <1>7, <2>1, HellosKept
          DEF RuntimeReadsMessage, TypeOK, LayerTypeOK, SessionTypeOK, layerVars, maps
<1>8. ASSUME Cancel PROVE TypeOK' /\ HelloNamed'
  BY Zenon, <1>0, <1>8, HellosKept
     DEF Cancel, TypeOK, LayerTypeOK, SessionTypeOK, layerVars, maps, ups
<1>9. TypeOK' /\ HelloNamed'
  BY Zenon, <1>3, <1>4, <1>5, <1>6, <1>7, <1>8 DEF Environment
<1> QED BY Zenon, <1>2, <1>9 DEF Inductive, IInv, Safe, FsmSafe

-----------------------------------------------------------------------------
(* The theorems.                                                           *)

\* The initial state satisfies the inductive invariant.
LEMMA InductiveInit == Init => Inductive
<1> SUFFICES ASSUME Init PROVE Inductive
  BY Zenon
<1>0. /\ <<>> \in Seq(Event) /\ <<>> \in Seq(Message) /\ <<>> \in Seq(Effect)
      /\ <<>> \in Seq(SessionEvent) /\ Len(<<>>) = 0
  OBVIOUS
<1>b. transportDone \in BOOLEAN /\ sessionDone \in BOOLEAN /\ stopped \in BOOLEAN
  BY Zenon DEF Init, LayerInit, SessionInit
<1>e. /\ outEvents = <<>> /\ outChannel = <<>> /\ request = Nil /\ todo = <<>>
      /\ outChannelEvents = <<>> /\ outMessages = <<>> /\ announced = {}
  BY Zenon DEF Init, LayerInit, SessionInit
<1>1. LayerTypeOK /\ HelloNamed
  BY <1>0, <1>b, <1>e, LayerAssumption DEF LayerTypeOK, HelloNamed
<1>2. SessionTypeOK
  <2>1. /\ sessions \in [Host -> [state : State, logical : Host \cup {Nil}]]
        /\ transportToLogical \in [Host -> Host \cup {Nil}]
        /\ logicalToTransport \in [Host -> Host \cup {Nil}]
    BY Zenon DEF Init, SessionInit, State
  <2> QED BY <1>0, <1>b, <1>e, <2>1, SessionAssumption DEF SessionTypeOK
<1>3. ClientNamesPeer /\ MapsAgree /\ MappedIsUp /\ DialNamesItself /\ PhantomSafe
  BY Zenon, SessionAssumption DEF Init, SessionInit, ClientNamesPeer, MapsAgree, MappedIsUp,
                           DialNamesItself, PhantomSafe, NoPhantomPeer
<1> QED BY Zenon, <1>1, <1>2, <1>3 DEF Inductive, IInv, TypeOK

\* Every step of the session layer and of its surroundings keeps it.
LEMMA InductiveStep == ASSUME Inductive, [Next]_vars PROVE Inductive'
<1>1. CASE Next
  BY Zenon, <1>1, CallsStep, ReportStep, OperationStep, EnvironmentStep DEF Next, Handler
<1>2. CASE UNCHANGED vars
  <2>1. TypeOK /\ HelloNamed /\ Safe
    BY Zenon DEF Inductive, IInv, Safe, FsmSafe
  <2>2. Safe' /\ HelloNamed'
    BY Zenon, <1>2, <2>1, UnchangedSafe, HellosKept DEF vars, layerVars, sessionVars
  <2>3. TypeOK'
    BY Zenon, <1>2, <2>1 DEF vars, layerVars, sessionVars, maps, ups, TypeOK, LayerTypeOK,
                      SessionTypeOK
  <2> QED BY Zenon, <2>2, <2>3 DEF Inductive, IInv, Safe, FsmSafe
<1> QED BY Zenon, <1>1, <1>2

\* Every reachable state satisfies the inductive invariant.
THEOREM Invariance == Spec => []Inductive
<1>1. Inductive /\ [Next]_vars => Inductive'
  BY Zenon, InductiveStep
<1> QED BY <1>1, InductiveInit, PTL DEF Spec

\* The session layer's state stays well typed and its two channels stay
\* within their capacity.
THEOREM TypeCorrect == Spec => []TypeOK
<1>1. Inductive => TypeOK
  BY Zenon DEF Inductive, IInv
<1> QED BY <1>1, Invariance, PTL

\* A logical host resolves to a transport host that is mapped back to it: no
\* send goes out on another peer's connection (resolveUnderlyingHost).
THEOREM MapsConsistent == Spec => []MapsAgree
<1>1. Inductive => MapsAgree
  BY Zenon DEF Inductive, IInv
<1> QED BY <1>1, Invariance, PTL

\* Only established sessions are in the maps (handleFailed and
\* handleDisconnected clean up after every session they end).
THEOREM MappedAreUp == Spec => []MappedIsUp
<1>1. Inductive => MappedIsUp
  BY Zenon DEF Inductive, IInv
<1> QED BY <1>1, Invariance, PTL

\* When protocols disconnect only addresses they dialled, a peer announced by
\* SessionConnected has an established session whose end will name it.
THEOREM NoPhantom ==
    ASSUME Hang \subseteq Dial
    PROVE  Spec => []NoPhantomPeer
<1>1. Inductive => NoPhantomPeer
  BY Zenon DEF Inductive, PhantomSafe
<1> QED BY <1>1, Invariance, PTL

=============================================================================
