------------------------- MODULE TunnelClientProofs -------------------------
(***************************************************************************)
(* Proofs for TunnelClient: whatever the reconnect settings, the number of *)
(* sockets and the timing, no dial leaves a socket behind, and no event of *)
(* the browser calls a function that was released.                         *)
(***************************************************************************)
EXTENDS TunnelClient, TLAPS

-----------------------------------------------------------------------------
(* The inductive invariant: what the dial's state says of its socket (an   *)
(* event that has come has made the goroutine runnable, so it is the last  *)
(* one the dial sees), and who owns every other socket.                    *)

Types ==
  /\ DialerTypeOK
  /\ channel \in {"idle", "dialing", "ready", "backoff", "shutdown"}

DialHasSocket ==
  /\ dial # "idle" => dialed \in Socket /\ channel \in {"dialing", "shutdown"}
  /\ dial = "select" =>
       /\ handler[dialed] = "dial"
       /\ socket[dialed] \in {"connecting", "open", "failed"}
       /\ openSent <=> socket[dialed] = "open"
       /\ errorSent <=> socket[dialed] = "failed"
  /\ dial = "returned" => handler[dialed] = "conn" /\ socket[dialed] = "open"

SocketsHaveOwner ==
  \A s \in Socket :
    /\ handler[s] = "dial" => dial = "select" /\ dialed = s
    /\ handler[s] = "conn" =>
         /\ socket[s] \in {"open", "failed"}
         /\ \/ dial = "returned" /\ dialed = s
            \/ dial = "idle" /\ channel = "ready"
    /\ handler[s] = "nothing" => socket[s] \in {"none", "closing", "failed"}

OneConn == \A s, t \in Socket : handler[s] = "conn" /\ handler[t] = "conn" => s = t

SInv == Types /\ DialHasSocket /\ SocketsHaveOwner /\ OneConn

(* At the start there is no socket, no dial and no event.                  *)
LEMMA SInvInit == Init => SInv
BY WasmDialerAssumption DEF Init, DialerInit, SInv, Types, DialerTypeOK,
   DialHasSocket, SocketsHaveOwner, OneConn

(* Giving up or closing a socket leaves the others alone.                  *)
LEMMA SocketClosedEffect ==
  ASSUME Types, NEW s \in Socket
  PROVE  /\ SocketClosed(s) \in [Socket -> {"none", "connecting", "open",
                                            "closing", "failed"}]
         /\ \A t \in Socket : t # s => SocketClosed(s)[t] = socket[t]
         /\ socket[s] \in {"connecting", "open"} => SocketClosed(s)[s] = "closing"
         /\ socket[s] \notin {"connecting", "open"} => SocketClosed(s)[s] = socket[s]
BY DEF Types, DialerTypeOK, SocketClosed

(* Every step of the dialer and every event of the browser keeps it.       *)
LEMMA SInvStep == SInv /\ [Next]_vars => SInv'
<1> SUFFICES ASSUME SInv, [Next]_vars PROVE SInv'
  OBVIOUS
<1> USE WasmDialerAssumption
<1>0. Types /\ DialHasSocket /\ SocketsHaveOwner /\ OneConn
  BY DEF SInv
<1>1. ASSUME NEW s \in Socket, Connect(s) PROVE SInv'
  BY <1>0, <1>1 DEF Connect, DialBegins, SInv, Types, DialerTypeOK,
     DialHasSocket, SocketsHaveOwner, OneConn
<1>2. CASE AttemptFails
  <2>1. dial = "select" /\ dialed \in Socket /\ GivesUp
    BY <1>0, <1>2 DEF AttemptFails, DialFails, DialCancelled, DialHasSocket
  <2>2. channel' \in {"shutdown", "backoff"}
    BY <1>2 DEF AttemptFails, Fallback
  <2>3. /\ socket' = SocketClosed(dialed)
        /\ handler' = [handler EXCEPT ![dialed] = "nothing"]
        /\ dial' = "idle" /\ dialed' = Nobody
        /\ openSent' = FALSE /\ errorSent' = FALSE /\ ctxDone' = ctxDone
    BY <1>2, <2>1 DEF GivesUp, DialEnds, AttemptFails
  <2>4. Types' /\ DialHasSocket'
    BY <1>0, <2>1, <2>2, <2>3, SocketClosedEffect
       DEF Types, DialerTypeOK, DialHasSocket
  <2>5. SocketsHaveOwner'
    <3> SUFFICES ASSUME NEW s \in Socket
                 PROVE  /\ handler'[s] # "dial"
                        /\ handler'[s] # "conn"
                        /\ handler'[s] = "nothing" =>
                             socket'[s] \in {"none", "closing", "failed"}
      BY DEF SocketsHaveOwner
    <3>1. CASE s = dialed
      BY <1>0, <2>1, <2>3, <3>1, SocketClosedEffect
         DEF Types, DialerTypeOK, DialHasSocket
    <3>2. CASE s # dialed
      BY <1>0, <2>1, <2>3, <3>2, SocketClosedEffect
         DEF Types, DialerTypeOK, SocketsHaveOwner
    <3>3. QED BY <3>1, <3>2
  <2>6. OneConn'
    BY <1>0, <2>1, <2>3 DEF Types, DialerTypeOK, OneConn
  <2>7. QED
    BY <2>4, <2>5, <2>6 DEF SInv
<1>3. CASE AttemptWins
  BY <1>0, <1>3 DEF AttemptWins, DialWins, channelVars, SInv, Types,
     DialerTypeOK, DialHasSocket, SocketsHaveOwner, OneConn
<1>4. CASE TakeConn
  <2>1. dial = "returned" /\ dialed \in Socket
    BY <1>0, <1>4 DEF TakeConn, DialHasSocket
  <2>2. /\ dial' = "idle" /\ dialed' = Nobody
        /\ openSent' = FALSE /\ errorSent' = FALSE /\ ctxDone' = ctxDone
    BY <1>4 DEF TakeConn, DialEnds
  <2>3. CASE ctxDone
    <3>1. /\ socket' = SocketClosed(dialed)
          /\ handler' = [handler EXCEPT ![dialed] = "nothing"]
          /\ channel' \in {"shutdown", "backoff"}
      BY <1>4, <2>3 DEF TakeConn, ConnCloses, Fallback
    <3>2. \A t \in Socket : handler'[t] # "conn" /\ handler'[t] # "dial"
      BY <1>0, <2>1, <3>1 DEF Types, DialerTypeOK, DialHasSocket,
         SocketsHaveOwner, OneConn
    <3>3. Types'
      BY <1>0, <2>1, <2>2, <3>1, SocketClosedEffect DEF Types, DialerTypeOK
    <3>4. \A t \in Socket : socket'[t] \in {"none", "closing", "failed"}
      BY <1>0, <2>1, <3>1, SocketClosedEffect DEF Types, DialerTypeOK,
         DialHasSocket, SocketsHaveOwner, OneConn
    <3>5. DialHasSocket' /\ SocketsHaveOwner' /\ OneConn'
      BY <2>2, <3>2, <3>4 DEF DialHasSocket, SocketsHaveOwner, OneConn
    <3> QED BY <3>3, <3>5 DEF SInv
  <2>4. CASE ~ctxDone
    <3>1. socket' = socket /\ handler' = handler /\ channel' = "ready"
      BY <1>4, <2>4 DEF TakeConn, socketVars
    <3> QED
      BY <1>0, <2>1, <2>2, <3>1 DEF SInv, Types, DialerTypeOK, DialHasSocket,
         SocketsHaveOwner, OneConn
  <2> QED BY <2>3, <2>4
<1>5. ASSUME NEW s \in Socket, DropConn(s) PROVE SInv'
  <2>1. /\ socket' = SocketClosed(s)
        /\ handler' = [handler EXCEPT ![s] = "nothing"]
        /\ channel = "ready" /\ channel' = "idle" /\ handler[s] = "conn"
        /\ UNCHANGED <<dial, dialed, openSent, errorSent, ctxDone>>
    BY <1>5 DEF DropConn, ConnCloses, dialVars
  <2> QED
    BY <1>0, <2>1, SocketClosedEffect DEF SInv, Types, DialerTypeOK,
       DialHasSocket, SocketsHaveOwner, OneConn
<1>6. CASE Shutdown
  <2>1. /\ channel' = "shutdown" /\ ctxDone' \in BOOLEAN
        /\ UNCHANGED <<dial, dialed, openSent, errorSent>>
    BY <1>0, <1>6 DEF Shutdown, dialVars, Types, DialerTypeOK
  <2>2. CASE channel = "ready"
    <3>1. PICK s \in Socket : /\ handler[s] = "conn"
                              /\ socket' = SocketClosed(s)
                              /\ handler' = [handler EXCEPT ![s] = "nothing"]
      BY <1>6, <2>2 DEF Shutdown, ConnCloses
    <3> QED
      BY <1>0, <2>1, <2>2, <3>1, SocketClosedEffect DEF SInv, Types, DialerTypeOK,
         DialHasSocket, SocketsHaveOwner, OneConn
  <2>3. CASE channel # "ready"
    <3>1. socket' = socket /\ handler' = handler
      BY <1>6, <2>3 DEF Shutdown, socketVars
    <3> QED
      BY <1>0, <2>1, <2>3, <3>1 DEF SInv, Types, DialerTypeOK, DialHasSocket,
         SocketsHaveOwner, OneConn
  <2> QED BY <2>2, <2>3
<1>7. CASE Tick \/ ServerGoes \/ ServerReturns
  BY <1>0, <1>7 DEF Tick, ServerGoes, ServerReturns, dialerVars, socketVars,
     dialVars, channelVars, SInv, Types, DialerTypeOK, DialHasSocket,
     SocketsHaveOwner, OneConn
<1>8. CASE DeadlinePasses
  BY <1>0, <1>8 DEF DeadlinePasses, socketVars, channelVars, SInv, Types,
     DialerTypeOK, DialHasSocket, SocketsHaveOwner, OneConn
<1>9. CASE BackoffEnds
  BY <1>0, <1>9 DEF BackoffEnds, dialerVars, socketVars, dialVars, SInv, Types,
     DialerTypeOK, DialHasSocket, SocketsHaveOwner, OneConn
<1>10. ASSUME NEW s \in Socket, Opens(s) PROVE SInv'
  BY <1>0, <1>10 DEF Opens, SocketOpens, Running, channelVars, SInv, Types,
     DialerTypeOK, DialHasSocket, SocketsHaveOwner, OneConn
<1>11. ASSUME NEW s \in Socket, Fails(s) PROVE SInv'
  BY <1>0, <1>11 DEF Fails, SocketFails, Running, channelVars, SInv, Types,
     DialerTypeOK, DialHasSocket, SocketsHaveOwner, OneConn
<1>12. ASSUME NEW s \in Socket, Gone(s) PROVE SInv'
  BY <1>0, <1>12 DEF Gone, SocketGone, dialVars, Running, SInv, Types,
     DialerTypeOK, DialHasSocket, SocketsHaveOwner, OneConn
<1>13. CASE UNCHANGED vars
  BY <1>0, <1>13 DEF vars, dialerVars, socketVars, dialVars, channelVars, SInv,
     Types, DialerTypeOK, DialHasSocket, SocketsHaveOwner, OneConn
<1> QED
  BY <1>1, <1>2, <1>3, <1>4, <1>5, <1>6, <1>7, <1>8, <1>9, <1>10, <1>11, <1>12,
     <1>13 DEF Next, GoStep

(* So it holds in every reachable state.                                   *)
LEMMA SInvHolds == Spec => []SInv
<1>1. QED BY SInvInit, SInvStep, PTL DEF Spec

-----------------------------------------------------------------------------
(* No event of the browser meets a released function or a missing one.     *)
THEOREM CallsAreHeard == Spec => []CallsReachTheirOwner
<1>1. SInv => CallsReachTheirOwner
  BY DEF SInv, SocketsHaveOwner, CallsReachTheirOwner
<1>2. QED BY <1>1, SInvHolds, PTL

(* No dial leaves a socket behind that the channel has no use for.         *)
THEOREM NoSocketLeft == Spec => []OneLiveSocket
<1>1. SInv => OneLiveSocket
  <2> SUFFICES ASSUME SInv, NEW s \in Socket, socket[s] \in {"connecting", "open"}
               PROVE  /\ \A t \in Socket : socket[t] \in {"connecting", "open"} => t = s
                      /\ \/ dialed = s
                         \/ channel = "ready" /\ handler[s] = "conn"
    BY DEF OneLiveSocket, Alive
  <2>1. \A t \in Socket : socket[t] \in {"connecting", "open"} =>
           \/ handler[t] = "dial" /\ dial = "select" /\ dialed = t
           \/ handler[t] = "conn" /\ dial = "returned" /\ dialed = t
           \/ handler[t] = "conn" /\ dial = "idle" /\ channel = "ready"
    BY DEF SInv, Types, DialerTypeOK, SocketsHaveOwner
  <2> QED BY <2>1 DEF SInv, OneConn
<1>2. QED BY <1>1, SInvHolds, PTL
=============================================================================
