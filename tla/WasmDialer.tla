----------------------------- MODULE WasmDialer -----------------------------
(***************************************************************************)
(* The dial function of newBrowserWebSocketDialerWithConfig                *)
(* (pkg/wasm/dialer/dialer.go): a browser socket is made, a goroutine      *)
(* waits for its open or error event or for the end of the dial's context, *)
(* and hands the open socket to NewWebSocketConn or gives it up.           *)
(*                                                                         *)
(* Go in the browser has one thread.  An event's callback runs, and then   *)
(* every goroutine that can, before the browser has its thread back, so    *)
(* the events of sockets and timers wait while Running holds; goroutines   *)
(* do take turns meanwhile.  What a goroutine does between two points      *)
(* where it may block is one step.                                         *)
(***************************************************************************)
CONSTANTS
  Socket,  \* browser sockets; a used one is taken again when it is done with
  Nobody   \* no socket

ASSUME WasmDialerAssumption == Nobody \notin Socket

VARIABLES
  socket,     \* per socket: "none", "connecting", "open", "closing", or
              \* "failed", when only its close event is still to come
  handler,    \* per socket, whose functions its events call: those of the
              \* dial, of the conn, or "nothing"
  dial,       \* the dial: not under way, in its select, or returned a conn
  dialed,     \* the socket of that dial
  openSent,   \* parseConnectionOpenChannel holds a value
  errorSent,  \* parseConnectionErrorChannel does
  ctxDone     \* the dial's context is done

socketVars == <<socket, handler>>
dialVars == <<dial, dialed, openSent, errorSent, ctxDone>>
dialerVars == <<socketVars, dialVars>>

DialerInit ==
  /\ socket = [s \in Socket |-> "none"]
  /\ handler = [s \in Socket |-> "nothing"]
  /\ dial = "idle" /\ dialed = Nobody
  /\ openSent = FALSE /\ errorSent = FALSE /\ ctxDone = FALSE

\* Some goroutine can run, and the browser has to wait.
Running ==
  \/ dial = "returned"
  \/ dial = "select" /\ (openSent \/ errorSent \/ ctxDone)

-----------------------------------------------------------------------------
(* The dialing goroutine.                                                  *)

\* A socket of its own is made and given the dial's two handlers.
DialBegins(s) ==
  /\ dial = "idle"
  /\ socket[s] = "none"
  /\ socket' = [socket EXCEPT ![s] = "connecting"]
  /\ handler' = [handler EXCEPT ![s] = "dial"]
  /\ dial' = "select" /\ dialed' = s
  /\ openSent' = FALSE /\ errorSent' = FALSE

\* close() on a socket that has failed already does nothing.
SocketClosed(s) ==
  [socket EXCEPT ![s] = IF @ \in {"connecting", "open"} THEN "closing" ELSE @]

DialEnds ==
  /\ dial' = "idle" /\ dialed' = Nobody
  /\ openSent' = FALSE /\ errorSent' = FALSE

(* Wrong...: plausible bugs in the definition that follows, see README.    *)
WrongGivesUpKeepsHandlers ==
  /\ socket' = SocketClosed(dialed)
  /\ UNCHANGED handler
  /\ DialEnds

WrongGivesUpKeepsSocket ==
  /\ UNCHANGED socket
  /\ handler' = [handler EXCEPT ![dialed] = "nothing"]
  /\ DialEnds

\* Both ways out with an error unset the handlers and close the socket.
GivesUp ==
  /\ socket' = SocketClosed(dialed)
  /\ handler' = [handler EXCEPT ![dialed] = "nothing"]
  /\ DialEnds

(* The select takes any of its cases that is ready.                        *)
DialWins ==
  /\ dial = "select" /\ openSent
  /\ handler' = [handler EXCEPT ![dialed] = "conn"]
  /\ dial' = "returned"
  /\ UNCHANGED <<socket, dialed, openSent, errorSent, ctxDone>>

DialFails == dial = "select" /\ errorSent /\ GivesUp

DialCancelled == dial = "select" /\ ctxDone /\ GivesUp

-----------------------------------------------------------------------------
(* The browser: events of its sockets.                                     *)

\* A callback that finds its channel full drops the event.
SocketOpens(s) ==
  /\ ~Running
  /\ socket[s] = "connecting"
  /\ socket' = [socket EXCEPT ![s] = "open"]
  /\ openSent' = (openSent \/ (handler[s] = "dial" /\ s = dialed))
  /\ UNCHANGED <<handler, dial, dialed, errorSent, ctxDone>>

SocketFails(s) ==
  /\ ~Running
  /\ socket[s] \in {"connecting", "open", "closing"}
  /\ socket' = [socket EXCEPT ![s] = "failed"]
  /\ errorSent' = (errorSent \/ (handler[s] = "dial" /\ s = dialed))
  /\ UNCHANGED <<handler, dial, dialed, openSent, ctxDone>>

\* The close event; a dial has no function for it, and it never comes to a
\* connecting socket without an error event before it.
SocketGone(s) ==
  /\ ~Running
  /\ socket[s] \in {"open", "closing", "failed"}
  /\ socket' = [socket EXCEPT ![s] = "none"]
  /\ handler' = [handler EXCEPT ![s] = "nothing"]
  /\ UNCHANGED dialVars

(* browserWebSocketConnection.Close, see WasmConn.                         *)
ConnCloses(s) ==
  /\ socket' = SocketClosed(s)
  /\ handler' = [handler EXCEPT ![s] = "nothing"]

-----------------------------------------------------------------------------
(* The dial's handlers are released when it returns.  Whenever the browser *)
(* may call, a socket has the functions of those that still wait for its   *)
(* events: the dial's while the dial is under way and only then, the       *)
(* conn's from there on, and none only if it has been given up.  Hence no  *)
(* event calls a released function, and none is lost between the dial's    *)
(* functions and the conn's.                                               *)
CallsReachTheirOwner ==
  ~Running =>
    \A s \in Socket :
      /\ socket[s] # "none" /\ handler[s] = "dial" => dial = "select" /\ dialed = s
      /\ handler[s] = "nothing" => socket[s] \in {"none", "closing", "failed"}

DialerTypeOK ==
  /\ socket \in [Socket -> {"none", "connecting", "open", "closing", "failed"}]
  /\ handler \in [Socket -> {"nothing", "dial", "conn"}]
  /\ dial \in {"idle", "select", "returned"}
  /\ dialed \in Socket \cup {Nobody}
  /\ dialed = Nobody <=> dial = "idle"
  /\ openSent \in BOOLEAN /\ errorSent \in BOOLEAN /\ ctxDone \in BOOLEAN
=============================================================================
