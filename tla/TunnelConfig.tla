---------------------------- MODULE TunnelConfig ----------------------------
(***************************************************************************)
(* How a tunnel client's configuration is checked and turned into what its *)
(* dials use: pkg/grpctunnel/client.go, client_wasm.go for the browser,    *)
(* and the parts of api.go both share.                                     *)
(*                                                                         *)
(* A target is a record: its scheme ("" when it has none, "WS" in capitals *)
(* and "other" for any else, a "://" further back included), its host ("", *)
(* or "port" for ":8080"), its path, whether white space comes before it,  *)
(* and whether url.Parse takes what is made of it.                         *)
(***************************************************************************)
EXTENDS Integers, Sequences, SequencesExt

Schemes == {"ws", "wss"}

URL(scheme, host, path) ==
  [scheme |-> scheme, host |-> host, path |-> path, spaces |-> FALSE, parses |-> TRUE]

Blank(t) == t.scheme = "" /\ t.host = "" /\ t.path = ""

Malformed == [scheme |-> "other", host |-> "", path |-> "", spaces |-> FALSE, parses |-> FALSE]

-----------------------------------------------------------------------------
(* Native: a set of at most one URL, empty when there is an error.         *)

ParseTunnelTargetURL(t, tls) ==
  IF Blank(t) \/ t.scheme \notin {""} \cup Schemes \/ ~t.parses \/ t.host = "" THEN {}
  ELSE {URL(IF t.scheme # "" THEN t.scheme ELSE IF tls THEN "wss" ELSE "ws",
            IF t.scheme = "" /\ t.host = "port" THEN "localhost" ELSE t.host, t.path)}

(* In the browser: "page" is the location, a set of at most one.  What has *)
(* some other scheme is taken for a host of that name.                     *)
inferBrowserWebSocketURL(t, page) ==
  LET scheme == IF \E p \in page : p.protocol = "https:" THEN "wss" ELSE "ws"
      here   == IF page = {} THEN "localhost" ELSE (CHOOSE p \in page : TRUE).host
  IN  IF t.scheme \in Schemes /\ ~t.spaces THEN t
      ELSE IF t.spaces THEN Malformed
      ELSE IF t.scheme # "" THEN URL(scheme, t.scheme, t.path)
      ELSE IF Blank(t) \/ (t.host = "" /\ page # {}) THEN URL(scheme, here, t.path)
      ELSE [t EXCEPT !.scheme = scheme]

ParseTunnelTargetURLInBrowser(t, tls, page) ==
  IF tls THEN {} ELSE {inferBrowserWebSocketURL(t, page)}

-----------------------------------------------------------------------------
(* TunnelConfig: unset fields are {}, and a pointer is a set of one.       *)

NoTunnelConfig ==
  [TLSConfig |-> {}, ShouldUseTLS |-> FALSE, Headers |-> {}, Subprotocols |-> {},
   Proxy |-> {}, HandshakeTimeout |-> 0, ShouldEnableCompression |-> FALSE,
   ReconnectConfig |-> {}, GRPCOptions |-> <<>>]

ReconnectFields == {"InitialDelay", "MaxDelay", "MinConnectTimeout", "Multiplier", "Jitter"}

\* math.IsNaN and math.IsInf are left out.
GetReconnectConfigError(r) == \E f \in ReconnectFields : r[f] < 0

getTunnelConfigErrorWithoutTarget(c) ==
  c.HandshakeTimeout < 0 \/ \E r \in c.ReconnectConfig : GetReconnectConfigError(r)

getBrowserConfigErrorWithoutTarget(c) ==
  \/ c.ShouldUseTLS \/ c.TLSConfig # {} \/ c.Headers # {} \/ c.Proxy # {}
  \/ c.HandshakeTimeout # 0 \/ c.ShouldEnableCompression
  \/ \E r \in c.ReconnectConfig : GetReconnectConfigError(r)

buildTunnelTargetURL(t, c) ==
  ParseTunnelTargetURL(t, c.ShouldUseTLS \/ c.TLSConfig # {})

buildBrowserTargetURL(t, page) == ParseTunnelTargetURLInBrowser(t, FALSE, page)

(* The target that gRPC is given, for its :authority.                      *)
buildTunnelGRPCDialTarget(t, u) ==
  IF Blank(t) THEN u
  ELSE IF t.scheme \in Schemes \cup {"WS"} /\ t.parses /\ t.host # "" THEN URL("", t.host, "")
  ELSE [t EXCEPT !.spaces = FALSE]

-----------------------------------------------------------------------------
(* Options of Dial and DialContext.  An option of this package sets some   *)
(* fields of clientOptions; headers are a set of at most one map.          *)

ClientOption(sets) == [kind |-> "client", sets |-> sets]
DialOption(sets) == [kind |-> "grpc", sets |-> sets]

WithTLS(config) == ClientOption([isUseTLS |-> TRUE, tlsConfig |-> config])
WithHeaders(headers) == ClientOption([setTunnelHeaders |-> headers])
WithHeader(header) == ClientOption([addHeader |-> header])
WithSubprotocols(protocols) == ClientOption([setTunnelSubprotocols |-> {protocols}])
WithProxy(proxy) == ClientOption([setTunnelProxy |-> proxy])
WithHandshakeTimeout(timeout) == ClientOption([setTunnelTimeout |-> timeout])
WithDialCompression == ClientOption([shouldEnableCompression |-> TRUE])
WithReconnectPolicy(r) == ClientOption([setTunnelReconnect |-> {r}])

splitDialOptionsError(opts) == \E i \in DOMAIN opts : opts[i].kind \notin {"client", "grpc"}

OfKind(opts, kind) ==
  FoldLeft(LAMBDA of, o : IF o.kind = kind THEN Append(of, o.sets) ELSE of, <<>>, opts)

Override(options, sets) ==
  [f \in DOMAIN options |-> IF f \in DOMAIN sets THEN sets[f] ELSE options[f]]

Applied(options, sets) ==
  IF "addHeader" \in DOMAIN sets
    THEN [options EXCEPT !.setTunnelHeaders = {UNION @ \cup {sets.addHeader}}]
    ELSE Override(options, sets)

clientOptions(opts) ==
  FoldLeft(Applied,
    [isUseTLS |-> FALSE, tlsConfig |-> {}, setTunnelHeaders |-> {},
     setTunnelSubprotocols |-> {}, setTunnelProxy |-> {}, setTunnelTimeout |-> 0,
     shouldEnableCompression |-> FALSE, setTunnelReconnect |-> {}],
    OfKind(opts, "client"))

WrongDialConfig(opts) ==
  LET o == clientOptions(opts)
  IN  [NoTunnelConfig EXCEPT
         !.TLSConfig = o.tlsConfig, !.Headers = o.setTunnelHeaders,
         !.Subprotocols = o.setTunnelSubprotocols, !.Proxy = o.setTunnelProxy,
         !.HandshakeTimeout = o.setTunnelTimeout,
         !.ShouldEnableCompression = o.shouldEnableCompression,
         !.ReconnectConfig = o.setTunnelReconnect, !.GRPCOptions = OfKind(opts, "grpc")]

(* DialContext, up to the call of BuildTunnelConn, in either build.        *)
DialConfig(opts) ==
  LET o == clientOptions(opts)
  IN  [TLSConfig |-> o.tlsConfig, ShouldUseTLS |-> o.isUseTLS,
       Headers |-> o.setTunnelHeaders, Subprotocols |-> o.setTunnelSubprotocols,
       Proxy |-> o.setTunnelProxy, HandshakeTimeout |-> o.setTunnelTimeout,
       ShouldEnableCompression |-> o.shouldEnableCompression,
       ReconnectConfig |-> o.setTunnelReconnect, GRPCOptions |-> OfKind(opts, "grpc")]

(* The browser's DialContext refuses these options whatever they set.      *)
BrowserOptionError(opts) ==
  \E i \in DOMAIN opts :
    DOMAIN opts[i].sets \cap {"setTunnelHeaders", "addHeader", "setTunnelProxy",
                              "setTunnelTimeout"} # {}

-----------------------------------------------------------------------------
(* grpc.DialOptions, in their order: the last one that sets a field wins.  *)

ApplyTunnelInsecureCredentials(opts) == Append(opts, [credentials |-> "insecure"])

\* What the parameters are is TunnelClient's subject.
ApplyTunnelReconnectPolicy(opts, r) == Append(opts, [connectParams |-> "policy"])

Reconnect(c) ==
  IF c.ReconnectConfig = {} THEN <<>>
  ELSE ApplyTunnelReconnectPolicy(<<>>, CHOOSE r \in c.ReconnectConfig : TRUE)

(* BuildTunnelConn: what the caller passes may replace the reconnect       *)
(* policy but not the dialer.                                              *)
DialOptions(c) == Reconnect(c) \o c.GRPCOptions \o <<[dialer |-> "tunnel"]>>

Effective(opts) ==
  FoldLeft(Override,
    [dialer |-> "net", connectParams |-> "default", credentials |-> "none"], opts)
=============================================================================
