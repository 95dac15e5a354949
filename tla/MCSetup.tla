------------------------------ MODULE MCSetup -------------------------------
(* Applications for TLC: the same handler configured in each way, over all *)
(* boundary values of each field and all keepalive pairs; handlers and     *)
(* clients over the sizes of pools; clients over all kinds of targets and  *)
(* options; tooling.                                                       *)
EXTENDS Setup

MCPage == {[protocol |-> "https:", host |-> "page"]}

With(field, values) == {[NoBridgeConfig EXCEPT ![field] = v] : v \in values}

BridgeConfigs ==
  UNION {With(f, {-1, 0, 1}) : f \in NumberFields}
  \cup With("WriteBufferSize", {4096, 8192})
  \cup With("CheckOrigin", {"custom"}) \cup With("ShouldEnableCompression", {TRUE})
  \cup With("OnConnect", {"hook"}) \cup With("OnDisconnect", {"hook"})
  \cup {[NoBridgeConfig EXCEPT !.ShouldDisableReadLimit = TRUE, !.ReadLimitBytes = n] : n \in 0..1}
  \cup {[NoBridgeConfig EXCEPT !.PingInterval = p, !.IdleTimeout = i] : p, i \in -1..2}

\* Options that mean a config; the first one is overridden.
OptionsFor(c) ==
  <<WithKeepalive(7, 9), WithOriginCheck(c.CheckOrigin),
    WithBufferSizes(c.ReadBufferSize, c.WriteBufferSize), WithReadLimitBytes(c.ReadLimitBytes),
    WithKeepalive(c.PingInterval, c.IdleTimeout), WithMaxActiveConnections(c.MaxActiveConnections),
    WithMaxConnectionsPerClient(c.MaxConnectionsPerClient),
    WithMaxUpgradesPerClientPerMinute(c.MaxUpgradesPerClientPerMinute),
    WithConnectHook(c.OnConnect), WithDisconnectHook(c.OnDisconnect)>>
  \o (IF c.ShouldDisableReadLimit THEN <<WithReadLimitDisabled>> ELSE <<>>)
  \o (IF c.ShouldEnableCompression THEN <<WithBridgeWebSocketCompression>> ELSE <<>>)

Backend(scheme, host, extra) ==
  [scheme |-> scheme, host |-> host, extra |-> extra, parses |-> TRUE]
Local == Backend("", "localhost", FALSE)

Typed(c) == [does |-> "BuildBridgeHandler", config |-> c]
Wrapped(c) == [does |-> "Wrap", opts |-> OptionsFor(c)]
Muxed(c, path) == [does |-> "HandleBridgeMux", config |-> c, path |-> path]
Bridge(c, target, required, timeout) ==
  [does |-> "NewHandler", config |-> c, target |-> target,
   requireLoopback |-> required, dialTimeout |-> timeout]

App(jobs, known) == [jobs |-> jobs, services |-> known]

SameConfig ==
  {App({Typed(c), Wrapped(c), Muxed(c, "/grpc"), Bridge(c, Local, TRUE, 0)}, {}) : c \in BridgeConfigs}

Backends ==
  LET targets == {Backend(s, h, x) : s \in {"", "http", "other"}, h \in {"", "loopback", "remote"},
                                     x \in BOOLEAN} \cup {[Local EXCEPT !.parses = FALSE]}
  IN  {App({Bridge(NoBridgeConfig, t, r, d), Muxed(NoBridgeConfig, "")}, {}) :
         t \in targets, r \in BOOLEAN, d \in {-1, 0}}

-----------------------------------------------------------------------------
Targets ==
  {[scheme |-> s, host |-> h, path |-> p, spaces |-> w, parses |-> q] :
     s \in {"", "ws", "wss", "WS", "other"}, h \in {"", "port", "server"},
     p \in {"", "/grpc"}, w \in BOOLEAN, q \in BOOLEAN}
Server == URL("", "server", "")

Reconnects == {[f \in ReconnectFields |-> IF f = g THEN n ELSE 1] : g \in ReconnectFields, n \in {-1, 1}}

Sets(field, value) == [NoTunnelConfig EXCEPT ![field] = value]

TunnelConfigs ==
  {NoTunnelConfig, Sets("TLSConfig", {"tls"}), Sets("ShouldUseTLS", TRUE), Sets("Headers", {{"h"}}),
   Sets("Subprotocols", {"p"}), Sets("Proxy", {"proxy"}), Sets("HandshakeTimeout", 1),
   Sets("HandshakeTimeout", -1), Sets("ShouldEnableCompression", TRUE),
   Sets("GRPCOptions", ApplyTunnelInsecureCredentials(<<[dialer |-> "caller's"]>>)),
   [Sets("GRPCOptions", <<[connectParams |-> "caller's"]>>) EXCEPT
      !.ReconnectConfig = {[f \in ReconnectFields |-> 0]}]}
  \cup {Sets("ReconnectConfig", {r}) : r \in Reconnects}

Options ==
  {<<>>, <<WithTLS({})>>, <<WithTLS({"tls"})>>, <<WithHeader("a"), WithHeader("b")>>,
   <<WithHeaders({}), WithSubprotocols("p")>>, <<WithSubprotocols("p")>>, <<WithProxy({"proxy"})>>,
   <<WithHandshakeTimeout(0)>>, <<WithDialCompression>>, <<[kind |-> "else", sets |-> NoJob]>>,
   <<WithReconnectPolicy([f \in ReconnectFields |-> 1]), DialOption([dialer |-> "caller's"])>>}

Client(does, t, c) == [does |-> does, target |-> t, config |-> c]
Dial(does, t, opts) == [does |-> does, target |-> t, opts |-> opts]

MCClients ==
  {App({Client("BuildTunnelConn", t, NoTunnelConfig), Dial("browser DialContext", t, <<>>),
        Dial("DialContext", t, <<WithTLS({})>>), Client("DialOptionWithConfig", t, NoTunnelConfig)}, {}) :
     t \in Targets}
  \cup {App({Client("BuildTunnelConn", Server, c), Client("browser BuildTunnelConn", Server, c)}, {}) :
     c \in TunnelConfigs}
  \cup {App({Dial("DialContext", Server, o), Dial("browser DialContext", Server, o)}, {}) : o \in Options}

Pools ==
  {App({Typed(x), Bridge(y, Local, FALSE, 0), Client("DialOptionWithConfig", Server, NoTunnelConfig),
        Client("BuildTunnelConn", Server, NoTunnelConfig)}, {}) :
     x, y \in With("WriteBufferSize", {-1, 0, 4096, 5000, 8192})}
  \cup {App({Typed(x) : x \in With("WriteBufferSize", {0, 4096, 5000, 8192})}, {})}

-----------------------------------------------------------------------------
ToolingJob(does, address, prefix, pprof, reflection) ==
  [does |-> does, address |-> address, prefix |-> prefix, pprof |-> pprof,
   reflection |-> reflection, health |-> TRUE]

Toolings ==
  {App({ToolingJob("BuildToolingHandler", "", "", TRUE, TRUE),
        ToolingJob("ListenAndServeTooling", a, "/p/", FALSE, r),
        ToolingJob("BuildToolingHandler", "", p, TRUE, FALSE)}, known) :
     a \in {"wildcard", "loopback"}, p \in {"/", "p/", "/p"}, r \in BOOLEAN,
     known \in {{}, {"v1"}, {"v1alpha", "v1", "health"}}}

MCPlans == SameConfig \cup Backends \cup MCClients \cup Pools \cup Toolings
=============================================================================
