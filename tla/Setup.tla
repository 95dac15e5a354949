------------------------------- MODULE Setup --------------------------------
(***************************************************************************)
(* An application sets itself up: goroutines build bridge handlers, tunnel *)
(* clients and tooling handlers, each one thing, at the same time.  They   *)
(* meet in the packages' caches of write-buffer pools, in the gRPC server  *)
(* the tooling registers services with, and in a mux.  A client conn goes  *)
(* on dialing afterwards, while the caller may change the headers and the  *)
(* subprotocols it passed.                                                 *)
(***************************************************************************)
EXTENDS FiniteSets, HandlerConfig, TunnelConfig

CONSTANTS
  Builder,   \* the goroutines; a pool bears the name of its maker
  NoPool,
  Plans,     \* what an application may build (jobs), and the services its gRPC
             \* server has at first: "v1alpha" and "v1" (reflection), "health"
  Page       \* the browser's location, a set of at most one

(* What the options of Wrap mean: the last one that sets a field decides,  *)
(* and each sets the field of the typed configuration it is named after.   *)
OptionField ==
  [CheckOrigin |-> "checkOrigin", ShouldEnableCompression |-> "shouldEnableCompression",
   ReadBufferSize |-> "readBufferSize", WriteBufferSize |-> "writeBufferSize",
   ReadLimitBytes |-> "readLimitBytes", ShouldDisableReadLimit |-> "shouldDisableReadLimit",
   PingInterval |-> "pingInterval", IdleTimeout |-> "idleTimeout",
   MaxActiveConnections |-> "maxActiveConnections",
   MaxConnectionsPerClient |-> "maxConnectionsPerClient",
   MaxUpgradesPerClientPerMinute |-> "maxUpgradesPerClient",
   OnConnect |-> "onConnect", OnDisconnect |-> "onDisconnect"]

Meaning(opts) ==
  [f \in DOMAIN NoBridgeConfig |->
     LET setters == {i \in DOMAIN opts : OptionField[f] \in DOMAIN opts[i]} IN
     IF setters = {} THEN WrapConfig(<<>>)[f] ELSE opts[Max(setters)][OptionField[f]]]

Handlers == {"BuildBridgeHandler", "HandleBridgeMux", "Wrap", "NewHandler"}

(* The configuration a handler is meant to have.                           *)
MeantBy(j) == IF j.does = "Wrap" THEN Meaning(j.opts) ELSE j.config

IsBridgeConfig(c) ==
  /\ DOMAIN c = DOMAIN NoBridgeConfig
  /\ \A f \in NumberFields : c[f] \in Int
  /\ c.ShouldDisableReadLimit \in BOOLEAN

(* gRPC's options are a list, and a policy in it is the caller's own.      *)
IsTunnelConfig(c) ==
  /\ Len(c.GRPCOptions) \in Nat /\ DOMAIN c.GRPCOptions = 1..Len(c.GRPCOptions)
  /\ \A i \in DOMAIN c.GRPCOptions :
       "connectParams" \in DOMAIN c.GRPCOptions[i] => c.GRPCOptions[i].connectParams = "caller's"

(* So are the options of a dial; only WithTLS asks for TLS among them.     *)
IsOptionList(opts) ==
  /\ Len(opts) \in Nat /\ DOMAIN opts = 1..Len(opts)
  /\ \A i \in DOMAIN opts :
       /\ opts[i].kind = "grpc" /\ "connectParams" \in DOMAIN opts[i].sets =>
            opts[i].sets.connectParams = "caller's"
       /\ "isUseTLS" \in DOMAIN opts[i].sets => opts[i] = WithTLS(opts[i].sets.tlsConfig)

(* What Go's types say of an application.                                  *)
ASSUME SetupAssumption ==
  /\ NoPool \notin Builder
  /\ \A p \in Plans : \A j \in p.jobs :
       /\ j.does \in Handlers => IsBridgeConfig(MeantBy(j))
       /\ j.does = "Wrap" => Len(j.opts) \in Nat /\ DOMAIN j.opts = 1..Len(j.opts)
       /\ j.does = "NewHandler" => j.dialTimeout \in Int
       /\ j.does \in {"BuildTunnelConn", "browser BuildTunnelConn"} =>
            IsTunnelConfig(j.config)
       /\ j.does \in {"DialContext", "browser DialContext"} => IsOptionList(j.opts)

VARIABLES
  plan,      \* the application
  pc,        \* where each builder is
  job,       \* what it builds
  pool,      \* the pool it was given
  product,   \* what it returned
  cache,     \* cacheWebSocketWriteBufferPools of both packages
  services,  \* what is registered with the gRPC server
  seen,      \* what GetServiceInfo told each builder
  mux,       \* the paths of the application's mux
  ended,     \* why the process ended, "" while it runs
  caller     \* the version of what the caller passed to the clients

vars == <<plan, pc, job, pool, product, cache, services, seen, mux, ended, caller>>

Package == {"grpctunnel", "bridge"}
CacheableSizes == {4096, 8192, 16384, 32768, 65536}

NoJob == [does |-> "nothing"]
Clients == {"BuildTunnelConn", "DialContext", "DialOptionWithConfig"}
BrowserClients == {"browser BuildTunnelConn", "browser DialContext"}

Is(b, names) == job[b].does \in names
PackageOf(j) == IF j.does \in {"NewHandler", "DialOptionWithConfig"} THEN "bridge" ELSE "grpctunnel"

-----------------------------------------------------------------------------
(* What is returned.  A handler "serves" or answers every request with an  *)
(* error; a client conn "dials"; otherwise an error is returned.           *)

Failed(verdict) == [verdict |-> verdict]

Serves(settings) == [verdict |-> "serves", settings |-> settings]

\* gRPC itself refuses to dial without credentials: callers pass some.  What
\* a dial uses of the caller's headers and subprotocols: what they were
\* when the conn was built, or what they are by now.
Now == -1

Conn(u, target, c, subprotocols) ==
  [verdict |-> "dials", url |-> u, target |-> target, config |-> c,
   options |-> Effective(DialOptions(c)), headers |-> caller, subprotocols |-> subprotocols]

NewHandler(j) ==
  IF \/ getHandlerConfigError(HandlerDefaults(j.config), j.dialTimeout)
     \/ ~parseBridgeTargetURL(j.target)
     \/ getBridgeBackendTransportPolicyError(j.requireLoopback, j.target)
    THEN Failed("answers 500")
    ELSE Serves(HandlerSettings(j.config))

TunnelOf(j) == IF j.does \in {"DialContext", "browser DialContext"} THEN DialConfig(j.opts) ELSE j.config

BuildTunnelConn(j) ==
  LET c == TunnelOf(j) IN
  IF \/ j.does = "DialContext" /\ splitDialOptionsError(j.opts)
     \/ getTunnelConfigErrorWithoutTarget(c) \/ buildTunnelTargetURL(j.target, c) = {}
    THEN Failed("error")
    ELSE LET u == CHOOSE u \in buildTunnelTargetURL(j.target, c) : TRUE
         IN  Conn(u, buildTunnelGRPCDialTarget(j.target, u), c, caller)

WrongBuildBrowserConn(j) ==
  LET c == TunnelOf(j)
      u == CHOOSE u \in buildBrowserTargetURL(j.target, Page) : TRUE
  IN  IF getBrowserConfigErrorWithoutTarget(c) THEN Failed("error")
      ELSE Conn(u, buildTunnelGRPCDialTarget(j.target, u), c, Now)

(* WithSubprotocols copies the slice, BuildTunnelConn keeps the caller's.  *)
BuildBrowserConn(j) ==
  LET c == TunnelOf(j) IN
  IF \/ /\ j.does = "browser DialContext"
        /\ splitDialOptionsError(j.opts) \/ BrowserOptionError(j.opts)
     \/ getBrowserConfigErrorWithoutTarget(c)
    THEN Failed("error")
    ELSE LET u == CHOOSE u \in buildBrowserTargetURL(j.target, Page) : TRUE
         IN  Conn(u, buildTunnelGRPCDialTarget(j.target, u), c,
                  IF j.does = "browser DialContext" THEN caller ELSE Now)

(* Nothing is checked: the URL is dialed as it is, and the caller hands    *)
(* the option and its target to gRPC.                                      *)
DialOptionWithConfig(j) == Conn(j.target, j.target, j.config, caller)

-----------------------------------------------------------------------------
Init ==
  /\ plan \in Plans
  /\ pc = [b \in Builder |-> "idle"]
  /\ job = [b \in Builder |-> NoJob]
  /\ pool = [b \in Builder |-> NoPool]
  /\ product = [b \in Builder |-> Failed("none")]
  /\ cache = [p \in Package |-> [n \in CacheableSizes |-> NoPool]]
  /\ services = plan.services
  /\ seen = [b \in Builder |-> {}]
  /\ mux = {}
  /\ ended = ""
  /\ caller = 0

Goto(b, from, to) ==
  /\ ended = "" /\ pc[b] = from
  /\ pc' = [pc EXCEPT ![b] = to]

Return(b, from, result) ==
  /\ Goto(b, from, "built")
  /\ product' = [product EXCEPT ![b] = result]

Die(b, from, reason) ==
  /\ ended = "" /\ pc[b] = from
  /\ ended' = reason
  /\ UNCHANGED <<pc, product>>

Begin(b, j, step) ==
  /\ ended = "" /\ pc[b] = "idle"
  /\ job' = [job EXCEPT ![b] = j]
  /\ step
  /\ UNCHANGED <<plan, pool, cache, services, seen, mux, ended, caller>>

-----------------------------------------------------------------------------
(* Bridge handlers and tunnel clients.                                     *)

(* The config is refused before anything is made; Wrap then returns a      *)
(* handler of its own.                                                     *)
BeginBridgeHandler(b, j) ==
  LET c == IF j.does = "Wrap" THEN WrapConfig(j.opts) ELSE j.config IN
  Begin(b, j,
    IF j.does = "HandleBridgeMux" /\ j.path = "" THEN Return(b, "idle", Failed("error"))
    ELSE IF GetBridgeConfigError(c)
      THEN Return(b, "idle", Failed(IF j.does = "Wrap" THEN "answers 500" ELSE "error"))
      ELSE Goto(b, "idle", "looking up") /\ UNCHANGED product)

(* NewHandler takes its pool before it checks anything.                    *)
BeginNewHandler(b, j) ==
  Begin(b, j, Goto(b, "idle", "looking up") /\ UNCHANGED product)

BeginClient(b, j) ==
  Begin(b, j,
    IF j.does # "DialOptionWithConfig" /\ BuildTunnelConn(j).verdict = "error"
      THEN Return(b, "idle", Failed("error"))
      ELSE Goto(b, "idle", "looking up") /\ UNCHANGED product)

BuildBrowserClient(b, j) == Begin(b, j, Return(b, "idle", BuildBrowserConn(j)))

(* The size a pool is looked up for.                                       *)
WriteBufferSize(j) ==
  CASE j.does \in {"BuildBridgeHandler", "HandleBridgeMux"} -> BridgeSettings(j.config).WriteBufferSize
    [] j.does = "Wrap" -> BridgeSettings(WrapConfig(j.opts)).WriteBufferSize
    [] j.does = "NewHandler" -> HandlerDefaults(j.config).WriteBufferSize
    [] j.does \in Clients -> DefaultBufferSize

isCacheableWebSocketWriteBufferSize(n) == n \in CacheableSizes

PoolSize(j) == IF WriteBufferSize(j) <= 0 THEN DefaultBufferSize ELSE WriteBufferSize(j)

Product(j) ==
  CASE j.does = "Wrap" -> Serves(BridgeSettings(WrapConfig(j.opts)))
    [] j.does \in {"BuildBridgeHandler", "HandleBridgeMux"} -> Serves(BridgeSettings(j.config))
    [] j.does = "NewHandler" -> NewHandler(j)
    [] j.does = "DialOptionWithConfig" -> DialOptionWithConfig(j)
    [] OTHER -> BuildTunnelConn(j)

(* A mux panics when a path is registered for the second time.             *)
Given(b, p) ==
  /\ pool' = [pool EXCEPT ![b] = p]
  /\ IF job[b].does = "HandleBridgeMux" /\ job[b].path \in mux
       THEN Die(b, pc[b], "path twice") /\ UNCHANGED mux
       ELSE /\ Return(b, pc[b], Product(job[b]))
            /\ mux' = mux \cup (IF job[b].does = "HandleBridgeMux" THEN {job[b].path} ELSE {})
            /\ UNCHANGED ended
  /\ UNCHANGED <<plan, job, services, seen, caller>>

(* buildWebSocketWriteBufferPool: Load ...                                 *)
LoadPool(b) ==
  LET n == PoolSize(job[b]) IN
  /\ ended = "" /\ pc[b] = "looking up"
  /\ IF ~isCacheableWebSocketWriteBufferSize(n) THEN Given(b, b)
     ELSE IF cache[PackageOf(job[b])][n] # NoPool THEN Given(b, cache[PackageOf(job[b])][n])
     ELSE /\ Goto(b, "looking up", "storing")
          /\ UNCHANGED <<plan, job, pool, product, services, seen, mux, ended, caller>>
  /\ UNCHANGED cache

WrongStorePool(b) ==
  LET n == PoolSize(job[b]) IN
  /\ ended = "" /\ pc[b] = "storing"
  /\ cache' = [cache EXCEPT ![PackageOf(job[b])][n] = b]
  /\ Given(b, b)

(* ... and LoadOrStore, which keeps what another builder stored meanwhile. *)
StorePool(b) ==
  LET n == PoolSize(job[b])
      p == cache[PackageOf(job[b])][n]
  IN  /\ ended = "" /\ pc[b] = "storing"
      /\ cache' = [cache EXCEPT ![PackageOf(job[b])][n] = IF p = NoPool THEN b ELSE p]
      /\ Given(b, IF p = NoPool THEN b ELSE p)

(* The caller changes the headers and the subprotocols it passed.          *)
CallerChanges ==
  /\ ended = "" /\ caller = 0 /\ \A b \in Builder : pc[b] \in {"idle", "built"}
  /\ caller' = 1
  /\ UNCHANGED <<plan, pc, job, pool, product, cache, services, seen, mux, ended>>

-----------------------------------------------------------------------------
(* Tooling handlers for one gRPC server.                                   *)

GetToolingConfigError(j) == j.prefix \notin {"", "/", "/p/"}

\* A listen address: "" or ":8081" or all interfaces is a wildcard.
shouldWarnToolingWildcardBind(address) == address = "wildcard"

getToolingListenAddressError(j) ==
  /\ j.reflection \/ j.pprof
  /\ shouldWarnToolingWildcardBind(j.address)

BeginTooling(b, j) ==
  Begin(b, j,
    IF \/ j.does = "ListenAndServeTooling" /\ getToolingListenAddressError(j)
       \/ GetToolingConfigError(j)
      THEN Return(b, "idle", Failed("error"))
      ELSE Goto(b, "idle", "inspecting") /\ UNCHANGED product)

(* ensureToolingServices: GetServiceInfo ...                               *)
Inspect(b) ==
  /\ Goto(b, "inspecting", "reflecting")
  /\ seen' = [seen EXCEPT ![b] = services]
  /\ UNCHANGED <<plan, job, pool, product, cache, services, mux, ended, caller>>

\* gRPC ends the process when a service is registered for the second time.
Register(b, from, to, new) ==
  /\ IF services \cap new # {} THEN Die(b, from, "service twice") /\ UNCHANGED services
     ELSE /\ Goto(b, from, to)
          /\ services' = services \cup new
          /\ UNCHANGED <<product, ended>>
  /\ UNCHANGED <<plan, job, pool, cache, seen, mux, caller>>

Skip(b, from, to) ==
  /\ Goto(b, from, to)
  /\ UNCHANGED <<plan, job, pool, product, cache, services, seen, mux, ended, caller>>

WrongReflect(b) ==
  /\ pc[b] = "reflecting"
  /\ IF job[b].reflection
       THEN Register(b, "reflecting", "checking health", {"v1alpha", "v1"})
       ELSE Skip(b, "reflecting", "checking health")

(* ... reflection.Register, which registers both versions but is called    *)
(* when the older one is absent ...                                        *)
Reflect(b) ==
  /\ pc[b] = "reflecting"
  /\ IF job[b].reflection /\ "v1alpha" \notin seen[b]
       THEN Register(b, "reflecting", "checking health", {"v1alpha", "v1"})
       ELSE Skip(b, "reflecting", "checking health")

(* ... and the health service, whose server the caller gets.               *)
CheckHealth(b) ==
  /\ pc[b] = "checking health"
  /\ IF job[b].health /\ "health" \notin seen[b]
       THEN Register(b, "checking health", "mounting with health", {"health"})
       ELSE Skip(b, "checking health", "mounting")

(* The handler's own mux has gRPC at "/", and pprof at its prefix.         *)
PprofTakesRoot(j) == j.pprof /\ j.prefix = "/"

Mount(b) ==
  /\ pc[b] \in {"mounting", "mounting with health"}
  /\ IF PprofTakesRoot(job[b]) THEN Die(b, pc[b], "path twice")
     ELSE /\ Return(b, pc[b], [verdict |-> "serves tooling",
                               health |-> pc[b] = "mounting with health"])
          /\ UNCHANGED ended
  /\ UNCHANGED <<plan, job, pool, cache, services, seen, mux, caller>>

-----------------------------------------------------------------------------
BeginJob(b, j) ==
  \/ j.does \in {"BuildBridgeHandler", "HandleBridgeMux", "Wrap"} /\ BeginBridgeHandler(b, j)
  \/ j.does = "NewHandler" /\ BeginNewHandler(b, j)
  \/ j.does \in Clients /\ BeginClient(b, j)
  \/ j.does \in BrowserClients /\ BuildBrowserClient(b, j)
  \/ j.does \in {"BuildToolingHandler", "ListenAndServeTooling"} /\ BeginTooling(b, j)

Next ==
  \/ \E b \in Builder :
       \/ \E j \in plan.jobs : BeginJob(b, j)
       \/ LoadPool(b) \/ StorePool(b)
       \/ Inspect(b) \/ Reflect(b) \/ CheckHealth(b) \/ Mount(b)
  \/ CallerChanges

Spec == Init /\ [][Next]_vars

-----------------------------------------------------------------------------
(* Properties                                                              *)

At(verdict) == {b \in Builder : product[b].verdict = verdict}

(* Handlers and clients that were built at the same time or later, in any  *)
(* order, share a pool exactly when they are of one package and write with *)
(* one of the cacheable sizes: a size never has two pools, and a pool      *)
(* never has two sizes (a pool hands one user's buffer to the next).       *)
PoolPerSize ==
  \A a, b \in At("serves") \cup At("dials") :
    a # b /\ ~Is(a, BrowserClients) /\ ~Is(b, BrowserClients) =>
      (pool[a] = pool[b] <=>
        /\ PackageOf(job[a]) = PackageOf(job[b])
        /\ WriteBufferSize(job[a]) = WriteBufferSize(job[b])
        /\ isCacheableWebSocketWriteBufferSize(WriteBufferSize(job[a])))

Meant(b) == MeantBy(job[b])

\* Where zero stands for a default; elsewhere it stands for no limit.
Defaulted == {"ReadBufferSize", "WriteBufferSize", "ReadLimitBytes"}

(* A handler that serves has its limits in force, whichever way it was     *)
(* configured: each as it was set, neither tighter nor looser; messages    *)
(* are limited unless that was switched off, and a ping comes before the   *)
(* idle timeout it is to prevent.                                          *)
LimitsInForce ==
  \A b \in At("serves") :
    LET s == product[b].settings IN
    /\ s.ReadBufferSize > 0 /\ s.WriteBufferSize > 0
    /\ Meant(b).ShouldDisableReadLimit \/ s.ReadLimitBytes > 0
    /\ s.IdleTimeout > 0 => s.PingInterval \in 1..(s.IdleTimeout - 1)
    /\ \A f \in NumberFields :
         s[f] >= 0 /\ (s[f] = Meant(b)[f] \/ (f \in Defaulted /\ Meant(b)[f] = 0))

\* What only one of them has, a backend or a path, is not at fault.
Sound(j) ==
  /\ j.does = "HandleBridgeMux" => j.path # ""
  /\ j.does = "NewHandler" =>
       /\ j.dialTimeout >= 0 /\ parseBridgeTargetURL(j.target)
       /\ ~getBridgeBackendTransportPolicyError(j.requireLoopback, j.target)

(* The three ways to configure a handler agree: Wrap's options, the typed  *)
(* config and pkg/bridge's, which repeat each other's code, accept and     *)
(* refuse the same configurations and serve with the same settings.        *)
HandlersAgree ==
  \A a, b \in Builder :
    /\ pc[a] = "built" /\ pc[b] = "built" /\ Is(a, Handlers) /\ Is(b, Handlers)
    /\ Meant(a) = Meant(b) /\ Sound(job[a]) /\ Sound(job[b])
    => /\ a \in At("serves") <=> b \in At("serves")
       /\ a \in At("serves") => product[a] = product[b]

(* What a client conn dials with.                                          *)
DialsWith(b) ==
  [product[b] EXCEPT !.subprotocols = IF @ = Now THEN caller ELSE @]

(* A conn dials, and dials again when it reconnects, with what it was      *)
(* configured with, whatever the caller does to the headers and the        *)
(* subprotocols afterwards.  This is true of every conn but those of the   *)
(* browser build's BuildTunnelConn, whose dialer keeps the slice of        *)
(* subprotocols that the caller passed in its typed config.                *)
RedialsAlike ==
  [][\A b \in At("dials") : ~Is(b, {"browser BuildTunnelConn"}) =>
       b \in At("dials")' /\ DialsWith(b)' = DialsWith(b)]_vars

SetByOption(j, field) == \E i \in DOMAIN j.opts : field \in DOMAIN j.opts[i].sets

AsksForTLS(j) ==
  IF j.does = "DialContext" THEN SetByOption(j, "isUseTLS")
  ELSE j.config.ShouldUseTLS \/ j.config.TLSConfig # {}

(* A conn always dials through the tunnel, to a WebSocket URL with a host; *)
(* what the caller passes to gRPC itself wins over the reconnect policy;   *)
(* and a client that asks for TLS, by an option or by the config, dials    *)
(* wss:// unless its target says ws:// itself.                             *)
TunnelDialed ==
  \A b \in At("dials") :
    LET c == product[b].config IN
    Is(b, {"DialOptionWithConfig"}) \/
      /\ product[b].options.dialer = "tunnel"
      /\ product[b].options.connectParams =
           IF \E i \in DOMAIN c.GRPCOptions : "connectParams" \in DOMAIN c.GRPCOptions[i]
             THEN "caller's" ELSE IF c.ReconnectConfig = {} THEN "default" ELSE "policy"
      /\ Is(b, Clients) =>
           /\ product[b].url.host # ""
           /\ ParseTunnelTargetURL(product[b].url, FALSE) = {product[b].url}
           /\ AsksForTLS(job[b]) => product[b].url.scheme = "wss" \/ job[b].target.scheme = "ws"

(* Registering tooling services ends the process only when two builders    *)
(* overlap or when only the newer reflection service was there before, and *)
(* a mux only when one path is mounted twice, as pprof at "/" is beside    *)
(* gRPC; and the health service's server is given to one caller at most.   *)
ToolingRegistersOnce ==
  /\ ended = "service twice" =>
       \/ \E b \in Builder : pc[b] \in {"reflecting", "checking health"} /\ seen[b] # services
       \/ "v1" \in services /\ "v1alpha" \notin services
  /\ ended = "path twice" =>
       \E b \in Builder : pc[b] # "built" /\
         \/ Is(b, {"HandleBridgeMux"}) /\ job[b].path \in mux
         \/ Is(b, {"BuildToolingHandler", "ListenAndServeTooling"}) /\ PprofTakesRoot(job[b])
  /\ Cardinality({b \in At("serves tooling") : product[b].health}) <= 1
=============================================================================
