---------------------------- MODULE SetupProofs -----------------------------
(***************************************************************************)
(* What an application sets up: the settings of its handlers, the options  *)
(* of its clients, its pools of write buffers and its services; and the    *)
(* keepalive of every handler that may come of it.                         *)
(*                                                                         *)
(*  - options: what a fold over a list of options leaves in a field;       *)
(*  - what a configuration comes to in either package;                     *)
(*  - BuildInv: where a builder is says what it builds and returns;        *)
(*  - PoolInv: what the caches hold is what builders were given;           *)
(*  - ToolInv: why the process ended, and who has the health server;       *)
(*  - TimeInv: a pong is here, on its way, or will be before the deadline. *)
(***************************************************************************)
EXTENDS Setup, Keepalive, SequenceFacts, FiniteSetTheorems

-----------------------------------------------------------------------------
(* Folds.  A proof cannot take an operator for a parameter, so a name says *)
(* which one is folded: an option overrides the fields it sets ("set"), is *)
(* applied to a dial ("applied"), or is kept when it is of a kind.         *)
Step(w, acc, x) ==
  IF w = "set" THEN Override(acc, x)
  ELSE IF w = "applied" THEN Applied(acc, x)
  ELSE IF x.kind = w THEN Append(acc, x.sets) ELSE acc

(* g is the fold as a function of the set of options that are still to be  *)
(* applied, as the library defines it.                                     *)
Folds(w, g, opts, base, n) ==
  g = [s \in SUBSET (1..n) |->
         IF s = {} THEN base ELSE Step(w, g[s \ {Max(s)}], opts[Max(s)])]

(* The largest element is what the library chooses.                        *)
LEMMA MaxIs ==
  ASSUME NEW S, NEW m \in S, S \subseteq Nat, \A i \in S : i <= m
  PROVE  Max(S) = m
<1>1. \A y \in S : m >= y
  OBVIOUS
<1>2. \A x \in S : (\A y \in S : x >= y) => x = m
  OBVIOUS
<1> QED BY <1>1, <1>2 DEF Max

(* There is such a g, by induction on the number of options.               *)
LEMMA FoldExists ==
  ASSUME NEW w, NEW opts, NEW base, NEW m \in Nat
  PROVE  \E g : Folds(w, g, opts, base, m)
<1> DEFINE T == {n \in Nat : \E g : Folds(w, g, opts, base, n)}
<1>1. 0 \in T
  <2> DEFINE g == [s \in SUBSET (1..0) |-> base]
  <2>1. g = [s \in SUBSET (1..0) |->
               IF s = {} THEN base ELSE Step(w, g[s \ {Max(s)}], opts[Max(s)])]
    OBVIOUS
  <2>2. Folds(w, g, opts, base, 0)
    BY <2>1 DEF Folds
  <2> QED BY <2>2
<1>2. ASSUME NEW n \in T PROVE n + 1 \in T
  <2>0. n \in Nat /\ \E g : Folds(w, g, opts, base, n)
    BY <1>2
  <2>1. PICK g : Folds(w, g, opts, base, n)
    BY <2>0
  <2> DEFINE h == [s \in SUBSET (1..(n + 1)) |->
                     IF s = {} THEN base ELSE Step(w, g[s \ {Max(s)}], opts[Max(s)])]
  <2>2. \A s \in SUBSET (1..n) : h[s] = g[s]
    <3> TAKE s \in SUBSET (1..n)
    <3>1. s \in SUBSET (1..(n + 1))
      BY <2>0
    <3>2. g[s] = IF s = {} THEN base ELSE Step(w, g[s \ {Max(s)}], opts[Max(s)])
      BY <2>1 DEF Folds
    <3> QED BY <3>1, <3>2
  <2>3. \A s \in SUBSET (1..(n + 1)) : s # {} => s \ {Max(s)} \in SUBSET (1..n) 
    <3> SUFFICES ASSUME NEW s \in SUBSET (1..(n + 1)), s # {}
                 PROVE  s \ {Max(s)} \in SUBSET (1..n)
      OBVIOUS
    <3>1. CASE n + 1 \in s
      <4>1. s \subseteq Nat /\ \A i \in s : i <= n + 1
        BY <2>0
      <4>2. Max(s) = n + 1
        BY <3>1, <4>1, MaxIs
      <4> QED BY <2>0, <4>2
    <3>2. CASE n + 1 \notin s
      <4>1. \A i \in s : i \in 1..n
        BY <2>0, <3>2
      <4> QED BY <4>1
    <3> QED BY <3>1, <3>2
  <2>4. \A s \in SUBSET (1..(n + 1)) :
          h[s] = IF s = {} THEN base ELSE Step(w, h[s \ {Max(s)}], opts[Max(s)])
    <3> TAKE s \in SUBSET (1..(n + 1))
    <3>1. h[s] = IF s = {} THEN base ELSE Step(w, g[s \ {Max(s)}], opts[Max(s)])
      OBVIOUS
    <3>2. s # {} => h[s \ {Max(s)}] = g[s \ {Max(s)}]
      BY <2>2, <2>3
    <3> QED BY <3>1, <3>2
  <2> HIDE DEF h
  <2>5. DOMAIN h = SUBSET (1..(n + 1)) /\ h = [s \in DOMAIN h |-> h[s]]
    BY DEF h
  <2>6. Folds(w, h, opts, base, n + 1)
    BY <2>4, <2>5 DEF Folds
  <2> QED BY <2>0, <2>6
<1> HIDE DEF T
<1>3. T = Nat
  <2>1. T \subseteq Nat BY DEF T
  <2> QED BY <1>1, <1>2, <2>1, SetInduction
<1> QED BY <1>3 DEF T

(* r[k] is what the first k options make of the defaults: they are applied *)
(* one after the other.                                                    *)
Applies(w, r, opts, base, n) ==
  /\ r[0] = base
  /\ \A k \in 0..(n - 1) : r[k + 1] = Step(w, r[k], opts[k + 1])

(* Such a g applies them in their order.                                   *)
LEMMA InOrder ==
  ASSUME NEW w, NEW opts, NEW base, NEW n \in Nat, NEW g, Folds(w, g, opts, base, n)
  PROVE  \E r : Applies(w, r, opts, base, n) /\ g[1..n] = r[n]
<1> DEFINE r == [k \in 0..n |-> g[1..k]]
<1>3. ASSUME NEW k \in 0..(n - 1) PROVE g[1..(k + 1)] = Step(w, g[1..k], opts[k + 1])
  <2>0. k + 1 \in 1..(k + 1) /\ 1..(k + 1) \subseteq Nat /\ \A i \in 1..(k + 1) : i <= k + 1
    OBVIOUS
  <2>1. Max(1..(k + 1)) = k + 1
    BY <2>0, MaxIs
  <2>2. 1..(k + 1) \in SUBSET (1..n) /\ 1..(k + 1) # {} /\ (1..(k + 1)) \ {k + 1} = 1..k
    OBVIOUS
  <2>3. g[1..(k + 1)] = Step(w, g[(1..(k + 1)) \ {Max(1..(k + 1))}], opts[Max(1..(k + 1))])
    BY <2>2 DEF Folds
  <2> QED BY <2>1, <2>2, <2>3
<1>4. g[1..0] = base
  <2>1. 1..0 = {} /\ {} \in SUBSET (1..n)
    OBVIOUS
  <2> QED BY <2>1 DEF Folds
<1>5. Applies(w, r, opts, base, n)
  <2>1. r[0] = base
    BY <1>4
  <2>2. ASSUME NEW k \in 0..(n - 1) PROVE r[k + 1] = Step(w, r[k], opts[k + 1])
    BY <1>3
  <2> QED BY <2>1, <2>2 DEF Applies
<1> QED BY <1>5


(* The folds the model is made of are of this form.  What the library      *)
(* chooses has the one equation, written with the operator in its place.   *)
LEMMA SettersInOrder ==
  ASSUME NEW opts, NEW base, NEW n \in Nat, DOMAIN opts = 1..n
  PROVE  /\ \E r : Applies("set", r, opts, base, n) /\ FoldLeft(Set, base, opts) = r[n]
         /\ \E r : Applies("set", r, opts, base, n) /\ FoldLeft(Override, base, opts) = r[n]
<1> DEFINE Is1(g) == g = [s \in SUBSET (1..n) |->
             IF s = {} THEN base ELSE Set(g[s \ {Max(s)}], opts[Max(s)])]
           Is2(g) == g = [s \in SUBSET (1..n) |->
             IF s = {} THEN base ELSE Override(g[s \ {Max(s)}], opts[Max(s)])]
<1>1. FoldLeft(Set, base, opts) = (CHOOSE g : Is1(g))[1..n]
  BY DEF FoldLeft, MapThenFoldSet
<1>2. FoldLeft(Override, base, opts) = (CHOOSE g : Is2(g))[1..n]
  BY DEF FoldLeft, MapThenFoldSet
<1>3. \A acc, x : Step("set", acc, x) = Set(acc, x) /\ Step("set", acc, x) = Override(acc, x)
  BY DEF Step, Set, Override
<1>4. \A g : Folds("set", g, opts, base, n) <=> Is1(g)
  BY <1>3 DEF Folds
<1>5. \A g : Folds("set", g, opts, base, n) <=> Is2(g)
  BY <1>3 DEF Folds
<1> HIDE DEF Is1, Is2
<1>6. \E g : Folds("set", g, opts, base, n)
  BY FoldExists
<1>7. Is1(CHOOSE g : Is1(g)) /\ Is2(CHOOSE g : Is2(g))
  BY <1>4, <1>5, <1>6
<1>8. \E r : Applies("set", r, opts, base, n) /\ FoldLeft(Set, base, opts) = r[n]
  <2> DEFINE G == CHOOSE g : Is1(g)
  <2>1. Folds("set", G, opts, base, n) /\ FoldLeft(Set, base, opts) = G[1..n]
    BY <1>1, <1>4, <1>7
  <2> HIDE DEF G
  <2> QED BY <2>1, InOrder
<1>9. \E r : Applies("set", r, opts, base, n) /\ FoldLeft(Override, base, opts) = r[n]
  <2> DEFINE G == CHOOSE g : Is2(g)
  <2>1. Folds("set", G, opts, base, n) /\ FoldLeft(Override, base, opts) = G[1..n]
    BY <1>2, <1>5, <1>7
  <2> HIDE DEF G
  <2> QED BY <2>1, InOrder
<1> QED BY <1>8, <1>9

(* The options of this package, applied one after the other.               *)
LEMMA AppliedInOrder ==
  ASSUME NEW opts, NEW base, NEW n \in Nat, DOMAIN opts = 1..n
  PROVE  \E r : Applies("applied", r, opts, base, n) /\ FoldLeft(Applied, base, opts) = r[n]
<1> DEFINE Is1(g) == g = [s \in SUBSET (1..n) |->
             IF s = {} THEN base ELSE Applied(g[s \ {Max(s)}], opts[Max(s)])]
<1>1. FoldLeft(Applied, base, opts) = (CHOOSE g : Is1(g))[1..n]
  BY DEF FoldLeft, MapThenFoldSet
<1>2. \A acc, x : Step("applied", acc, x) = Applied(acc, x)
  BY DEF Step
<1>3. \A g : Folds("applied", g, opts, base, n) <=> Is1(g)
  BY <1>2 DEF Folds
<1> HIDE DEF Is1
<1>4. Is1(CHOOSE g : Is1(g))
  BY <1>3, FoldExists
<1> DEFINE G == CHOOSE g : Is1(g)
<1>5. Folds("applied", G, opts, base, n) /\ FoldLeft(Applied, base, opts) = G[1..n]
  BY <1>1, <1>3, <1>4
<1> HIDE DEF G
<1> QED BY <1>5, InOrder

(* The options of a kind, collected one after the other.                   *)
LEMMA KindInOrder ==
  ASSUME NEW opts, NEW n \in Nat, DOMAIN opts = 1..n, NEW k \in {"client", "grpc"}
  PROVE  \E r : Applies(k, r, opts, <<>>, n) /\ OfKind(opts, k) = r[n]
<1> DEFINE Keep(acc, x) == IF x.kind = k THEN Append(acc, x.sets) ELSE acc
           Is1(g) == g = [s \in SUBSET (1..n) |->
             IF s = {} THEN <<>> ELSE Keep(g[s \ {Max(s)}], opts[Max(s)])]
<1>1. OfKind(opts, k) = (CHOOSE g : Is1(g))[1..n]
  BY DEF OfKind, FoldLeft, MapThenFoldSet
<1>2. \A acc, x : Step(k, acc, x) = Keep(acc, x)
  BY DEF Step
<1> HIDE DEF Keep
<1>3. \A g : Folds(k, g, opts, <<>>, n) <=> Is1(g)
  BY <1>2 DEF Folds
<1> HIDE DEF Is1
<1>4. Is1(CHOOSE g : Is1(g))
  BY <1>3, FoldExists
<1> DEFINE G == CHOOSE g : Is1(g)
<1>5. Folds(k, G, opts, <<>>, n) /\ OfKind(opts, k) = G[1..n]
  BY <1>1, <1>3, <1>4
<1> HIDE DEF G
<1> QED BY <1>5, InOrder

(* The first k options that set a field, and what they leave in it.        *)
Setters(opts, k, f) == {i \in 1..k : f \in DOMAIN opts[i]}

Left(opts, base, k, f) ==
  IF Setters(opts, k, f) = {} THEN base[f] ELSE opts[Max(Setters(opts, k, f))][f]

(* The last one decides, by induction on the number of options.            *)
LEMMA LastOneDecides ==
  ASSUME NEW opts, NEW base, NEW n \in Nat, NEW r, Applies("set", r, opts, base, n)
  PROVE  /\ DOMAIN r[n] = DOMAIN base
         /\ \A f \in DOMAIN base : r[n][f] = Left(opts, base, n, f)
<1> DEFINE Ok(k) == /\ DOMAIN r[k] = DOMAIN base
                    /\ \A f \in DOMAIN base : r[k][f] = Left(opts, base, k, f)
           T == {k \in Nat : k <= n => Ok(k)}
<1>1. 0 \in T
  <2>1. \A f : Setters(opts, 0, f) = {}
    BY DEF Setters
  <2>2. Ok(0)
    BY <2>1 DEF Left, Applies
  <2> QED BY <2>2
<1>2. ASSUME NEW k \in T PROVE k + 1 \in T
  <2> SUFFICES ASSUME k + 1 <= n PROVE Ok(k + 1)
    BY <1>2
  <2>0. k \in Nat /\ k \in 0..(n - 1) /\ Ok(k)
    BY <1>2
  <2>1. r[k + 1] = Override(r[k], opts[k + 1])
    BY <2>0 DEF Applies, Step
  <2>2. DOMAIN r[k + 1] = DOMAIN base
    BY <2>0, <2>1 DEF Override
  <2>3. ASSUME NEW f \in DOMAIN base PROVE r[k + 1][f] = Left(opts, base, k + 1, f)
    <3>1. r[k + 1][f] = IF f \in DOMAIN opts[k + 1] THEN opts[k + 1][f] ELSE r[k][f]
      BY <2>0, <2>1 DEF Override
    <3>2. r[k][f] = Left(opts, base, k, f)
      BY <2>0
    <3>3. CASE f \in DOMAIN opts[k + 1]
      <4> DEFINE S == Setters(opts, k + 1, f)
      <4>1. k + 1 \in S /\ S \subseteq Nat /\ \A i \in S : i <= k + 1
        BY <2>0, <3>3 DEF Setters
      <4>2. Max(S) = k + 1
        <5> HIDE DEF S
        <5> QED BY <4>1, MaxIs
      <4> QED BY <3>1, <3>3, <4>1, <4>2 DEF Left
    <3>4. CASE f \notin DOMAIN opts[k + 1]
      <4>1. Setters(opts, k + 1, f) = Setters(opts, k, f)
        BY <2>0, <3>4 DEF Setters
      <4> QED BY <3>1, <3>2, <3>4, <4>1 DEF Left
    <3> QED BY <3>3, <3>4
  <2> QED BY <2>2, <2>3
<1> HIDE DEF T
<1>3. T = Nat
  <2>1. T \subseteq Nat BY DEF T
  <2> QED BY <1>1, <1>2, <2>1, SetInduction
<1>4. n \in T
  BY <1>3
<1> QED BY <1>4 DEF T

(* What the options of Wrap start from.                                    *)
OptionDefaults == buildServerOptions(<<>>)

(* So with the options of Wrap: what is set last is what it serves with.   *)
LEMMA OptionsDecide ==
  ASSUME NEW opts, Len(opts) \in Nat, DOMAIN opts = 1..Len(opts), NEW f \in DOMAIN OptionDefaults
  PROVE  buildServerOptions(opts)[f] = Left(opts, OptionDefaults, Len(opts), f)
<1> DEFINE base ==
    [checkOrigin |-> "same origin", shouldEnableCompression |-> FALSE,
     readBufferSize |-> DefaultBufferSize, writeBufferSize |-> DefaultBufferSize,
     readLimitBytes |-> 0, shouldDisableReadLimit |-> FALSE,
     pingInterval |-> 0, idleTimeout |-> 0, maxActiveConnections |-> 0,
     maxConnectionsPerClient |-> 0, maxUpgradesPerClient |-> 0,
     onConnect |-> "none", onDisconnect |-> "none"]
<1>0. \A o : buildServerOptions(o) = FoldLeft(Set, base, o)
  BY DEF buildServerOptions
<1> HIDE DEF base
<1>1. PICK r : Applies("set", r, opts, base, Len(opts)) /\ FoldLeft(Set, base, opts) = r[Len(opts)]
  BY SettersInOrder
<1>2. PICK q : Applies("set", q, <<>>, base, 0) /\ FoldLeft(Set, base, <<>>) = q[0]
  <2>1. DOMAIN <<>> = 1..0 /\ 0 \in Nat
    OBVIOUS
  <2> QED BY <2>1, SettersInOrder
<1>3. OptionDefaults = base
  BY <1>0, <1>2 DEF Applies, OptionDefaults
<1> QED BY <1>0, <1>1, <1>3, LastOneDecides

(* Every field of the typed configuration has an option's field.           *)
LEMMA FieldsHaveOptions ==
  /\ DOMAIN OptionField = DOMAIN NoBridgeConfig
  /\ \A f \in DOMAIN NoBridgeConfig : OptionField[f] \in DOMAIN OptionDefaults
<1>1. DOMAIN OptionDefaults =
        {"checkOrigin", "shouldEnableCompression", "readBufferSize", "writeBufferSize",
         "readLimitBytes", "shouldDisableReadLimit", "pingInterval", "idleTimeout",
         "maxActiveConnections", "maxConnectionsPerClient", "maxUpgradesPerClient",
         "onConnect", "onDisconnect"}
  <2> DEFINE base ==
    [checkOrigin |-> "same origin", shouldEnableCompression |-> FALSE,
     readBufferSize |-> DefaultBufferSize, writeBufferSize |-> DefaultBufferSize,
     readLimitBytes |-> 0, shouldDisableReadLimit |-> FALSE,
     pingInterval |-> 0, idleTimeout |-> 0, maxActiveConnections |-> 0,
     maxConnectionsPerClient |-> 0, maxUpgradesPerClient |-> 0,
     onConnect |-> "none", onDisconnect |-> "none"]
  <2>1. OptionDefaults = FoldLeft(Set, base, <<>>)
    BY DEF OptionDefaults, buildServerOptions
  <2>2. PICK q : Applies("set", q, <<>>, base, 0) /\ FoldLeft(Set, base, <<>>) = q[0]
    <3> HIDE DEF base
    <3>1. DOMAIN <<>> = 1..0 /\ 0 \in Nat
      OBVIOUS
    <3> QED BY <3>1, SettersInOrder
  <2>3. OptionDefaults = base
    <3> HIDE DEF base
    <3> QED BY <2>1, <2>2 DEF Applies
  <2> QED BY <2>3
<1>2. DOMAIN OptionField = DOMAIN NoBridgeConfig
  BY DEF OptionField, NoBridgeConfig
<1>3. \A f \in DOMAIN NoBridgeConfig : OptionField[f] \in DOMAIN OptionDefaults
  BY <1>1 DEF OptionField, NoBridgeConfig
<1> QED BY <1>2, <1>3

(* Wrap hands every field over.                                            *)
LEMMA WrapCopies ==
  ASSUME NEW opts
  PROVE  WrapConfig(opts) = [f \in DOMAIN NoBridgeConfig |-> buildServerOptions(opts)[OptionField[f]]]
<1> DEFINE c == [f \in DOMAIN NoBridgeConfig |-> buildServerOptions(opts)[OptionField[f]]]
<1>1. DOMAIN WrapConfig(opts) = DOMAIN c
  BY DEF WrapConfig, NoBridgeConfig
<1>2. \A f \in DOMAIN c : WrapConfig(opts)[f] = c[f]
  BY DEF WrapConfig, NoBridgeConfig, OptionField
<1>3. /\ WrapConfig(opts) = [f \in DOMAIN WrapConfig(opts) |-> WrapConfig(opts)[f]]
      /\ c = [f \in DOMAIN c |-> c[f]]
  BY DEF WrapConfig
<1> HIDE DEF c
<1> QED
  <2> DEFINE w == WrapConfig(opts)
  <2>1. DOMAIN w = DOMAIN c /\ (\A f \in DOMAIN c : w[f] = c[f])
        /\ w = [f \in DOMAIN w |-> w[f]] /\ c = [f \in DOMAIN c |-> c[f]]
    BY <1>1, <1>2, <1>3
  <2> HIDE DEF w
  <2>2. w = c
    BY <2>1
  <2> QED BY <2>2 DEF w, c

(* So a handler that is wrapped is configured as its options mean.         *)
LEMMA WrapMeans ==
  ASSUME NEW opts, Len(opts) \in Nat, DOMAIN opts = 1..Len(opts)
  PROVE  WrapConfig(opts) = Meaning(opts)
<1>1. ASSUME NEW f \in DOMAIN NoBridgeConfig
      PROVE  buildServerOptions(opts)[OptionField[f]] = Meaning(opts)[f]
  <2> DEFINE o == OptionField[f]
             setters == {i \in DOMAIN opts : o \in DOMAIN opts[i]}
  <2>1. o \in DOMAIN OptionDefaults
    BY FieldsHaveOptions
  <2>2. buildServerOptions(opts)[o] = Left(opts, OptionDefaults, Len(opts), o)
    <3> HIDE DEF o
    <3> QED BY <2>1, OptionsDecide
  <2>3. Setters(opts, Len(opts), o) = setters
    BY DEF Setters
  <2>4. WrapConfig(<<>>)[f] = OptionDefaults[o]
    BY WrapCopies DEF OptionDefaults
  <2>5. Meaning(opts)[f] = IF setters = {} THEN WrapConfig(<<>>)[f] ELSE opts[Max(setters)][o]
    BY DEF Meaning
  <2> HIDE DEF o, setters
  <2> QED BY <2>2, <2>3, <2>4, <2>5 DEF Left, o
<1>2. WrapConfig(opts) = [f \in DOMAIN NoBridgeConfig |-> Meaning(opts)[f]]
  BY <1>1, WrapCopies
<1>3. Meaning(opts) = [f \in DOMAIN NoBridgeConfig |-> Meaning(opts)[f]]
  BY DEF Meaning
<1> QED BY <1>2, <1>3

-----------------------------------------------------------------------------
(* What a dial makes of its options.                                       *)

(* A set of the first numbers that is not empty has a largest element.     *)
LEMMA MaxOfSome ==
  ASSUME NEW n \in Nat, NEW S \in SUBSET (1..n), S # {}
  PROVE  Max(S) \in S /\ \A i \in S : i <= Max(S)
<1> DEFINE HasMax(s) == \E m \in s : \A i \in s : i <= m
           T == {k \in Nat : \A s \in SUBSET (1..k) : s # {} => HasMax(s)}
<1>1. 0 \in T
  <2>1. \A s \in SUBSET (1..0) : s = {}
    OBVIOUS
  <2> QED BY <2>1
<1>2. ASSUME NEW k \in T PROVE k + 1 \in T
  <2>0. k \in Nat /\ \A s \in SUBSET (1..k) : s # {} => HasMax(s)
    BY <1>2
  <2>1. ASSUME NEW s \in SUBSET (1..(k + 1)), s # {} PROVE HasMax(s)
    <3>1. CASE k + 1 \in s
      BY <2>0, <3>1
    <3>2. CASE k + 1 \notin s
      <4>1. \A i \in s : i \in 1..k
        BY <2>0, <3>2
      <4>2. s \in SUBSET (1..k)
        BY <4>1
      <4> HIDE DEF HasMax
      <4> QED BY <2>0, <2>1, <4>2
    <3> QED BY <3>1, <3>2
  <2> HIDE DEF HasMax
  <2> QED BY <2>0, <2>1
<1>3. T = Nat
  <2>1. T \subseteq Nat
    OBVIOUS
  <2> HIDE DEF T
  <2> QED BY <1>1, <1>2, <2>1, SetInduction
<1>4. n \in T
  BY <1>3
<1>5. PICK m \in S : \A i \in S : i <= m
  <2>1. HasMax(S)
    BY <1>4
  <2> QED BY <2>1
<1>6. S \subseteq Nat
  OBVIOUS
<1>7. Max(S) = m
  BY <1>5, <1>6, MaxIs
<1> QED BY <1>5, <1>7

(* What gRPC's options start from.                                         *)
DialDefaults == [dialer |-> "net", connectParams |-> "default", credentials |-> "none"]

(* The last of gRPC's options that sets a field decides, too.              *)
LEMMA EffectiveIs ==
  ASSUME NEW opts, NEW n \in Nat, DOMAIN opts = 1..n, NEW f \in {"dialer", "connectParams"}
  PROVE  Effective(opts)[f] = Left(opts, DialDefaults, n, f)
<1>1. Effective(opts) = FoldLeft(Override, DialDefaults, opts)
  BY DEF Effective, DialDefaults
<1>2. f \in DOMAIN DialDefaults
  BY DEF DialDefaults
<1> HIDE DEF DialDefaults
<1>3. PICK r : Applies("set", r, opts, DialDefaults, n) /\ FoldLeft(Override, DialDefaults, opts) = r[n]
  BY SettersInOrder
<1> QED BY <1>1, <1>2, <1>3, LastOneDecides

(* The reconnect policy first, then the caller's own, then the dialer.     *)
LEMMA DialOptionsAre ==
  ASSUME NEW c, IsTunnelConfig(c), NEW opts, opts = DialOptions(c)
  PROVE  LET g == Len(c.GRPCOptions)
             a == IF c.ReconnectConfig = {} THEN 0 ELSE 1
         IN  /\ g \in Nat /\ DOMAIN opts = 1..(a + g + 1)
             /\ a = 1 => opts[1] = [connectParams |-> "policy"]
             /\ \A i \in 1..g : opts[a + i] = c.GRPCOptions[i]
             /\ opts[a + g + 1] = [dialer |-> "tunnel"]
<1> DEFINE q == c.GRPCOptions
           g == Len(q)
           last == [dialer |-> "tunnel"]
           policy == [connectParams |-> "policy"]
<1>0. g \in Nat /\ DOMAIN q = 1..g
  BY DEF IsTunnelConfig
<1>1. Reconnect(c) = IF c.ReconnectConfig = {} THEN <<>> ELSE <<policy>>
  BY DEF Reconnect, ApplyTunnelReconnectPolicy
<1>2. opts = (Reconnect(c) \o q) \o <<last>>
  BY DEF DialOptions
<1> HIDE DEF last, policy, q
<1>3. CASE c.ReconnectConfig = {}
  <2>1. opts = (<<>> \o q) \o <<last>>
    BY <1>1, <1>2, <1>3
  <2>2. DOMAIN opts = 1..(g + 1) /\ (\A i \in 1..g : opts[i] = q[i]) /\ opts[g + 1] = last
    BY <1>0, <2>1
  <2> QED BY <1>0, <1>3, <2>2 DEF q, last
<1>4. CASE c.ReconnectConfig # {}
  <2>1. opts = (<<policy>> \o q) \o <<last>>
    BY <1>1, <1>2, <1>4
  <2>2. DOMAIN opts = 1..(1 + g + 1) /\ opts[1] = policy
        /\ (\A i \in 1..g : opts[1 + i] = q[i]) /\ opts[1 + g + 1] = last
    BY <1>0, <2>1
  <2> QED BY <1>0, <1>4, <2>2 DEF q, last, policy
<1> QED BY <1>3, <1>4

(* So a conn dials through the tunnel, and the caller's own parameters win *)
(* over the reconnect policy.                                              *)
LEMMA DialsBy ==
  ASSUME NEW c, IsTunnelConfig(c)
  PROVE  LET e == Effective(DialOptions(c)) IN
         /\ e.dialer = "tunnel"
         /\ e.connectParams =
              IF \E i \in DOMAIN c.GRPCOptions : "connectParams" \in DOMAIN c.GRPCOptions[i]
                THEN "caller's" ELSE IF c.ReconnectConfig = {} THEN "default" ELSE "policy"
<1> DEFINE opts == DialOptions(c)
           q == c.GRPCOptions
           g == Len(q)
           a == IF c.ReconnectConfig = {} THEN 0 ELSE 1
           n == a + g + 1
           S == Setters(opts, n, "connectParams")
<1>1. /\ g \in Nat /\ DOMAIN opts = 1..n
      /\ a = 1 => opts[1] = [connectParams |-> "policy"]
      /\ \A i \in 1..g : opts[a + i] = q[i]
      /\ opts[n] = [dialer |-> "tunnel"]
  BY DialOptionsAre
<1>2. /\ a \in {0, 1} /\ n \in Nat /\ DOMAIN q = 1..g
      /\ a = 0 <=> c.ReconnectConfig = {}
      /\ \A i \in 1..g : "connectParams" \in DOMAIN q[i] => q[i].connectParams = "caller's"
  <2>1. DOMAIN q = 1..g
        /\ \A i \in DOMAIN q : "connectParams" \in DOMAIN q[i] => q[i].connectParams = "caller's"
    BY DEF IsTunnelConfig
  <2>2. a \in {0, 1} /\ (a = 0 <=> c.ReconnectConfig = {})
    OBVIOUS
  <2> HIDE DEF a, g, q
  <2> QED BY <1>1, <2>1, <2>2
<1>3. \A f \in {"dialer", "connectParams"} : Effective(opts)[f] = Left(opts, DialDefaults, n, f)
  BY <1>1, <1>2, EffectiveIs
<1> HIDE DEF opts, q, a, g
<1>4. Effective(opts).dialer = "tunnel"
  <2> DEFINE D == Setters(opts, n, "dialer")
  <2>1. n \in D /\ D \subseteq Nat /\ \A i \in D : i <= n
    BY <1>1, <1>2 DEF Setters
  <2>2. Max(D) = n
    <3> HIDE DEF D, n
    <3> QED BY <2>1, MaxIs
  <2>3. D # {} /\ opts[Max(D)].dialer = "tunnel"
    BY <1>1, <2>1, <2>2
  <2> QED BY <1>3, <2>3 DEF Left
<1>5. S \in SUBSET (1..n) /\ \A i \in 1..n : i \in S <=> "connectParams" \in DOMAIN opts[i]
  BY DEF Setters
<1>6. n \notin S /\ (a = 1 => 1 \in S) /\ (\A i \in 1..g : a + i \in S <=> "connectParams" \in DOMAIN q[i])
  BY <1>1, <1>2, <1>5
<1>7. \A i \in 1..n : i = n \/ (a = 1 /\ i = 1) \/ \E k \in 1..g : i = a + k
  <2> TAKE i \in 1..n
  <2>1. i # n /\ ~(a = 1 /\ i = 1) => i - a \in 1..g /\ i = a + (i - a)
    BY <1>1, <1>2
  <2> QED BY <2>1
<1>8. Effective(opts).connectParams = IF S = {} THEN "default" ELSE opts[Max(S)].connectParams
  BY <1>3 DEF Left, DialDefaults
<1> HIDE DEF S
<1>9. CASE \E i \in DOMAIN q : "connectParams" \in DOMAIN q[i]
  <2>1. PICK i \in 1..g : "connectParams" \in DOMAIN q[i]
    BY <1>2, <1>9
  <2>2. a + i \in S /\ S # {} 
    BY <1>6, <2>1
  <2>3. Max(S) \in S /\ \A k \in S : k <= Max(S)
    <3> HIDE DEF n
    <3> QED BY <1>2, <1>5, <2>2, MaxOfSome
  <2>4. a + i <= Max(S) /\ Max(S) \in 1..n
    BY <1>5, <2>2, <2>3
  <2>5. \E k \in 1..g : Max(S) = a + k
    <3> DEFINE m == Max(S)
    <3>1. m \in 1..n /\ a + i <= m /\ m # n
      BY <1>6, <2>3, <2>4
    <3> HIDE DEF m
    <3>2. ~(a = 1 /\ m = 1)
      BY <1>1, <1>2, <2>1, <3>1
    <3> QED BY <1>7, <3>1, <3>2 DEF m
  <2>6. opts[Max(S)].connectParams = "caller's"
    <3>1. PICK k \in 1..g : Max(S) = a + k
      BY <2>5
    <3>2. "connectParams" \in DOMAIN q[k]
      BY <1>6, <2>3, <3>1
    <3>3. q[k].connectParams = "caller's" /\ opts[a + k] = q[k]
      BY <1>1, <1>2, <3>2
    <3> QED BY <3>1, <3>3
  <2>7. Effective(opts).connectParams = "caller's"
    BY <1>8, <2>2, <2>6
  <2> QED BY <1>4, <1>9, <2>7 DEF opts, q
<1>10. CASE ~\E i \in DOMAIN q : "connectParams" \in DOMAIN q[i]
  <2>1. \A i \in S : a = 1 /\ i = 1
    BY <1>2, <1>5, <1>6, <1>7, <1>10
  <2>2. CASE c.ReconnectConfig = {}
    <3>1. S = {}
      BY <1>2, <2>1, <2>2
    <3> QED BY <1>4, <1>8, <1>10, <2>2, <3>1 DEF opts, q
  <2>3. CASE c.ReconnectConfig # {}
    <3>1. a = 1 /\ S = {1}
      BY <1>2, <1>6, <2>1, <2>3
    <3>2. Max({1}) = 1
      <4>1. 1 \in {1} /\ {1} \subseteq Nat /\ \A i \in {1} : i <= 1
        OBVIOUS
      <4> QED BY <4>1, MaxIs
    <3>3. opts[Max(S)].connectParams = "policy" /\ S # {}
      BY <1>1, <3>1, <3>2
    <3> QED BY <1>4, <1>8, <1>10, <2>3, <3>3 DEF opts, q
  <2> QED BY <2>2, <2>3
<1> QED BY <1>9, <1>10

(* The options of one kind, in their order: nothing else is among them,    *)
(* and none of them is lost.                                               *)
LEMMA KindsAre ==
  ASSUME NEW opts, NEW n \in Nat, DOMAIN opts = 1..n, NEW k \in {"client", "grpc"}
  PROVE  LET Sets == {opts[i].sets : i \in {m \in 1..n : opts[m].kind = k}} IN
         /\ OfKind(opts, k) \in Seq(Sets)
         /\ \A i \in 1..n : opts[i].kind = k =>
              \E m \in 1..Len(OfKind(opts, k)) : OfKind(opts, k)[m] = opts[i].sets
<1> DEFINE Sets == {opts[i].sets : i \in {m \in 1..n : opts[m].kind = k}}
<1>1. PICK r : Applies(k, r, opts, <<>>, n) /\ OfKind(opts, k) = r[n]
  BY KindInOrder
<1> DEFINE Has(s, x) == \E m \in 1..Len(s) : s[m] = x
           Ok(j) == /\ r[j] \in Seq(Sets)
                    /\ \A i \in 1..n : i <= j /\ opts[i].kind = k => Has(r[j], opts[i].sets)
<1>2. ASSUME NEW s \in Seq(Sets), NEW x \in Sets
      PROVE  /\ Append(s, x) \in Seq(Sets) /\ Has(Append(s, x), x)
             /\ \A y : Has(s, y) => Has(Append(s, x), y)
  <2>1. /\ Append(s, x) \in Seq(Sets) /\ Len(s) \in Nat /\ Len(Append(s, x)) = Len(s) + 1
        /\ Append(s, x)[Len(s) + 1] = x /\ \A m \in 1..Len(s) : Append(s, x)[m] = s[m]
    OBVIOUS
  <2>2. Len(s) + 1 \in 1..Len(Append(s, x)) /\ \A m \in 1..Len(s) : m \in 1..Len(Append(s, x))
    BY <2>1
  <2> QED BY <2>1, <2>2
<1>3. Ok(0)
  <2>1. r[0] = <<>>
    BY <1>1 DEF Applies
  <2>2. \A i \in 1..n : ~(i <= 0)
    OBVIOUS
  <2>3. <<>> \in Seq(Sets)
    OBVIOUS
  <2> HIDE DEF Has, Sets
  <2> QED BY <2>1, <2>2, <2>3
<1>4. ASSUME NEW j \in Nat, j + 1 <= n, Ok(j) PROVE Ok(j + 1)
  <2>0. j \in 0..(n - 1) /\ j + 1 \in 1..n
    BY <1>4
  <2>1. r[j + 1] = IF opts[j + 1].kind = k THEN Append(r[j], opts[j + 1].sets) ELSE r[j]
    BY <1>1, <2>0 DEF Applies, Step
  <2>2. \A i \in 1..n : i <= j + 1 => i <= j \/ i = j + 1
    BY <2>0
  <2>3. CASE opts[j + 1].kind = k
    <3>1. opts[j + 1].sets \in Sets
      BY <2>0, <2>3
    <3>2. r[j] \in Seq(Sets) /\ r[j + 1] = Append(r[j], opts[j + 1].sets)
      BY <1>4, <2>1, <2>3
    <3> HIDE DEF Has, Sets
    <3> QED BY <1>2, <1>4, <2>0, <2>2, <3>1, <3>2
  <2>4. CASE opts[j + 1].kind # k
    <3> HIDE DEF Has, Sets
    <3> QED BY <1>4, <2>0, <2>1, <2>2, <2>4
  <2> QED BY <2>3, <2>4
<1> HIDE DEF Ok
<1>6. Ok(n)
  <2> DEFINE T == {j \in Nat : j <= n => Ok(j)}
  <2>1. T \subseteq Nat /\ 0 \in T
    BY <1>3
  <2>2. ASSUME NEW j \in T PROVE j + 1 \in T
    BY <1>4, <2>2
  <2>3. T = Nat
    <3> HIDE DEF T
    <3> QED BY <2>1, <2>2, SetInduction
  <2> QED BY <2>3
<1>7. OfKind(opts, k) \in Seq(Sets)
  <2> HIDE DEF Sets
  <2> QED BY <1>1, <1>6 DEF Ok
<1>8. ASSUME NEW i \in 1..n, opts[i].kind = k PROVE Has(OfKind(opts, k), opts[i].sets)
  <2> HIDE DEF Sets, Has
  <2> QED BY <1>1, <1>6, <1>8 DEF Ok
<1> QED BY <1>7, <1>8

(* An option that asks for TLS is heard, whatever else is among them.      *)
LEMMA TLSIsHeard ==
  ASSUME NEW opts, IsOptionList(opts), NEW i \in DOMAIN opts, "isUseTLS" \in DOMAIN opts[i].sets
  PROVE  clientOptions(opts).isUseTLS = TRUE
<1> DEFINE q == OfKind(opts, "client")
           base == [isUseTLS |-> FALSE, tlsConfig |-> {}, setTunnelHeaders |-> {},
             setTunnelSubprotocols |-> {}, setTunnelProxy |-> {}, setTunnelTimeout |-> 0,
             shouldEnableCompression |-> FALSE, setTunnelReconnect |-> {}]
           n == Len(q)
<1>1. \A j \in DOMAIN opts : "isUseTLS" \in DOMAIN opts[j].sets =>
        /\ opts[j].kind = "client" /\ opts[j].sets.isUseTLS = TRUE
        /\ "addHeader" \notin DOMAIN opts[j].sets
  BY DEF IsOptionList, WithTLS, ClientOption
<1>2. Len(opts) \in Nat /\ DOMAIN opts = 1..Len(opts)
  BY DEF IsOptionList
<1> DEFINE Sets == {opts[j].sets : j \in {m \in 1..Len(opts) : opts[m].kind = "client"}}
<1>3. q \in Seq(Sets) /\ \E m \in 1..n : q[m] = opts[i].sets
  <2>1. /\ q \in Seq(Sets)
        /\ \A j \in 1..Len(opts) : opts[j].kind = "client" => \E m \in 1..n : q[m] = opts[j].sets
    BY <1>2, KindsAre
  <2> QED BY <1>1, <1>2, <2>1
<1>4. \A s \in Sets : "isUseTLS" \in DOMAIN s => s.isUseTLS = TRUE /\ "addHeader" \notin DOMAIN s
  BY <1>1, <1>2
<1> HIDE DEF q, Sets
<1>5. n \in Nat /\ DOMAIN q = 1..n /\ \A m \in 1..n : q[m] \in Sets
  BY <1>3
<1> HIDE DEF n, base
<1>6. PICK r : Applies("applied", r, q, base, n) /\ FoldLeft(Applied, base, q) = r[n]
  BY <1>5, AppliedInOrder
<1> DEFINE Ok(k) == /\ "isUseTLS" \in DOMAIN r[k]
                    /\ (\E m \in 1..k : "isUseTLS" \in DOMAIN q[m]) => r[k].isUseTLS = TRUE
<1>7. Ok(0)
  <2>1. "isUseTLS" \in DOMAIN base
    BY DEF base
  <2>2. r[0] = base
    BY <1>6 DEF Applies
  <2>3. 1..0 = {}
    OBVIOUS
  <2> QED BY <2>1, <2>2, <2>3
<1>8. ASSUME NEW k \in Nat, k + 1 <= n, Ok(k) PROVE Ok(k + 1)
  <2>0. k \in 0..(n - 1) /\ k + 1 \in 1..n
    BY <1>5, <1>8
  <2>1. r[k + 1] = Applied(r[k], q[k + 1])
    BY <1>6, <2>0 DEF Applies, Step
  <2>2. \A m \in 1..(k + 1) : m \in 1..k \/ m = k + 1
    BY <2>0
  <2>3. CASE "isUseTLS" \in DOMAIN q[k + 1]
    <3>1. "addHeader" \notin DOMAIN q[k + 1] /\ q[k + 1].isUseTLS = TRUE
      BY <1>4, <1>5, <2>0, <2>3
    <3>2. r[k + 1] = Override(r[k], q[k + 1])
      BY <2>1, <3>1 DEF Applied
    <3>3. "isUseTLS" \in DOMAIN r[k + 1] /\ r[k + 1].isUseTLS = TRUE
      BY <1>8, <2>3, <3>1, <3>2 DEF Override
    <3> QED BY <3>3
  <2>4. CASE "isUseTLS" \notin DOMAIN q[k + 1]
    <3>1. "isUseTLS" \in DOMAIN r[k + 1] /\ r[k + 1].isUseTLS = r[k].isUseTLS
      <4>1. CASE "addHeader" \in DOMAIN q[k + 1]
        BY <1>8, <2>1, <4>1 DEF Applied
      <4>2. CASE "addHeader" \notin DOMAIN q[k + 1]
        <5>1. r[k + 1] = Override(r[k], q[k + 1])
          BY <2>1, <4>2 DEF Applied
        <5> QED BY <1>8, <2>4, <5>1 DEF Override
      <4> QED BY <4>1, <4>2
    <3> QED BY <1>8, <2>2, <2>4, <3>1
  <2> QED BY <2>3, <2>4
<1> HIDE DEF Ok
<1>9. Ok(n)
  <2> DEFINE T == {k \in Nat : k <= n => Ok(k)}
  <2>1. T \subseteq Nat /\ 0 \in T
    BY <1>7
  <2>2. ASSUME NEW k \in T PROVE k + 1 \in T
    BY <1>5, <1>8, <2>2
  <2>3. T = Nat
    <3> HIDE DEF T
    <3> QED BY <2>1, <2>2, SetInduction
  <2> QED BY <1>5, <2>3
<1>10. r[n].isUseTLS = TRUE
  BY <1>3, <1>9 DEF Ok
<1>11. clientOptions(opts) = FoldLeft(Applied, base, q)
  BY DEF clientOptions, base, q
<1> QED BY <1>6, <1>10, <1>11

(* What DialContext makes of its options is a configuration.               *)
LEMMA DialConfigIs ==
  ASSUME NEW opts, IsOptionList(opts)
  PROVE  /\ IsTunnelConfig(DialConfig(opts))
         /\ (\E i \in DOMAIN opts : "isUseTLS" \in DOMAIN opts[i].sets) =>
              DialConfig(opts).ShouldUseTLS = TRUE
<1> DEFINE q == OfKind(opts, "grpc")
           Sets == {opts[i].sets : i \in {m \in 1..Len(opts) : opts[m].kind = "grpc"}}
<1>1. Len(opts) \in Nat /\ DOMAIN opts = 1..Len(opts)
  BY DEF IsOptionList
<1>2. q \in Seq(Sets)
  BY <1>1, KindsAre
<1>3. \A s \in Sets : "connectParams" \in DOMAIN s => s.connectParams = "caller's"
  BY <1>1 DEF IsOptionList
<1>4. DialConfig(opts).GRPCOptions = q /\ DialConfig(opts).ShouldUseTLS = clientOptions(opts).isUseTLS
  BY DEF DialConfig
<1> HIDE DEF q, Sets
<1>5. Len(q) \in Nat /\ DOMAIN q = 1..Len(q) /\ \A i \in DOMAIN q : q[i] \in Sets
  BY <1>2
<1>6. IsTunnelConfig(DialConfig(opts))
  BY <1>3, <1>4, <1>5 DEF IsTunnelConfig
<1> QED BY <1>4, <1>6, TLSIsHeard

-----------------------------------------------------------------------------
(* What a configuration comes to, in both packages.                        *)

\* LimitsInForce, of one handler that is meant to have configuration c.
(* Limits in force, of settings s that are meant to have configuration c.  *)
InForce(s, c) ==
  /\ s.ReadBufferSize > 0 /\ s.WriteBufferSize > 0
  /\ c.ShouldDisableReadLimit \/ s.ReadLimitBytes > 0
  /\ s.IdleTimeout > 0 => s.PingInterval \in 1..(s.IdleTimeout - 1)
  /\ \A f \in NumberFields : s[f] >= 0 /\ (s[f] = c[f] \/ (f \in Defaulted /\ c[f] = 0))

(* The two packages make the same settings of it.                          *)
LEMMA SameSettings ==
  ASSUME NEW c, IsBridgeConfig(c)
  PROVE  HandlerSettings(c) = BridgeSettings(c)
<1>1. DOMAIN c = DOMAIN NoBridgeConfig
  BY DEF IsBridgeConfig
<1>2. {"ReadBufferSize", "WriteBufferSize", "ReadLimitBytes"} \subseteq DOMAIN c
  BY <1>1 DEF NoBridgeConfig
<1> QED
  BY <1>2 DEF HandlerSettings, BridgeSettings, HandlerDefaults,
     getHandlerReadLimitBytes, getBridgeReadLimitBytes

(* The fields of the settings.                                             *)
LEMMA SettingsAre ==
  ASSUME NEW c, IsBridgeConfig(c)
  PROVE  LET s == BridgeSettings(c) IN
         /\ s.ReadBufferSize = Or(c.ReadBufferSize, DefaultBufferSize)
         /\ s.WriteBufferSize = Or(c.WriteBufferSize, DefaultBufferSize)
         /\ s.ReadLimitBytes = getBridgeReadLimitBytes(c)
         /\ \A f \in NumberFields \ {"ReadBufferSize", "WriteBufferSize", "ReadLimitBytes"} :
              s[f] = c[f]
<1>1. NumberFields \subseteq DOMAIN c
  BY DEF IsBridgeConfig, NoBridgeConfig, NumberFields
<1> QED
  BY <1>1 DEF BridgeSettings, NumberFields

(* An accepted configuration has its limits in force.                      *)
LEMMA AcceptedInForce ==
  ASSUME NEW c, IsBridgeConfig(c), ~GetBridgeConfigError(c)
  PROVE  InForce(BridgeSettings(c), c)
<1>1. \A f \in NumberFields : c[f] \in Int /\ c[f] >= 0
  BY DEF IsBridgeConfig, GetBridgeConfigError
<1>2. /\ c.ShouldDisableReadLimit => c.ReadLimitBytes = 0
      /\ c.IdleTimeout > 0 => c.PingInterval > 0 /\ c.PingInterval < c.IdleTimeout
  BY <1>1 DEF GetBridgeConfigError, NumberFields
<1>3. c.ShouldDisableReadLimit \in BOOLEAN
  BY DEF IsBridgeConfig
<1> DEFINE s == BridgeSettings(c)
<1>4. /\ s.ReadBufferSize > 0
      /\ s.ReadBufferSize = c.ReadBufferSize \/ c.ReadBufferSize = 0
  BY <1>1, SettingsAre DEF Or, DefaultBufferSize, NumberFields
<1>5. /\ s.WriteBufferSize > 0
      /\ s.WriteBufferSize = c.WriteBufferSize \/ c.WriteBufferSize = 0
  BY <1>1, SettingsAre DEF Or, DefaultBufferSize, NumberFields
<1>6. /\ c.ShouldDisableReadLimit \/ s.ReadLimitBytes > 0
      /\ s.ReadLimitBytes = c.ReadLimitBytes \/ c.ReadLimitBytes = 0
      /\ s.ReadLimitBytes >= 0
  BY <1>1, <1>2, <1>3, SettingsAre DEF Or, DefaultReadLimit, NumberFields, getBridgeReadLimitBytes
<1>7. /\ \A f \in NumberFields \ {"ReadBufferSize", "WriteBufferSize", "ReadLimitBytes"} :
           s[f] = c[f] /\ s[f] >= 0
      /\ s.IdleTimeout = c.IdleTimeout /\ s.PingInterval = c.PingInterval
  BY <1>1, SettingsAre DEF NumberFields
<1>8. s.IdleTimeout > 0 => s.PingInterval \in 1..(s.IdleTimeout - 1)
  BY <1>1, <1>2, <1>7 DEF NumberFields
<1>9. s.ReadBufferSize >= 0 /\ s.WriteBufferSize >= 0
  BY <1>1, SettingsAre DEF Or, DefaultBufferSize, NumberFields
<1> HIDE DEF s
<1>10. \A f \in NumberFields : s[f] >= 0 /\ (s[f] = c[f] \/ (f \in Defaulted /\ c[f] = 0))
  BY <1>4, <1>5, <1>6, <1>7, <1>9 DEF NumberFields, Defaulted
<1> QED
  BY <1>4, <1>5, <1>6, <1>8, <1>10 DEF InForce, s

(* The two packages refuse the same ones.                                  *)
LEMMA SameErrors ==
  ASSUME NEW c, IsBridgeConfig(c), NEW t \in Int, t >= 0
  PROVE  getHandlerConfigError(HandlerDefaults(c), t) <=> GetBridgeConfigError(c)
<1> DEFINE d == HandlerDefaults(c)
<1>1. NumberFields \subseteq DOMAIN c /\ "ShouldDisableReadLimit" \in DOMAIN c
  BY DEF IsBridgeConfig, NoBridgeConfig, NumberFields
<1>2. /\ d.ReadBufferSize = Or(c.ReadBufferSize, DefaultBufferSize)
      /\ d.WriteBufferSize = Or(c.WriteBufferSize, DefaultBufferSize)
      /\ \A f \in NumberFields \ {"ReadBufferSize", "WriteBufferSize"} : d[f] = c[f]
      /\ d.ShouldDisableReadLimit = c.ShouldDisableReadLimit
  BY <1>1 DEF HandlerDefaults, NumberFields
<1>3. \A f \in NumberFields : c[f] \in Int
  BY DEF IsBridgeConfig
<1>4. \A f \in NumberFields : d[f] < 0 <=> c[f] < 0
  <2>1. /\ d.ReadBufferSize < 0 <=> c.ReadBufferSize < 0
        /\ d.WriteBufferSize < 0 <=> c.WriteBufferSize < 0
    BY <1>2, <1>3 DEF Or, DefaultBufferSize, NumberFields
  <2> HIDE DEF d
  <2> QED BY <1>2, <2>1 DEF NumberFields
<1>5. d.ReadLimitBytes = c.ReadLimitBytes /\ d.IdleTimeout = c.IdleTimeout /\ d.PingInterval = c.PingInterval
  BY <1>2 DEF NumberFields
<1> HIDE DEF d
<1>6. getHandlerConfigError(d, t) <=> GetBridgeConfigError(c)
  BY <1>2, <1>4, <1>5 DEF getHandlerConfigError, GetBridgeConfigError
<1> QED BY <1>6 DEF d

-----------------------------------------------------------------------------
(* What a job comes to.                                                    *)

Tooling == {"BuildToolingHandler", "ListenAndServeTooling"}
ToolingSteps == {"inspecting", "reflecting", "checking health", "mounting", "mounting with health"}
PoolSteps == {"looking up", "storing"}
PoolJobs == Handlers \cup Clients

(* A handler: the error or the settings.                                   *)
HandlerProduct(j) ==
  IF j.does = "NewHandler" THEN NewHandler(j)
  ELSE IF j.does = "HandleBridgeMux" /\ j.path = "" THEN Failed("error")
  ELSE IF GetBridgeConfigError(MeantBy(j))
    THEN Failed(IF j.does = "Wrap" THEN "answers 500" ELSE "error")
    ELSE Serves(BridgeSettings(MeantBy(j)))

(* What a conn dials with: its configuration, the options that follow from *)
(* it, and a URL for the target unless that was none of its business.      *)
Configured(x, j) ==
  /\ x.config = TunnelOf(j) /\ x.options = Effective(DialOptions(TunnelOf(j)))
  /\ j.does \in {"BuildTunnelConn", "DialContext"} =>
       x.url \in buildTunnelTargetURL(j.target, TunnelOf(j))

(* A client: an error or a conn, which only in one case depends on what    *)
(* the caller's slice is when it dials.                                    *)
ClientProduct(x, j) ==
  \/ x = Failed("error")
  \/ /\ x.verdict = "dials" /\ x = [f \in DOMAIN x |-> x[f]] /\ "subprotocols" \in DOMAIN x
     /\ x.subprotocols = Now => j.does = "browser BuildTunnelConn"
     /\ Configured(x, j)

(* Tooling: an error, or a handler with the health service's server or     *)
(* without.                                                                *)
ToolingProduct(x) ==
  \/ x = Failed("error")
  \/ x.verdict = "serves tooling" /\ x.health \in BOOLEAN

(* Where a builder is says what it builds and what it has returned.        *)
Building(b) ==
  /\ pc[b] \in {"idle", "built"} \cup PoolSteps \cup ToolingSteps
  /\ pc[b] # "idle" => job[b] \in plan.jobs
  /\ pc[b] # "built" => product[b] = Failed("none")
  /\ pc[b] \in PoolSteps =>
       /\ job[b].does \in PoolJobs
       /\ job[b].does \in Handlers \ {"NewHandler"} =>
            HandlerProduct(job[b]) = Serves(BridgeSettings(MeantBy(job[b])))
  /\ pc[b] \in ToolingSteps => job[b].does \in Tooling
  /\ pc[b] = "built" =>
       \/ job[b].does \in Handlers /\ product[b] = HandlerProduct(job[b])
       \/ job[b].does \in Clients \cup BrowserClients /\ ClientProduct(product[b], job[b])
       \/ job[b].does \in Tooling /\ ToolingProduct(product[b])

(* The invariant that the properties of handlers and clients rest on.      *)
BuildInv ==
  /\ plan \in Plans
  /\ caller \in {0, 1}
  /\ DOMAIN pc = Builder /\ DOMAIN job = Builder /\ DOMAIN product = Builder
  /\ \A b \in Builder : Building(b)

(* What the code reads of a job.                                           *)
LEMMA JobTypes ==
  ASSUME NEW p \in Plans, NEW j \in p.jobs, j.does \in Handlers
  PROVE  /\ IsBridgeConfig(MeantBy(j))
         /\ j.does = "Wrap" => WrapConfig(j.opts) = MeantBy(j)
         /\ j.does # "Wrap" => j.config = MeantBy(j)
         /\ j.does = "NewHandler" => j.dialTimeout \in Int
<1>1. j.does = "Wrap" => Len(j.opts) \in Nat /\ DOMAIN j.opts = 1..Len(j.opts)
  BY SetupAssumption
<1>2. j.does = "Wrap" => WrapConfig(j.opts) = Meaning(j.opts)
  BY <1>1, WrapMeans
<1>3. IsBridgeConfig(MeantBy(j)) /\ (j.does = "NewHandler" => j.dialTimeout \in Int)
  BY SetupAssumption
<1> QED
  BY <1>2, <1>3 DEF MeantBy

(* A conn dials, with the subprotocols and the configuration it was given. *)
LEMMA ConnIs ==
  ASSUME NEW u, NEW t, NEW s, NEW j, s # Now \/ j.does = "browser BuildTunnelConn",
         j.does \in {"BuildTunnelConn", "DialContext"} =>
           u \in buildTunnelTargetURL(j.target, TunnelOf(j))
  PROVE  ClientProduct(Conn(u, t, TunnelOf(j), s), j)
<1> DEFINE x == Conn(u, t, TunnelOf(j), s)
<1>1. /\ x.verdict = "dials" /\ x = [f \in DOMAIN x |-> x[f]] /\ "subprotocols" \in DOMAIN x
      /\ x.subprotocols = s /\ x.config = TunnelOf(j) /\ x.url = u
      /\ x.options = Effective(DialOptions(TunnelOf(j)))
  BY DEF Conn
<1> HIDE DEF x
<1>2. Configured(x, j)
  BY <1>1 DEF Configured
<1> QED BY <1>1, <1>2 DEF ClientProduct, x

(* Every function that builds a conn returns one that was configured as    *)
(* its job says, or an error.                                              *)
LEMMA ClientsAre ==
  ASSUME caller \in {0, 1}, NEW j
  PROVE  /\ j.does \in {"BuildTunnelConn", "DialContext"} => ClientProduct(BuildTunnelConn(j), j)
         /\ j.does = "DialOptionWithConfig" => ClientProduct(DialOptionWithConfig(j), j)
         /\ j.does \in BrowserClients => ClientProduct(BuildBrowserConn(j), j)
<1> DEFINE c == TunnelOf(j)
<1>0. caller # Now
  BY DEF Now
<1>1. ASSUME NEW u, NEW t, j.does \in {"BuildTunnelConn", "DialContext"} =>
                              u \in buildTunnelTargetURL(j.target, c)
      PROVE  ClientProduct(Conn(u, t, c, caller), j)
  BY <1>0, <1>1, ConnIs
<1>2. ASSUME NEW u, NEW t, j.does = "browser BuildTunnelConn"
      PROVE  ClientProduct(Conn(u, t, c, Now), j)
  BY <1>2, ConnIs
<1>3. ClientProduct(Failed("error"), j)
  BY DEF ClientProduct
<1> HIDE DEF c
<1>4. j.does \in {"BuildTunnelConn", "DialContext"} => ClientProduct(BuildTunnelConn(j), j)
  <2> DEFINE U == buildTunnelTargetURL(j.target, c)
             u == CHOOSE u \in U : TRUE
  <2>1. U # {} => u \in U
    BY DEF U
  <2> HIDE DEF U
  <2>2. U # {} => \A t : ClientProduct(Conn(u, t, c, caller), j)
    <3> HIDE DEF u
    <3> QED BY <1>1, <2>1 DEF U
  <2>3. \/ BuildTunnelConn(j) = Failed("error")
        \/ U # {} /\ BuildTunnelConn(j) = Conn(u, buildTunnelGRPCDialTarget(j.target, u), c, caller)
    BY DEF BuildTunnelConn, U, c
  <2> QED BY <1>3, <2>2, <2>3
<1>5. j.does = "DialOptionWithConfig" => ClientProduct(DialOptionWithConfig(j), j)
  <2>1. j.does = "DialOptionWithConfig" =>
          DialOptionWithConfig(j) = Conn(j.target, j.target, c, caller)
    BY DEF DialOptionWithConfig, c, TunnelOf
  <2> QED BY <1>1, <2>1
<1>6. j.does \in BrowserClients => ClientProduct(BuildBrowserConn(j), j)
  <2> DEFINE u == CHOOSE u \in buildBrowserTargetURL(j.target, Page) : TRUE
             t == buildTunnelGRPCDialTarget(j.target, u)
  <2>1. BuildBrowserConn(j) \in
          {Failed("error"), Conn(u, t, c, IF j.does = "browser DialContext" THEN caller ELSE Now)}
    BY DEF BuildBrowserConn, c
  <2> HIDE DEF u, t
  <2> QED BY <1>1, <1>2, <1>3, <2>1 DEF BrowserClients
<1> QED BY <1>4, <1>5, <1>6

(* What is returned with a pool.                                           *)
LEMMA ProductIs ==
  ASSUME BuildInv, NEW b \in Builder, pc[b] \in PoolSteps
  PROVE  LET j == job[b] IN
         \/ j.does \in Handlers /\ Product(j) = HandlerProduct(j)
         \/ j.does \in Clients /\ ClientProduct(Product(j), j)
<1> DEFINE j == job[b]
<1>0. Building(b) /\ plan \in Plans
  BY DEF BuildInv
<1>1. j \in plan.jobs /\ j.does \in PoolJobs
  BY <1>0 DEF Building, PoolSteps
<1>2. j.does \in Handlers \ {"NewHandler"} => HandlerProduct(j) = Serves(BridgeSettings(MeantBy(j)))
  BY <1>0 DEF Building
<1>3. CASE j.does = "Wrap"
  <2>1. Product(j) = Serves(BridgeSettings(WrapConfig(j.opts)))
    BY <1>3 DEF Product
  <2> QED BY <1>0, <1>1, <1>2, <1>3, <2>1, JobTypes DEF Handlers
<1>4. CASE j.does \in {"BuildBridgeHandler", "HandleBridgeMux"}
  <2>1. Product(j) = Serves(BridgeSettings(j.config))
    BY <1>4 DEF Product
  <2>2. j.config = MeantBy(j)
    BY <1>4 DEF MeantBy
  <2> QED BY <1>2, <1>4, <2>1, <2>2 DEF Handlers
<1>5. CASE j.does = "NewHandler"
  BY <1>5 DEF Product, HandlerProduct, Handlers
<1>6. CASE j.does = "DialOptionWithConfig"
  <2>1. Product(j) = DialOptionWithConfig(j)
    BY <1>6 DEF Product
  <2> QED BY <1>6, <2>1, ClientsAre DEF BuildInv, Clients
<1>7. CASE j.does \in {"BuildTunnelConn", "DialContext"}
  <2>1. Product(j) = BuildTunnelConn(j)
    BY <1>7 DEF Product
  <2> QED BY <1>7, <2>1, ClientsAre DEF BuildInv, Clients
<1> QED
  BY <1>1, <1>3, <1>4, <1>5, <1>6, <1>7 DEF PoolJobs, Handlers, Clients

(* Nothing is built at first.                                              *)
LEMMA BuildInit == Init => BuildInv
BY DEF Init, BuildInv, Building, PoolSteps, ToolingSteps

(* Only one builder moves.                                                 *)
OnlyMoves(b) ==
  /\ UNCHANGED plan /\ caller' \in {0, 1}
  /\ DOMAIN pc' = Builder /\ DOMAIN job' = Builder /\ DOMAIN product' = Builder
  /\ \A x \in Builder \ {b} : pc'[x] = pc[x] /\ job'[x] = job[x] /\ product'[x] = product[x]

(* A step of one builder says nothing of the others.                       *)
LEMMA OthersBuild ==
  ASSUME BuildInv, NEW b \in Builder, OnlyMoves(b), Building(b)'
  PROVE  BuildInv'
<1>1. \A x \in Builder \ {b} : Building(x)'
  BY DEF BuildInv, OnlyMoves, Building
<1> QED BY <1>1 DEF BuildInv, OnlyMoves

(* A builder that begins: what it returns at once, or where it goes.       *)
LEMMA BeginBuilds ==
  ASSUME BuildInv, NEW b \in Builder, NEW j \in plan.jobs, BeginJob(b, j)
  PROVE  BuildInv'
<1>0. /\ DOMAIN pc = Builder /\ DOMAIN job = Builder /\ DOMAIN product = Builder /\ plan \in Plans
      /\ product[b] = Failed("none") \/ pc[b] # "idle"
  BY DEF BuildInv, Building
<1>1. /\ pc[b] = "idle" /\ job' = [job EXCEPT ![b] = j] /\ UNCHANGED <<plan, caller>>
      /\ product[b] = Failed("none")
  BY <1>0 DEF BeginJob, BeginBridgeHandler, BeginNewHandler, BeginClient, BuildBrowserClient,
     BeginTooling, Begin
<1>2. ASSUME NEW to, Goto(b, "idle", to), UNCHANGED product,
             \/ /\ to \in PoolSteps /\ j.does \in PoolJobs
                /\ j.does \in Handlers \ {"NewHandler"} =>
                     HandlerProduct(j) = Serves(BridgeSettings(MeantBy(j)))
             \/ to \in ToolingSteps /\ j.does \in Tooling
      PROVE  BuildInv'
  <2>1. pc' = [pc EXCEPT ![b] = to] /\ product' = product
    BY <1>2 DEF Goto
  <2>2. OnlyMoves(b)
    BY <1>0, <1>1, <2>1 DEF OnlyMoves, BuildInv
  <2>3. pc'[b] = to /\ job'[b] = j /\ product'[b] = Failed("none") /\ plan' = plan
    BY <1>0, <1>1, <2>1
  <2>4. Building(b)'
    BY <1>2, <2>3 DEF Building, PoolSteps, ToolingSteps
  <2> QED BY <2>2, <2>4, OthersBuild
<1>3. ASSUME NEW x, Return(b, "idle", x),
             \/ j.does \in Handlers /\ x = HandlerProduct(j)
             \/ j.does \in Clients \cup BrowserClients /\ ClientProduct(x, j)
             \/ j.does \in Tooling /\ ToolingProduct(x)
      PROVE  BuildInv'
  <2>1. pc' = [pc EXCEPT ![b] = "built"] /\ product' = [product EXCEPT ![b] = x]
    BY <1>3 DEF Return, Goto
  <2>2. OnlyMoves(b)
    BY <1>0, <1>1, <2>1 DEF OnlyMoves, BuildInv
  <2>3. pc'[b] = "built" /\ job'[b] = j /\ product'[b] = x /\ plan' = plan
    BY <1>0, <1>1, <2>1
  <2>4. Building(b)'
    BY <1>3, <2>3 DEF Building, PoolSteps, ToolingSteps
  <2> QED BY <2>2, <2>4, OthersBuild
<1>4. CASE j.does \in {"BuildBridgeHandler", "HandleBridgeMux", "Wrap"} /\ BeginBridgeHandler(b, j)
  <2> DEFINE c == IF j.does = "Wrap" THEN WrapConfig(j.opts) ELSE j.config
  <2>0. j.does \in Handlers \ {"NewHandler"}
    BY <1>4 DEF Handlers
  <2>1. c = MeantBy(j)
    BY <1>0, <2>0, JobTypes
  <2>2. IF j.does = "HandleBridgeMux" /\ j.path = "" THEN Return(b, "idle", Failed("error"))
        ELSE IF GetBridgeConfigError(c)
          THEN Return(b, "idle", Failed(IF j.does = "Wrap" THEN "answers 500" ELSE "error"))
          ELSE Goto(b, "idle", "looking up") /\ UNCHANGED product
    BY <1>4 DEF BeginBridgeHandler, Begin
  <2> HIDE DEF c
  <2>3. CASE j.does = "HandleBridgeMux" /\ j.path = ""
    <3>1. HandlerProduct(j) = Failed("error")
      BY <2>3 DEF HandlerProduct
    <3>2. Return(b, "idle", Failed("error"))
      BY <2>2, <2>3
    <3> QED BY <1>3, <2>0, <3>1, <3>2
  <2>4. CASE ~(j.does = "HandleBridgeMux" /\ j.path = "") /\ GetBridgeConfigError(c)
    <3> DEFINE x == Failed(IF j.does = "Wrap" THEN "answers 500" ELSE "error")
    <3>1. HandlerProduct(j) = x
      BY <1>4, <2>1, <2>4 DEF HandlerProduct
    <3>2. Return(b, "idle", x)
      BY <2>2, <2>4
    <3> HIDE DEF x
    <3> QED BY <1>3, <2>0, <3>1, <3>2
  <2>5. CASE ~(j.does = "HandleBridgeMux" /\ j.path = "") /\ ~GetBridgeConfigError(c)
    <3>1. HandlerProduct(j) = Serves(BridgeSettings(MeantBy(j)))
      BY <1>4, <2>1, <2>5 DEF HandlerProduct
    <3>2. Goto(b, "idle", "looking up") /\ UNCHANGED product
      BY <2>2, <2>5
    <3>3. "looking up" \in PoolSteps /\ j.does \in PoolJobs
      BY <2>0 DEF PoolSteps, PoolJobs
    <3> QED BY <1>2, <3>1, <3>2, <3>3
  <2> QED BY <2>3, <2>4, <2>5
<1>5. CASE j.does = "NewHandler" /\ BeginNewHandler(b, j)
  <2>1. Goto(b, "idle", "looking up") /\ UNCHANGED product
    BY <1>5 DEF BeginNewHandler, Begin
  <2>2. "looking up" \in PoolSteps /\ j.does \in PoolJobs
    BY <1>5 DEF PoolSteps, PoolJobs, Handlers
  <2> QED BY <1>2, <1>5, <2>1, <2>2
<1>6. CASE j.does \in Clients /\ BeginClient(b, j)
  <2>1. \/ Return(b, "idle", Failed("error"))
        \/ Goto(b, "idle", "looking up") /\ UNCHANGED product
    BY <1>6 DEF BeginClient, Begin
  <2>2. "looking up" \in PoolSteps /\ j.does \in PoolJobs /\ j.does \notin Handlers
    BY <1>6 DEF PoolSteps, PoolJobs, Handlers, Clients
  <2>3. ClientProduct(Failed("error"), j)
    BY DEF ClientProduct
  <2> QED BY <1>2, <1>3, <1>6, <2>1, <2>2, <2>3
<1>7. CASE j.does \in BrowserClients /\ BuildBrowserClient(b, j)
  <2>1. Return(b, "idle", BuildBrowserConn(j))
    BY <1>7 DEF BuildBrowserClient, Begin
  <2>2. ClientProduct(BuildBrowserConn(j), j)
    BY <1>7, ClientsAre DEF BuildInv
  <2> QED BY <1>3, <1>7, <2>1, <2>2
<1>8. CASE j.does \in {"BuildToolingHandler", "ListenAndServeTooling"} /\ BeginTooling(b, j)
  <2>1. \/ Return(b, "idle", Failed("error"))
        \/ Goto(b, "idle", "inspecting") /\ UNCHANGED product
    BY <1>8 DEF BeginTooling, Begin
  <2>2. "inspecting" \in ToolingSteps /\ j.does \in Tooling
    BY <1>8 DEF ToolingSteps, Tooling
  <2>3. ToolingProduct(Failed("error"))
    BY DEF ToolingProduct
  <2> QED BY <1>2, <1>3, <2>1, <2>2, <2>3
<1> QED
  BY <1>4, <1>5, <1>6, <1>7, <1>8 DEF BeginJob

(* A builder gets its pool and returns, or the mux ends the process.       *)
LEMMA GivenBuilds ==
  ASSUME BuildInv, NEW b \in Builder, pc[b] \in PoolSteps, NEW p, Given(b, p)
  PROVE  BuildInv'
<1>0. /\ DOMAIN pc = Builder /\ DOMAIN job = Builder /\ DOMAIN product = Builder
      /\ UNCHANGED <<plan, job, caller>> /\ Building(b)
  BY DEF BuildInv, Given
<1>1. CASE UNCHANGED <<pc, product>>
  BY <1>0, <1>1 DEF BuildInv, Building
<1>2. CASE Return(b, pc[b], Product(job[b]))
  <2>1. pc' = [pc EXCEPT ![b] = "built"] /\ product' = [product EXCEPT ![b] = Product(job[b])]
    BY <1>2 DEF Return, Goto
  <2>2. OnlyMoves(b)
    BY <1>0, <2>1 DEF OnlyMoves, BuildInv
  <2>3. pc'[b] = "built" /\ job'[b] = job[b] /\ product'[b] = Product(job[b]) /\ plan' = plan
    BY <1>0, <2>1
  <2>4. job[b] \in plan.jobs
    BY <1>0 DEF Building, PoolSteps
  <2>5. \/ job[b].does \in Handlers /\ Product(job[b]) = HandlerProduct(job[b])
        \/ job[b].does \in Clients /\ ClientProduct(Product(job[b]), job[b])
    BY ProductIs
  <2>6. Building(b)'
    BY <2>3, <2>4, <2>5 DEF Building, PoolSteps, ToolingSteps
  <2> QED BY <2>2, <2>6, OthersBuild
<1> QED
  BY <1>1, <1>2 DEF Given, Die

(* A builder goes on to another step of the same kind.                     *)
LEMMA GotoBuilds ==
  ASSUME BuildInv, NEW b \in Builder, NEW from, NEW to, Goto(b, from, to),
         UNCHANGED <<plan, job, product, caller>>,
         {from, to} \subseteq PoolSteps \/ {from, to} \subseteq ToolingSteps
  PROVE  BuildInv'
<1>0. /\ DOMAIN pc = Builder /\ DOMAIN job = Builder /\ DOMAIN product = Builder /\ Building(b)
  BY DEF BuildInv
<1>1. pc[b] = from /\ pc' = [pc EXCEPT ![b] = to]
  BY DEF Goto
<1>2. OnlyMoves(b)
  BY <1>0, <1>1 DEF OnlyMoves, BuildInv
<1>3. pc'[b] = to
  BY <1>0, <1>1
<1>4. Building(b)'
  BY <1>0, <1>1, <1>3 DEF Building, PoolSteps, ToolingSteps
<1> QED BY <1>2, <1>4, OthersBuild

(* The process ends: nobody moves.                                         *)
LEMMA NobodyMoves ==
  ASSUME BuildInv, UNCHANGED <<plan, pc, job, product>>, caller' \in {0, 1}
  PROVE  BuildInv'
BY DEF BuildInv, Building

(* Every step keeps the invariant.                                         *)
LEMMA BuildStep == BuildInv /\ [Next]_vars => BuildInv'
<1> SUFFICES ASSUME BuildInv, [Next]_vars PROVE BuildInv'
  OBVIOUS
<1>1. ASSUME NEW b \in Builder, NEW j \in plan.jobs, BeginJob(b, j) PROVE BuildInv'
  BY <1>1, BeginBuilds
<1>2. ASSUME NEW b \in Builder, LoadPool(b) PROVE BuildInv'
  <2>1. pc[b] \in PoolSteps
    BY <1>2 DEF LoadPool, PoolSteps
  <2>2. ASSUME NEW p, Given(b, p) PROVE BuildInv'
    BY <2>1, <2>2, GivenBuilds
  <2>3. CASE Goto(b, "looking up", "storing") /\ UNCHANGED <<plan, job, product, caller>>
    BY <2>3, GotoBuilds DEF PoolSteps
  <2> QED BY <1>2, <2>2, <2>3 DEF LoadPool
<1>3. ASSUME NEW b \in Builder, StorePool(b) PROVE BuildInv'
  <2>1. pc[b] \in PoolSteps
    BY <1>3 DEF StorePool, PoolSteps
  <2> QED BY <1>3, <2>1, GivenBuilds DEF StorePool
<1>4. ASSUME NEW b \in Builder, Inspect(b) PROVE BuildInv'
  <2>1. Goto(b, "inspecting", "reflecting") /\ UNCHANGED <<plan, job, product, caller>>
    BY <1>4 DEF Inspect
  <2> QED BY <2>1, GotoBuilds DEF ToolingSteps
<1>5. ASSUME NEW b \in Builder, NEW from \in ToolingSteps, NEW to \in ToolingSteps,
             Skip(b, from, to) \/ \E new : Register(b, from, to, new)
      PROVE  BuildInv'
  <2>1. CASE Goto(b, from, to) /\ UNCHANGED <<plan, job, product, caller>>
    BY <2>1, GotoBuilds
  <2>2. CASE UNCHANGED <<plan, pc, job, product, caller>>
    BY <2>2, NobodyMoves DEF BuildInv
  <2> QED BY <1>5, <2>1, <2>2 DEF Skip, Register, Die
<1>6. ASSUME NEW b \in Builder, Reflect(b) PROVE BuildInv'
  <2>1. "reflecting" \in ToolingSteps /\ "checking health" \in ToolingSteps
    BY DEF ToolingSteps
  <2> QED BY <1>5, <1>6, <2>1 DEF Reflect
<1>7. ASSUME NEW b \in Builder, CheckHealth(b) PROVE BuildInv'
  <2>1. /\ "checking health" \in ToolingSteps /\ "mounting" \in ToolingSteps
        /\ "mounting with health" \in ToolingSteps
    BY DEF ToolingSteps
  <2> QED BY <1>5, <1>7, <2>1 DEF CheckHealth
<1>8. ASSUME NEW b \in Builder, Mount(b) PROVE BuildInv'
  <2>0. /\ DOMAIN pc = Builder /\ DOMAIN job = Builder /\ DOMAIN product = Builder
        /\ UNCHANGED <<plan, job, caller>> /\ Building(b) /\ pc[b] \in ToolingSteps
    BY <1>8 DEF BuildInv, Mount, ToolingSteps
  <2>1. CASE UNCHANGED <<pc, product>>
    BY <2>0, <2>1, NobodyMoves DEF BuildInv
  <2>2. ASSUME NEW h \in BOOLEAN, Return(b, pc[b], [verdict |-> "serves tooling", health |-> h])
        PROVE  BuildInv'
    <3> DEFINE x == [verdict |-> "serves tooling", health |-> h]
    <3>1. pc' = [pc EXCEPT ![b] = "built"] /\ product' = [product EXCEPT ![b] = x]
      BY <2>2 DEF Return, Goto
    <3>2. ToolingProduct(x)
      BY DEF ToolingProduct
    <3> HIDE DEF x
    <3>3. OnlyMoves(b)
      BY <2>0, <3>1 DEF OnlyMoves, BuildInv
    <3>4. pc'[b] = "built" /\ job'[b] = job[b] /\ product'[b] = x /\ plan' = plan
      BY <2>0, <3>1
    <3>5. job[b] \in plan.jobs /\ job[b].does \in Tooling
      BY <2>0 DEF Building, ToolingSteps
    <3>6. Building(b)'
      BY <3>2, <3>4, <3>5 DEF Building, PoolSteps, ToolingSteps
    <3> QED BY <3>3, <3>6, OthersBuild
  <2>3. Return(b, pc[b], [verdict |-> "serves tooling", health |-> pc[b] = "mounting with health"])
          => BuildInv'
    <3>1. (pc[b] = "mounting with health") \in BOOLEAN
      OBVIOUS
    <3> QED BY <2>2, <3>1
  <2> QED BY <1>8, <2>1, <2>3 DEF Mount, Die
<1>9. CASE CallerChanges
  BY <1>9, NobodyMoves DEF CallerChanges
<1>10. CASE UNCHANGED vars
  BY <1>10, NobodyMoves DEF vars, BuildInv
<1> QED
  BY <1>1, <1>2, <1>3, <1>4, <1>6, <1>7, <1>8, <1>9, <1>10 DEF Next, BuildInv

(* In every reachable state, then.                                         *)
LEMMA BuildHolds == Spec => []BuildInv
BY BuildInit, BuildStep, PTL DEF Spec

-----------------------------------------------------------------------------
(* pkg/bridge's handler refuses what the others refuse, or for a reason of *)
(* its own.                                                                *)
LEMMA NewHandlerIs ==
  ASSUME NEW p \in Plans, NEW j \in p.jobs, j.does = "NewHandler"
  PROVE  /\ NewHandler(j).verdict = "serves" =>
              /\ ~GetBridgeConfigError(MeantBy(j))
              /\ NewHandler(j) = Serves(BridgeSettings(MeantBy(j)))
         /\ Sound(j) /\ ~GetBridgeConfigError(MeantBy(j)) => NewHandler(j).verdict = "serves"
<1>1. j.config = MeantBy(j) /\ IsBridgeConfig(j.config) /\ j.dialTimeout \in Int
  BY JobTypes DEF Handlers
<1>2. HandlerSettings(j.config) = BridgeSettings(j.config)
  BY <1>1, SameSettings
<1>3. j.dialTimeout >= 0 =>
        (getHandlerConfigError(HandlerDefaults(j.config), j.dialTimeout) <=> GetBridgeConfigError(j.config))
  BY <1>1, SameErrors
<1>4. j.dialTimeout < 0 => getHandlerConfigError(HandlerDefaults(j.config), j.dialTimeout)
  BY DEF getHandlerConfigError
<1>5. Failed("answers 500").verdict # "serves" /\ \A s : Serves(s).verdict = "serves"
  BY DEF Failed, Serves
<1>6. ASSUME NewHandler(j).verdict = "serves"
      PROVE  /\ ~GetBridgeConfigError(MeantBy(j))
             /\ NewHandler(j) = Serves(BridgeSettings(MeantBy(j)))
  <2>1. /\ ~getHandlerConfigError(HandlerDefaults(j.config), j.dialTimeout)
        /\ NewHandler(j) = Serves(HandlerSettings(j.config))
    BY <1>5, <1>6 DEF NewHandler
  <2> QED BY <1>1, <1>2, <1>3, <1>4, <2>1
<1>7. ASSUME Sound(j), ~GetBridgeConfigError(MeantBy(j)) PROVE NewHandler(j).verdict = "serves"
  <2>1. /\ j.dialTimeout >= 0 /\ parseBridgeTargetURL(j.target)
        /\ ~getBridgeBackendTransportPolicyError(j.requireLoopback, j.target)
    BY <1>7 DEF Sound
  <2> QED BY <1>1, <1>3, <1>5, <1>7, <2>1 DEF NewHandler
<1> QED BY <1>6, <1>7

(* A handler that serves was accepted and has the settings of what it was  *)
(* meant to have.                                                          *)
LEMMA ServesMeant ==
  ASSUME BuildInv, NEW b \in Builder, pc[b] = "built", Is(b, Handlers)
  PROVE  /\ IsBridgeConfig(Meant(b))
         /\ b \in At("serves") =>
              /\ ~GetBridgeConfigError(Meant(b))
              /\ product[b] = Serves(BridgeSettings(Meant(b)))
         /\ Sound(job[b]) /\ ~GetBridgeConfigError(Meant(b)) => b \in At("serves")
<1> DEFINE j == job[b]
<1>1. /\ plan \in Plans /\ j \in plan.jobs /\ j.does \in Handlers /\ product[b] = HandlerProduct(j)
  BY DEF BuildInv, Building, Is, Handlers, Clients, BrowserClients, Tooling
<1>2. IsBridgeConfig(MeantBy(j))
  BY <1>1, JobTypes
<1>3. \A s : Serves(s).verdict = "serves"
  BY DEF Serves
<1>4. \A v : Failed(v).verdict = v
  BY DEF Failed
<1>5. CASE j.does = "NewHandler"
  <2>1. product[b] = NewHandler(j)
    BY <1>1, <1>5 DEF HandlerProduct
  <2> QED BY <1>1, <1>2, <1>5, <2>1, NewHandlerIs DEF Meant, At
<1>6. CASE j.does # "NewHandler"
  <2>1. CASE j.does = "HandleBridgeMux" /\ j.path = ""
    <3>1. product[b].verdict = "error" /\ ~Sound(j)
      BY <1>1, <1>4, <2>1 DEF HandlerProduct, Sound
    <3> QED BY <1>2, <3>1 DEF Meant, At
  <2>2. CASE GetBridgeConfigError(MeantBy(j)) /\ ~(j.does = "HandleBridgeMux" /\ j.path = "")
    <3>1. product[b].verdict \in {"error", "answers 500"}
      BY <1>1, <1>4, <1>6, <2>2 DEF HandlerProduct
    <3> QED BY <1>2, <2>2, <3>1 DEF Meant, At
  <2>3. CASE ~GetBridgeConfigError(MeantBy(j)) /\ ~(j.does = "HandleBridgeMux" /\ j.path = "")
    <3>1. product[b] = Serves(BridgeSettings(MeantBy(j)))
      BY <1>1, <1>6, <2>3 DEF HandlerProduct
    <3> QED BY <1>2, <1>3, <2>3, <3>1 DEF Meant, At
  <2> QED BY <2>1, <2>2, <2>3
<1> QED BY <1>5, <1>6

(* Who serves, and who dials.                                              *)
LEMMA WhoReturns ==
  ASSUME BuildInv, NEW b \in Builder
  PROVE  /\ b \in At("serves") => pc[b] = "built" /\ Is(b, Handlers)
         /\ b \in At("dials") => /\ pc[b] = "built" /\ Is(b, Clients \cup BrowserClients)
                                 /\ ClientProduct(product[b], job[b])
         /\ b \in At("serves tooling") => pc[b] = "built" /\ Is(b, Tooling)
<1>1. \A v : Failed(v).verdict = v
  BY DEF Failed
<1>2. Building(b)
  BY DEF BuildInv
<1>3. \A x, j : ClientProduct(x, j) => x.verdict \in {"error", "dials"}
  BY <1>1 DEF ClientProduct
<1>4. \A x : ToolingProduct(x) => x.verdict \in {"error", "serves tooling"}
  BY <1>1 DEF ToolingProduct
<1>5. pc[b] # "built" => product[b].verdict = "none"
  BY <1>1, <1>2 DEF Building
<1>6. \A j : HandlerProduct(j).verdict \in {"error", "answers 500", "serves"}
  <2>1. \A s : Serves(s).verdict = "serves"
    BY DEF Serves
  <2>2. \A j : NewHandler(j).verdict \in {"answers 500", "serves"}
    BY <1>1, <2>1 DEF NewHandler
  <2> QED BY <1>1, <2>1, <2>2 DEF HandlerProduct
<1> QED
  BY <1>2, <1>3, <1>4, <1>5, <1>6 DEF Building, At, Is

(* Handlers that serve have their limits in force, whichever way they were *)
(* configured.                                                             *)
THEOREM LimitsHold == Spec => []LimitsInForce
<1>1. BuildInv => LimitsInForce
  <2> SUFFICES ASSUME BuildInv, NEW b \in At("serves")
               PROVE  InForce(product[b].settings, Meant(b))
    BY DEF LimitsInForce, InForce
  <2>1. b \in Builder
    BY DEF At
  <2>2. pc[b] = "built" /\ Is(b, Handlers)
    BY <2>1, WhoReturns
  <2>3. /\ IsBridgeConfig(Meant(b)) /\ ~GetBridgeConfigError(Meant(b))
        /\ product[b] = Serves(BridgeSettings(Meant(b)))
    BY <2>1, <2>2, ServesMeant
  <2>4. \A s : Serves(s).settings = s
    BY DEF Serves
  <2> QED BY <2>3, <2>4, AcceptedInForce
<1> QED BY <1>1, BuildHolds, PTL

(* The ways to configure a handler agree.                                  *)
THEOREM WaysAgree == Spec => []HandlersAgree
<1>1. BuildInv => HandlersAgree
  <2> SUFFICES ASSUME BuildInv, NEW a \in Builder, NEW b \in Builder,
                      pc[a] = "built", pc[b] = "built", Is(a, Handlers), Is(b, Handlers),
                      Meant(a) = Meant(b), Sound(job[a]), Sound(job[b])
               PROVE  /\ a \in At("serves") <=> b \in At("serves")
                      /\ a \in At("serves") => product[a] = product[b]
    BY DEF HandlersAgree
  <2>1. /\ a \in At("serves") <=> ~GetBridgeConfigError(Meant(a))
        /\ a \in At("serves") => product[a] = Serves(BridgeSettings(Meant(a)))
    BY ServesMeant
  <2>2. /\ b \in At("serves") <=> ~GetBridgeConfigError(Meant(b))
        /\ b \in At("serves") => product[b] = Serves(BridgeSettings(Meant(b)))
    BY ServesMeant
  <2> QED BY <2>1, <2>2
<1> QED BY <1>1, BuildHolds, PTL

(* What was returned does not change: nobody who has returned moves.       *)
LEMMA BuiltStays ==
  ASSUME BuildInv, Next, NEW b \in Builder, pc[b] = "built"
  PROVE  product'[b] = product[b]
<1>0. b \in DOMAIN product
  BY DEF BuildInv
<1>1. ASSUME NEW a, NEW from, NEW x, Return(a, from, x), from # "built"
      PROVE  product'[b] = product[b]
  BY <1>0, <1>1 DEF Return, Goto
<1>2. ASSUME NEW a \in Builder, NEW j \in plan.jobs, BeginJob(a, j) PROVE product'[b] = product[b]
  <2>1. \/ \E x : Return(a, "idle", x)
        \/ UNCHANGED product
    BY <1>2 DEF BeginJob, BeginBridgeHandler, BeginNewHandler, BeginClient, BuildBrowserClient,
       BeginTooling, Begin
  <2> QED BY <1>1, <2>1
<1>3. ASSUME NEW a \in Builder, LoadPool(a) \/ StorePool(a) PROVE product'[b] = product[b]
  <2>1. pc[a] # "built" /\ ((\E p : Given(a, p)) \/ UNCHANGED product)
    BY <1>3 DEF LoadPool, StorePool
  <2>2. (\E x : Return(a, pc[a], x)) \/ UNCHANGED product
    BY <2>1 DEF Given, Die
  <2> QED BY <1>1, <2>1, <2>2
<1>4. ASSUME NEW a \in Builder, Inspect(a) \/ Reflect(a) \/ CheckHealth(a) PROVE UNCHANGED product
  BY <1>4 DEF Inspect, Reflect, CheckHealth, Register, Skip, Die
<1>5. ASSUME NEW a \in Builder, Mount(a) PROVE product'[b] = product[b]
  <2>1. pc[a] # "built" /\ ((\E x : Return(a, pc[a], x)) \/ UNCHANGED product)
    BY <1>5 DEF Mount, Die
  <2> QED BY <1>1, <2>1
<1>6. CASE CallerChanges
  BY <1>6 DEF CallerChanges
<1> QED BY <1>2, <1>3, <1>4, <1>5, <1>6 DEF Next

(* What a conn dials with does not change once it has been returned.  The  *)
(* conns of the browser build's BuildTunnelConn, whose caller can still    *)
(* change the subprotocols, are the exception RedialsAlike makes.          *)
THEOREM AlwaysAlike == Spec => RedialsAlike
<1> DEFINE Alike == \A b \in At("dials") : ~Is(b, {"browser BuildTunnelConn"}) =>
                      b \in At("dials")' /\ DialsWith(b)' = DialsWith(b)
<1>1. BuildInv /\ BuildInv' /\ [Next]_vars => [Alike]_vars
  <2> SUFFICES ASSUME BuildInv, BuildInv', Next, NEW b \in At("dials"),
                      ~Is(b, {"browser BuildTunnelConn"})
               PROVE  b \in At("dials")' /\ DialsWith(b)' = DialsWith(b)
    OBVIOUS
  <2>1. b \in Builder
    BY DEF At
  <2>2. pc[b] = "built" /\ ClientProduct(product[b], job[b]) /\ product[b].verdict = "dials"
    BY <2>1, WhoReturns DEF At
  <2>3. product'[b] = product[b]
    BY <2>1, <2>2, BuiltStays
  <2>4. Failed("error").verdict = "error"
    BY DEF Failed
  <2>5. /\ product[b] = [f \in DOMAIN product[b] |-> product[b][f]]
        /\ "subprotocols" \in DOMAIN product[b]
        /\ product[b].subprotocols = Now => job[b].does = "browser BuildTunnelConn"
    BY <2>2, <2>4 DEF ClientProduct
  <2>6. product[b].subprotocols # Now
    BY <2>5 DEF Is
  <2>7. ASSUME NEW x, NEW c, x.subprotocols # Now, x = [f \in DOMAIN x |-> x[f]]
        PROVE  [x EXCEPT !.subprotocols = IF @ = Now THEN c ELSE @] = x
    BY <2>7
  <2>8. DialsWith(b)' = DialsWith(b)
    BY <2>3, <2>5, <2>6, <2>7 DEF DialsWith
  <2> QED BY <2>1, <2>2, <2>3, <2>8 DEF At
<1>2. Spec => [][Alike]_vars
  BY <1>1, BuildHolds, PTL DEF Spec
<1> QED BY <1>2 DEF RedialsAlike

(* What ParseTunnelTargetURL returns is a URL with a host, which it would  *)
(* return for itself; and wss:// where TLS was asked for, unless the       *)
(* target says ws:// itself.                                               *)
LEMMA ParsedURL ==
  ASSUME NEW t, NEW tls, NEW u \in ParseTunnelTargetURL(t, tls)
  PROVE  /\ u.host # "" /\ ParseTunnelTargetURL(u, FALSE) = {u}
         /\ tls = TRUE => u.scheme = "wss" \/ t.scheme = "ws"
<1> DEFINE scheme == IF t.scheme # "" THEN t.scheme ELSE IF tls THEN "wss" ELSE "ws"
           host == IF t.scheme = "" /\ t.host = "port" THEN "localhost" ELSE t.host
<1>1. t.scheme \in {""} \cup Schemes /\ t.host # "" /\ u = URL(scheme, host, t.path)
  BY DEF ParseTunnelTargetURL
<1>2. scheme \in Schemes /\ host # ""
  BY <1>1 DEF Schemes
<1>3. tls = TRUE => scheme = "wss" \/ t.scheme = "ws"
  BY <1>1 DEF Schemes
<1> HIDE DEF scheme, host
<1>4. u.scheme = scheme /\ u.host = host /\ u.path = t.path /\ u.parses = TRUE
  BY <1>1 DEF URL
<1>5. ParseTunnelTargetURL(u, FALSE) = {URL(scheme, host, t.path)}
  BY <1>2, <1>4 DEF ParseTunnelTargetURL, Blank, Schemes
<1> QED BY <1>1, <1>2, <1>3, <1>4, <1>5

(* A conn dials through the tunnel, with the caller's own parameters where *)
(* it passes some, to a URL with a host, and over TLS where it asks so.    *)
THEOREM DialsTunnel == Spec => []TunnelDialed
<1>1. BuildInv => TunnelDialed
  <2> SUFFICES ASSUME BuildInv, NEW b \in At("dials"), ~Is(b, {"DialOptionWithConfig"})
               PROVE  LET c == product[b].config IN
                      /\ product[b].options.dialer = "tunnel"
                      /\ product[b].options.connectParams =
                           IF \E i \in DOMAIN c.GRPCOptions :
                                "connectParams" \in DOMAIN c.GRPCOptions[i]
                             THEN "caller's" ELSE IF c.ReconnectConfig = {} THEN "default" ELSE "policy"
                      /\ Is(b, Clients) =>
                           /\ product[b].url.host # ""
                           /\ ParseTunnelTargetURL(product[b].url, FALSE) = {product[b].url}
                           /\ AsksForTLS(job[b]) =>
                                product[b].url.scheme = "wss" \/ job[b].target.scheme = "ws"
    BY DEF TunnelDialed
  <2> DEFINE j == job[b]
             c == TunnelOf(j)
             x == product[b]
  <2>0. b \in Builder
    BY DEF At
  <2>1. /\ pc[b] = "built" /\ j.does \in Clients \cup BrowserClients
        /\ ClientProduct(x, j) /\ x.verdict = "dials"
    BY <2>0, WhoReturns DEF At, Is
  <2>2. plan \in Plans /\ j \in plan.jobs
    BY <2>0, <2>1 DEF BuildInv, Building
  <2>3. Configured(x, j)
    <3>1. Failed("error").verdict = "error"
      BY DEF Failed
    <3> QED BY <2>1, <3>1 DEF ClientProduct
  <2>4. x.config = c /\ x.options = Effective(DialOptions(c))
    BY <2>3 DEF Configured
  <2>5. j.does \in {"BuildTunnelConn", "DialContext", "browser BuildTunnelConn", "browser DialContext"}
    BY <2>1 DEF Is, Clients, BrowserClients
  <2>6. CASE j.does \in {"DialContext", "browser DialContext"}
    <3>1. IsOptionList(j.opts)
      BY <2>2, <2>6, SetupAssumption
    <3>2. c = DialConfig(j.opts)
      BY <2>6 DEF TunnelOf
    <3>3. IsTunnelConfig(c)
      BY <3>1, <3>2, DialConfigIs
    <3>4. ASSUME j.does = "DialContext", AsksForTLS(j) PROVE c.ShouldUseTLS = TRUE
      BY <3>1, <3>2, <3>4, DialConfigIs DEF AsksForTLS, SetByOption
    <3>5. ASSUME Is(b, Clients)
          PROVE  /\ x.url.host # "" /\ ParseTunnelTargetURL(x.url, FALSE) = {x.url}
                 /\ AsksForTLS(j) => x.url.scheme = "wss" \/ j.target.scheme = "ws"
      <4>1. j.does = "DialContext"
        BY <2>6, <3>5 DEF Is, Clients
      <4>2. x.url \in ParseTunnelTargetURL(j.target, c.ShouldUseTLS \/ c.TLSConfig # {})
        BY <2>3, <4>1 DEF Configured, buildTunnelTargetURL
      <4>3. AsksForTLS(j) => (c.ShouldUseTLS \/ c.TLSConfig # {}) = TRUE
        BY <3>4, <4>1
      <4> DEFINE tls == c.ShouldUseTLS \/ c.TLSConfig # {}
      <4> HIDE DEF tls
      <4> QED BY <4>2, <4>3, ParsedURL DEF tls
    <3> QED BY <2>4, <3>3, <3>5, DialsBy
  <2>7. CASE j.does \in {"BuildTunnelConn", "browser BuildTunnelConn"}
    <3>1. IsTunnelConfig(j.config)
      BY <2>2, <2>7, SetupAssumption
    <3>2. c = j.config
      BY <2>7 DEF TunnelOf
    <3>3. IsTunnelConfig(c)
      BY <3>1, <3>2
    <3>5. ASSUME Is(b, Clients)
          PROVE  /\ x.url.host # "" /\ ParseTunnelTargetURL(x.url, FALSE) = {x.url}
                 /\ AsksForTLS(j) => x.url.scheme = "wss" \/ j.target.scheme = "ws"
      <4>1. j.does = "BuildTunnelConn"
        BY <2>7, <3>5 DEF Is, Clients
      <4>2. x.url \in ParseTunnelTargetURL(j.target, c.ShouldUseTLS \/ c.TLSConfig # {})
        BY <2>3, <4>1 DEF Configured, buildTunnelTargetURL
      <4>3. AsksForTLS(j) => (c.ShouldUseTLS \/ c.TLSConfig # {}) = TRUE
        BY <3>2, <4>1 DEF AsksForTLS
      <4> DEFINE tls == c.ShouldUseTLS \/ c.TLSConfig # {}
      <4> HIDE DEF tls
      <4> QED BY <4>2, <4>3, ParsedURL DEF tls
    <3> QED BY <2>4, <3>3, <3>5, DialsBy
  <2> QED BY <2>5, <2>6, <2>7
<1> QED BY <1>1, BuildHolds, PTL

-----------------------------------------------------------------------------
(* A pool in a cache bears the name of a builder of that package and size  *)
(* ...                                                                     *)
CacheInv ==
  \A p \in Package, n \in CacheableSizes :
    LET m == cache[p][n] IN
    m # NoPool =>
      /\ m \in Builder /\ pc[m] # "idle" /\ job[m].does \in PoolJobs
      /\ PackageOf(job[m]) = p /\ PoolSize(job[m]) = n

(* ... and who has a pool has the cached one, or its own if there is none  *)
(* of its size.                                                            *)
HasItsPool(b) ==
  LET n == PoolSize(job[b]) IN
  IF n \in CacheableSizes
    THEN pool[b] = cache[PackageOf(job[b])][n] /\ pool[b] # NoPool
    ELSE pool[b] = b

\* A handler whose configuration was refused at once has none.
(* The invariant of the pools: the caches hold what builders were given.   *)
PoolInv ==
  /\ DOMAIN pool = Builder
  /\ DOMAIN cache = Package /\ \A p \in Package : DOMAIN cache[p] = CacheableSizes
  /\ CacheInv
  /\ \A b \in Builder : pc[b] = "storing" => PoolSize(job[b]) \in CacheableSizes
  /\ \A b \in Builder :
       pc[b] = "built" /\ job[b].does \in PoolJobs /\ product[b].verdict \in {"serves", "dials"} =>
         HasItsPool(b)

(* No pool has been made at first.                                         *)
LEMMA PoolInit == Init => PoolInv
<1> SUFFICES ASSUME Init PROVE PoolInv
  OBVIOUS
<1>1. \A b \in Builder : pc[b] = "idle"
  BY DEF Init
<1>2. \A p \in Package : cache[p] = [n \in CacheableSizes |-> NoPool]
  BY DEF Init
<1>3. CacheInv
  BY <1>2 DEF CacheInv
<1>4. DOMAIN pool = Builder /\ DOMAIN cache = Package
  BY DEF Init
<1> QED BY <1>1, <1>2, <1>3, <1>4 DEF PoolInv

(* A job belongs to one of the two packages.                               *)
LEMMA PackagesAre == \A j : PackageOf(j) \in Package
BY DEF PackageOf, Package

(* Who has begun is not at "idle" again and builds what it built.          *)
LEMMA JobsStay ==
  ASSUME BuildInv, [Next]_vars, NEW m \in Builder, pc[m] # "idle"
  PROVE  pc'[m] # "idle" /\ job'[m] = job[m]
<1>0. m \in DOMAIN pc /\ m \in DOMAIN job
  BY DEF BuildInv
<1>1. ASSUME NEW b, NEW from, NEW to, Goto(b, from, to), to # "idle" PROVE pc'[m] # "idle"
  BY <1>0, <1>1 DEF Goto
<1>2. ASSUME NEW b \in Builder, NEW j \in plan.jobs, BeginJob(b, j)
      PROVE  pc'[m] # "idle" /\ job'[m] = job[m]
  <2>1. /\ pc[b] = "idle" /\ job' = [job EXCEPT ![b] = j]
        /\ \E to \in {"looking up", "inspecting", "built"} : Goto(b, "idle", to)
    BY <1>2 DEF BeginJob, BeginBridgeHandler, BeginNewHandler, BeginClient, BuildBrowserClient,
       BeginTooling, Begin, Return
  <2> QED BY <1>0, <1>1, <2>1
<1>3. ASSUME NEW b \in Builder,
             LoadPool(b) \/ StorePool(b) \/ Inspect(b) \/ Reflect(b) \/ CheckHealth(b) \/ Mount(b)
      PROVE  pc'[m] # "idle" /\ job'[m] = job[m]
  <2>1. UNCHANGED job
    BY <1>3 DEF LoadPool, StorePool, Given, Inspect, Reflect, CheckHealth, Register, Skip, Mount
  <2>2. UNCHANGED pc \/ \E from : \E to \in {"storing", "built", "reflecting", "checking health",
                                        "mounting", "mounting with health"} : Goto(b, from, to)
    <3>1. CASE LoadPool(b)
      BY <3>1 DEF LoadPool, Given, Die, Return
    <3>2. CASE StorePool(b)
      BY <3>2 DEF StorePool, Given, Die, Return
    <3>3. CASE Inspect(b)
      BY <3>3 DEF Inspect
    <3>4. CASE Reflect(b)
      BY <3>4 DEF Reflect, Register, Skip, Die
    <3>5. CASE CheckHealth(b)
      BY <3>5 DEF CheckHealth, Register, Skip, Die
    <3>6. CASE Mount(b)
      BY <3>6 DEF Mount, Die, Return
    <3> QED BY <1>3, <3>1, <3>2, <3>3, <3>4, <3>5, <3>6
  <2> QED BY <1>1, <2>1, <2>2
<1>4. CASE CallerChanges \/ UNCHANGED vars
  BY <1>4 DEF CallerChanges, vars
<1> QED BY <1>2, <1>3, <1>4 DEF Next

(* An entry of a cache stays as it is, or a builder puts its own pool into *)
(* an empty one of its package and size.                                   *)
CachesGrow ==
  /\ DOMAIN cache' = Package /\ \A p \in Package : DOMAIN cache'[p] = CacheableSizes
  /\ \A p \in Package, n \in CacheableSizes :
       \/ cache'[p][n] = cache[p][n]
       \/ /\ cache[p][n] = NoPool
          /\ \E m \in Builder :
               /\ cache'[p][n] = m /\ pc[m] # "idle" /\ job[m].does \in PoolJobs
               /\ PackageOf(job[m]) = p /\ PoolSize(job[m]) = n

(* What a step has to show: whoever has a pool had it before or has the    *)
(* right one now.                                                          *)
LEMMA PoolsGrow ==
  ASSUME BuildInv, PoolInv, [Next]_vars, CachesGrow, DOMAIN pool' = Builder,
         \A b \in Builder : pc'[b] = "storing" => PoolSize(job'[b]) \in CacheableSizes,
         \A b \in Builder : pc'[b] = "built" /\ job'[b].does \in PoolJobs /\
           product'[b].verdict \in {"serves", "dials"} =>
             \/ pc[b] = "built" /\ product'[b] = product[b] /\ pool'[b] = pool[b]
             \/ HasItsPool(b)'
  PROVE  PoolInv'
<1>1. CacheInv'
  <2> SUFFICES ASSUME NEW p \in Package, NEW n \in CacheableSizes, cache'[p][n] # NoPool
               PROVE  LET m == cache'[p][n] IN
                      /\ m \in Builder /\ pc'[m] # "idle" /\ job'[m].does \in PoolJobs
                      /\ PackageOf(job'[m]) = p /\ PoolSize(job'[m]) = n
    BY DEF CacheInv
  <2> DEFINE m == cache'[p][n]
  <2>1. /\ m \in Builder /\ pc[m] # "idle" /\ job[m].does \in PoolJobs
        /\ PackageOf(job[m]) = p /\ PoolSize(job[m]) = n
    BY DEF PoolInv, CacheInv, CachesGrow
  <2>2. pc'[m] # "idle" /\ job'[m] = job[m]
    BY <2>1, JobsStay
  <2> QED BY <2>1, <2>2
<1>2. ASSUME NEW b \in Builder, pc'[b] = "built", job'[b].does \in PoolJobs,
             product'[b].verdict \in {"serves", "dials"},
             pc[b] = "built", product'[b] = product[b], pool'[b] = pool[b]
      PROVE  HasItsPool(b)'
  <2>1. job'[b] = job[b]
    BY <1>2, JobsStay
  <2>2. HasItsPool(b)
    BY <1>2, <2>1 DEF PoolInv
  <2>3. PackageOf(job[b]) \in Package
    BY PackagesAre
  <2> QED BY <1>2, <2>1, <2>2, <2>3 DEF HasItsPool, CachesGrow
<1> QED BY <1>1, <1>2 DEF PoolInv, CachesGrow

(* A step that leaves the pools alone and returns nothing that has one.    *)
LEMMA PoolsStay ==
  ASSUME BuildInv, PoolInv, [Next]_vars, UNCHANGED <<pool, cache>>,
         \A b \in Builder : pc'[b] = "storing" => PoolSize(job'[b]) \in CacheableSizes,
         \A b \in Builder : pc'[b] = "built" /\ job'[b].does \in PoolJobs /\
           product'[b].verdict \in {"serves", "dials"} =>
             pc[b] = "built" /\ product'[b] = product[b]
  PROVE  PoolInv'
<1>1. CachesGrow /\ DOMAIN pool' = Builder
  BY DEF PoolInv, CachesGrow
<1> QED BY <1>1, PoolsGrow

(* A builder gets the pool its cache has by then, or one of its own.       *)
LEMMA GivenPools ==
  ASSUME BuildInv, PoolInv, [Next]_vars, CachesGrow, NEW b \in Builder, NEW p, Given(b, p),
         pc[b] \in PoolSteps,
         IF PoolSize(job[b]) \in CacheableSizes
           THEN p = cache'[PackageOf(job[b])][PoolSize(job[b])] /\ p # NoPool
           ELSE p = b
  PROVE  PoolInv'
<1>0. /\ DOMAIN pc = Builder /\ DOMAIN product = Builder /\ DOMAIN pool = Builder
      /\ pool' = [pool EXCEPT ![b] = p] /\ job' = job
  BY DEF BuildInv, PoolInv, Given
<1>1. HasItsPool(b)'
  BY <1>0 DEF HasItsPool
<1>2. \/ UNCHANGED <<pc, product>>
      \/ \E x : pc' = [pc EXCEPT ![b] = "built"] /\ product' = [product EXCEPT ![b] = x]
  BY DEF Given, Die, Return, Goto
<1>3. \A a \in Builder \ {b} : pc'[a] = pc[a] /\ product'[a] = product[a] /\ pool'[a] = pool[a]
  BY <1>0, <1>2
<1>4. pc'[b] \in {pc[b], "built"}
  BY <1>0, <1>2
<1>5. \A a \in Builder : pc'[a] = "storing" => PoolSize(job'[a]) \in CacheableSizes
  BY <1>0, <1>3, <1>4 DEF PoolInv
<1>6. \A a \in Builder : pc'[a] = "built" => a = b \/ pc[a] = "built"
  BY <1>3
<1> QED BY <1>0, <1>1, <1>3, <1>5, <1>6, PoolsGrow

(* What begins has no pool yet, and what it returns at once needs none.    *)
LEMMA BeginPools ==
  ASSUME BuildInv, PoolInv, [Next]_vars, NEW b \in Builder, NEW j \in plan.jobs, BeginJob(b, j)
  PROVE  PoolInv'
<1>0. /\ DOMAIN pc = Builder /\ DOMAIN product = Builder /\ DOMAIN job = Builder
  BY DEF BuildInv
<1>1. pc[b] = "idle" /\ UNCHANGED <<pool, cache>> /\ job' = [job EXCEPT ![b] = j]
  BY DEF BeginJob, BeginBridgeHandler, BeginNewHandler, BeginClient, BuildBrowserClient,
     BeginTooling, Begin
<1>2. \/ \E to \in {"looking up", "inspecting"} : Goto(b, "idle", to) /\ UNCHANGED product
      \/ \E v : Return(b, "idle", Failed(v)) /\ v \in {"error", "answers 500"}
      \/ j.does \in BrowserClients /\ \E x : Return(b, "idle", x)
  <2>1. CASE j.does \in {"BuildBridgeHandler", "HandleBridgeMux", "Wrap"} /\ BeginBridgeHandler(b, j)
    BY <2>1 DEF BeginBridgeHandler, Begin
  <2>2. CASE j.does = "NewHandler" /\ BeginNewHandler(b, j)
    BY <2>2 DEF BeginNewHandler, Begin
  <2>3. CASE j.does \in Clients /\ BeginClient(b, j)
    BY <2>3 DEF BeginClient, Begin
  <2>4. CASE j.does \in BrowserClients /\ BuildBrowserClient(b, j)
    BY <2>4 DEF BuildBrowserClient, Begin
  <2>5. CASE j.does \in {"BuildToolingHandler", "ListenAndServeTooling"} /\ BeginTooling(b, j)
    BY <2>5 DEF BeginTooling, Begin
  <2> QED BY <2>1, <2>2, <2>3, <2>4, <2>5 DEF BeginJob
<1>3. \A v : Failed(v).verdict = v
  BY DEF Failed
<1>4. /\ \A a \in Builder \ {b} : pc'[a] = pc[a] /\ product'[a] = product[a] /\ job'[a] = job[a]
      /\ job'[b] = j /\ pc'[b] # "storing"
      /\ \/ pc'[b] # "built"
         \/ product'[b].verdict \in {"error", "answers 500"}
         \/ j.does \in BrowserClients
  BY <1>0, <1>1, <1>2, <1>3 DEF Return, Goto
<1>5. \A a \in Builder : pc'[a] = "storing" => PoolSize(job'[a]) \in CacheableSizes
  BY <1>4 DEF PoolInv
<1>6. j.does \in BrowserClients => j.does \notin PoolJobs
  BY DEF BrowserClients, PoolJobs, Handlers, Clients
<1>7. \A a \in Builder : pc'[a] = "built" /\ job'[a].does \in PoolJobs /\
        product'[a].verdict \in {"serves", "dials"} =>
          pc[a] = "built" /\ product'[a] = product[a]
  BY <1>4, <1>6
<1> QED BY <1>1, <1>5, <1>7, PoolsStay

(* Tooling needs no pool.                                                  *)
LEMMA ToolingPools ==
  ASSUME BuildInv, PoolInv, [Next]_vars, NEW b \in Builder, pc[b] \in ToolingSteps,
         Inspect(b) \/ Reflect(b) \/ CheckHealth(b) \/ Mount(b)
  PROVE  PoolInv'
<1>0. /\ DOMAIN pc = Builder /\ DOMAIN product = Builder
      /\ job[b].does \in Tooling
  BY DEF BuildInv, Building
<1>1. UNCHANGED <<job, pool, cache>>
  BY DEF Inspect, Reflect, CheckHealth, Register, Skip, Mount
<1>2. \/ UNCHANGED <<pc, product>>
      \/ \E from : \E to \in {"reflecting", "checking health", "mounting", "mounting with health"} :
           Goto(b, from, to) /\ UNCHANGED product
      \/ \E x : Return(b, pc[b], x)
  <2>1. CASE Inspect(b)
    BY <2>1 DEF Inspect
  <2>2. CASE Reflect(b)
    BY <2>2 DEF Reflect, Register, Skip, Die
  <2>3. CASE CheckHealth(b)
    BY <2>3 DEF CheckHealth, Register, Skip, Die
  <2>4. CASE Mount(b)
    BY <2>4 DEF Mount, Die
  <2> QED BY <2>1, <2>2, <2>3, <2>4
<1>3. /\ \A a \in Builder \ {b} : pc'[a] = pc[a] /\ product'[a] = product[a]
      /\ pc'[b] # "storing" \/ pc'[b] = pc[b]
  BY <1>0, <1>2 DEF Return, Goto
<1>4. job[b].does \notin PoolJobs
  BY <1>0 DEF Tooling, PoolJobs, Handlers, Clients
<1>5. \A a \in Builder : pc'[a] = "storing" => PoolSize(job'[a]) \in CacheableSizes
  BY <1>1, <1>3 DEF PoolInv
<1>6. \A a \in Builder : pc'[a] = "built" /\ job'[a].does \in PoolJobs /\
        product'[a].verdict \in {"serves", "dials"} =>
          pc[a] = "built" /\ product'[a] = product[a]
  BY <1>1, <1>3, <1>4
<1> QED BY <1>1, <1>5, <1>6, PoolsStay

(* Every step keeps the invariant of the pools.                            *)
LEMMA PoolStep == BuildInv /\ PoolInv /\ [Next]_vars => PoolInv'
<1> SUFFICES ASSUME BuildInv, PoolInv, [Next]_vars PROVE PoolInv'
  OBVIOUS
<1>0. DOMAIN pc = Builder /\ \A p \in Package : DOMAIN cache[p] = CacheableSizes
  BY DEF BuildInv, PoolInv
<1>1. ASSUME NEW b \in Builder, NEW j \in plan.jobs, BeginJob(b, j) PROVE PoolInv'
  BY <1>1, BeginPools
<1>2. ASSUME NEW b \in Builder, LoadPool(b) PROVE PoolInv'
  <2> DEFINE n == PoolSize(job[b])
             c == PackageOf(job[b])
  <2>1. pc[b] = "looking up" /\ cache' = cache
    BY <1>2 DEF LoadPool
  <2>2. CachesGrow /\ pc[b] \in PoolSteps
    BY <2>1 DEF CachesGrow, PoolInv, PoolSteps
  <2>3. CASE n \notin CacheableSizes /\ Given(b, b)
    BY <2>2, <2>3, GivenPools
  <2>4. CASE n \in CacheableSizes /\ cache[c][n] # NoPool /\ Given(b, cache[c][n])
    BY <2>1, <2>2, <2>4, GivenPools
  <2>5. CASE n \in CacheableSizes /\ Goto(b, "looking up", "storing") /\ UNCHANGED <<job, pool, product>>
    <3>1. pc' = [pc EXCEPT ![b] = "storing"]
      BY <2>5 DEF Goto
    <3>2. /\ \A a \in Builder : pc'[a] = "storing" => PoolSize(job'[a]) \in CacheableSizes
          /\ \A a \in Builder : pc'[a] = "built" => pc[a] = "built" /\ product'[a] = product[a]
      BY <1>0, <2>5, <3>1 DEF PoolInv
    <3> QED BY <2>1, <2>5, <3>2, PoolsStay
  <2> QED
    BY <1>2, <2>3, <2>4, <2>5 DEF LoadPool, isCacheableWebSocketWriteBufferSize
<1>3. ASSUME NEW b \in Builder, StorePool(b) PROVE PoolInv'
  <2> DEFINE n == PoolSize(job[b])
             c == PackageOf(job[b])
             p == IF cache[c][n] = NoPool THEN b ELSE cache[c][n]
  <2>1. pc[b] = "storing" /\ cache' = [cache EXCEPT ![c][n] = p] /\ Given(b, p)
    BY <1>3 DEF StorePool
  <2>2. n \in CacheableSizes /\ c \in Package /\ pc[b] \in PoolSteps /\ job[b].does \in PoolJobs
    BY <2>1, PackagesAre DEF PoolInv, PoolSteps, BuildInv, Building
  <2>3. p # NoPool
    BY SetupAssumption
  <2> HIDE DEF n, c
  <2>4. cache'[c][n] = p /\ \A q \in Package, m \in CacheableSizes :
                              q # c \/ m # n => cache'[q][m] = cache[q][m]
    BY <2>1, <2>2 DEF PoolInv
  <2>5. DOMAIN cache' = Package /\ \A q \in Package : DOMAIN cache'[q] = CacheableSizes
    BY <2>1, <2>2 DEF PoolInv
  <2>6. CachesGrow
    BY <2>1, <2>2, <2>4, <2>5 DEF CachesGrow, n, c
  <2> QED BY <2>1, <2>2, <2>3, <2>4, <2>6, GivenPools DEF n, c
<1>4. ASSUME NEW b \in Builder, Inspect(b) \/ Reflect(b) \/ CheckHealth(b) \/ Mount(b)
      PROVE  PoolInv'
  <2>1. pc[b] \in ToolingSteps
    BY <1>4 DEF Inspect, Goto, Reflect, CheckHealth, Mount, ToolingSteps
  <2> QED BY <1>4, <2>1, ToolingPools
<1>5. CASE CallerChanges \/ UNCHANGED vars
  <2>1. UNCHANGED <<pc, job, pool, product, cache>>
    BY <1>5 DEF CallerChanges, vars
  <2> QED BY <2>1, PoolsStay DEF PoolInv
<1> QED BY <1>1, <1>2, <1>3, <1>4, <1>5 DEF Next

-----------------------------------------------------------------------------
(* What serves or dials writes with the size its pool is for.              *)
LEMMA SizeIsPoolSize ==
  ASSUME BuildInv, NEW b \in Builder, b \in At("serves") \cup At("dials"), ~Is(b, BrowserClients)
  PROVE  /\ pc[b] = "built" /\ job[b].does \in PoolJobs
         /\ PoolSize(job[b]) = WriteBufferSize(job[b])
<1> DEFINE j == job[b]
<1>0. pc[b] = "built" /\ ((b \in At("serves") /\ j.does \in Handlers) \/ j.does \in Clients)
  BY WhoReturns DEF Is
<1>1. CASE j.does \in Clients
  <2>1. WriteBufferSize(j) = DefaultBufferSize
    BY <1>1 DEF WriteBufferSize, Clients
  <2> QED BY <1>0, <1>1, <2>1 DEF PoolSize, DefaultBufferSize, PoolJobs
<1>2. CASE b \in At("serves") /\ j.does \in Handlers
  <2> DEFINE c == MeantBy(j)
  <2>1. IsBridgeConfig(c) /\ ~GetBridgeConfigError(c)
    BY <1>0, <1>2, ServesMeant DEF Meant, Is
  <2>2. plan \in Plans /\ j \in plan.jobs
    BY <1>0 DEF BuildInv, Building
  <2>3. c.WriteBufferSize \in Int /\ c.WriteBufferSize >= 0
    BY <2>1 DEF IsBridgeConfig, GetBridgeConfigError, NumberFields
  <2>4. BridgeSettings(c).WriteBufferSize = Or(c.WriteBufferSize, DefaultBufferSize)
    BY <2>1, SettingsAre
  <2>5. "WriteBufferSize" \in DOMAIN c
    BY <2>1 DEF IsBridgeConfig, NoBridgeConfig
  <2>6. HandlerDefaults(c).WriteBufferSize = Or(c.WriteBufferSize, DefaultBufferSize)
    BY <2>5 DEF HandlerDefaults
  <2>7. WriteBufferSize(j) = Or(c.WriteBufferSize, DefaultBufferSize)
    <3>1. CASE j.does = "Wrap"
      <4>1. WriteBufferSize(j) = BridgeSettings(WrapConfig(j.opts)).WriteBufferSize
        BY <3>1 DEF WriteBufferSize, Clients
      <4> QED BY <1>2, <2>2, <2>4, <3>1, <4>1, JobTypes
    <3>2. CASE j.does \in {"BuildBridgeHandler", "HandleBridgeMux"}
      <4>1. WriteBufferSize(j) = BridgeSettings(j.config).WriteBufferSize
        BY <3>2 DEF WriteBufferSize, Clients
      <4> QED BY <2>4, <3>2, <4>1 DEF MeantBy
    <3>3. CASE j.does = "NewHandler"
      <4>1. WriteBufferSize(j) = HandlerDefaults(j.config).WriteBufferSize
        BY <3>3 DEF WriteBufferSize, Clients
      <4> QED BY <2>6, <3>3, <4>1 DEF MeantBy
    <3> QED BY <1>2, <3>1, <3>2, <3>3 DEF Handlers
  <2>8. Or(c.WriteBufferSize, DefaultBufferSize) > 0
    BY <2>3 DEF Or, DefaultBufferSize
  <2> QED BY <1>0, <1>2, <2>7, <2>8, <2>3 DEF PoolSize, PoolJobs, Or, DefaultBufferSize
<1> QED BY <1>0, <1>1, <1>2

(* Two that have a pool share it exactly when a cache has it for both.     *)
THEOREM OnePoolPerSize == Spec => []PoolPerSize
<1>1. BuildInv /\ PoolInv => PoolPerSize
  <2> SUFFICES ASSUME BuildInv, PoolInv,
                      NEW a \in At("serves") \cup At("dials"), NEW b \in At("serves") \cup At("dials"),
                      a # b, ~Is(a, BrowserClients), ~Is(b, BrowserClients)
               PROVE  pool[a] = pool[b] <=>
                        /\ PackageOf(job[a]) = PackageOf(job[b])
                        /\ WriteBufferSize(job[a]) = WriteBufferSize(job[b])
                        /\ isCacheableWebSocketWriteBufferSize(WriteBufferSize(job[a]))
    BY DEF PoolPerSize
  <2>0. /\ a \in Builder /\ product[a].verdict \in {"serves", "dials"}
        /\ b \in Builder /\ product[b].verdict \in {"serves", "dials"}
    BY DEF At
  <2>1. ASSUME NEW x \in {a, b}
        PROVE  /\ HasItsPool(x) /\ PoolSize(job[x]) = WriteBufferSize(job[x])
               /\ PackageOf(job[x]) \in Package
    <3>1. x \in Builder /\ x \in At("serves") \cup At("dials") /\ ~Is(x, BrowserClients)
      BY <2>0
    <3>2. /\ pc[x] = "built" /\ job[x].does \in PoolJobs
          /\ PoolSize(job[x]) = WriteBufferSize(job[x])
      BY <3>1, SizeIsPoolSize
    <3> QED BY <2>0, <3>1, <3>2, PackagesAre DEF PoolInv
  <2>2. ASSUME NEW x \in {a, b}, PoolSize(job[x]) \in CacheableSizes
        PROVE  /\ PackageOf(job[pool[x]]) = PackageOf(job[x])
               /\ PoolSize(job[pool[x]]) = PoolSize(job[x])
    BY <2>1, <2>2 DEF HasItsPool, PoolInv, CacheInv
  <2>3. ASSUME NEW x \in {a, b}, PoolSize(job[x]) \notin CacheableSizes PROVE pool[x] = x
    BY <2>1, <2>3 DEF HasItsPool
  <2>4. CASE PoolSize(job[a]) \in CacheableSizes /\ PoolSize(job[b]) \in CacheableSizes
    BY <2>1, <2>2, <2>4 DEF HasItsPool, isCacheableWebSocketWriteBufferSize
  <2>5. CASE PoolSize(job[a]) \in CacheableSizes /\ PoolSize(job[b]) \notin CacheableSizes
    BY <2>1, <2>2, <2>3, <2>5 DEF isCacheableWebSocketWriteBufferSize
  <2>6. CASE PoolSize(job[a]) \notin CacheableSizes
    BY <2>1, <2>2, <2>3, <2>6 DEF isCacheableWebSocketWriteBufferSize
  <2> QED BY <2>4, <2>5, <2>6
<1>2. Spec => []PoolInv
  BY PoolInit, PoolStep, BuildHolds, PTL DEF Spec
<1> QED BY <1>1, <1>2, BuildHolds, PTL

-----------------------------------------------------------------------------
(* Who has registered the health service or has its server.                *)
HasHealth(b) ==
  \/ pc[b] = "mounting with health"
  \/ product[b].verdict = "serves tooling" /\ product[b].health

\* ToolingRegistersOnce, of what may end the process.
(* The process only ended for a reason.                                    *)
EndsForAReason ==
  /\ ended = "service twice" =>
       \/ \E b \in Builder : pc[b] \in {"reflecting", "checking health"} /\ seen[b] # services
       \/ "v1" \in services /\ "v1alpha" \notin services
  /\ ended = "path twice" =>
       \E b \in Builder : pc[b] # "built" /\
         \/ Is(b, {"HandleBridgeMux"}) /\ job[b].path \in mux
         \/ Is(b, {"BuildToolingHandler", "ListenAndServeTooling"}) /\ PprofTakesRoot(job[b])

(* One builder at most has the health service, and it is registered then.  *)
OneHealth ==
  \A a \in Builder : HasHealth(a) =>
    "health" \in services /\ \A b \in Builder : HasHealth(b) => a = b

(* The invariant of the gRPC server's services and of the mux.             *)
ToolInv == OneHealth /\ EndsForAReason

(* Nothing has ended at first, and nobody has a health server.             *)
LEMMA ToolInit == Init => ToolInv
<1> SUFFICES ASSUME Init PROVE ToolInv
  OBVIOUS
<1>1. \A b \in Builder : pc[b] = "idle" /\ product[b] = Failed("none")
  BY DEF Init
<1>2. Failed("none").verdict = "none"
  BY DEF Failed
<1>3. ended = ""
  BY DEF Init
<1> QED BY <1>1, <1>2, <1>3 DEF ToolInv, OneHealth, HasHealth, EndsForAReason

(* The process goes on, nothing is unregistered, and nobody gets the       *)
(* health service who did not have it.                                     *)
LEMMA HealthStays ==
  ASSUME ToolInv, ended' = "", services \subseteq services',
         \A b \in Builder : HasHealth(b)' => HasHealth(b)
  PROVE  ToolInv'
BY DEF ToolInv, OneHealth, EndsForAReason

(* The process ends: nobody moves and the reason is there.                 *)
LEMMA HealthAtTheEnd ==
  ASSUME ToolInv, UNCHANGED <<pc, product, services>>, EndsForAReason'
  PROVE  ToolInv'
BY DEF ToolInv, OneHealth, HasHealth

(* A builder that moves neither to nor from the health service.            *)
LEMMA OthersHealth ==
  ASSUME BuildInv, NEW b \in Builder, NEW to, to # "mounting with health", NEW x,
         pc' = [pc EXCEPT ![b] = to],
         product' = product \/ (product' = [product EXCEPT ![b] = x] /\ x.verdict # "serves tooling")
  PROVE  \A a \in Builder : HasHealth(a)' => HasHealth(a)
<1> TAKE a \in Builder
<1>0. DOMAIN pc = Builder /\ DOMAIN product = Builder
  BY DEF BuildInv
<1> QED BY <1>0 DEF HasHealth

(* A builder that begins has no health server yet, and ends nothing.       *)
LEMMA BeginTools ==
  ASSUME BuildInv, ToolInv, NEW b \in Builder, NEW j \in plan.jobs, BeginJob(b, j)
  PROVE  ToolInv'
<1>1. ended' = "" /\ services' = services
  BY DEF BeginJob, BeginBridgeHandler, BeginNewHandler, BeginClient, BuildBrowserClient,
     BeginTooling, Begin
<1>2. \A v : v # "serves tooling" => Failed(v).verdict # "serves tooling"
  BY DEF Failed
<1>3. \/ \E to \in {"looking up", "inspecting"} : Goto(b, "idle", to) /\ UNCHANGED product
      \/ \E x : Return(b, "idle", x) /\ x.verdict # "serves tooling"
  <2>1. CASE j.does \in {"BuildBridgeHandler", "HandleBridgeMux", "Wrap"} /\ BeginBridgeHandler(b, j)
    BY <1>2, <2>1 DEF BeginBridgeHandler, Begin
  <2>2. CASE j.does = "NewHandler" /\ BeginNewHandler(b, j)
    BY <2>2 DEF BeginNewHandler, Begin
  <2>3. CASE j.does \in Clients /\ BeginClient(b, j)
    BY <1>2, <2>3 DEF BeginClient, Begin
  <2>4. CASE j.does \in BrowserClients /\ BuildBrowserClient(b, j)
    <3>1. PICK x : x = BuildBrowserConn(j)
      OBVIOUS
    <3>2. ClientProduct(x, j)
      <4>1. caller \in {0, 1}
        BY DEF BuildInv
      <4> QED BY <2>4, <3>1, <4>1, ClientsAre
    <3>3. x.verdict # "serves tooling"
      BY <1>2, <3>2 DEF ClientProduct
    <3>4. Return(b, "idle", x)
      BY <2>4, <3>1 DEF BuildBrowserClient, Begin
    <3> QED BY <3>3, <3>4
  <2>5. CASE j.does \in {"BuildToolingHandler", "ListenAndServeTooling"} /\ BeginTooling(b, j)
    BY <1>2, <2>5 DEF BeginTooling, Begin
  <2> QED BY <2>1, <2>2, <2>3, <2>4, <2>5 DEF BeginJob
<1>4. \A a \in Builder : HasHealth(a)' => HasHealth(a)
  BY <1>3, OthersHealth DEF Goto, Return
<1> QED BY <1>1, <1>4, HealthStays

(* A mux ends the process when a path is mounted twice.                    *)
LEMMA GivenTools ==
  ASSUME BuildInv, ToolInv, NEW b \in Builder, NEW p, pc[b] \in PoolSteps, ended = "", Given(b, p)
  PROVE  ToolInv'
<1>1. CASE job[b].does = "HandleBridgeMux" /\ job[b].path \in mux
  <2>1. UNCHANGED <<pc, job, product, services, mux>> /\ ended' = "path twice" /\ pc[b] # "built"
    BY <1>1 DEF Given, Die, PoolSteps
  <2>2. EndsForAReason'
    BY <1>1, <2>1 DEF EndsForAReason, Is
  <2> QED BY <2>1, <2>2, HealthAtTheEnd
<1>2. CASE ~(job[b].does = "HandleBridgeMux" /\ job[b].path \in mux)
  <2>1. Return(b, pc[b], Product(job[b])) /\ ended' = "" /\ services' = services
    BY <1>2 DEF Given
  <2>2. Product(job[b]).verdict # "serves tooling"
    <3>1. \A v : Failed(v).verdict = v
      BY DEF Failed
    <3>2. \A s : Serves(s).verdict = "serves"
      BY DEF Serves
    <3>3. \A j : HandlerProduct(j).verdict # "serves tooling"
      <4>1. \A j : NewHandler(j).verdict \in {"answers 500", "serves"}
        BY <3>1, <3>2 DEF NewHandler
      <4> QED BY <3>1, <3>2, <4>1 DEF HandlerProduct
    <3>4. \A x, j : ClientProduct(x, j) => x.verdict \in {"error", "dials"}
      BY <3>1 DEF ClientProduct
    <3> QED BY <3>3, <3>4, ProductIs
  <2>3. \A a \in Builder : HasHealth(a)' => HasHealth(a)
    BY <2>1, <2>2, OthersHealth DEF Goto, Return
  <2> QED BY <2>1, <2>3, HealthStays
<1> QED BY <1>1, <1>2

(* Registering: the services a builder has not seen were registered after  *)
(* it looked, unless only the newer reflection service was there.          *)
LEMMA ReflectTools ==
  ASSUME BuildInv, ToolInv, NEW b \in Builder, Reflect(b)
  PROVE  ToolInv'
<1>1. CASE Skip(b, "reflecting", "checking health")
  <2>1. \A a \in Builder : HasHealth(a)' => HasHealth(a)
    BY <1>1, OthersHealth DEF Skip, Goto
  <2> QED BY <1>1, <2>1, HealthStays DEF Skip, Goto
<1>2. CASE "v1alpha" \notin seen[b] /\ Register(b, "reflecting", "checking health", {"v1alpha", "v1"})
  <2>1. CASE services \cap {"v1alpha", "v1"} # {}
    <3>1. /\ UNCHANGED <<pc, product, services, seen>> /\ ended' = "service twice"
          /\ pc[b] = "reflecting"
      BY <1>2, <2>1 DEF Register, Die
    <3>2. seen[b] # services \/ ("v1" \in services /\ "v1alpha" \notin services)
      BY <1>2, <2>1
    <3>3. EndsForAReason'
      BY <3>1, <3>2 DEF EndsForAReason
    <3> QED BY <3>1, <3>3, HealthAtTheEnd
  <2>2. CASE services \cap {"v1alpha", "v1"} = {}
    <3>1. /\ Goto(b, "reflecting", "checking health") /\ services \subseteq services'
          /\ UNCHANGED <<product, ended>> /\ ended = ""
      BY <1>2, <2>2 DEF Register, Goto
    <3>2. \A a \in Builder : HasHealth(a)' => HasHealth(a)
      BY <3>1, OthersHealth DEF Goto
    <3> QED BY <3>1, <3>2, HealthStays
  <2> QED BY <2>1, <2>2
<1> QED BY <1>1, <1>2 DEF Reflect

(* The health service is registered by one builder at most.                *)
LEMMA HealthTools ==
  ASSUME BuildInv, ToolInv, NEW b \in Builder, CheckHealth(b)
  PROVE  ToolInv'
<1>1. CASE Skip(b, "checking health", "mounting")
  <2>1. \A a \in Builder : HasHealth(a)' => HasHealth(a)
    BY <1>1, OthersHealth DEF Skip, Goto
  <2> QED BY <1>1, <2>1, HealthStays DEF Skip, Goto
<1>2. CASE "health" \notin seen[b] /\ Register(b, "checking health", "mounting with health", {"health"})
  <2>1. CASE "health" \in services
    <3>1. /\ UNCHANGED <<pc, product, services, seen>> /\ ended' = "service twice"
          /\ pc[b] = "checking health"
      BY <1>2, <2>1 DEF Register, Die
    <3>2. seen[b] # services
      BY <1>2, <2>1
    <3>3. EndsForAReason'
      BY <3>1, <3>2 DEF EndsForAReason
    <3> QED BY <3>1, <3>3, HealthAtTheEnd
  <2>2. CASE "health" \notin services
    <3>1. /\ pc' = [pc EXCEPT ![b] = "mounting with health"] /\ "health" \in services'
          /\ UNCHANGED <<product, ended>> /\ ended = ""
      BY <1>2, <2>2 DEF Register, Goto
    <3>2. \A a \in Builder : ~HasHealth(a)
      BY <2>2 DEF ToolInv, OneHealth
    <3>3. \A a \in Builder : HasHealth(a)' => a = b
      BY <3>1, <3>2 DEF HasHealth, BuildInv
    <3> QED BY <3>1, <3>3 DEF ToolInv, OneHealth, EndsForAReason
  <2> QED BY <2>1, <2>2
<1> QED BY <1>1, <1>2 DEF CheckHealth

(* Mounting returns the server that was registered, or ends the process.   *)
LEMMA MountTools ==
  ASSUME BuildInv, ToolInv, NEW b \in Builder, Mount(b)
  PROVE  ToolInv'
<1>0. /\ job[b].does \in Tooling /\ pc[b] \in {"mounting", "mounting with health"}
      /\ DOMAIN pc = Builder /\ DOMAIN product = Builder
  BY DEF Mount, BuildInv, Building, ToolingSteps
<1>1. CASE PprofTakesRoot(job[b])
  <2>1. UNCHANGED <<pc, job, product, services, mux>> /\ ended' = "path twice" /\ pc[b] # "built"
    BY <1>0, <1>1 DEF Mount, Die
  <2>2. EndsForAReason'
    BY <1>0, <1>1, <2>1 DEF EndsForAReason, Is, Tooling
  <2> QED BY <2>1, <2>2, HealthAtTheEnd
<1>2. CASE ~PprofTakesRoot(job[b])
  <2> DEFINE x == [verdict |-> "serves tooling", health |-> pc[b] = "mounting with health"]
  <2>1. /\ pc' = [pc EXCEPT ![b] = "built"] /\ product' = [product EXCEPT ![b] = x]
        /\ services' = services /\ ended' = "" 
    BY <1>2 DEF Mount, Return, Goto
  <2>2. x.health <=> pc[b] = "mounting with health"
    OBVIOUS
  <2> HIDE DEF x
  <2>3. \A a \in Builder : HasHealth(a)' => HasHealth(a)
    <3>1. HasHealth(b)' => HasHealth(b)
      BY <1>0, <2>1, <2>2 DEF HasHealth
    <3>2. \A a \in Builder \ {b} : HasHealth(a)' => HasHealth(a)
      BY <1>0, <2>1 DEF HasHealth
    <3> QED BY <3>1, <3>2
  <2> QED BY <2>1, <2>3, HealthStays
<1> QED BY <1>1, <1>2

(* Every step keeps the invariant of services and mux.                     *)
LEMMA ToolStep == BuildInv /\ ToolInv /\ [Next]_vars => ToolInv'
<1> SUFFICES ASSUME BuildInv, ToolInv, [Next]_vars PROVE ToolInv'
  OBVIOUS
<1>1. ASSUME NEW b \in Builder, NEW j \in plan.jobs, BeginJob(b, j) PROVE ToolInv'
  BY <1>1, BeginTools
<1>2. ASSUME NEW b \in Builder, LoadPool(b) PROVE ToolInv'
  <2>1. pc[b] \in PoolSteps /\ ended = ""
    BY <1>2 DEF LoadPool, PoolSteps
  <2>2. ASSUME NEW p, Given(b, p) PROVE ToolInv'
    BY <2>1, <2>2, GivenTools
  <2>3. CASE Goto(b, "looking up", "storing") /\ UNCHANGED <<product, services, ended>>
    <3>1. \A a \in Builder : HasHealth(a)' => HasHealth(a)
      BY <2>3, OthersHealth DEF Goto
    <3> QED BY <2>1, <2>3, <3>1, HealthStays
  <2> QED BY <1>2, <2>2, <2>3 DEF LoadPool
<1>3. ASSUME NEW b \in Builder, StorePool(b) PROVE ToolInv'
  <2>1. pc[b] \in PoolSteps /\ ended = "" /\ \E p : Given(b, p)
    BY <1>3 DEF StorePool, PoolSteps
  <2> QED BY <2>1, GivenTools
<1>4. ASSUME NEW b \in Builder, Inspect(b) PROVE ToolInv'
  <2>1. \A a \in Builder : HasHealth(a)' => HasHealth(a)
    BY <1>4, OthersHealth DEF Inspect, Goto
  <2> QED BY <1>4, <2>1, HealthStays DEF Inspect, Goto
<1>5. ASSUME NEW b \in Builder, Reflect(b) \/ CheckHealth(b) \/ Mount(b) PROVE ToolInv'
  BY <1>5, ReflectTools, HealthTools, MountTools
<1>6. CASE CallerChanges
  <2>1. UNCHANGED <<pc, product, services>> /\ ended' = ""
    BY <1>6 DEF CallerChanges
  <2>2. \A a \in Builder : HasHealth(a)' => HasHealth(a)
    BY <2>1 DEF HasHealth
  <2> QED BY <2>1, <2>2, HealthStays
<1>7. CASE UNCHANGED vars
  BY <1>7 DEF vars, ToolInv, OneHealth, HasHealth, EndsForAReason, Is
<1> QED BY <1>1, <1>2, <1>3, <1>4, <1>5, <1>6, <1>7 DEF Next

(* Registering tooling ends the process only for the reasons named, and    *)
(* one caller at most gets the health service's server.                    *)
THEOREM RegistersOnce == Spec => []ToolingRegistersOnce
<1>1. ToolInv => ToolingRegistersOnce
  <2> SUFFICES ASSUME ToolInv
               PROVE  Cardinality({b \in At("serves tooling") : product[b].health}) <= 1
    BY DEF ToolInv, EndsForAReason, ToolingRegistersOnce
  <2> DEFINE H == {b \in At("serves tooling") : product[b].health}
  <2>1. \A a, b \in H : a = b
    BY DEF ToolInv, OneHealth, HasHealth, At
  <2> HIDE DEF H
  <2>2. H = {} => Cardinality(H) = 0
    BY FS_EmptySet
  <2>3. ASSUME NEW h \in H PROVE Cardinality(H) = 1
    <3>1. H = {h}
      BY <2>1
    <3> QED BY <3>1, FS_Singleton
  <2>4. H = {} \/ \E h : h \in H
    OBVIOUS
  <2>5. Cardinality(H) = 0 \/ Cardinality(H) = 1
    BY <2>2, <2>3, <2>4
  <2>6. Cardinality(H) <= 1
    <3> DEFINE n == Cardinality(H)
    <3> HIDE DEF n
    <3>1. n = 0 \/ n = 1
      BY <2>5 DEF n
    <3>2. n <= 1
      BY <3>1
    <3> QED BY <3>2 DEF n
  <2> QED BY <2>6 DEF H
<1>2. Spec => []ToolInv
  BY ToolInit, ToolStep, BuildHolds, PTL DEF Spec
<1> QED BY <1>1, <1>2, PTL

-----------------------------------------------------------------------------
(* The keepalive that such a handler runs.  A handler that serves has one  *)
(* of the configurations the timing of a session is specified for ...      *)
THEOREM KeepaliveIsValid ==
  Spec => [](\A b \in At("serves") : ValidConfig(product[b].settings))
<1>1. BuildInv => \A b \in At("serves") : ValidConfig(product[b].settings)
  <2> SUFFICES ASSUME BuildInv, NEW b \in At("serves")
               PROVE  ValidConfig(product[b].settings)
    OBVIOUS
  <2> DEFINE c == Meant(b)
             s == BridgeSettings(c)
  <2>1. b \in Builder
    BY DEF At
  <2>2. pc[b] = "built" /\ Is(b, Handlers)
    BY <2>1, WhoReturns
  <2>3. IsBridgeConfig(c) /\ ~GetBridgeConfigError(c) /\ product[b] = Serves(s)
    BY <2>1, <2>2, ServesMeant
  <2>4. product[b].settings = s
    BY <2>3 DEF Serves
  <2> HIDE DEF c
  <2>5. s.IdleTimeout = c.IdleTimeout /\ s.PingInterval = c.PingInterval
    BY <2>3, SettingsAre DEF NumberFields
  <2>6. c.IdleTimeout \in Int /\ c.PingInterval \in Int
    BY <2>3 DEF IsBridgeConfig, NumberFields
  <2>7. InForce(s, c)
    BY <2>3, AcceptedInForce
  <2> HIDE DEF s
  <2>8. /\ s.IdleTimeout > 0 => s.PingInterval \in 1..(s.IdleTimeout - 1)
        /\ s.PingInterval >= 0 /\ s.IdleTimeout >= 0
    BY <2>7 DEF InForce, NumberFields
  <2>9. ValidConfig(s)
    BY <2>5, <2>6, <2>8 DEF ValidConfig
  <2> QED BY <2>4, <2>9
<1> QED BY <1>1, BuildHolds, PTL

(* ... and for every one of them, however long its intervals, the round    *)
(* trips, the writes and the hooks, there is no false timeout.             *)

(* Nothing is pinged without an interval, and with one the ticker always   *)
(* has some time to go.                                                    *)
TickerInv ==
  /\ keeper = "pinging" \/ tickReady => HasPing
  /\ HasPing => tickLeft > 0

(* The longest it can still take until the next ping is written ...        *)
PingDue ==
  IF keeper = "pinging" THEN IF busy THEN env.busy - busyFor ELSE 0
  ELSE IF tickReady THEN env.busy ELSE tickLeft + env.busy

(* ... so that a pong is here, on its way or will be before the deadline.  *)
PongInTime ==
  \/ pongHere
  \/ \E age \in pongs : idleLeft > env.rtt - age
  \/ idleLeft > PingDue + env.rtt

(* A ping gets the write lock before its own deadline.                     *)
PingInTime == keeper = "pinging" /\ busy => writeLeft + busyFor >= cfg.PingInterval

(* Before anybody reads, the deadline is where it was set.                 *)
HookInTime == HasIdle /\ ~reading => idleLeft = cfg.IdleTimeout - hookFor

Healthy ==
  /\ conn = "open"
  /\ PingInTime /\ HookInTime
  /\ HasIdle => idleLeft > 0 /\ PongInTime

TimeInv == TypeOK /\ TickerInv /\ (env.answers /\ RoomForPong => Healthy)

(* What the validation of the configuration promises about its durations.  *)
LEMMA ConfigTypes ==
  ASSUME TypeOK
  PROVE  /\ cfg.PingInterval \in Nat /\ cfg.IdleTimeout \in Nat
         /\ HasIdle => HasPing /\ cfg.PingInterval < cfg.IdleTimeout
         /\ PingWriteTimeout = cfg.PingInterval
         /\ env.rtt \in Nat /\ env.busy \in Nat /\ env.hook \in Nat
BY KeepaliveAssumption DEF TypeOK, Configs, Envs,
  ValidConfig, HasIdle, HasPing, PingWriteTimeout

(* The session starts with the right types and with its ticker set.        *)
LEMMA TypesInit == TimingInit => TypeOK /\ TickerInv
<1> SUFFICES ASSUME TimingInit PROVE TypeOK /\ TickerInv
  OBVIOUS
<1>1. cfg \in Configs /\ ValidConfig(cfg) /\ env \in Envs
  BY DEF TimingInit
<1>2. /\ cfg.PingInterval \in Nat /\ cfg.IdleTimeout \in Nat /\ MaxInterval \in Nat
      /\ env.rtt \in Nat /\ env.busy \in Nat /\ env.hook \in Nat
  BY <1>1, KeepaliveAssumption DEF Configs, Envs
<1>3. /\ hookFor \in 0..env.hook /\ idleLeft \in 0..cfg.IdleTimeout
      /\ tickLeft \in 0..cfg.PingInterval /\ writeLeft \in 0..cfg.PingInterval
      /\ busyFor \in 0..env.busy /\ quietFor \in 0..(MaxInterval + 1)
  BY <1>2 DEF TimingInit
<1>4. /\ reading = FALSE /\ tickReady = FALSE /\ busy = FALSE /\ pongHere = FALSE
      /\ conn = "open" /\ keeper = "waiting" /\ pongs = {} /\ tickLeft = cfg.PingInterval
  BY DEF TimingInit
<1> QED
  BY <1>1, <1>3, <1>4 DEF TypeOK, TickerInv, HasPing

(* Every step keeps them.                                                  *)
LEMMA TypesStep == TypeOK /\ TickerInv /\ [TimingNext]_timing => TypeOK' /\ TickerInv'
<1> SUFFICES ASSUME TypeOK, TickerInv, [TimingNext]_timing PROVE TypeOK' /\ TickerInv'
  OBVIOUS
<1>0. /\ cfg.PingInterval \in Nat /\ cfg.IdleTimeout \in Nat /\ MaxInterval \in Nat
      /\ PingWriteTimeout = cfg.PingInterval
      /\ env.rtt \in Nat /\ env.busy \in Nat /\ env.hook \in Nat
  BY ConfigTypes, KeepaliveAssumption DEF TickerInv
<1> USE DEF TypeOK, TickerInv, HasPing, ValidConfig
<1>1. CASE HookReturns
  BY <1>1 DEF HookReturns
<1>2. CASE ReadTimesOut
  BY <1>2 DEF ReadTimesOut
<1>3. CASE ReadPong
  <2>1. idleLeft' \in 0..cfg.IdleTimeout /\ quietFor' \in 0..(MaxInterval + 1)
    BY <1>0, <1>3 DEF ReadPong
  <2>2. pongHere' = FALSE
    BY <1>3 DEF ReadPong
  <2> QED
    BY <1>3, <2>1, <2>2 DEF ReadPong
<1>4. CASE ReadData
  BY <1>0, <1>4 DEF ReadData
<1>5. CASE KeeperTick
  <2>1. writeLeft' \in 0..cfg.PingInterval
    BY <1>0, <1>5 DEF KeeperTick
  <2>2. tickReady' = FALSE /\ keeper' = "pinging" /\ cfg.PingInterval > 0
    BY <1>5 DEF KeeperTick
  <2> QED
    BY <1>5, <2>1, <2>2 DEF KeeperTick
<1>6. CASE PingWritten
  BY <1>0, <1>6 DEF PingWritten
<1>7. CASE PingTimesOut
  BY <1>7 DEF PingTimesOut
<1>8. CASE WriteStarts
  BY <1>0, <1>8 DEF WriteStarts
<1>9. CASE WriteEnds
  BY <1>9 DEF WriteEnds
<1>10. CASE PongArrives
  BY <1>10 DEF PongArrives
<1>11. CASE Tick
  <2>1. /\ hookFor' \in 0..env.hook /\ idleLeft' \in 0..cfg.IdleTimeout
        /\ tickLeft' \in 0..cfg.PingInterval /\ writeLeft' \in 0..cfg.PingInterval
        /\ HasPing => tickLeft' > 0
    BY <1>0, <1>11 DEF Tick, NothingDue, Down
  <2>2. busyFor' \in 0..env.busy /\ quietFor' \in 0..(MaxInterval + 1)
    BY <1>0, <1>11 DEF Tick, NothingDue, Up
  <2>3. pongs' \subseteq 0..env.rtt
    BY <1>0, <1>11 DEF Tick, NothingDue
  <2>4. UNCHANGED <<cfg, env, conn, reading, keeper, busy, pongHere>>
    BY <1>11 DEF Tick
  <2>5. tickReady' \in BOOLEAN /\ (tickReady' => tickReady \/ tickLeft = 1)
    BY <1>11 DEF Tick
  <2>6. tickLeft = 1 => HasPing
    BY <1>0
  <2> QED
    BY <2>1, <2>2, <2>3, <2>4, <2>5, <2>6
<1>12. CASE UNCHANGED timing
  BY <1>12 DEF timing
<1> QED
  BY <1>1, <1>2, <1>3, <1>4, <1>5, <1>6, <1>7, <1>8, <1>9, <1>10, <1>11, <1>12 DEF TimingNext

-----------------------------------------------------------------------------
(* A session starts healthy: its deadline is a full idle timeout away.     *)
LEMMA TimeInit == TimingInit => TimeInv
<1> SUFFICES ASSUME TimingInit PROVE TimeInv
  OBVIOUS
<1>1. TypeOK /\ TickerInv
  BY TypesInit
<1>2. ASSUME RoomForPong PROVE Healthy
  BY <1>1, <1>2, ConfigTypes DEF TimingInit, RoomForPong, Healthy, PingInTime, HookInTime,
     PongInTime, PingDue, HasIdle
<1> QED
  BY <1>1, <1>2 DEF TimeInv

(* Time passes: what is left until the deadline and until the pong is read *)
(* shrink together.                                                        *)
LEMMA TickHealthy ==
  ASSUME TypeOK, TickerInv, RoomForPong, Healthy, Tick
  PROVE  Healthy'
<1>0. /\ cfg.PingInterval \in Nat /\ cfg.IdleTimeout \in Nat
      /\ HasIdle => HasPing
      /\ env.rtt \in Nat /\ env.busy \in Nat /\ env.hook \in Nat
  BY ConfigTypes DEF TickerInv
<1>1. UNCHANGED <<cfg, env, conn, reading, keeper, busy, pongHere>>
  BY DEF Tick
<1>2. conn' = "open"
  BY <1>1 DEF Healthy
<1>3. PingInTime'
  BY <1>0, <1>1 DEF Healthy, PingInTime, Tick, NothingDue, Down, TypeOK
<1>4. HookInTime'
  BY <1>0, <1>1 DEF Healthy, HookInTime, HasIdle, Tick, NothingDue,
     Down, TypeOK, RoomForPong
<1>5. ASSUME HasIdle PROVE idleLeft' > 0 /\ PongInTime'
  <2>0. idleLeft \in Nat /\ idleLeft > 0 /\ idleLeft' = idleLeft - 1
    BY <1>0, <1>5 DEF Healthy, Tick, Down, TypeOK
  <2>1. CASE pongHere
    <3>1. ~reading /\ hookFor' \in Nat /\ hookFor' <= env.hook /\ idleLeft' = cfg.IdleTimeout - hookFor'
      BY <1>0, <1>1, <1>4, <1>5, <2>1 DEF Tick, NothingDue, TypeOK,
         HookInTime, HasIdle
    <3> QED
      BY <1>0, <1>1, <1>5, <2>1, <3>1 DEF RoomForPong, PongInTime
  <2>2. ASSUME NEW age \in pongs, idleLeft > env.rtt - age
        PROVE  idleLeft' > 0 /\ PongInTime'
    <3>1. age \in Nat /\ age < env.rtt /\ age + 1 \in pongs'
      BY <1>0 DEF Tick, NothingDue, TypeOK
    <3> QED
      BY <1>0, <1>1, <2>0, <2>2, <3>1 DEF PongInTime
  <2>3. CASE idleLeft > PingDue + env.rtt
    <3>1. PingDue \in Nat /\ PingDue >= 1 /\ PingDue' = PingDue - 1
      <4>1. CASE keeper = "pinging"
        BY <1>0, <1>1, <4>1 DEF PingDue, Tick, NothingDue, TypeOK
      <4>2. CASE keeper = "waiting"
        <5>1. ~tickReady /\ (tickReady' <=> tickLeft = 1)
          BY <4>2 DEF Tick, NothingDue, TypeOK
        <5>2. tickLeft \in Nat /\ tickLeft >= 1 /\ (tickLeft > 1 => tickLeft' = tickLeft - 1)
          BY <1>0, <1>5 DEF Tick, TickerInv, TypeOK
        <5> QED
          BY <1>0, <1>1, <4>2, <5>1, <5>2 DEF PingDue
      <4> QED
        BY <4>1, <4>2 DEF TypeOK
    <3> QED
      BY <1>0, <1>1, <2>0, <2>3, <3>1 DEF PongInTime
  <2> QED
    BY <1>5, <2>1, <2>2, <2>3 DEF Healthy, PongInTime
<1> QED
  BY <1>1, <1>2, <1>3, <1>4, <1>5 DEF Healthy, HasIdle

(* Every step that is not the clock's keeps a session of an answering peer *)
(* healthy: pings are sent, read and answered in time.                     *)
LEMMA StepHealthy ==
  ASSUME TypeOK, TickerInv, RoomForPong, env.answers, Healthy, TimingNext
  PROVE  Healthy'
<1>0. /\ cfg.PingInterval \in Nat /\ cfg.IdleTimeout \in Nat
      /\ HasIdle => HasPing
      /\ PingWriteTimeout = cfg.PingInterval
      /\ env.rtt \in Nat /\ env.busy \in Nat /\ env.hook \in Nat
      /\ idleLeft \in Nat /\ tickLeft \in 0..cfg.PingInterval /\ writeLeft \in Nat
      /\ busyFor \in 0..env.busy /\ pongs \subseteq 0..env.rtt /\ hookFor \in 0..env.hook
  BY ConfigTypes DEF TypeOK, TickerInv
<1> USE DEF Healthy, HasIdle
<1>1. CASE HookReturns
  BY <1>1 DEF HookReturns, PingInTime, HookInTime, PongInTime, PingDue
<1>2. ~ReadTimesOut
  BY DEF ReadTimesOut, DeadlinePassed
<1>3. CASE ReadPong
  <2>1. PingInTime' /\ HookInTime'
    BY <1>3 DEF ReadPong, PingInTime, HookInTime
  <2>2. HasIdle => PingDue' \in Nat /\ PingDue' <= cfg.PingInterval + env.busy
    BY <1>0, <1>3 DEF ReadPong, PingDue
  <2> QED
    BY <1>0, <1>3, <2>1, <2>2 DEF ReadPong, RoomForPong, PongInTime
<1>4. CASE ReadData
  BY <1>4 DEF ReadData, PingInTime, HookInTime, PongInTime, PingDue
<1>5. CASE KeeperTick
  <2>1. PingInTime' /\ HookInTime'
    BY <1>0, <1>5 DEF KeeperTick, PingInTime, HookInTime
  <2>2. PingDue' \in Nat /\ PingDue \in Nat /\ PingDue' <= PingDue
    BY <1>0, <1>5 DEF KeeperTick, PingDue
  <2> QED
    BY <1>0, <1>5, <2>1, <2>2 DEF KeeperTick, PongInTime
<1>6. CASE PingWritten
  <2>1. PingInTime' /\ HookInTime'
    BY <1>6 DEF PingWritten, PingInTime, HookInTime
  <2>2. PingDue = 0 /\ 0 \in pongs' /\ pongs \subseteq pongs'
    BY <1>6 DEF PingWritten, PingDue
  <2> QED
    BY <1>0, <1>6, <2>1, <2>2 DEF PingWritten, PongInTime
<1>7. ~PingTimesOut
  BY <1>0 DEF PingTimesOut, PingInTime, RoomForPong, TickerInv
<1>8. CASE WriteStarts
  BY <1>8 DEF WriteStarts, PingInTime, HookInTime, PongInTime, PingDue
<1>9. CASE WriteEnds
  <2>1. PingInTime' /\ HookInTime'
    BY <1>9 DEF WriteEnds, PingInTime, HookInTime
  <2>2. PingDue' \in Nat /\ PingDue \in Nat /\ PingDue' <= PingDue
    BY <1>0, <1>9 DEF WriteEnds, PingDue
  <2> QED
    BY <1>0, <1>9, <2>1, <2>2 DEF WriteEnds, PongInTime
<1>10. CASE PongArrives
  BY <1>10 DEF PongArrives, PingInTime, HookInTime, PongInTime
<1>11. CASE Tick
  BY <1>11, TickHealthy
<1> QED
  BY <1>1, <1>2, <1>3, <1>4, <1>5, <1>6, <1>7, <1>8, <1>9, <1>10, <1>11 DEF TimingNext

(* The clock cannot pass a step that is due, so a healthy session stays    *)
(* so.                                                                     *)
LEMMA TimeStep == TimeInv /\ [TimingNext]_timing => TimeInv'
<1> SUFFICES ASSUME TimeInv, [TimingNext]_timing PROVE TimeInv'
  OBVIOUS
<1>1. TypeOK' /\ TickerInv' /\ TypeOK /\ TickerInv
  BY TypesStep DEF TimeInv
<1>2. UNCHANGED <<cfg, env>>
  BY DEF TimingNext, HookReturns, ReadTimesOut, ReadPong, ReadData,
     KeeperTick, PingWritten,
     PingTimesOut, WriteStarts, WriteEnds, PongArrives, Tick, timing
<1>3. RoomForPong' <=> RoomForPong
  BY <1>2 DEF RoomForPong, HasIdle, HasPing, PingWriteTimeout
<1>4. ASSUME env.answers, RoomForPong, TimingNext PROVE Healthy'
  BY <1>1, <1>4, StepHealthy DEF TimeInv
<1>5. ASSUME env.answers, RoomForPong, UNCHANGED timing PROVE Healthy'
  BY <1>5 DEF TimeInv, timing, Healthy, PingInTime, HookInTime, PongInTime, PingDue,
     HasIdle
<1> QED
  BY <1>1, <1>2, <1>3, <1>4, <1>5 DEF TimeInv

(* So the session of an answering peer is healthy in every reachable       *)
(* state.                                                                  *)
LEMMA TimeInvHolds == TimingSpec => []TimeInv
BY TimeInit, TimeStep, PTL DEF TimingSpec

(* A peer that answers its pings is never timed out and never loses its    *)
(* session to a failing ping, provided the idle timeout has room for an    *)
(* interval, a write and a round trip.                                     *)
THEOREM AnsweringPeerStays == TimingSpec => []NoFalseTimeout
<1>1. TimeInv => NoFalseTimeout
  BY DEF TimeInv, Healthy, NoFalseTimeout
<1> QED
  BY <1>1, TimeInvHolds, PTL
=============================================================================
