---------------------------- MODULE ClientProofs ----------------------------
(***************************************************************************)
(* Theorems about the configuration of a client, for every number of       *)
(* servers, every choice of options and any number of reconnections.       *)
(***************************************************************************)
EXTENDS Client, WellFoundedInduction, TLAPS

\* What options are applied to.
TargetType ==
    [client : ClientFields, options : ConnectOptions, heap : [Addresses -> Packet], failed : BOOLEAN]

\* A back-off that WithBackoffStrategy lets through.
StrategyOK(options) ==
    options.firstDelay <= options.maxDelay /\ options.backOffFactor >= One

\* What the packet announces is the interval of the options, or nothing.
Announced(options, h) ==
    h[options.connPacket].Keepalive \in {0, options.keepalive}

\* What an option does to the packets: it changes the one that the options
\* point to, and only WithClientID and WithKeepalive do.
Touches(o, t, u) ==
    /\ \A a \in Addresses : a # t.options.connPacket => u.heap[a] = t.heap[a]
    /\ \A a \in Addresses : \/ u.heap[a].ClientID = t.heap[a].ClientID
                            \/ o.set = "clientID" /\ u.heap[a].ClientID = o.id
    /\ \A a \in Addresses : u.heap[a].Keepalive = 0 => t.heap[a].Keepalive = 0
    /\ o.set # "keepalive" => \A a \in Addresses : u.heap[a].Keepalive = t.heap[a].Keepalive
    /\ u.options.connPacket = IF o.set = "connPacket" THEN o.at ELSE t.options.connPacket

-----------------------------------------------------------------------------
\* Every option keeps the types, a valid strategy and the relation of the
\* packet to the interval, and touches the packets as described.
LEMMA ApplyEffect ==
    ASSUME NEW o \in Option, NEW t \in TargetType
    PROVE  /\ apply(o, t) \in TargetType
           /\ StrategyOK(t.options) => StrategyOK(apply(o, t).options)
           /\ Announced(t.options, t.heap) => Announced(apply(o, t).options, apply(o, t).heap)
           /\ Touches(o, t, apply(o, t))
<1> DEFINE Goal(u) == /\ u \in TargetType
                      /\ StrategyOK(t.options) => StrategyOK(u.options)
                      /\ Announced(t.options, t.heap) => Announced(u.options, u.heap)
                      /\ Touches(o, t, u)
<1> USE DEF TargetType, ConnectOptions, ClientFields, Packet, StrategyOK, Announced, Touches
<1>0. t.options.connPacket \in Addresses
  OBVIOUS
<1>1. CASE o \in [set : {"backoff"}, first : Nat, max : Nat, factor : Nat]
  <2>1. apply(o, t) = WithBackoffStrategy(o, t)
    BY <1>1 DEF apply
  <2> DEFINE first == AtLeast(o.first, Millisecond)
             max   == AtLeast(o.max, first)
             fac   == AtLeast(o.factor, One)
  <2>2. first \in Nat /\ max \in Nat /\ fac \in Nat /\ first <= max /\ fac >= One
    BY <1>1 DEF AtLeast, Millisecond, One
  <2>3. WithBackoffStrategy(o, t) =
           [t EXCEPT !.options.firstDelay = first, !.options.maxDelay = max, !.options.backOffFactor = fac]
    BY DEF WithBackoffStrategy
  <2> HIDE DEF first, max, fac
  <2> DEFINE u == WithBackoffStrategy(o, t)
  <2>4. u.client = t.client /\ u.heap = t.heap /\ u.failed = t.failed
    BY <2>3
  <2>5. u.options = [t.options EXCEPT !.firstDelay = first, !.maxDelay = max, !.backOffFactor = fac]
    BY <2>3
  <2>6. u \in TargetType
    <3>1. u = [client |-> t.client, options |-> u.options, heap |-> t.heap, failed |-> t.failed]
      BY <2>3
    <3>2. u.options \in ConnectOptions
      BY <2>2, <2>5
    <3> HIDE DEF u
    <3> QED BY <3>1, <3>2
  <2>7. StrategyOK(u.options) /\ u.options.connPacket = t.options.connPacket
        /\ u.options.keepalive = t.options.keepalive
    BY <2>2, <2>5
  <2> HIDE DEF u
  <2>8. Goal(u)
    BY <1>1, <2>4, <2>6, <2>7
  <2> QED BY <2>1, <2>8 DEF u
<1>2. CASE o \in [set : {"keepalive"}, seconds : Nat]
  <2>1. apply(o, t) = WithKeepalive(o, t)
    BY <1>2 DEF apply
  <2>2. CASE o.seconds = 0
    <3>1. Goal(WithKeepalive(o, t))
      BY <1>2, <2>2 DEF WithKeepalive
    <3> QED BY <2>1, <3>1
  <2>3. CASE o.seconds # 0
    <3> DEFINE u == WithKeepalive(o, t)
               c == t.options.connPacket
    <3>1. u.client = t.client /\ u.failed = t.failed
          /\ u.options = [t.options EXCEPT !.keepalive = o.seconds]
          /\ u.heap = [t.heap EXCEPT ![c].Keepalive = o.seconds]
      BY <2>3 DEF WithKeepalive
    <3>2. u \in TargetType
      <4>1. u = [client |-> t.client, options |-> u.options, heap |-> u.heap, failed |-> t.failed]
        BY <2>3 DEF WithKeepalive
      <4>2. u.options \in ConnectOptions
        BY <1>2, <3>1
      <4>3. u.heap \in [Addresses -> Packet]
        BY <1>0, <1>2, <3>1
      <4> HIDE DEF u
      <4> QED BY <4>1, <4>2, <4>3
    <3>3. u.heap[c].Keepalive = o.seconds /\ u.heap[c].ClientID = t.heap[c].ClientID
      BY <1>0, <3>1
    <3>4. \A a \in Addresses : a # c => u.heap[a] = t.heap[a]
      BY <1>0, <3>1
    <3>5. StrategyOK(t.options) => StrategyOK(u.options)
      BY <3>1
    <3>6. u.options.keepalive = o.seconds /\ u.options.connPacket = c
      BY <3>1
    <3> HIDE DEF u
    <3>7. Goal(u)
      BY <1>2, <2>3, <3>2, <3>3, <3>4, <3>5, <3>6
    <3> QED BY <2>1, <3>7 DEF u
  <2> QED BY <2>2, <2>3
<1>3. CASE o \in [set : {"clientID"}, id : Names]
  <2>1. apply(o, t) = WithClientID(o, t)
    BY <1>3 DEF apply
  <2>2. Goal(WithClientID(o, t))
    BY <1>0, <1>3, SMTT(30) DEF WithClientID
  <2> QED BY <2>1, <2>2
<1>4. CASE o \in [set : {"connPacket"}, at : 1 .. Len(Given)]
  <2>1. apply(o, t) = WithConnPacket(o, t)
    BY <1>4 DEF apply
  <2>2. o.at \in Addresses
    BY <1>4, SetupsAssumption DEF Addresses
  <2> DEFINE u == WithConnPacket(o, t)
             k == IF t.heap[o.at].Keepalive > 0 THEN t.heap[o.at].Keepalive ELSE t.options.keepalive
  <2>3. k \in Nat /\ t.heap[o.at].Keepalive \in {0, k}
    BY <2>2
  <2>4. u = [t EXCEPT !.options.connPacket = o.at, !.options.keepalive = k]
    BY DEF WithConnPacket
  <2> HIDE DEF k
  <2>5. u.client = t.client /\ u.failed = t.failed /\ u.heap = t.heap
        /\ u.options = [t.options EXCEPT !.connPacket = o.at, !.keepalive = k]
    BY <2>4
  <2>6. u \in TargetType
    <3>1. u = [client |-> t.client, options |-> u.options, heap |-> t.heap, failed |-> t.failed]
      BY <2>4
    <3>2. u.options \in ConnectOptions
      BY <2>2, <2>3, <2>5
    <3> HIDE DEF u
    <3> QED BY <3>1, <3>2
  <2>7. u.options.connPacket = o.at /\ u.options.keepalive = k
        /\ (StrategyOK(t.options) => StrategyOK(u.options))
    BY <2>5
  <2> HIDE DEF u
  <2>8. Goal(u)
    BY <1>4, <2>3, <2>5, <2>6, <2>7
  <2> QED BY <2>1, <2>8 DEF u
<1>5. CASE o \in [set : {"version"}, version : Nat, compromise : BOOLEAN]
  <2>1. apply(o, t) = WithVersion(o, t)
    BY <1>5 DEF apply
  <2>2. Goal(WithVersion(o, t))
    BY <1>5 DEF WithVersion
  <2> QED BY <2>1, <2>2
<1>6. CASE o \in [set : {"autoReconnect"}, on : BOOLEAN]
  <2>1. apply(o, t) = WithAutoReconnect(o, t)
    BY <1>6 DEF apply
  <2>2. Goal(WithAutoReconnect(o, t))
    BY <1>6 DEF WithAutoReconnect
  <2> QED BY <2>1, <2>2
<1>7. CASE o \in [set : {"server"}, server : Servers]
  <2>1. apply(o, t) = WithServer(o, t)
    BY <1>7 DEF apply
  <2>2. Goal(WithServer(o, t))
    BY <1>7 DEF WithServer
  <2> QED BY <2>1, <2>2
<1>8. CASE o \in [set : {"pubHandler"}, handler : Names]
  <2>1. apply(o, t) = WithPubHandleFunc(o, t)
    BY <1>8 DEF apply
  <2>2. Goal(WithPubHandleFunc(o, t))
    BY <1>8 DEF WithPubHandleFunc
  <2> QED BY <2>1, <2>2
<1>9. CASE o \in [set : {"bufSize"}]
  <2>1. apply(o, t) = WithBufSize(o, t)
    BY <1>9 DEF apply
  <2>2. Goal(WithBufSize(o, t))
    BY <1>9 DEF WithBufSize
  <2> QED BY <2>1, <2>2
<1> QED BY <1>1, <1>2, <1>3, <1>4, <1>5, <1>6, <1>7, <1>8, <1>9 DEF Option

-----------------------------------------------------------------------------
\* The options that a call applies next, and what they are applied to
LEMMA NextOfNew ==
    ASSUME TypeOK, new.applied < Len(setup.new)
    PROVE  /\ setup.new[new.applied + 1] \in Option
           /\ new.applied + 1 \in DOMAIN setup.new
           /\ Target(client.own, client.options, heap) \in TargetType
<1>1. setup.new \in Seq(Option)
  BY SetupsAssumption DEF TypeOK
<1>2. new.applied \in Nat
  BY DEF TypeOK
<1>3. Target(client.own, client.options, heap) \in TargetType
  BY DEF TypeOK, Target, TargetType
<1> QED BY <1>1, <1>2, <1>3

LEMMA NextOfServer ==
    ASSUME TypeOK, NEW s \in Servers, conn[s].applied < Len(setup.server[s])
    PROVE  /\ setup.server[s][conn[s].applied + 1] \in Option
           /\ setup.server[s][conn[s].applied + 1] \in OptionsOf(s)
           /\ conn[s].applied + 1 \in 1 .. Len(setup.server[s])
           /\ Target(client.own, conn[s].options, heap) \in TargetType
<1>1. setup.server[s] \in Seq(Option)
  BY SetupsAssumption DEF TypeOK
<1>2. conn[s] \in Conn
  BY DEF TypeOK
<1>3. conn[s].applied \in Nat /\ conn[s].options \in ConnectOptions
  BY <1>2 DEF Conn
<1>4. Target(client.own, conn[s].options, heap) \in TargetType
  BY <1>3 DEF TypeOK, Target, TargetType
<1> QED BY <1>1, <1>3, <1>4 DEF OptionsOf

-----------------------------------------------------------------------------
(* Induction, and the powers of a factor *)

\* A set of numbers has a least element.
LEMMA LeastNat ==
    ASSUME NEW T, T \subseteq Nat, T # {}
    PROVE  \E m \in T : \A k \in T : m <= k
<1> DEFINE R == {ss \in Nat \X Nat : ss[1] < ss[2]}
<1>1. IsWellFoundedOn(R, Nat)
  BY NatLessThanWellFounded DEF OpToRel
<1> HIDE DEF R
<1>2. PICK m \in T : \A k \in T : ~(<<k, m>> \in R)
  BY <1>1, WFMin
<1>3. ASSUME NEW k \in T PROVE m <= k
  <2>1. <<k, m>> \in Nat \X Nat /\ <<k, m>>[1] = k /\ <<k, m>>[2] = m
    OBVIOUS
  <2>2. ~(k < m)
    BY <1>2, <2>1, Zenon DEF R
  <2> QED BY <2>2
<1> QED BY <1>3

\* Induction, for the set of the numbers that have a property
LEMMA Induct ==
    ASSUME NEW T, 0 \in T, \A n \in Nat : n \in T => n + 1 \in T
    PROVE  Nat \subseteq T
<1> SUFFICES ASSUME Nat \ T # {} PROVE FALSE
  OBVIOUS
<1>1. PICK m \in Nat \ T : \A k \in Nat \ T : m <= k
  BY LeastNat
<1>2. m # 0 /\ m - 1 \in Nat /\ m - 1 \in T
  BY <1>1
<1> QED BY <1>1, <1>2

\* p is the function that Power builds: it multiplies by b from one place to the next.
Powers(p, b, n) == p = [i \in 0..n |-> IF i = 0 THEN 1 ELSE b * p[i - 1]]

\* The recursion of Power defines a function.
LEMMA PowersExist ==
    ASSUME NEW b \in Nat
    PROVE  \A n \in Nat : \E p \in [0..n -> Nat] : Powers(p, b, n)
<1> DEFINE T == {n \in Nat : \E p \in [0..n -> Nat] : Powers(p, b, n)}
<1>1. 0 \in T
  <2> DEFINE p == [i \in 0..0 |-> 1]
  <2>1. p \in [0..0 -> Nat] /\ p = [i \in 0..0 |-> IF i = 0 THEN 1 ELSE b * p[i - 1]]
    OBVIOUS
  <2> HIDE DEF p
  <2> QED BY <2>1 DEF Powers
<1>2. ASSUME NEW n \in Nat, n \in T
      PROVE  n + 1 \in T
  <2>1. PICK p \in [0..n -> Nat] : Powers(p, b, n)
    BY <1>2
  <2> DEFINE q == [i \in 0..(n + 1) |-> IF i = n + 1 THEN b * p[n] ELSE p[i]]
  <2>2. p[n] \in Nat /\ b * p[n] \in Nat
    OBVIOUS
  <2>3. q \in [0..(n + 1) -> Nat]
    BY <2>2
  <2>4. ASSUME NEW i \in 0..(n + 1)
        PROVE  q[i] = IF i = 0 THEN 1 ELSE b * q[i - 1]
    <3>1. CASE i = n + 1
      <4>1. i # 0 /\ i - 1 = n /\ n \in 0..(n + 1) /\ n # n + 1
        BY <3>1
      <4> QED BY <3>1, <4>1
    <3>2. CASE i # n + 1
      <4>1. i \in 0..n /\ q[i] = p[i]
        BY <3>2
      <4>2. p[i] = IF i = 0 THEN 1 ELSE b * p[i - 1]
        BY <2>1, <4>1 DEF Powers
      <4>3. i # 0 => i - 1 \in 0..(n + 1) /\ i - 1 # n + 1
        BY <4>1
      <4> QED BY <4>1, <4>2, <4>3
    <3> QED BY <3>1, <3>2
  <2>5. q = [i \in 0..(n + 1) |-> q[i]]
    OBVIOUS
  <2> HIDE DEF q
  <2>6. q = [i \in 0..(n + 1) |-> IF i = 0 THEN 1 ELSE b * q[i - 1]]
    BY <2>4, <2>5
  <2> QED BY <2>3, <2>6 DEF Powers
<1>3. Nat \subseteq T
  BY <1>1, <1>2, Induct
<1> QED BY <1>3

LEMMA PowerIs ==
    ASSUME NEW b \in Nat, NEW n \in Nat
    PROVE  \E p : Powers(p, b, n) /\ Power(b, n) = p[n]
<1>1. Power(b, n) = (CHOOSE p : Powers(p, b, n))[n]
  BY DEF Power, Powers
<1>2. \E p : Powers(p, b, n)
  BY PowersExist
<1>3. Powers(CHOOSE p : Powers(p, b, n), b, n)
  BY <1>2, Zenon
<1> QED BY <1>1, <1>3

\* ... the same one whatever its length.
LEMMA PowersAgree ==
    ASSUME NEW b \in Nat, NEW m \in Nat, NEW n \in Nat, NEW p, NEW q,
           Powers(p, b, m), Powers(q, b, n), m <= n
    PROVE  \A i \in 0..m : p[i] = q[i] /\ p[i] \in Nat
<1> DEFINE T == {i \in Nat : i <= m => p[i] = q[i] /\ p[i] \in Nat}
<1>0. /\ \A i \in 0..m : p[i] = IF i = 0 THEN 1 ELSE b * p[i - 1]
      /\ \A i \in 0..n : q[i] = IF i = 0 THEN 1 ELSE b * q[i - 1]
  BY DEF Powers
<1>1. 0 \in T
  <2>1. 0 \in 0..m /\ 0 \in 0..n
    OBVIOUS
  <2> QED BY <1>0, <2>1
<1>2. ASSUME NEW i \in Nat, i \in T
      PROVE  i + 1 \in T
  <2> SUFFICES ASSUME i + 1 <= m PROVE p[i + 1] = q[i + 1] /\ p[i + 1] \in Nat
    OBVIOUS
  <2>1. i + 1 \in 0..m /\ i + 1 \in 0..n /\ i + 1 # 0 /\ (i + 1) - 1 = i /\ i <= m
    OBVIOUS
  <2>2. p[i + 1] = b * p[i] /\ q[i + 1] = b * q[i]
    BY <1>0, <2>1
  <2>3. p[i] = q[i] /\ p[i] \in Nat
    BY <1>2, <2>1
  <2> QED BY <2>2, <2>3
<1>3. Nat \subseteq T
  BY <1>1, <1>2, Induct
<1> QED BY <1>3

\* What Power computes
LEMMA PowerStep ==
    ASSUME NEW b \in Nat
    PROVE  /\ Power(b, 0) = 1
           /\ \A n \in Nat : Power(b, n) \in Nat /\ Power(b, n + 1) = b * Power(b, n)
<1>1. Power(b, 0) = 1
  <2>1. PICK p : Powers(p, b, 0) /\ Power(b, 0) = p[0]
    BY PowerIs
  <2> QED BY <2>1 DEF Powers
<1>2. ASSUME NEW n \in Nat
      PROVE  Power(b, n) \in Nat /\ Power(b, n + 1) = b * Power(b, n)
  <2>1. PICK p : Powers(p, b, n) /\ Power(b, n) = p[n]
    BY PowerIs
  <2>2. PICK q : Powers(q, b, n + 1) /\ Power(b, n + 1) = q[n + 1]
    BY PowerIs
  <2>3. n + 1 \in Nat /\ n <= n + 1 /\ n \in 0..n /\ n + 1 \in 0..(n + 1) /\ (n + 1) - 1 = n /\ n + 1 # 0
    OBVIOUS
  <2>4. p[n] = q[n] /\ p[n] \in Nat
    BY <2>1, <2>2, <2>3, PowersAgree
  <2>5. q[n + 1] = b * q[n]
    BY <2>2, <2>3 DEF Powers
  <2> QED BY <2>1, <2>2, <2>4, <2>5
<1> QED BY <1>1, <1>2

\* The powers of a factor of whole units
LEMMA PowerTimes ==
    ASSUME NEW a \in Nat, NEW b \in Nat
    PROVE  \A n \in Nat : Power(a * b, n) = Power(a, n) * Power(b, n)
<1> DEFINE T == {n \in Nat : Power(a * b, n) = Power(a, n) * Power(b, n)}
<1>0. a * b \in Nat
  OBVIOUS
<1>1. 0 \in T
  BY <1>0, PowerStep
<1>2. ASSUME NEW n \in Nat, n \in T
      PROVE  n + 1 \in T
  <2>1. /\ Power(a * b, n + 1) = (a * b) * Power(a * b, n)
        /\ Power(a, n + 1) = a * Power(a, n)
        /\ Power(b, n + 1) = b * Power(b, n)
        /\ Power(a, n) \in Nat /\ Power(b, n) \in Nat
    BY <1>0, PowerStep
  <2>2. \A x \in Nat, y \in Nat : (a * b) * (x * y) = (a * x) * (b * y)
    OBVIOUS
  <2> QED BY <1>2, <2>1, <2>2
<1>3. Nat \subseteq T
  BY <1>1, <1>2, Induct
<1> QED BY <1>3

LEMMA PowerPositive ==
    ASSUME NEW b \in Nat, b >= 1
    PROVE  \A n \in Nat : Power(b, n) >= 1
<1> DEFINE T == {n \in Nat : Power(b, n) >= 1}
<1>1. 0 \in T
  BY PowerStep
<1>2. ASSUME NEW n \in Nat, n \in T
      PROVE  n + 1 \in T
  <2>1. Power(b, n + 1) = b * Power(b, n) /\ Power(b, n) \in Nat /\ Power(b, n) >= 1
    BY <1>2, PowerStep
  <2>2. \A x \in Nat : x >= 1 => b * x >= 1
    OBVIOUS
  <2> QED BY <2>1, <2>2
<1>3. Nat \subseteq T
  BY <1>1, <1>2, Induct
<1> QED BY <1>3

-----------------------------------------------------------------------------
(* The delays of a strategy *)

\* The delay before the next reconnection, after n of them: with its rounding,
\* not above the exact one; exact, up to the limit, if the factor is whole.
Geometric(o, delay, n) ==
    /\ delay * Power(One, n) <= o.firstDelay * Power(o.backOffFactor, n)
    /\ \A g \in Nat : o.backOffFactor = g * One =>
          delay = IF o.firstDelay * Power(g, n) > o.maxDelay THEN o.maxDelay ELSE o.firstDelay * Power(g, n)

LEMMA GeometricStarts ==
    ASSUME NEW o \in ConnectOptions, StrategyOK(o)
    PROVE  Geometric(o, o.firstDelay, 0)
<1>1. o.firstDelay \in Nat /\ o.maxDelay \in Nat /\ o.backOffFactor \in Nat /\ o.firstDelay <= o.maxDelay /\ One \in Nat
  BY DEF ConnectOptions, StrategyOK, One
<1>2. \A b \in Nat : Power(b, 0) = 1
  BY PowerStep
<1> QED BY <1>1, <1>2 DEF Geometric

\* connect() hands the next run the delay multiplied by the factor, cut to the
\* limit.
LEMMA GeometricGrows ==
    ASSUME NEW c \in Conn, StrategyOK(c.options), c.delay <= c.options.maxDelay,
           Geometric(c.options, c.delay, c.retries)
    PROVE  Geometric(c.options, NextDelay(c), c.retries + 1)
<1> DEFINE o == c.options
           d == c.delay
           f == o.backOffFactor
           a == o.firstDelay
           m == o.maxDelay
           n == c.retries
           grown == (d * f) \div One
           x == NextDelay(c)
<1>1. d \in Nat /\ f \in Nat /\ a \in Nat /\ m \in Nat /\ n \in Nat /\ d <= m /\ f >= One
  BY SetupsAssumption DEF Conn, ConnectOptions, StrategyOK
<1>2. x = IF grown > m THEN m ELSE grown
  BY DEF NextDelay
<1>3. d * f \in Nat
  BY <1>1
<1> HIDE DEF x, d, f, a, m, n
<1>4. grown \in Nat /\ grown * 2 <= d * f
  <2> DEFINE y == d * f
  <2> HIDE DEF y
  <2>1. y \in Nat
    BY <1>3 DEF y
  <2>2. y \div 2 \in Nat /\ (y \div 2) * 2 <= y
    BY <2>1
  <2> QED BY <2>2 DEF y, One
<1>5. x \in Nat /\ x <= grown /\ x * 2 <= d * f
  <2> HIDE DEF grown
  <2> QED BY <1>1, <1>2, <1>3, <1>4
<1>6. /\ \A b \in Nat : Power(b, n) \in Nat /\ Power(b, n + 1) = b * Power(b, n)
      /\ One = 2
  BY <1>1, PowerStep DEF One
<1>7. x * Power(One, n + 1) <= a * Power(f, n + 1)
  <2> DEFINE P == Power(f, n)
             Q == Power(2, n)
  <2>1. P \in Nat /\ Q \in Nat /\ Power(f, n + 1) = f * P /\ Power(One, n + 1) = 2 * Q
    BY <1>1, <1>6
  <2>2. d * Q <= a * P
    BY <1>6 DEF Geometric, d, n, a, f
  <2> HIDE DEF P, Q
  <2>3. x * (2 * Q) = (x * 2) * Q
    BY <1>5, <2>1
  <2>4. (x * 2) * Q <= (d * f) * Q
    <3> DEFINE u == x * 2
               v == d * f
    <3>1. u \in Nat /\ v \in Nat /\ u <= v
      BY <1>5, <1>3
    <3> HIDE DEF u, v
    <3>2. PICK w \in Nat : v = u + w
      <4>1. v - u \in Nat /\ v = u + (v - u)
        BY <3>1
      <4> QED BY <4>1
    <3>3. v * Q = u * Q + w * Q /\ w * Q \in Nat /\ u * Q \in Nat
      BY <3>1, <3>2, <2>1
    <3>4. u * Q <= v * Q
      BY <3>3
    <3> QED BY <3>4 DEF u, v
  <2>5. (d * f) * Q = f * (d * Q) /\ d * Q \in Nat /\ a * P \in Nat
    BY <1>1, <2>1
  <2>6. f * (d * Q) <= f * (a * P)
    <3> DEFINE u == d * Q
               v == a * P
    <3>1. u \in Nat /\ v \in Nat /\ u <= v
      BY <2>5, <2>2
    <3> HIDE DEF u, v
    <3>2. PICK w \in Nat : v = u + w
      <4>1. v - u \in Nat /\ v = u + (v - u)
        BY <3>1
      <4> QED BY <4>1
    <3>3. f * v = f * u + f * w /\ f * w \in Nat /\ f * u \in Nat
      BY <1>1, <3>1, <3>2
    <3>4. f * u <= f * v
      BY <3>3
    <3> QED BY <3>4 DEF u, v
  <2>7. f * (a * P) = a * (f * P)
    BY <1>1, <2>1
  <2>8. /\ x * (2 * Q) \in Nat /\ (d * f) * Q \in Nat /\ f * (d * Q) \in Nat
        /\ f * (a * P) \in Nat /\ a * (f * P) \in Nat
    BY <1>1, <1>3, <1>5, <2>1, <2>5
  <2>9. x * (2 * Q) <= a * (f * P)
    <3> DEFINE k1 == x * (2 * Q)
               k2 == (x * 2) * Q
               k3 == (d * f) * Q
               k4 == f * (d * Q)
               k5 == f * (a * P)
               k6 == a * (f * P)
    <3>1. k1 = k2 /\ k2 <= k3 /\ k3 = k4 /\ k4 <= k5 /\ k5 = k6 /\ k1 \in Nat /\ k3 \in Nat /\ k5 \in Nat
      BY <2>3, <2>4, <2>5, <2>6, <2>7, <2>8
    <3> HIDE DEF k1, k2, k3, k4, k5, k6
    <3>2. k1 <= k6
      BY <3>1
    <3> QED BY <3>2 DEF k1, k6
  <2> QED BY <2>1, <2>9
<1>8. ASSUME NEW g \in Nat, f = g * One
      PROVE  x = IF a * Power(g, n + 1) > m THEN m ELSE a * Power(g, n + 1)
  <2> DEFINE P == Power(g, n)
             e == a * P
  <2>1. P \in Nat /\ Power(g, n + 1) = g * P /\ e \in Nat
    BY <1>1, <1>6
  <2>2. d = IF e > m THEN m ELSE e
    BY <1>8 DEF Geometric, d, n, a, f, m
  <2>3. a * (g * P) = e * g /\ e * g \in Nat
    BY <1>1, <2>1
  <2>4. grown = d * g /\ d * g \in Nat
    <3>1. d * f = 2 * (d * g) /\ d * g \in Nat
      BY <1>1, <1>6, <1>8
    <3> DEFINE y == d * g
    <3> HIDE DEF y
    <3>2. \A z \in Nat : (2 * z) \div 2 = z
      OBVIOUS
    <3> QED BY <1>6, <3>1, <3>2
  <2>5. g >= 1
    BY <1>1, <1>6, <1>8
  <2> HIDE DEF P, e, grown
  <2>6. CASE e > m
    <3>1. d = m /\ m * g >= m /\ e * g >= e
      <4>1. \A z \in Nat : z * g >= z
        <5>1. PICK h \in Nat : g = 1 + h
          <6>1. g - 1 \in Nat /\ g = 1 + (g - 1)
            BY <2>5
          <6> QED BY <6>1
        <5>2. ASSUME NEW z \in Nat PROVE z * g >= z
          <6>1. z * g = z + z * h /\ z * h \in Nat
            BY <5>1
          <6> QED BY <6>1
        <5> QED BY <5>2
      <4> QED BY <1>1, <2>1, <2>2, <2>6, <4>1
    <3>2. x = m
      BY <1>1, <1>2, <2>4, <3>1
    <3>3. e * g > m
      BY <1>1, <2>1, <2>3, <2>6, <3>1
    <3> QED BY <2>1, <2>3, <3>2, <3>3
  <2>7. CASE ~(e > m)
    BY <1>2, <2>1, <2>2, <2>3, <2>4, <2>7
  <2> QED BY <2>6, <2>7
<1> QED BY <1>7, <1>8 DEF Geometric, x, n, a, f, m

\* What that says of the delay, with the division of BackoffIsGeometric
LEMMA GeometricIs ==
    ASSUME NEW o \in ConnectOptions, NEW delay \in Nat, NEW n \in Nat, Geometric(o, delay, n)
    PROVE  LET exact == (o.firstDelay * Power(o.backOffFactor, n)) \div Power(One, n)
           IN  /\ delay <= exact
               /\ o.backOffFactor % One = 0 => delay = (IF exact > o.maxDelay THEN o.maxDelay ELSE exact)
<1> DEFINE f == o.backOffFactor
           a == o.firstDelay
           P == Power(f, n)
           Q == Power(One, n)
           y == a * P
           exact == y \div Q
<1>1. f \in Nat /\ a \in Nat /\ o.maxDelay \in Nat /\ One \in Nat /\ One = 2
  BY DEF ConnectOptions, One
<1>2. P \in Nat /\ Q \in Nat /\ Q >= 1 /\ y \in Nat
  <2>1. P \in Nat
    BY <1>1, PowerStep
  <2>2. Q \in Nat
    BY <1>1, PowerStep
  <2>3. Q >= 1
    <3>1. One >= 1
      BY <1>1
    <3> QED BY <1>1, <3>1, PowerPositive
  <2> HIDE DEF P, Q
  <2> QED BY <1>1, <2>1, <2>2, <2>3
<1>3. delay * Q <= y
  BY DEF Geometric
<1>4. delay <= exact
  <2> HIDE DEF Q, y
  <2>1. /\ y \div Q \in Nat /\ y < ((y \div Q) + 1) * Q
    <3>1. y \div Q \in Int /\ y % Q \in 0..(Q - 1) /\ y = Q * (y \div Q) + (y % Q)
      BY <1>2
    <3>2. y \div Q >= 0
      BY <1>2
    <3> DEFINE k == y \div Q
               r == y % Q
    <3> HIDE DEF k, r
    <3>3. (k + 1) * Q = Q * k + Q
      BY <1>2, <3>1 DEF k
    <3> QED BY <1>2, <3>1, <3>2, <3>3 DEF k, r
  <2> DEFINE k == y \div Q
  <2> HIDE DEF k
  <2>2. k \in Nat /\ y < (k + 1) * Q
    BY <2>1 DEF k
  <2>3. ASSUME delay > k PROVE FALSE
    <3>1. PICK w \in Nat : delay = (k + 1) + w
      <4>1. delay - (k + 1) \in Nat /\ delay = (k + 1) + (delay - (k + 1))
        BY <2>2, <2>3
      <4> QED BY <4>1
    <3>2. delay * Q = (k + 1) * Q + w * Q /\ w * Q \in Nat /\ (k + 1) * Q \in Nat
      BY <1>2, <2>2, <3>1
    <3> QED BY <1>2, <1>3, <2>2, <3>2
  <2>4. delay <= k
    BY <2>2, <2>3
  <2> QED BY <2>4 DEF k
<1>5. ASSUME f % One = 0
      PROVE  delay = (IF exact > o.maxDelay THEN o.maxDelay ELSE exact)
  <2>1. PICK g \in Nat : f = g * One
    <3>1. f \div 2 \in Nat /\ f = (f \div 2) * 2
      BY <1>1, <1>5
    <3> QED BY <1>1, <3>1
  <2>2. P = Power(g, n) * Q /\ Power(g, n) \in Nat
    <3>1. P = Power(g * One, n)
      BY <2>1
    <3>2. Power(g * One, n) = Power(g, n) * Power(One, n)
      BY <1>1, PowerTimes
    <3>3. Power(g, n) \in Nat
      BY PowerStep
    <3> QED BY <3>1, <3>2, <3>3
  <2>3. exact = a * Power(g, n)
    <3> DEFINE z == a * Power(g, n)
    <3>1. z \in Nat /\ y = z * Q
      BY <1>1, <1>2, <2>2
    <3> HIDE DEF z, y, Q
    <3>2. (z * Q) \div Q = z
      BY <1>2, <3>1
    <3> QED BY <3>1, <3>2 DEF z
  <2> QED BY <2>1, <2>3 DEF Geometric
<1> HIDE DEF exact
<1>6. delay <= exact /\ (f % One = 0 => delay = (IF exact > o.maxDelay THEN o.maxDelay ELSE exact))
  BY <1>4, <1>5
<1> QED BY <1>6 DEF exact

-----------------------------------------------------------------------------
(* Types, delays and versions *)

Started   == {"dial", "hello", "wait", "up", "reconnect", "returned"}
Answering == {"wait", "up"}

\* What holds of a connection whatever the others do: its strategy is valid,
\* its delay is the one of the strategy, and its version, which is what the
\* server was told, is the one of WithVersion or, after a fall-back, the lower.
ConnOK(c) ==
    /\ c \in Conn
    /\ StrategyOK(c.options)
    /\ c.pc \notin Started => c.retries = 0 /\ ~c.fellBack
    /\ c.pc \in Started =>
          /\ c.options.firstDelay <= c.delay /\ c.delay <= c.options.maxDelay
          /\ Geometric(c.options, c.delay, c.retries)
          /\ c.version = IF c.fellBack THEN V311 ELSE c.options.protoVersion
          /\ c.fellBack => c.options.protoCompromise
          /\ c.pc \in Answering => c.hello.ProtoVersion = c.version

IInv ==
    /\ TypeOK
    /\ StrategyOK(client.options)
    /\ \A s \in Servers : ConnOK(conn[s])

\* A connection before its call
LEMMA NoConnOK == ConnOK(NoConn)
<1>1. defaultConnectOptions \in ConnectOptions /\ StrategyOK(defaultConnectOptions)
  BY SetupsAssumption DEF ConnectOptions, defaultConnectOptions, Addresses, StrategyOK, V311, V5, One, OneAndHalf
<1>2. NoConn.options = defaultConnectOptions /\ NoConn.pc \notin Started /\ NoConn.retries = 0 /\ ~NoConn.fellBack
  BY DEF NoConn, Started
<1> HIDE DEF defaultConnectOptions
<1>3. NoConn \in Conn
  <2>1. 0 \in 0 .. MaxRetries
    BY SetupsAssumption
  <2>2. [ClientID |-> "", Keepalive |-> 0, ProtoVersion |-> 0]
          \in [ClientID : Names, Keepalive : Nat, ProtoVersion : {0, V311, V5}]
    BY NamesAssumption
  <2> QED BY <1>1, <2>1, <2>2 DEF NoConn, Conn, PCs
<1> QED BY <1>1, <1>2, <1>3 DEF ConnOK

LEMMA NoConnFields ==
    /\ NoConn.pc = "none" /\ NoConn.applied = 0 /\ NoConn.options.connPacket = 0
    /\ NoConn.retries = 0 /\ ~NoConn.fellBack
BY DEF NoConn, defaultConnectOptions

\* The delay grows or is at its limit.
LEMMA DelayGrows ==
    ASSUME NEW c \in Conn, StrategyOK(c.options),
           c.options.firstDelay <= c.delay, c.delay <= c.options.maxDelay
    PROVE  /\ NextDelay(c) \in Nat
           /\ c.options.firstDelay <= NextDelay(c)
           /\ NextDelay(c) <= c.options.maxDelay
<1> DEFINE d == c.delay
           f == c.options.backOffFactor
           grown == (d * f) \div One
<1>1. d \in Nat /\ f \in Nat /\ c.options.maxDelay \in Nat /\ c.options.firstDelay \in Nat
  BY DEF Conn, ConnectOptions
<1>2. f >= 2
  BY DEF StrategyOK, One
<1>3. NextDelay(c) = IF grown > c.options.maxDelay THEN c.options.maxDelay ELSE grown
  BY DEF NextDelay
<1>4. grown \in Nat /\ grown >= d
  <2> HIDE DEF d, f
  <2>1. PICK g \in Nat : f = 2 + g
    <3>1. f - 2 \in Nat /\ f = 2 + (f - 2)
      BY <1>1, <1>2
    <3> QED BY <3>1
  <2>2. PICK p \in Nat : p = d * g
    BY <1>1, <2>1
  <2>3. d * f = 2 * d + p
    BY <1>1, <2>1, <2>2
  <2> HIDE DEF grown
  <2>4. grown = (2 * d + p) \div 2
    BY <2>3 DEF grown, One
  <2> QED BY <1>1, <2>2, <2>4
<1> HIDE DEF grown
<1> QED BY <1>1, <1>3, <1>4

\* A step of one connection to a state that is right keeps the invariant.
LEMMA OneConn ==
    ASSUME IInv, NEW s \in Servers, NEW c, ConnOK(c), Become(s, c), UNCHANGED <<setup, heap, client, new>>
    PROVE  IInv'
<1>1. conn \in [Servers -> Conn]
  BY DEF IInv, TypeOK
<1>2. conn' = [conn EXCEPT ![s] = c]
  BY DEF Become
<1>3. conn' \in [Servers -> Conn] /\ \A x \in Servers : conn'[x] = IF x = s THEN c ELSE conn[x]
  BY <1>1, <1>2 DEF ConnOK
<1>4. TypeOK'
  BY <1>3 DEF IInv, TypeOK
<1>5. \A x \in Servers : ConnOK(conn'[x])
  BY <1>3 DEF IInv
<1> QED BY <1>4, <1>5 DEF IInv

LEMMA InitOK == Init => IInv
<1> SUFFICES ASSUME Init PROVE IInv
  OBVIOUS
<1>1. defaultConnectOptions \in ConnectOptions /\ StrategyOK(defaultConnectOptions)
  BY SetupsAssumption DEF ConnectOptions, defaultConnectOptions, Addresses, StrategyOK, V311, V5, One, OneAndHalf
<1>2. defaultClient \in ClientFields
  BY NamesAssumption DEF defaultClient, ClientFields
<1> HIDE DEF defaultConnectOptions, defaultClient
<1>3. client \in [own : ClientFields, options : ConnectOptions] /\ client.options = defaultConnectOptions
  BY <1>1, <1>2 DEF Init
<1>4. heap \in [Addresses -> Packet]
  <2>1. BlankPacket \in Packet
    BY NamesAssumption DEF BlankPacket, Packet
  <2>2. \A a \in Addresses : a # 0 => Given[a] \in Packet
    BY SetupsAssumption DEF Addresses
  <2> HIDE DEF Packet
  <2> QED BY <2>1, <2>2 DEF Init, Addresses
<1>5. conn \in [Servers -> Conn] /\ \A s \in Servers : ConnOK(conn[s])
  <2>1. \A s \in Servers : conn[s] = NoConn
    BY DEF Init
  <2>2. NoConn \in Conn
    BY NoConnOK DEF ConnOK
  <2> HIDE DEF NoConn
  <2> QED BY <2>1, <2>2, NoConnOK DEF Init
<1>6. new \in [pc : {"apply", "done", "failed", "crashed"}, applied : Nat, reads : Nat]
  BY DEF Init
<1>7. setup \in Setups
  BY DEF Init
<1> QED BY <1>1, <1>3, <1>4, <1>5, <1>6, <1>7 DEF IInv, TypeOK

\* A connection that moves on with the same parameters stays right.
LEMMA MovesOn ==
    ASSUME NEW c, ConnOK(c), c.pc \in Started, NEW p \in Started,
           p \in Answering => c.pc \in Answering
    PROVE  ConnOK([c EXCEPT !.pc = p])
<1> DEFINE d == [c EXCEPT !.pc = p]
<1>1. c \in Conn
  BY DEF ConnOK
<1>2. /\ d.options = c.options /\ d.delay = c.delay /\ d.version = c.version /\ d.pc = p
      /\ d.retries = c.retries /\ d.fellBack = c.fellBack /\ d.hello = c.hello
  BY <1>1 DEF Conn
<1>3. p \in PCs
  BY DEF Started, PCs
<1>4. d \in Conn
  BY <1>1, <1>3 DEF Conn
<1> HIDE DEF d
<1>5. ConnOK(d)
  BY <1>2, <1>4 DEF ConnOK
<1> QED BY <1>5 DEF d

LEMMA RetryOK ==
    ASSUME NEW c, ConnOK(c), c.pc \in Started
    PROVE  ConnOK(RetryOrReturn(c))
<1>1. ConnOK([c EXCEPT !.pc = "reconnect"]) /\ ConnOK([c EXCEPT !.pc = "returned"])
  BY MovesOn DEF Started, Answering
<1> QED BY <1>1 DEF RetryOrReturn

\* The parameters of connect() are those of the options.
LEMMA StartOK ==
    ASSUME NEW c \in Conn, StrategyOK(c.options), c.retries = 0, ~c.fellBack
    PROVE  ConnOK(StartConnect(c))
<1> DEFINE d == StartConnect(c)
<1>1. d = [c EXCEPT !.pc = "dial", !.version = c.options.protoVersion, !.delay = c.options.firstDelay]
  BY DEF StartConnect
<1>2. /\ d.options = c.options /\ d.delay = c.options.firstDelay /\ d.version = c.options.protoVersion
      /\ d.retries = 0 /\ ~d.fellBack /\ d.pc = "dial"
  BY <1>1 DEF Conn
<1>6. Geometric(c.options, c.options.firstDelay, 0)
  BY GeometricStarts DEF Conn
<1>3. c.options.firstDelay \in Nat /\ c.options.protoVersion \in {0, V311, V5} /\ c.options.maxDelay \in Nat
  BY DEF Conn, ConnectOptions
<1>4. d \in Conn
  BY <1>1, <1>3 DEF Conn, PCs
<1> HIDE DEF d
<1>5. ConnOK(d)
  BY <1>2, <1>3, <1>4, <1>6 DEF ConnOK, StrategyOK, Started, Answering
<1> QED BY <1>5 DEF d

\* The copy of the client's options that a call works on
LEMMA CloneOK ==
    ASSUME IInv, NEW p \in {"none", "apply"}
    PROVE  ConnOK([NoConn EXCEPT !.pc = p, !.options = clone(client.options)])
<1> DEFINE d == [NoConn EXCEPT !.pc = p, !.options = clone(client.options)]
<1>1. NoConn \in Conn
  BY NoConnOK DEF ConnOK
<1>2. client.options \in ConnectOptions /\ StrategyOK(client.options)
  BY DEF IInv, TypeOK
<1> HIDE DEF NoConn
<1>3. d \in Conn
  BY <1>1, <1>2 DEF Conn, PCs, clone
<1>4. d.pc = p /\ d.options = client.options /\ d.retries = 0 /\ ~d.fellBack
  BY <1>1, NoConnFields DEF Conn, clone
<1> HIDE DEF d
<1>5. ConnOK(d)
  BY <1>2, <1>3, <1>4 DEF ConnOK, Started
<1> QED BY <1>5 DEF d

\* The calls: NewClient, ConnectServer and Connect
LEMMA CallSteps ==
    ASSUME IInv,
           \/ NewClientOption \/ NewClientDone \/ Connect
           \/ \E s \in Servers : ConnectServer(s) \/ ConnectServerOption(s) \/ ConnectServerDone(s)
    PROVE  IInv'
<1>1. CASE NewClientOption
  <2> DEFINE t == Target(client.own, client.options, heap)
             u == apply(setup.new[new.applied + 1], t)
  <2>1. t \in TargetType /\ setup.new[new.applied + 1] \in Option
    BY <1>1, NextOfNew DEF IInv, NewClientOption
  <2>2. t.options = client.options
    BY DEF Target
  <2>3. u \in TargetType /\ StrategyOK(u.options)
    BY <2>1, <2>2, ApplyEffect DEF IInv
  <2>4. /\ client' = [own |-> u.client, options |-> u.options]
        /\ heap' = u.heap
        /\ new' = [new EXCEPT !.applied = @ + 1, !.pc = IF u.failed THEN "failed" ELSE @]
        /\ UNCHANGED <<setup, conn>>
    BY <1>1 DEF NewClientOption
  <2> HIDE DEF t, u
  <2>5. client' \in [own : ClientFields, options : ConnectOptions] /\ heap' \in [Addresses -> Packet]
        /\ StrategyOK(client'.options)
    BY <2>3, <2>4 DEF TargetType
  <2>6. new' \in [pc : {"apply", "done", "failed", "crashed"}, applied : Nat, reads : Nat]
    <3> DEFINE q == IF u.failed THEN "failed" ELSE new.pc
    <3>1. new \in [pc : {"apply", "done", "failed", "crashed"}, applied : Nat, reads : Nat]
      BY DEF IInv, TypeOK
    <3>2. q \in {"apply", "done", "failed", "crashed"} /\ new.applied + 1 \in Nat
      BY <3>1
    <3>3. new' = [new EXCEPT !.applied = new.applied + 1, !.pc = q]
      BY <2>4, <3>1
    <3> HIDE DEF q
    <3> QED BY <3>1, <3>2, <3>3
  <2> QED BY <2>4, <2>5, <2>6 DEF IInv, TypeOK
<1>2. CASE NewClientDone
  <2>1. client.own.recvCh \in Nat
    BY DEF IInv, TypeOK, ClientFields
  <2>2. new' \in [pc : {"apply", "done", "failed", "crashed"}, applied : Nat, reads : Nat]
    BY <1>2, <2>1 DEF IInv, TypeOK, NewClientDone
  <2> QED BY <1>2, <2>2 DEF NewClientDone, IInv, TypeOK
<1>3. CASE Connect
  <2> DEFINE d == [NoConn EXCEPT !.options = clone(client.options)]
  <2>1. NoConn \in Conn
    BY NoConnOK DEF ConnOK
  <2> HIDE DEF NoConn
  <2>2. d \in Conn /\ d.options = client.options /\ d.retries = 0 /\ ~d.fellBack
    BY <2>1, NoConnFields DEF Conn, clone, IInv, TypeOK
  <2> HIDE DEF d
  <2>3. ConnOK(StartConnect(d))
    BY <2>2, StartOK DEF IInv
  <2>4. /\ conn' = [s \in Servers |-> IF s \in client.own.servers THEN StartConnect(d) ELSE conn[s]]
        /\ UNCHANGED <<setup, heap, client, new>>
    BY <1>3 DEF Connect, d
  <2>5. \A s \in Servers : ConnOK(conn'[s])
    BY <2>3, <2>4 DEF IInv
  <2>6. conn' \in [Servers -> Conn]
    BY <2>4, <2>5 DEF ConnOK
  <2> QED BY <2>4, <2>5, <2>6 DEF IInv, TypeOK
<1>4. ASSUME NEW s \in Servers, ConnectServer(s)
      PROVE  IInv'
  BY <1>4, CloneOK, OneConn DEF ConnectServer
<1>5. ASSUME NEW s \in Servers, ConnectServerOption(s)
      PROVE  IInv'
  <2> DEFINE t == Target(client.own, conn[s].options, heap)
             u == apply(setup.server[s][conn[s].applied + 1], t)
             d == [conn[s] EXCEPT !.options = u.options, !.applied = @ + 1,
                                  !.pc = IF u.failed THEN "failed" ELSE @]
  <2>1. t \in TargetType /\ setup.server[s][conn[s].applied + 1] \in Option
    BY <1>5, NextOfServer DEF IInv, ConnectServerOption
  <2>2. t.options = conn[s].options
    BY DEF Target
  <2>3. u \in TargetType /\ StrategyOK(u.options)
    BY <2>1, <2>2, ApplyEffect DEF IInv, ConnOK
  <2>4. /\ client' = [client EXCEPT !.own = u.client]
        /\ heap' = u.heap
        /\ conn' = [conn EXCEPT ![s] = d]
        /\ UNCHANGED <<setup, new>>
        /\ conn[s].pc = "apply"
    BY <1>5 DEF ConnectServerOption, Become
  <2> HIDE DEF t, u
  <2>5. conn[s] \in Conn /\ u.options \in ConnectOptions
    BY <2>3 DEF IInv, TypeOK, TargetType
  <2>6. /\ d \in Conn /\ d.options = u.options /\ d.pc \in {"apply", "failed"}
        /\ d.retries = conn[s].retries /\ d.fellBack = conn[s].fellBack
    <3> DEFINE q == IF u.failed THEN "failed" ELSE conn[s].pc
               n == conn[s].applied + 1
    <3>1. q \in {"apply", "failed"} /\ q \in PCs
      BY <2>4 DEF PCs
    <3>2. n \in Nat
      BY <2>5 DEF Conn
    <3>3. d = [conn[s] EXCEPT !.options = u.options, !.applied = n, !.pc = q]
      BY <2>5 DEF Conn
    <3> HIDE DEF q, n, d
    <3> QED BY <2>5, <3>1, <3>2, <3>3 DEF Conn
  <2> HIDE DEF d
  <2>10. conn[s].retries = 0 /\ ~conn[s].fellBack
    BY <2>4 DEF IInv, ConnOK, Started
  <2>7. ConnOK(d)
    BY <2>3, <2>6, <2>10 DEF ConnOK, Started
  <2>8. conn' \in [Servers -> Conn] /\ \A x \in Servers : ConnOK(conn'[x])
    BY <2>4, <2>6, <2>7 DEF IInv, TypeOK
  <2>9. client' \in [own : ClientFields, options : ConnectOptions] /\ heap' \in [Addresses -> Packet]
        /\ client'.options = client.options
    BY <2>3, <2>4 DEF TargetType, IInv, TypeOK
  <2> QED BY <2>4, <2>8, <2>9 DEF IInv, TypeOK
<1>6. ASSUME NEW s \in Servers, ConnectServerDone(s)
      PROVE  IInv'
  <2>1. conn[s] \in Conn /\ StrategyOK(conn[s].options) /\ conn[s].retries = 0 /\ ~conn[s].fellBack
    BY <1>6 DEF ConnectServerDone, IInv, ConnOK, Started
  <2> QED BY <1>6, <2>1, StartOK, OneConn DEF ConnectServerDone
<1> QED BY <1>1, <1>2, <1>3, <1>4, <1>5, <1>6

\* The runs of connect()
LEMMA ConnectionSteps ==
    ASSUME IInv, NEW s \in Servers,
           \/ Dial(s) \/ SendConnect(s) \/ SendConnectCrash(s) \/ Accepted(s)
           \/ Unsupported(s) \/ Refused(s) \/ LogicEnds(s) \/ Reconnect(s)
    PROVE  IInv'
<1>0. ConnOK(conn[s]) /\ conn[s] \in Conn
  BY DEF IInv, ConnOK
<1>1. CASE Dial(s)
  <2>1. conn[s].pc \in Started /\ "hello" \in Started \ Answering
    BY <1>1 DEF Dial, Started, Answering
  <2> QED BY <1>0, <1>1, <2>1, MovesOn, RetryOK, OneConn DEF Dial, connVars
<1>2. CASE SendConnect(s)
  <2> DEFINE pkt == heap[conn[s].options.connPacket]
             d == [conn[s] EXCEPT !.pc = "wait",
                                  !.hello = [ClientID     |-> pkt.ClientID,
                                             Keepalive    |-> pkt.Keepalive,
                                             ProtoVersion |-> conn[s].version]]
  <2>1. conn[s].pc \in Started
    BY <1>2 DEF SendConnect, Started
  <2>2. conn[s].options.connPacket \in Addresses /\ conn[s].version \in {0, V311, V5}
    BY <1>0 DEF Conn, ConnectOptions
  <2>3. pkt \in Packet
    BY <2>2 DEF IInv, TypeOK
  <2>4. d \in Conn
    <3> DEFINE h == [ClientID |-> pkt.ClientID, Keepalive |-> pkt.Keepalive, ProtoVersion |-> conn[s].version]
    <3>1. h \in [ClientID : Names, Keepalive : Nat, ProtoVersion : {0, V311, V5}]
      BY <2>2, <2>3 DEF Packet
    <3>2. d = [conn[s] EXCEPT !.pc = "wait", !.hello = h]
      OBVIOUS
    <3> HIDE DEF h, d
    <3> QED BY <1>0, <3>1, <3>2 DEF Conn, PCs
  <2>5. /\ d.options = conn[s].options /\ d.delay = conn[s].delay /\ d.version = conn[s].version
        /\ d.retries = conn[s].retries /\ d.fellBack = conn[s].fellBack /\ d.pc \in Started
        /\ d.hello.ProtoVersion = conn[s].version
    BY <1>0 DEF Conn, Started
  <2>6. Become(s, d) \/ Become(s, RetryOrReturn(conn[s]))
    BY <1>2 DEF SendConnect
  <2> HIDE DEF d
  <2>7. ConnOK(d)
    BY <1>0, <2>1, <2>4, <2>5 DEF ConnOK
  <2> QED BY <1>0, <1>2, <2>1, <2>6, <2>7, RetryOK, OneConn DEF SendConnect, connVars
<1>3. CASE SendConnectCrash(s)
  <2>1. conn' = [x \in Servers |-> NoConn] /\ UNCHANGED <<setup, heap, client>>
    BY <1>3 DEF SendConnectCrash
  <2>2. new' \in [pc : {"apply", "done", "failed", "crashed"}, applied : Nat, reads : Nat]
    BY <1>3 DEF SendConnectCrash, IInv, TypeOK
  <2>3. NoConn \in Conn
    BY NoConnOK DEF ConnOK
  <2> HIDE DEF NoConn
  <2> QED BY <2>1, <2>2, <2>3, NoConnOK DEF IInv, TypeOK
<1>4. CASE Accepted(s)
  <2>1. conn[s].pc \in Started /\ "up" \in Started /\ conn[s].pc \in Answering
    BY <1>4 DEF Accepted, Started, Answering
  <2> QED BY <1>0, <1>4, <2>1, MovesOn, OneConn DEF Accepted, connVars
<1>5. CASE Unsupported(s)
  <2>1. conn[s].pc \in Started
    BY <1>5 DEF Unsupported, Started
  <2>2. CASE CanFallBack(conn[s])
    <3> DEFINE d == [conn[s] EXCEPT !.pc = "dial", !.version = @ - 1, !.fellBack = TRUE]
    <3>1. conn[s].version = V5 /\ conn[s].version - 1 = V311 /\ conn[s].options.protoCompromise
      BY <1>0, <2>2 DEF CanFallBack, Conn, V311, V5
    <3>2. /\ d.options = conn[s].options /\ d.delay = conn[s].delay /\ d.version = V311
          /\ d.retries = conn[s].retries /\ d.fellBack = TRUE /\ d.pc \in Started \ Answering
      BY <1>0, <3>1 DEF Conn, Started, Answering
    <3>3. d \in Conn
      BY <1>0, <3>1 DEF Conn, PCs
    <3> HIDE DEF d
    <3>4. ConnOK(d)
      BY <1>0, <2>1, <3>1, <3>2, <3>3 DEF ConnOK
    <3>5. Become(s, d)
      BY <1>5, <2>2 DEF Unsupported, d
    <3> QED BY <1>5, <3>4, <3>5, OneConn DEF Unsupported, connVars
  <2>3. CASE ~CanFallBack(conn[s])
    BY <1>0, <1>5, <2>1, <2>3, RetryOK, OneConn DEF Unsupported, connVars
  <2> QED BY <2>2, <2>3
<1>6. CASE Refused(s)
  <2>1. conn[s].pc \in Started
    BY <1>6 DEF Refused, Started
  <2> QED BY <1>0, <1>6, <2>1, RetryOK, OneConn DEF Refused, connVars
<1>7. CASE LogicEnds(s)
  <2>1. conn[s].pc \in Started /\ "reconnect" \in Started \ Answering
    BY <1>7 DEF LogicEnds, Started, Answering
  <2> QED BY <1>0, <1>7, <2>1, MovesOn, OneConn DEF LogicEnds, connVars
<1>8. CASE Reconnect(s)
  <2> DEFINE n == NextDelay(conn[s])
             d == [conn[s] EXCEPT !.pc = "dial", !.delay = n, !.retries = @ + 1]
  <2>1. conn[s].pc \in Started /\ conn[s].retries < MaxRetries /\ Become(s, d)
    BY <1>8 DEF Reconnect, Started
  <2>2. n \in Nat /\ conn[s].options.firstDelay <= n /\ n <= conn[s].options.maxDelay
    BY <1>0, <2>1, DelayGrows DEF ConnOK
  <2>7. Geometric(conn[s].options, n, conn[s].retries + 1)
    BY <1>0, <2>1, GeometricGrows DEF ConnOK
  <2> HIDE DEF n
  <2>3. conn[s].retries + 1 \in 0 .. MaxRetries
    BY <1>0, <2>1, SetupsAssumption DEF Conn
  <2>4. d \in Conn
    BY <1>0, <2>2, <2>3 DEF Conn, PCs
  <2>5. /\ d.options = conn[s].options /\ d.delay = n /\ d.version = conn[s].version
        /\ d.retries = conn[s].retries + 1 /\ d.fellBack = conn[s].fellBack /\ d.pc \in Started \ Answering
    BY <1>0 DEF Conn, Started, Answering
  <2> HIDE DEF d
  <2>6. ConnOK(d)
    BY <1>0, <2>1, <2>2, <2>4, <2>5, <2>7 DEF ConnOK
  <2> QED BY <1>8, <2>1, <2>6, OneConn DEF Reconnect, connVars
<1> QED BY <1>1, <1>2, <1>3, <1>4, <1>5, <1>6, <1>7, <1>8

LEMMA Inductive == IInv /\ [Next]_vars => IInv'
<1>1. ASSUME IInv, Next PROVE IInv'
  BY <1>1, CallSteps, ConnectionSteps DEF Next
<1>2. ASSUME IInv, UNCHANGED vars PROVE IInv'
  BY <1>2 DEF vars, IInv, TypeOK
<1> QED BY <1>1, <1>2

LEMMA Invariance == Spec => []IInv
BY InitOK, Inductive, PTL DEF Spec

\* Options never leave a connection with a pointer to no packet, and connect()
\* never runs with a version that does not exist.
THEOREM TypeCorrect == Spec => []TypeOK
<1>1. IInv => TypeOK
  BY DEF IInv
<1> QED BY Invariance, <1>1, PTL

\* The delays of WithBackoffStrategy are those its comment promises, for every
\* strategy and however many retries and falls back to an older version: the
\* first delay, multiplied by the factor at each retry, up to the limit.
THEOREM BackoffGeometric == Spec => []BackoffIsGeometric
<1>1. ASSUME IInv PROVE BackoffIsGeometric
  <2>1. DelayInBounds
    BY <1>1 DEF IInv, ConnOK, DelayInBounds, Connecting, Started
  <2>2. ASSUME NEW s \in Servers, Connecting(s)
        PROVE  LET c == conn[s]
                   o == c.options
                   exact == (o.firstDelay * Power(o.backOffFactor, c.retries)) \div Power(One, c.retries)
               IN  /\ c.delay <= exact
                   /\ o.backOffFactor % One = 0 => c.delay = (IF exact > o.maxDelay THEN o.maxDelay ELSE exact)
    <3>1. conn[s] \in Conn /\ conn[s].pc \in Started
      BY <1>1, <2>2 DEF IInv, ConnOK, Connecting, Started
    <3>2. Geometric(conn[s].options, conn[s].delay, conn[s].retries)
      BY <1>1, <3>1 DEF IInv, ConnOK
    <3>3. conn[s].options \in ConnectOptions /\ conn[s].delay \in Nat /\ conn[s].retries \in Nat
      BY <3>1, SetupsAssumption DEF Conn
    <3> QED BY <3>2, <3>3, GeometricIs
  <2> QED BY <2>1, <2>2, Zenon DEF BackoffIsGeometric
<1> QED BY Invariance, <1>1, PTL

\* A connection speaks the version asked for or, if WithVersion allowed the
\* compromise, the one below; and after a fall-back every CONNECT announces the
\* lower version, whatever becomes of the connections and however often
\* connect() is called again.
THEOREM VersionIsAgreed == Spec => []VersionAsAgreed
<1>1. IInv => CompromiseWhenAllowed
  BY DEF IInv, ConnOK, CompromiseWhenAllowed, Connecting, Started
<1>2. IInv => FallBackIsKept
  BY DEF IInv, ConnOK, FallBackIsKept, Started, Answering
<1>3. IInv => VersionAsAgreed
  BY <1>1, <1>2 DEF VersionAsAgreed
<1> QED BY Invariance, <1>3, PTL

-----------------------------------------------------------------------------
(* Which packet is sent: the steps, as far as packets are concerned *)

\* No connection exists before NewClient returns.
Idle == new.pc = "apply" => \A s \in Servers : conn[s].pc = "none"

\* A call has copied the client's options and has applied none of its own.
Fresh(c) == c.applied = 0 /\ c.options = client.options /\ c.pc \in {"apply", "dial"}

\* The connection moves on, and the server has not been sent another packet.
Advances(s) ==
    /\ conn[s].pc \in Started \/ (conn[s].pc = "apply" /\ conn[s].applied = Len(setup.server[s]))
    /\ conn'[s].options = conn[s].options /\ conn'[s].applied = conn[s].applied
    /\ conn'[s].hello = conn[s].hello
    /\ conn'[s].pc \in Started /\ (conn'[s].pc \in Answering => conn[s].pc \in Answering)

\* The server is sent the packet of the connection's options.
Sends(s) ==
    /\ conn[s].pc \in Started /\ conn'[s].pc \in Started
    /\ conn'[s].options = conn[s].options /\ conn'[s].applied = conn[s].applied
    /\ conn'[s].hello.ClientID = heap[conn[s].options.connPacket].ClientID
    /\ conn'[s].hello.Keepalive = heap[conn[s].options.connPacket].Keepalive

\* A step that applies no option
Quiet ==
    /\ UNCHANGED <<setup, heap, client>>
    /\ new'.pc = "apply" => conn' = conn /\ new.pc = "apply"
    /\ \A s \in Servers : \/ conn'[s] = conn[s] \/ conn'[s] = NoConn \/ Fresh(conn'[s])
                          \/ Advances(s) \/ Sends(s)

\* The step of one connection that advances, sends or starts is quiet.
LEMMA OneQuiet ==
    ASSUME IInv, Idle, NEW s \in Servers, NEW c, Become(s, c), UNCHANGED <<setup, heap, client, new>>,
           conn'[s] = c => Fresh(c) \/ Advances(s) \/ Sends(s),
           new.pc # "apply"
    PROVE  Quiet
<1>1. conn' = [conn EXCEPT ![s] = c] /\ conn \in [Servers -> Conn]
  BY DEF Become, IInv, TypeOK
<1>2. \A x \in Servers : conn'[x] = IF x = s THEN c ELSE conn[x]
  BY <1>1
<1> QED BY <1>2 DEF Quiet

\* Every step applies an option of NewClient, applies an option of a call for
\* a server, or is quiet.
LEMMA Shapes ==
    ASSUME IInv, Idle, Next
    PROVE  NewClientOption \/ (\E s \in Servers : ConnectServerOption(s)) \/ Quiet
<1>0. conn \in [Servers -> Conn]
  BY DEF IInv, TypeOK
<1>1. CASE NewClientDone
  <2>1. UNCHANGED <<setup, heap, client, conn>> /\ new' = [new EXCEPT !.pc = "done", !.reads = client.own.recvCh]
    BY <1>1 DEF NewClientDone
  <2>2. new'.pc = "done"
    BY <2>1 DEF IInv, TypeOK
  <2> QED BY <2>1, <2>2 DEF Quiet
<1>2. CASE Connect
  <2> DEFINE d == StartConnect([NoConn EXCEPT !.options = clone(client.options)])
  <2>1. /\ UNCHANGED <<setup, heap, client, new>> /\ new.pc = "done"
        /\ conn' = [s \in Servers |-> IF s \in client.own.servers THEN d ELSE conn[s]]
    BY <1>2 DEF Connect
  <2>2. Fresh(d)
    BY DEF StartConnect, NoConn, clone, Fresh
  <2> HIDE DEF d
  <2>3. \A s \in Servers : conn'[s] = conn[s] \/ conn'[s] = d
    BY <2>1
  <2> QED BY <2>1, <2>2, <2>3 DEF Quiet
<1>3. ASSUME NEW s \in Servers, ConnectServer(s)
      PROVE  Quiet
  <2> DEFINE d == [NoConn EXCEPT !.pc = "apply", !.options = clone(client.options)]
  <2>1. Fresh(d)
    BY DEF NoConn, clone, Fresh
  <2>2. Become(s, d) /\ UNCHANGED <<setup, heap, client, new>> /\ new.pc # "apply"
    BY <1>3 DEF ConnectServer
  <2> HIDE DEF d
  <2> QED BY <2>1, <2>2, OneQuiet
<1>4. ASSUME NEW s \in Servers, NEW q \in Started,
             conn[s].pc \in Started, Become(s, [conn[s] EXCEPT !.pc = q]),
             q \in Answering => conn[s].pc \in Answering, UNCHANGED connVars
      PROVE  Quiet
  <2>1. conn[s] \in Conn /\ conn[s].pc # "none"
    BY <1>0, <1>4 DEF Started
  <2>2. conn'[s] = [conn[s] EXCEPT !.pc = q]
    BY <1>0, <1>4 DEF Become
  <2>3. Advances(s)
    BY <1>4, <2>1, <2>2 DEF Advances, Conn
  <2> QED BY <1>4, <2>1, <2>3, OneQuiet DEF connVars, Idle
<1>5. ASSUME NEW s \in Servers, conn[s].pc \in Started,
             Become(s, RetryOrReturn(conn[s])), UNCHANGED connVars
      PROVE  Quiet
  <2> DEFINE q == IF conn[s].options.autoReconnect THEN "reconnect" ELSE "returned"
  <2>1. q \in Started /\ q \notin Answering
    BY DEF Started, Answering
  <2>2. Become(s, [conn[s] EXCEPT !.pc = q])
    BY <1>5 DEF RetryOrReturn
  <2> HIDE DEF q
  <2> QED BY <1>4, <1>5, <2>1, <2>2
<1>6. ASSUME NEW s \in Servers, NEW c, Become(s, c), UNCHANGED connVars,
             conn[s].pc \in Started \/ (conn[s].pc = "apply" /\ conn[s].applied = Len(setup.server[s])),
             c.options = conn[s].options, c.applied = conn[s].applied, c.hello = conn[s].hello, c.pc = "dial"
      PROVE  Quiet
  <2>1. conn'[s] = c
    BY <1>0, <1>6 DEF Become
  <2>2. Advances(s)
    BY <1>6, <2>1 DEF Advances, Started, Answering
  <2>3. new.pc # "apply"
    BY <1>6 DEF Idle, Started
  <2> QED BY <1>6, <2>2, <2>3, OneQuiet DEF connVars
<1>7. ASSUME NEW s \in Servers, ConnectServerDone(s)
      PROVE  Quiet
  <2> DEFINE c == StartConnect(conn[s])
  <2>1. c.options = conn[s].options /\ c.applied = conn[s].applied /\ c.hello = conn[s].hello /\ c.pc = "dial"
    BY <1>0 DEF StartConnect, Conn
  <2>2. Become(s, c) /\ UNCHANGED connVars /\ conn[s].pc = "apply" /\ conn[s].applied = Len(setup.server[s])
    BY <1>7 DEF ConnectServerDone, connVars
  <2> HIDE DEF c
  <2> QED BY <1>6, <2>1, <2>2
<1>8. ASSUME NEW s \in Servers, Dial(s)
      PROVE  Quiet
  <2>1. conn[s].pc \in Started /\ "hello" \in Started /\ "hello" \notin Answering
    BY <1>8 DEF Dial, Started, Answering
  <2> QED BY <1>4, <1>5, <1>8, <2>1 DEF Dial
<1>9. ASSUME NEW s \in Servers, SendConnect(s)
      PROVE  Quiet
  <2> DEFINE pkt == heap[conn[s].options.connPacket]
             d == [conn[s] EXCEPT !.pc = "wait",
                                  !.hello = [ClientID     |-> pkt.ClientID,
                                             Keepalive    |-> pkt.Keepalive,
                                             ProtoVersion |-> conn[s].version]]
  <2>1. conn[s].pc \in Started /\ conn[s].pc # "none"
    BY <1>9 DEF SendConnect, Started
  <2>2. UNCHANGED connVars
    BY <1>9 DEF SendConnect
  <2>3. CASE Become(s, d)
    <3>1. conn'[s] = d
      BY <1>0, <2>3 DEF Become
    <3>2. /\ d.options = conn[s].options /\ d.applied = conn[s].applied /\ d.pc = "wait"
          /\ d.hello.ClientID = pkt.ClientID /\ d.hello.Keepalive = pkt.Keepalive
      BY <1>0 DEF Conn
    <3>3. Sends(s)
      BY <2>1, <3>1, <3>2 DEF Sends, Started
    <3> HIDE DEF d
    <3> QED BY <2>1, <2>2, <2>3, <3>3, OneQuiet DEF connVars, Idle
  <2> QED BY <1>5, <1>9, <2>1, <2>2, <2>3 DEF SendConnect
<1>10. ASSUME NEW s \in Servers, SendConnectCrash(s)
       PROVE  Quiet
  <2>1. conn' = [x \in Servers |-> NoConn] /\ UNCHANGED <<setup, heap, client>> /\ new'.pc = "crashed"
    BY <1>10 DEF SendConnectCrash, IInv, TypeOK
  <2> QED BY <2>1 DEF Quiet
<1>11. ASSUME NEW s \in Servers, Accepted(s)
       PROVE  Quiet
  <2>1. conn[s].pc \in Started /\ conn[s].pc \in Answering /\ "up" \in Started
    BY <1>11 DEF Accepted, Started, Answering
  <2> QED BY <1>4, <1>11, <2>1 DEF Accepted
<1>12. ASSUME NEW s \in Servers, Unsupported(s)
       PROVE  Quiet
  <2> DEFINE c == [conn[s] EXCEPT !.pc = "dial", !.version = @ - 1, !.fellBack = TRUE]
  <2>1. conn[s].pc \in Started /\ UNCHANGED connVars
    BY <1>12 DEF Unsupported, Started
  <2>2. c.options = conn[s].options /\ c.applied = conn[s].applied /\ c.hello = conn[s].hello /\ c.pc = "dial"
    BY <1>0 DEF Conn
  <2>3. Become(s, c) \/ Become(s, RetryOrReturn(conn[s]))
    BY <1>12 DEF Unsupported
  <2> HIDE DEF c
  <2> QED BY <1>5, <1>6, <2>1, <2>2, <2>3
<1>13. ASSUME NEW s \in Servers, Refused(s)
       PROVE  Quiet
  <2>1. conn[s].pc \in Started
    BY <1>13 DEF Refused, Started
  <2> QED BY <1>5, <1>13, <2>1 DEF Refused
<1>14. ASSUME NEW s \in Servers, LogicEnds(s)
       PROVE  Quiet
  <2>1. conn[s].pc \in Started /\ "reconnect" \in Started /\ "reconnect" \notin Answering
    BY <1>14 DEF LogicEnds, Started, Answering
  <2> QED BY <1>4, <1>14, <2>1 DEF LogicEnds
<1>15. ASSUME NEW s \in Servers, Reconnect(s)
       PROVE  Quiet
  <2> DEFINE n == NextDelay(conn[s])
             c == [conn[s] EXCEPT !.pc = "dial", !.delay = n, !.retries = @ + 1]
  <2>1. conn[s].pc \in Started /\ UNCHANGED connVars /\ Become(s, c)
    BY <1>15 DEF Reconnect, Started
  <2> HIDE DEF n
  <2>2. c.options = conn[s].options /\ c.applied = conn[s].applied /\ c.hello = conn[s].hello /\ c.pc = "dial"
    BY <1>0 DEF Conn
  <2> HIDE DEF c
  <2> QED BY <1>6, <2>1, <2>2
<1> QED
  BY <1>1, <1>2, <1>3, <1>7, <1>8, <1>9, <1>10, <1>11, <1>12, <1>13, <1>14, <1>15 DEF Next

\* What applying an option of NewClient does
LEMMA OptionOfNew ==
    ASSUME IInv, NewClientOption
    PROVE  \E o \in Option, t \in TargetType, u \in TargetType :
              /\ \E i \in DOMAIN setup.new : o = setup.new[i]
              /\ t.options = client.options /\ t.heap = heap /\ Touches(o, t, u)
              /\ Announced(t.options, t.heap) => Announced(u.options, u.heap)
              /\ heap' = u.heap /\ client'.options = u.options /\ UNCHANGED <<setup, conn>>
              /\ new.pc = "apply"
<1> DEFINE o == setup.new[new.applied + 1]
           t == Target(client.own, client.options, heap)
           u == apply(o, t)
<1>1. o \in Option /\ t \in TargetType /\ new.applied + 1 \in DOMAIN setup.new
  BY NextOfNew DEF IInv, NewClientOption
<1>2. u \in TargetType /\ Touches(o, t, u) /\ (Announced(t.options, t.heap) => Announced(u.options, u.heap))
  BY <1>1, ApplyEffect
<1>3. t.options = client.options /\ t.heap = heap
  BY DEF Target
<1>4. /\ client' = [own |-> u.client, options |-> u.options] /\ heap' = u.heap
      /\ UNCHANGED <<setup, conn>> /\ new.pc = "apply"
  BY DEF NewClientOption
<1>5. \E i \in DOMAIN setup.new : o = setup.new[i]
  BY <1>1
<1> HIDE DEF o, t, u
<1> QED BY <1>1, <1>2, <1>3, <1>4, <1>5

\* What applying an option of a call for a server does
LEMMA OptionOfServer ==
    ASSUME IInv, NEW s \in Servers, ConnectServerOption(s)
    PROVE  \E o \in Option, t \in TargetType, u \in TargetType :
              /\ o \in OptionsOf(s)
              /\ conn[s].applied + 1 \in 1 .. Len(setup.server[s])
              /\ o = setup.server[s][conn[s].applied + 1]
              /\ t.options = conn[s].options /\ t.heap = heap /\ Touches(o, t, u)
              /\ heap' = u.heap /\ client'.options = client.options /\ UNCHANGED <<setup, new>>
              /\ conn[s].pc = "apply"
              /\ conn'[s].options = u.options /\ conn'[s].applied = conn[s].applied + 1
              /\ conn'[s].pc \in {"apply", "failed"}
              /\ \A x \in Servers \ {s} : conn'[x] = conn[x]
<1> DEFINE o == setup.server[s][conn[s].applied + 1]
           t == Target(client.own, conn[s].options, heap)
           u == apply(o, t)
           d == [conn[s] EXCEPT !.options = u.options, !.applied = @ + 1,
                                !.pc = IF u.failed THEN "failed" ELSE @]
<1>1. /\ o \in Option /\ t \in TargetType /\ o \in OptionsOf(s)
      /\ conn[s].applied + 1 \in 1 .. Len(setup.server[s])
  BY NextOfServer DEF IInv, ConnectServerOption
<1>2. u \in TargetType /\ Touches(o, t, u)
  BY <1>1, ApplyEffect
<1>3. t.options = conn[s].options /\ t.heap = heap
  BY DEF Target
<1>4. /\ client' = [client EXCEPT !.own = u.client] /\ heap' = u.heap
      /\ UNCHANGED <<setup, new>> /\ conn[s].pc = "apply" /\ conn' = [conn EXCEPT ![s] = d]
  BY DEF ConnectServerOption, Become
<1>5. o = setup.server[s][conn[s].applied + 1]
  OBVIOUS
<1> HIDE DEF o, t, u
<1>6. conn[s] \in Conn /\ conn \in [Servers -> Conn]
  BY DEF IInv, TypeOK
<1>7. d.options = u.options /\ d.applied = conn[s].applied + 1 /\ d.pc \in {"apply", "failed"}
  BY <1>4, <1>6 DEF Conn
<1> HIDE DEF d
<1>8. conn'[s] = d /\ \A x \in Servers \ {s} : conn'[x] = conn[x]
  BY <1>4, <1>6
<1>9. client'.options = client.options
  BY <1>4 DEF IInv, TypeOK
<1> QED BY <1>1, <1>2, <1>3, <1>4, <1>5, <1>7, <1>8, <1>9

LEMMA IdleStep == IInv /\ Idle /\ [Next]_vars => Idle'
<1>1. ASSUME IInv, Idle, NewClientOption PROVE Idle'
  <2>1. UNCHANGED conn /\ new.pc = "apply"
    BY <1>1 DEF NewClientOption
  <2> QED BY <1>1, <2>1 DEF Idle
<1>2. ASSUME IInv, Idle, NEW s \in Servers, ConnectServerOption(s) PROVE Idle'
  <2>1. UNCHANGED new /\ conn[s].pc = "apply"
    BY <1>2 DEF ConnectServerOption
  <2> QED BY <1>2, <2>1 DEF Idle
<1>3. ASSUME Idle, Quiet PROVE Idle'
  BY <1>3 DEF Idle, Quiet
<1>4. ASSUME Idle, UNCHANGED vars PROVE Idle'
  BY <1>4 DEF Idle, vars
<1> QED BY <1>1, <1>2, <1>3, <1>4, Shapes

-----------------------------------------------------------------------------
(* Keepalive *)

\* As long as only NewClient is given a keepalive, the client's packet
\* announces the client's interval or none, every connection has the client's
\* packet or one without a keepalive, and so has what the servers were sent.
KeepInv ==
    KeepaliveIsClients =>
        /\ Announced(client.options, heap)
        /\ \A s \in Servers : conn[s].pc # "none" =>
              \/ conn[s].options.connPacket = client.options.connPacket
              \/ heap[conn[s].options.connPacket].Keepalive = 0
        /\ \A s \in Servers : conn[s].pc \in Answering =>
              conn[s].hello.Keepalive \in {0, client.options.keepalive}

\* A keepalive that was given is not taken back.
LEMMA StaysClients ==
    ASSUME IInv, UNCHANGED setup,
           \A a \in Addresses : heap'[a].Keepalive = 0 => heap[a].Keepalive = 0,
           KeepaliveIsClients'
    PROVE  KeepaliveIsClients
<1> SUFFICES ASSUME NEW s \in Servers, NEW o \in OptionsOf(s)
             PROVE  o.set # "keepalive" /\ (o.set = "connPacket" => heap[o.at].Keepalive = 0)
  BY DEF KeepaliveIsClients
<1>1. o \in OptionsOf(s)'
  BY DEF OptionsOf
<1>2. o.set # "keepalive" /\ (o.set = "connPacket" => heap'[o.at].Keepalive = 0)
  BY <1>1 DEF KeepaliveIsClients
<1>3. o.set = "connPacket" => o.at \in Addresses
  <2>1. setup.server[s] \in Seq(Option)
    BY SetupsAssumption DEF IInv, TypeOK
  <2>2. o \in Option
    BY <2>1 DEF OptionsOf
  <2>3. o.set = "connPacket" => o \in [set : {"connPacket"}, at : 1 .. Len(Given)]
    BY <2>2 DEF Option
  <2> QED BY <2>3, SetupsAssumption DEF Addresses
<1> QED BY <1>2, <1>3

LEMMA KeepStep == IInv /\ Idle /\ KeepInv /\ [Next]_vars => KeepInv'
<1>1. ASSUME IInv, Idle, KeepInv, NewClientOption PROVE KeepInv'
  <2>1. PICK o \in Option, t \in TargetType, u \in TargetType :
              /\ t.options = client.options /\ t.heap = heap /\ Touches(o, t, u)
              /\ Announced(t.options, t.heap) => Announced(u.options, u.heap)
              /\ heap' = u.heap /\ client'.options = u.options /\ UNCHANGED <<setup, conn>>
              /\ new.pc = "apply"
    BY <1>1, OptionOfNew
  <2>2. \A a \in Addresses : heap'[a].Keepalive = 0 => heap[a].Keepalive = 0
    BY <2>1 DEF Touches
  <2>3. KeepaliveIsClients' => KeepaliveIsClients
    BY <1>1, <2>1, <2>2, StaysClients
  <2>4. KeepaliveIsClients' => Announced(client'.options, heap')
    BY <1>1, <2>1, <2>3 DEF KeepInv
  <2>5. \A s \in Servers : conn'[s].pc = "none"
    BY <1>1, <2>1 DEF Idle
  <2> QED BY <2>4, <2>5 DEF KeepInv, Answering
<1>2. ASSUME IInv, KeepInv, NEW s \in Servers, ConnectServerOption(s) PROVE KeepInv'
  <2>1. PICK o \in Option, t \in TargetType, u \in TargetType :
              /\ o \in OptionsOf(s)
              /\ t.options = conn[s].options /\ t.heap = heap /\ Touches(o, t, u)
              /\ heap' = u.heap /\ client'.options = client.options /\ UNCHANGED <<setup, new>>
              /\ conn[s].pc = "apply"
              /\ conn'[s].options = u.options
              /\ conn'[s].pc \in {"apply", "failed"}
              /\ \A x \in Servers \ {s} : conn'[x] = conn[x]
    BY <1>2, OptionOfServer
  <2> SUFFICES ASSUME KeepaliveIsClients'
               PROVE  /\ Announced(client'.options, heap')
                      /\ \A x \in Servers : conn'[x].pc # "none" =>
                            \/ conn'[x].options.connPacket = client'.options.connPacket
                            \/ heap'[conn'[x].options.connPacket].Keepalive = 0
                      /\ \A x \in Servers : conn'[x].pc \in Answering =>
                            conn'[x].hello.Keepalive \in {0, client'.options.keepalive}
    BY DEF KeepInv
  <2>2. o \in OptionsOf(s)'
    BY <2>1 DEF OptionsOf
  <2>3. o.set # "keepalive" /\ (o.set = "connPacket" => heap'[o.at].Keepalive = 0)
    BY <2>2 DEF KeepaliveIsClients
  <2>4. \A a \in Addresses : heap'[a].Keepalive = heap[a].Keepalive
    BY <2>1, <2>3 DEF Touches
  <2>5. KeepaliveIsClients
    BY <1>2, <2>1, <2>4, StaysClients
  <2>6. client.options.connPacket \in Addresses /\ \A x \in Servers : conn[x].options.connPacket \in Addresses
    BY <1>2 DEF IInv, TypeOK, Conn, ConnectOptions
  <2>7. Announced(client'.options, heap')
    BY <1>2, <2>1, <2>4, <2>5, <2>6 DEF KeepInv, Announced
  <2>8. conn'[s].options.connPacket = IF o.set = "connPacket" THEN o.at ELSE conn[s].options.connPacket
    BY <2>1 DEF Touches
  <2>9. ASSUME NEW x \in Servers, conn'[x].pc # "none"
        PROVE  \/ conn'[x].options.connPacket = client'.options.connPacket
               \/ heap'[conn'[x].options.connPacket].Keepalive = 0
    <3>1. CASE x = s
      BY <1>2, <2>1, <2>3, <2>4, <2>5, <2>6, <2>8, <3>1 DEF KeepInv
    <3>2. CASE x # s
      BY <1>2, <2>1, <2>4, <2>5, <2>6, <2>9, <3>2 DEF KeepInv
    <3> QED BY <3>1, <3>2
  <2>10. ASSUME NEW x \in Servers, conn'[x].pc \in Answering
         PROVE  conn'[x].hello.Keepalive \in {0, client'.options.keepalive}
    <3>1. x # s
      BY <2>1, <2>10 DEF Answering
    <3> QED BY <1>2, <2>1, <2>5, <2>10, <3>1 DEF KeepInv
  <2> QED BY <2>7, <2>9, <2>10
<1>3. ASSUME IInv, KeepInv, Quiet PROVE KeepInv'
  <2>1. UNCHANGED <<setup, heap, client>>
    BY <1>3 DEF Quiet
  <2>2. KeepaliveIsClients' => KeepaliveIsClients
    BY <2>1 DEF KeepaliveIsClients, OptionsOf
  <2> SUFFICES ASSUME KeepaliveIsClients, NEW s \in Servers
               PROVE  /\ conn'[s].pc # "none" =>
                            \/ conn'[s].options.connPacket = client.options.connPacket
                            \/ heap[conn'[s].options.connPacket].Keepalive = 0
                      /\ conn'[s].pc \in Answering =>
                            conn'[s].hello.Keepalive \in {0, client.options.keepalive}
    BY <1>3, <2>1, <2>2 DEF KeepInv, Announced
  <2>3. CASE conn'[s] = conn[s]
    BY <1>3, <2>3 DEF KeepInv
  <2>4. CASE conn'[s] = NoConn
    BY <2>4, NoConnFields DEF Answering
  <2>5. CASE Fresh(conn'[s])
    BY <2>5 DEF Fresh, Answering
  <2>6. CASE Advances(s)
    BY <1>3, <2>6 DEF Advances, KeepInv, Started
  <2>7. CASE Sends(s)
    BY <1>3, <2>7 DEF Sends, KeepInv, Started, Announced
  <2> QED BY <1>3, <2>3, <2>4, <2>5, <2>6, <2>7 DEF Quiet
<1>4. ASSUME KeepInv, UNCHANGED vars PROVE KeepInv'
  BY <1>4 DEF KeepInv, vars, KeepaliveIsClients, OptionsOf, Announced
<1> QED BY <1>1, <1>2, <1>3, <1>4, Shapes

\* As long as only NewClient is given a keepalive, keepalive() sends PINGREQ
\* at least as often as the CONNECT packet promised the server.
THEOREM PingsInTime == Spec => []KeepaliveInTime
<1>1. Init => Idle /\ KeepInv
  <2> SUFFICES ASSUME Init PROVE Idle /\ KeepInv
    OBVIOUS
  <2>1. \A s \in Servers : conn[s] = NoConn
    BY DEF Init
  <2>2. client.options.connPacket = 0
    BY DEF Init, defaultConnectOptions
  <2>3. 0 \in 0 .. Len(Given)
    BY SetupsAssumption
  <2>4. heap[0] = BlankPacket
    <3>1. heap = [a \in 0 .. Len(Given) |-> IF a = 0 THEN BlankPacket ELSE Given[a]]
      BY DEF Init
    <3> HIDE DEF BlankPacket
    <3> QED BY <2>3, <3>1
  <2>5. \A s \in Servers : conn[s].pc = "none"
    BY <2>1, NoConnFields
  <2>6. Announced(client.options, heap)
    <3>1. BlankPacket.Keepalive = 0
      BY DEF BlankPacket
    <3> QED BY <2>2, <2>4, <3>1 DEF Announced
  <2> QED BY <2>5, <2>6 DEF Idle, KeepInv, Answering
<1>2. IInv /\ KeepInv => KeepaliveInTime
  <2> SUFFICES ASSUME IInv, KeepInv, KeepaliveIsClients, NEW s \in Servers, conn[s].pc = "up"
               PROVE  conn[s].hello.Keepalive = 0 \/ client.options.keepalive <= conn[s].hello.Keepalive
    BY DEF KeepaliveInTime
  <2>1. client.options.keepalive \in Nat
    BY DEF IInv, TypeOK, ConnectOptions
  <2>2. conn[s].hello.Keepalive \in {0, client.options.keepalive}
    BY DEF KeepInv, Answering
  <2> QED BY <2>1, <2>2
<1> QED BY <1>1, <1>2, Invariance, IdleStep, KeepStep, PTL DEF Spec

-----------------------------------------------------------------------------
(* A packet of one's own *)

\* A packet that only the call for s was given has an identifier of its own, no
\* other options point to it, the options of s do from the time they were given
\* it, and it is what the server is sent.
OwnInv ==
    \A s \in Servers, at \in 1 .. Len(Given) : IsOwnPacket(s, at) =>
        /\ heap[at].ClientID \in OwnIDs(s, at)
        /\ client.options.connPacket # at
        /\ \A x \in Servers \ {s} : conn[x].options.connPacket # at
        /\ (\E i \in 1 .. conn[s].applied : GivesPacket(setup.server[s][i], at))
           => conn[s].options.connPacket = at
        /\ conn[s].pc \in Started /\ conn[s].applied > 0 => conn[s].applied = Len(setup.server[s])
        /\ conn[s].pc \in Answering /\ conn[s].applied > 0 => conn[s].hello.ClientID \in OwnIDs(s, at)

\* The same of the next state, with what no step changes
OwnNext(s, at) ==
    /\ heap'[at].ClientID \in OwnIDs(s, at)
    /\ client'.options.connPacket # at
    /\ \A x \in Servers \ {s} : conn'[x].options.connPacket # at
    /\ (\E i \in 1 .. conn'[s].applied : GivesPacket(setup.server[s][i], at))
       => conn'[s].options.connPacket = at
    /\ conn'[s].pc \in Started /\ conn'[s].applied > 0 => conn'[s].applied = Len(setup.server[s])
    /\ conn'[s].pc \in Answering /\ conn'[s].applied > 0 => conn'[s].hello.ClientID \in OwnIDs(s, at)

LEMMA OwnFromNext ==
    ASSUME UNCHANGED setup,
           \A s \in Servers, at \in 1 .. Len(Given) : IsOwnPacket(s, at) => OwnNext(s, at)
    PROVE  OwnInv'
BY DEF OwnNext, OwnInv, IsOwnPacket, OwnIDs, OptionsOf

LEMMA OwnNewStep ==
    ASSUME IInv, Idle, OwnInv, NewClientOption
    PROVE  OwnInv'
<1>1. PICK o \in Option, t \in TargetType, u \in TargetType :
              /\ \E i \in DOMAIN setup.new : o = setup.new[i]
              /\ t.options = client.options /\ t.heap = heap /\ Touches(o, t, u)
              /\ heap' = u.heap /\ client'.options = u.options /\ UNCHANGED <<setup, conn>>
              /\ new.pc = "apply"
  BY OptionOfNew
<1>2. ASSUME NEW s \in Servers, NEW at \in 1 .. Len(Given), IsOwnPacket(s, at)
      PROVE  OwnNext(s, at)
  <2>1. at \in Addresses
    BY SetupsAssumption DEF Addresses
  <2>2. ~GivesPacket(o, at)
    BY <1>1, <1>2 DEF IsOwnPacket
  <2>3. client.options.connPacket # at
    BY <1>2 DEF OwnInv
  <2>4. client'.options.connPacket # at
    BY <1>1, <2>2, <2>3 DEF Touches, GivesPacket
  <2>5. heap'[at] = heap[at]
    BY <1>1, <2>1, <2>3 DEF Touches
  <2> QED BY <1>1, <1>2, <2>4, <2>5 DEF OwnInv, OwnNext
<1> QED BY <1>1, <1>2, OwnFromNext

LEMMA OwnServerStep ==
    ASSUME IInv, OwnInv, NEW y \in Servers, ConnectServerOption(y)
    PROVE  OwnInv'
<1>1. PICK o \in Option, t \in TargetType, u \in TargetType :
              /\ o \in OptionsOf(y)
              /\ conn[y].applied + 1 \in 1 .. Len(setup.server[y])
              /\ o = setup.server[y][conn[y].applied + 1]
              /\ t.options = conn[y].options /\ t.heap = heap /\ Touches(o, t, u)
              /\ heap' = u.heap /\ client'.options = client.options /\ UNCHANGED <<setup, new>>
              /\ conn'[y].options = u.options /\ conn'[y].applied = conn[y].applied + 1
              /\ conn'[y].pc \in {"apply", "failed"}
              /\ \A x \in Servers \ {y} : conn'[x] = conn[x]
  BY OptionOfServer
<1>2. conn'[y].options.connPacket = IF o.set = "connPacket" THEN o.at ELSE conn[y].options.connPacket
  BY <1>1 DEF Touches
<1>3. ASSUME NEW s \in Servers, NEW at \in 1 .. Len(Given), IsOwnPacket(s, at)
      PROVE  OwnNext(s, at)
  <2>1. at \in Addresses
    BY SetupsAssumption DEF Addresses
  <2>2. /\ heap[at].ClientID \in OwnIDs(s, at)
        /\ client.options.connPacket # at
        /\ \A x \in Servers \ {s} : conn[x].options.connPacket # at
        /\ (\E i \in 1 .. conn[s].applied : GivesPacket(setup.server[s][i], at))
           => conn[s].options.connPacket = at
    BY <1>3 DEF OwnInv
  <2>3. CASE y = s
    <3>1. heap'[at].ClientID \in OwnIDs(s, at)
      <4>1. CASE heap'[at].ClientID = heap[at].ClientID
        BY <2>2, <4>1
      <4>2. CASE o.set = "clientID" /\ heap'[at].ClientID = o.id
        BY <1>1, <2>3, <4>2 DEF OwnIDs
      <4> QED BY <1>1, <2>1, <4>1, <4>2 DEF Touches
    <3>2. ASSUME NEW i \in 1 .. conn'[s].applied, GivesPacket(setup.server[s][i], at)
          PROVE  conn'[s].options.connPacket = at
      <4>1. o.set = "connPacket" => o.at = at
        BY <1>1, <1>3, <2>3 DEF IsOwnPacket
      <4>2. conn[s].applied \in Nat
        BY DEF IInv, TypeOK, Conn
      <4>3. i \in 1 .. conn[s].applied \/ i = conn[s].applied + 1
        BY <1>1, <2>3, <3>2, <4>2
      <4>4. CASE i = conn[s].applied + 1
        BY <1>1, <1>2, <2>3, <3>2, <4>1, <4>4 DEF GivesPacket
      <4>5. CASE i \in 1 .. conn[s].applied
        BY <1>2, <2>2, <2>3, <3>2, <4>1, <4>5
      <4> QED BY <4>3, <4>4, <4>5
    <3>3. conn'[s].pc \notin Started /\ conn'[s].pc \notin Answering
      BY <1>1, <2>3 DEF Started, Answering
    <3>4. \A x \in Servers \ {s} : conn'[x].options.connPacket # at
      BY <1>1, <2>2, <2>3
    <3> QED BY <1>1, <2>2, <3>1, <3>2, <3>3, <3>4 DEF OwnNext
  <2>4. CASE y # s
    <3>1. ~GivesPacket(o, at) /\ conn[y].options.connPacket # at
      BY <1>1, <1>3, <2>2, <2>4 DEF IsOwnPacket
    <3>2. conn'[y].options.connPacket # at
      BY <1>2, <3>1 DEF GivesPacket
    <3>3. heap'[at] = heap[at]
      BY <1>1, <2>1, <3>1 DEF Touches
    <3>4. conn'[s] = conn[s]
      BY <1>1, <2>4
    <3>5. \A x \in Servers \ {s} : conn'[x].options.connPacket # at
      BY <1>1, <2>2, <3>2
    <3> QED BY <1>1, <1>3, <2>2, <3>3, <3>4, <3>5 DEF OwnInv, OwnNext
  <2> QED BY <2>3, <2>4
<1> QED BY <1>1, <1>3, OwnFromNext

LEMMA OwnQuietStep ==
    ASSUME IInv, OwnInv, Quiet
    PROVE  OwnInv'
<1>1. UNCHANGED <<setup, heap, client>>
  BY DEF Quiet
<1>2. ASSUME NEW s \in Servers, NEW at \in 1 .. Len(Given), IsOwnPacket(s, at)
      PROVE  OwnNext(s, at)
  <2>1. /\ heap[at].ClientID \in OwnIDs(s, at)
        /\ client.options.connPacket # at
        /\ \A x \in Servers \ {s} : conn[x].options.connPacket # at
        /\ (\E i \in 1 .. conn[s].applied : GivesPacket(setup.server[s][i], at))
           => conn[s].options.connPacket = at
        /\ conn[s].pc \in Started /\ conn[s].applied > 0 => conn[s].applied = Len(setup.server[s])
        /\ conn[s].pc \in Answering /\ conn[s].applied > 0 => conn[s].hello.ClientID \in OwnIDs(s, at)
    BY <1>2 DEF OwnInv
  <2>2. ASSUME NEW x \in Servers, conn[x].options.connPacket # at
        PROVE  conn'[x].options.connPacket # at
    <3>1. at # 0
      OBVIOUS
    <3> QED BY <2>1, <2>2, <3>1, NoConnFields DEF Quiet, Fresh, Advances, Sends
  <2> DEFINE Rest == /\ (\E i \in 1 .. conn'[s].applied : GivesPacket(setup.server[s][i], at))
                        => conn'[s].options.connPacket = at
                     /\ conn'[s].pc \in Started /\ conn'[s].applied > 0
                        => conn'[s].applied = Len(setup.server[s])
                     /\ conn'[s].pc \in Answering /\ conn'[s].applied > 0
                        => conn'[s].hello.ClientID \in OwnIDs(s, at)
  <2>3. ASSUME conn'[s] = conn[s] PROVE Rest
    BY <2>1, <2>3
  <2>4. ASSUME conn'[s].applied = 0 PROVE Rest
    <3>1. ~(\E i \in 1 .. conn'[s].applied : TRUE) /\ ~(conn'[s].applied > 0)
      BY <2>4
    <3> QED BY <3>1
  <2>5. ASSUME Advances(s) PROVE Rest
    BY <2>1, <2>5 DEF Advances
  <2>6. ASSUME Sends(s) PROVE Rest
    <3>1. conn'[s].applied = conn[s].applied /\ conn'[s].options = conn[s].options
      BY <2>6 DEF Sends
    <3>2. CASE conn[s].applied > 0
      <4>1. conn[s].applied = Len(setup.server[s])
        BY <2>1, <2>6, <3>2 DEF Sends
      <4>2. \E i \in 1 .. conn[s].applied : GivesPacket(setup.server[s][i], at)
        <5>1. setup.server[s] \in Seq(Option)
          BY SetupsAssumption DEF IInv, TypeOK
        <5>2. PICK o \in OptionsOf(s) : GivesPacket(o, at)
          BY <1>2 DEF IsOwnPacket
        <5>3. PICK i \in DOMAIN setup.server[s] : o = setup.server[s][i]
          BY DEF OptionsOf
        <5>4. DOMAIN setup.server[s] = 1 .. Len(setup.server[s])
          BY <5>1
        <5> QED BY <4>1, <5>2, <5>3, <5>4
      <4>3. conn'[s].hello.ClientID = heap[at].ClientID
        BY <2>1, <2>6, <4>2 DEF Sends
      <4> QED BY <2>1, <3>1, <4>1, <4>3
    <3>3. CASE ~(conn[s].applied > 0)
      BY <2>1, <3>1, <3>3
    <3> QED BY <3>2, <3>3
  <2>7. Rest
    BY <2>3, <2>4, <2>5, <2>6, NoConnFields DEF Quiet, Fresh
  <2> QED BY <1>1, <2>1, <2>2, <2>7 DEF OwnNext
<1> QED BY <1>1, <1>2, OwnFromNext

LEMMA OwnStep == IInv /\ Idle /\ OwnInv /\ [Next]_vars => OwnInv'
<1>1. ASSUME OwnInv, UNCHANGED vars PROVE OwnInv'
  BY <1>1 DEF OwnInv, vars, IsOwnPacket, OwnIDs, OptionsOf
<1> QED BY <1>1, Shapes, OwnNewStep, OwnServerStep, OwnQuietStep

\* A call that is given a packet of its own is isolated from the options of
\* every other call: the CONNECT has the identifier of the packet or of an
\* option of the same call.
THEOREM OwnPacketIsIsolated == Spec => []OwnPacketIsolated
<1>1. Init => Idle /\ OwnInv
  <2> SUFFICES ASSUME Init PROVE Idle /\ OwnInv
    OBVIOUS
  <2>1. \A s \in Servers : conn[s] = NoConn
    BY DEF Init
  <2>2. client.options.connPacket = 0
    BY DEF Init, defaultConnectOptions
  <2>3. \A at \in 1 .. Len(Given) : at # 0 /\ heap[at] = Given[at]
    BY SetupsAssumption DEF Init
  <2>4. \A s \in Servers, at \in 1 .. Len(Given) : heap[at].ClientID \in OwnIDs(s, at)
    BY <2>3 DEF OwnIDs
  <2>5. \A s \in Servers : conn[s].pc = "none" /\ conn[s].applied = 0 /\ conn[s].options.connPacket = 0
    BY <2>1, NoConnFields
  <2> QED BY <2>2, <2>3, <2>4, <2>5 DEF Idle, OwnInv, Started, Answering
<1>2. OwnInv => OwnPacketIsolated
  BY DEF OwnInv, OwnPacketIsolated, Answering
<1> QED BY <1>1, <1>2, Invariance, IdleStep, OwnStep, PTL DEF Spec
=============================================================================
