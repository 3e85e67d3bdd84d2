---------------------------- MODULE ConfigProofs ----------------------------
(***************************************************************************)
(* The two ends agree on the pool's timings, for durations of any width in *)
(* which the limits fit, any unit for a millisecond that divides them and  *)
(* whatever the configuration files and the HELLOs contain.                *)
(***************************************************************************)
EXTENDS Config, TLAPS

PoolRecord == [minIdle : Int, maxIdle : Int, heartbeat : Int, idle : Int, idleJitter : Int,
               life : Int, lifeJitter : Int]
HelloRecord == [heartbeat : Int, idle : Int, idleJitter : Int, life : Int, lifeJitter : Int]

-----------------------------------------------------------------------------
(* Arithmetic of durations.                                                 *)

\* What fits in Width bits is not changed by the wrap-around.
LEMMA WrapFits ==
    ASSUME NEW v \in Nat, v < Top
    PROVE  Wrap(v) = v
<1>1. Top \in Nat /\ Top > 0 /\ 2 * Top \in Nat \ {0} /\ v + Top \in Nat /\ v + Top < 2 * Top
  BY DurationAssumption
<1>2. \A a \in Nat, n \in Nat \ {0} : a < n => a % n = a
  OBVIOUS
<1>3. (v + Top) % (2 * Top) = v + Top
  BY <1>1, <1>2
<1> QED
  BY <1>1, <1>3 DEF Wrap

\* ms, on what it accepts, is the exact duration; on anything else it is negative.
LEMMA msExact ==
    ASSUME NEW v \in Int
    PROVE  /\ ms(v) \in Int
           /\ v \in 0..MaxMs => ms(v) = v * Ms
           /\ ms(v) >= 0 => ms(v) = v * Ms /\ v \in 0..MaxMs
<1>1. Ms \in Nat \ {0} /\ MaxMs \in Nat /\ MaxMs * Ms \in Nat /\ MaxMs * Ms < Top
  BY DurationAssumption
<1>2. CASE v \in 0..MaxMs
  <2>1. v * Ms \in Nat /\ v * Ms <= MaxMs * Ms
    BY <1>1, <1>2
  <2>2. v * Ms < Top
    BY <1>1, <2>1, DurationAssumption
  <2>3. ms(v) = v * Ms
    BY <1>1, <1>2, <2>1, <2>2, WrapFits DEF ms
  <2> QED
    BY <1>2, <2>1, <2>3
<1>3. CASE v \notin 0..MaxMs
  BY <1>1, <1>3 DEF ms
<1> QED
  BY <1>2, <1>3

\* A duration of the configuration, to whole milliseconds and back: not longer, not
\* below a limit of whole milliseconds, and never refused.
LEMMA RoundTrip ==
    ASSUME NEW d \in Nat, d <= Week
    PROVE  /\ Quotient(d, Ms) \in Nat
           /\ ms(Quotient(d, Ms)) \in Nat /\ ms(Quotient(d, Ms)) <= d
           /\ d >= Second => ms(Quotient(d, Ms)) >= Second
<1> DEFINE q == d \div Ms
<1>1. Ms \in Nat \ {0} /\ MaxMs \in Nat /\ Second \in Nat /\ Second % Ms = 0 /\ Week \in Nat
  BY DurationAssumption
<1>2. q \in Nat /\ q * Ms <= d /\ q * Ms \in Nat
  BY <1>1
<1>3. Quotient(d, Ms) = q
  BY DEF Quotient
<1> HIDE DEF q
<1>4. q * Ms <= MaxMs * Ms
  BY <1>1, <1>2, DurationAssumption
<1>5. q <= MaxMs
  BY <1>1, <1>2, <1>4
<1>6. ms(q) = q * Ms
  BY <1>1, <1>2, <1>5, msExact
<1>7. ASSUME d >= Second PROVE q * Ms >= Second
  <2>1. (Second \div Ms) * Ms = Second /\ Second \div Ms \in Nat
    BY <1>1
  <2>2. Second \div Ms <= q
    BY <1>1, <1>7 DEF q
  <2> QED
    BY <1>1, <1>2, <2>1, <2>2
<1> QED
  BY <1>2, <1>3, <1>6, <1>7

\* And it keeps the order of two durations: a jitter stays within its timeout.
LEMMA RoundTripMonotone ==
    ASSUME NEW d \in Nat, NEW e \in Nat, d <= e, e <= Week
    PROVE  ms(Quotient(d, Ms)) <= ms(Quotient(e, Ms))
<1>1. Ms \in Nat \ {0} /\ Week \in Nat /\ d <= Week
  BY DurationAssumption
<1>2. d \div Ms <= e \div Ms /\ d \div Ms \in Nat /\ e \div Ms \in Nat
  BY <1>1
<1>3. Quotient(d, Ms) = d \div Ms /\ Quotient(e, Ms) = e \div Ms
  BY DEF Quotient
<1>4. ms(Quotient(d, Ms)) = (d \div Ms) * Ms /\ ms(Quotient(e, Ms)) = (e \div Ms) * Ms
  <2>1. /\ Quotient(d, Ms) \in Nat /\ ms(Quotient(d, Ms)) \in Nat
        /\ Quotient(e, Ms) \in Nat /\ ms(Quotient(e, Ms)) \in Nat
    BY <1>1, RoundTrip
  <2>2. /\ ms(Quotient(d, Ms)) = Quotient(d, Ms) * Ms
        /\ ms(Quotient(e, Ms)) = Quotient(e, Ms) * Ms
    BY <2>1, msExact
  <2> QED
    BY <1>3, <2>2
<1> QED
  BY <1>1, <1>2, <1>4

-----------------------------------------------------------------------------
(* The two validations.                                                     *)

\* What clientPool accepts, poolOptions accepts when it arrives in a HELLO.
LEMMA ClientPoolAccepted ==
    ASSUME NEW p \in PoolRecord, ValidatePool(p)
    PROVE  poolParams(p) \in HelloRecord /\ poolOptions(poolParams(p)) = "accepted"
<1>1. /\ {Second, TenMinutes, Day, Week} \subseteq Nat /\ 0 < Second
      /\ TenMinutes < Day /\ Day < Week
  BY DurationAssumption
<1>2. /\ p.heartbeat \in Nat /\ p.heartbeat >= Second /\ p.heartbeat <= TenMinutes
      /\ p.idle \in Nat /\ p.idle >= Second /\ p.idle <= Day
      /\ p.idleJitter \in Nat /\ p.idleJitter <= p.idle
      /\ p.life \in Nat /\ p.life >= Second /\ p.life <= Week
      /\ p.lifeJitter \in Nat /\ p.lifeJitter <= p.life
  BY <1>1 DEF ValidatePool, PoolRecord
<1>3. /\ p.heartbeat <= Week /\ p.idle <= Week /\ p.idleJitter <= Week /\ p.lifeJitter <= Week
  BY <1>1, <1>2
<1> DEFINE h == poolParams(p)
<1>4. /\ h = [heartbeat |-> Quotient(p.heartbeat, Ms), idle |-> Quotient(p.idle, Ms),
              idleJitter |-> Quotient(p.idleJitter, Ms), life |-> Quotient(p.life, Ms),
              lifeJitter |-> Quotient(p.lifeJitter, Ms)]
  BY DEF poolParams
<1> HIDE DEF h
<1>5. /\ h.heartbeat \in Nat /\ ms(h.heartbeat) \in Nat
      /\ Second <= ms(h.heartbeat) /\ ms(h.heartbeat) <= p.heartbeat
  BY <1>2, <1>3, <1>4, RoundTrip
<1>6. /\ h.idle \in Nat /\ ms(h.idle) \in Nat /\ Second <= ms(h.idle) /\ ms(h.idle) <= p.idle
  BY <1>2, <1>3, <1>4, RoundTrip
<1>7. /\ h.life \in Nat /\ ms(h.life) \in Nat /\ Second <= ms(h.life) /\ ms(h.life) <= p.life
  BY <1>2, <1>3, <1>4, RoundTrip
<1>8. /\ h.idleJitter \in Nat /\ ms(h.idleJitter) \in Nat /\ ms(h.idleJitter) <= ms(h.idle)
  BY <1>2, <1>3, <1>4, RoundTrip, RoundTripMonotone
<1>9. /\ h.lifeJitter \in Nat /\ ms(h.lifeJitter) \in Nat /\ ms(h.lifeJitter) <= ms(h.life)
  BY <1>2, <1>3, <1>4, RoundTrip, RoundTripMonotone
<1>10. h \in HelloRecord
  BY <1>4, <1>5, <1>6, <1>7, <1>8, <1>9 DEF HelloRecord
<1>11. ValidatePool(asPool(h))
  BY <1>1, <1>2, <1>5, <1>6, <1>7, <1>8, <1>9 DEF ValidatePool, asPool
<1> QED
  BY <1>10, <1>11 DEF poolOptions, h

\* A deadline is its timeout and at most its jitter more, without wrap-around.
LEMMA DeadlineFits ==
    ASSUME NEW base \in Nat, NEW spread \in Nat, base <= Week, spread <= base
    PROVE  after(base, spread) \subseteq base..2 * base
<1> SUFFICES ASSUME NEW j \in 0..spread PROVE Wrap(base + j) \in base..2 * base
  BY DEF after
<1>1. base + j \in Nat /\ base + j < Top
  BY DurationAssumption
<1>2. Wrap(base + j) = base + j
  BY <1>1, WrapFits
<1> QED
  BY <1>2

\* What the server accepts it has taken exactly.
LEMMA AcceptedExactly ==
    ASSUME NEW h \in HelloRecord, ValidatePool(asPool(h))
    PROVE  LET o == asPool(h)
           IN  /\ \A f \in {"heartbeat", "idle", "idleJitter", "life", "lifeJitter"} : o[f] = h[f] * Ms
               /\ after(o.idle, o.idleJitter) \subseteq o.idle..2 * o.idle
               /\ after(o.life, o.lifeJitter) \subseteq o.life..2 * o.life
<1> DEFINE o == asPool(h)
<1>1. o = [minIdle |-> 1, maxIdle |-> 1, heartbeat |-> ms(h.heartbeat), idle |-> ms(h.idle),
           idleJitter |-> ms(h.idleJitter), life |-> ms(h.life), lifeJitter |-> ms(h.lifeJitter)]
  BY DEF asPool
<1>2. /\ h.heartbeat \in Int /\ h.idle \in Int /\ h.idleJitter \in Int
      /\ h.life \in Int /\ h.lifeJitter \in Int
  BY DEF HelloRecord
<1>3. ValidatePool(o)
  OBVIOUS
<1> HIDE DEF o
<1>4. /\ o.heartbeat \in Int /\ o.idle \in Int /\ o.idleJitter \in Int /\ o.life \in Int /\ o.lifeJitter \in Int
  BY <1>1, <1>2, msExact
<1>5. /\ {Second, Day, Week} \subseteq Nat /\ 0 < Second /\ Day < Week
  BY DurationAssumption
<1>6. /\ o.heartbeat >= 0
      /\ o.idle >= 0 /\ o.idleJitter >= 0 /\ o.idle <= Week /\ o.idleJitter <= o.idle
      /\ o.life >= 0 /\ o.lifeJitter >= 0 /\ o.life <= Week /\ o.lifeJitter <= o.life
  BY <1>3, <1>4, <1>5 DEF ValidatePool
<1>7. /\ o.heartbeat = h.heartbeat * Ms /\ o.idle = h.idle * Ms /\ o.idleJitter = h.idleJitter * Ms
      /\ o.life = h.life * Ms /\ o.lifeJitter = h.lifeJitter * Ms
  BY <1>1, <1>2, <1>6, msExact
<1>8. /\ after(o.idle, o.idleJitter) \subseteq o.idle..2 * o.idle
      /\ after(o.life, o.lifeJitter) \subseteq o.life..2 * o.life
  BY <1>4, <1>6, DeadlineFits
<1> QED
  BY <1>7, <1>8 DEF o

-----------------------------------------------------------------------------
(* The inductive invariant.                                                 *)

\* From clientPool on a client has a pool that its own validation accepts.
ClientHasPool ==
    cfg.role = "client" /\ (stage \in {"metrics", "loaded", "run"} \/ reply # "none")
        => cfg.pool \in PoolRecord /\ ValidatePool(cfg.pool)

\* A HELLO is answered from what it announces, and a client's announces its pool.
Registration ==
    /\ reply # "none" => stage \in {"run", "exit"} /\ hello \in HelloRecord
    /\ reply # "none" /\ cfg.role = "client" => hello = poolParams(cfg.pool)
    /\ reply \in {"accepted", "invalid_pool"} => opts = asPool(hello) /\ reply = poolOptions(hello)

IInv == TypeOK /\ ClientHasPool /\ Registration

\* The program starts with no configuration and nothing registered.
LEMMA InitIInv == Init => IInv
  BY DEF Init, IInv, TypeOK, ClientHasPool, Registration, Nil, Roles

\* Load goes on to stage s with configuration c.
LEMMA GoesIInv ==
    ASSUME IInv, NEW s, NEW c, Goes(s, c), stage \notin {"run", "exit"}, c.role \in Roles \cup {Nil},
           s \in {"decode", "address", "services", "transport", "limits", "pool", "metrics", "loaded", "run"},
           c.role = "client" /\ s \in {"metrics", "loaded", "run"} => c.pool \in PoolRecord /\ ValidatePool(c.pool)
    PROVE  IInv'
<1>1. reply = "none"
  BY DEF IInv, Registration
<1> QED
  BY <1>1 DEF Goes, helloVars, IInv, TypeOK, ClientHasPool, Registration

\* The process exits.
LEMMA ExitsIInv ==
    ASSUME IInv, NEW c \in 0..2, Exits(c), stage # "exit"
    PROVE  IInv'
  BY DEF Exits, helloVars, IInv, TypeOK, ClientHasPool, Registration

\* A section of Load that is accepted goes on, one that is refused ends the program; a client passes the pool section only with valid timings.
LEMMA SectionIInv ==
    ASSUME IInv, NEW ok, NEW s, NEW c, Section(ok, s, c), stage \notin {"run", "exit"},
           c.role \in Roles \cup {Nil},
           s \in {"decode", "address", "services", "transport", "limits", "pool", "metrics", "loaded", "run"},
           ok /\ c.role = "client" /\ s \in {"metrics", "loaded", "run"}
               => c.pool \in PoolRecord /\ ValidatePool(c.pool)
    PROVE  IInv'
  BY GoesIInv, ExitsIInv DEF Section

\* Every section that Load reads keeps the invariant.
LEMMA LoadIInv ==
    ASSUME IInv, \/ Decode \/ Endpoint \/ Services \/ Transport \/ ServerLimits \/ DialTimeout
                 \/ ClientPool \/ Metrics
    PROVE  IInv'
<1>1. cfg.role \in Roles \cup {Nil}
  BY DEF IInv, TypeOK
<1>2. CASE Decode
  <2>1. ASSUME NEW r \in Roles, Goes("address", [role |-> r]) PROVE IInv'
    BY <1>2, <2>1, GoesIInv DEF Decode
  <2>2. ASSUME Exits(2) PROVE IInv'
    BY <1>2, <2>2, ExitsIInv DEF Decode
  <2> QED
    BY <1>2, <2>1, <2>2 DEF Decode
<1>3. CASE Endpoint
  BY <1>1, <1>3, SectionIInv DEF Endpoint
<1>4. CASE Services
  <2>1. PICK ok, t : Section(ok, "transport", [role |-> cfg.role, token |-> t])
    BY <1>4 DEF Services
  <2> QED
    BY <1>1, <1>4, <2>1, SectionIInv DEF Services
<1>5. CASE Transport
  <2>1. PICK ok, t : Section(ok, "limits", [role |-> cfg.role, token |-> cfg.token, transport |-> t])
    BY <1>5 DEF Transport
  <2> QED
    BY <1>1, <1>5, <2>1, SectionIInv DEF Transport
<1>6. CASE ServerLimits
  <2>1. PICK ok : Section(ok, "metrics", cfg)
    BY <1>6 DEF ServerLimits
  <2> QED
    BY <1>1, <1>6, <2>1, SectionIInv DEF ServerLimits
<1>7. CASE DialTimeout
  <2>1. PICK ok : Section(ok, "pool", cfg)
    BY <1>7 DEF DialTimeout
  <2> QED
    BY <1>1, <1>7, <2>1, SectionIInv DEF DialTimeout
<1>8. CASE ClientPool
  <2>1. PICK least, most \in Count, hb, i, l, ij, lj \in Time, giveI, giveL \in BOOLEAN :
            LET p == [minIdle |-> least, maxIdle |-> most, heartbeat |-> hb, idle |-> i,
                      idleJitter |-> Jitter(giveI, ij, i), life |-> l, lifeJitter |-> Jitter(giveL, lj, l)]
            IN  Section(ValidatePool(p), "metrics",
                        [role |-> cfg.role, token |-> cfg.token, transport |-> cfg.transport, pool |-> p])
    BY <1>8 DEF ClientPool
  <2> DEFINE p == [minIdle |-> least, maxIdle |-> most, heartbeat |-> hb, idle |-> i,
                   idleJitter |-> Jitter(giveI, ij, i), life |-> l, lifeJitter |-> Jitter(giveL, lj, l)]
             c == [role |-> cfg.role, token |-> cfg.token, transport |-> cfg.transport, pool |-> p]
  <2>2. {least, most, hb, i, l, ij, lj} \subseteq Int
    BY DurationAssumption
  <2>3. Jitter(giveI, ij, i) \in Int /\ Jitter(giveL, lj, l) \in Int
    BY <2>2 DEF Jitter, Quotient
  <2>4. p \in PoolRecord
    BY <2>2, <2>3 DEF PoolRecord
  <2>5. c.role = cfg.role /\ c.pool = p /\ Section(ValidatePool(p), "metrics", c)
    BY <2>1
  <2> HIDE DEF p, c
  <2> QED
    BY <1>1, <1>8, <2>4, <2>5, SectionIInv DEF ClientPool
<1>9. CASE Metrics
  <2>1. PICK ok : Section(ok, "loaded", cfg)
    BY <1>9 DEF Metrics
  <2>2. cfg.role = "client" => cfg.pool \in PoolRecord /\ ValidatePool(cfg.pool)
    BY <1>9 DEF Metrics, IInv, ClientHasPool
  <2> QED
    BY <1>1, <1>9, <2>1, <2>2, SectionIInv DEF Metrics
<1> QED
  BY <1>2, <1>3, <1>4, <1>5, <1>6, <1>7, <1>8, <1>9

\* Every step, Load's and the server's registration, keeps the invariant.
LEMMA NextIInv == IInv /\ [Next]_vars => IInv'
<1> SUFFICES ASSUME IInv, [Next]_vars PROVE IInv'
  OBVIOUS
<1>1. cfg.role \in Roles \cup {Nil}
  BY DEF IInv, TypeOK
<1>2. CASE UNCHANGED vars
  BY <1>2 DEF IInv, TypeOK, ClientHasPool, Registration, vars, helloVars
<1>3. CASE Usage \/ WrongRole
  BY <1>3, ExitsIInv DEF Usage, WrongRole
<1>4. CASE Arguments
  BY <1>1, <1>4, GoesIInv DEF Arguments
<1>5. CASE \/ Decode \/ Endpoint \/ Services \/ Transport \/ ServerLimits \/ DialTimeout
           \/ ClientPool \/ Metrics
  BY <1>5, LoadIInv
<1>6. CASE Checked \/ Stops
  BY <1>6, ExitsIInv DEF Checked, Stops
<1>7. CASE Runs
  <2>1. cfg.role = "client" => cfg.pool \in PoolRecord /\ ValidatePool(cfg.pool)
    BY <1>7 DEF Runs, IInv, ClientHasPool
  <2> QED
    BY <1>1, <1>7, <2>1, GoesIInv, ExitsIInv DEF Runs
<1>8. CASE Registers
  <2>1. cfg.pool \in PoolRecord /\ ValidatePool(cfg.pool)
    BY <1>8 DEF Registers, IInv, ClientHasPool
  <2>2. poolParams(cfg.pool) \in HelloRecord
    BY <2>1, ClientPoolAccepted
  <2> QED
    BY <1>8, <2>1, <2>2 DEF Registers, IInv, TypeOK, ClientHasPool, Registration
<1>9. CASE Arrives
  <2>1. hello' \in HelloRecord
    <3>1. Announced \subseteq Int
      BY DurationAssumption
    <3> QED
      BY <1>9, <3>1 DEF Arrives, HelloRecord
  <2> QED
    BY <1>9, <2>1 DEF Arrives, IInv, TypeOK, ClientHasPool, Registration
<1>10. CASE Answers
  BY <1>10 DEF Answers, poolOptions, IInv, TypeOK, ClientHasPool, Registration
<1> QED
  BY <1>2, <1>3, <1>4, <1>5, <1>6, <1>7, <1>8, <1>9, <1>10 DEF Next, Exited

\* The inductive invariant is one of the specification.
THEOREM ConfigInvariant == Spec => []IInv
  BY InitIInv, NextIInv, PTL DEF Spec

\* Every variable has its type.
THEOREM ConfigTypeOK == Spec => []TypeOK
  BY ConfigInvariant, PTL DEF IInv

\* Every server accepts the timings of a client that its own configuration accepts,
\* and takes what it accepts exactly, without a deadline that wraps around.
THEOREM ConfigPoolAgreed == Spec => []PoolAgreed
<1>1. IInv => PoolAgreed
  <2> SUFFICES ASSUME IInv PROVE PoolAgreed
    OBVIOUS
  <2>1. ASSUME cfg.role = "client" PROVE reply # "invalid_pool"
    <3> SUFFICES ASSUME reply = "invalid_pool" PROVE FALSE
      OBVIOUS
    <3>1. cfg.pool \in PoolRecord /\ ValidatePool(cfg.pool) /\ hello = poolParams(cfg.pool)
          /\ reply = poolOptions(hello)
      BY <2>1 DEF IInv, ClientHasPool, Registration
    <3> QED
      BY <3>1, ClientPoolAccepted
  <2>2. ASSUME reply = "accepted"
        PROVE  hello \in HelloRecord /\ opts = asPool(hello) /\ ValidatePool(asPool(hello))
    BY <2>2 DEF IInv, Registration, poolOptions
  <2> QED
    BY <2>1, <2>2, AcceptedExactly DEF PoolAgreed
<1> QED
  BY <1>1, ConfigInvariant, PTL
=============================================================================
