------------------------------- MODULE Config -------------------------------
(***************************************************************************)
(* The command line (cmd/compress-proxy/main.go) and the configuration it  *)
(* loads (config/config.go), up to what the other end makes of it: the     *)
(* pool timings a client announces in HELLO (client/worker.go poolParams)  *)
(* and a server checks (server/worker.go poolOptions).                     *)
(*                                                                         *)
(* Load is a sequence of steps, one per section of the file; what the file *)
(* says in a section is chosen when the section is read.  A text is        *)
(* represented by what its checks tell apart, a duration by an integer of  *)
(* Width bits in which a millisecond is Ms.                                *)
(***************************************************************************)
EXTENDS Integers

CONSTANTS
    Width,                          \* of a time.Duration, 64 in Go
    Ms, Second, Minute,             \* durations
    TenMinutes, Day, Week,
    MaxMs,                          \* 1 << 40, the most milliseconds poolOptions accepts
    Time,                           \* bound: the durations a file may contain
    Announced,                      \* bound: the milliseconds a HELLO may contain
    Count                           \* bound: the integers a file may contain

Top == 2 ^ (Width - 1)
ASSUME DurationAssumption ==
    /\ Ms \in Nat \ {0} /\ \A d \in {Second, Minute, TenMinutes, Day, Week} : d % Ms = 0
    /\ 0 < Second /\ Second < Minute /\ Minute < TenMinutes /\ TenMinutes < Day /\ Day < Week
    /\ {Second, Minute, TenMinutes, Day, Week, MaxMs, Top} \subseteq Nat
    /\ Week <= MaxMs * Ms /\ MaxMs * Ms < Top /\ 2 * Week < Top
    /\ Time \subseteq Int /\ Announced \subseteq -Top..(Top - 1) /\ Count \subseteq Int

VARIABLES
    command,  \* args[0]
    stage,    \* how far Load or run has got
    cfg,      \* what Load has built so far
    exit,     \* the exit status, or -1
    hello,    \* the PoolParams of a HELLO
    opts,     \* what the server makes of them
    reply     \* its answer

helloVars == <<hello, opts, reply>>
vars == <<command, stage, cfg, exit, helloVars>>

Nil == "nil"
Roles == {"server", "client"}

Init ==
    /\ command \in {"check", "server", "client", "unknown"}
    /\ stage = "args" /\ exit = -1
    /\ hello = "none" /\ opts = "none" /\ reply = "none"
    /\ cfg = [role |-> Nil]

\* run or Load returns an error and the process exits with status c.
Exits(c) ==
    /\ exit' = c /\ stage' = "exit"
    /\ UNCHANGED <<command, cfg, helloVars>>
Goes(s, c) ==
    /\ stage' = s /\ cfg' = c
    /\ UNCHANGED <<command, exit, helloVars>>
\* Load checks a section: it goes on to stage s with configuration c, or refuses.
Section(ok, s, c) == IF ok THEN Goes(s, c) ELSE Exits(2)

\* Usage: keygen and the flags are settled here.
Usage == stage = "args" /\ Exits(2)
Arguments == stage = "args" /\ command # "unknown" /\ Goes("decode", cfg)

-----------------------------------------------------------------------------
(* Load.  Texts: an address, the length of a token or password, keys, files. *)

Address == {Nil, "malformed", "port", "host:port"}
address(a, requireHost) == a = "host:port" \/ (a = "port" /\ ~requireHost)

\* The file is read and decoded: exactly one of the two tables, and no field or
\* value that is unknown.
Decode ==
    /\ stage = "decode"
    /\ Exits(2) \/ \E r \in Roles : Goes("address", [role |-> r])
Endpoint ==
    /\ stage = "address"
    /\ \E a \in Address : Section(address(a, cfg.role = "client"), "services", cfg)

\* One service, or none: each is checked by itself, and its address must be in
\* the field of its role.
Length == {-1, 0, 15, 16, 31, 32, 256, 257, 700}   \* -1: absent
TokenOK(n) == n >= 32 /\ n <= 256
ServiceOK(s) ==
    /\ s.name
    /\ IF cfg.role = "server" THEN s.local = Nil /\ address(s.bind, FALSE)
       ELSE s.bind = Nil /\ address(s.local, TRUE)
Services ==
    /\ stage = "services"
    /\ \E some, name \in BOOLEAN, bind, local \in Address, own, default \in Length :
        LET token == IF own = -1 THEN default ELSE own
            s == [name |-> name, bind |-> bind, local |-> local]
        IN  Section(some /\ ServiceOK(s) /\ TokenOK(token), "transport",
                    [role |-> cfg.role, token |-> token])

\* serverTransport and clientTransport.  A file is absent, named "", or loads or not.
File == {Nil, "empty", "bad", "good"}
TLS == [given : BOOLEAN, cert : File, ca : File]   \* cert: and its key, ca: and server name
PathOK(p) == p \in {Nil, "good"}
TransportOK(t) ==
    CASE t.type = "noise" -> t.noise = "good" /\ ~t.tls.given /\ t.path = Nil
      [] t.type = "wss" /\ cfg.role = "server" ->
            t.noise = Nil /\ t.tls = [given |-> TRUE, cert |-> "good", ca |-> Nil] /\ PathOK(t.path)
      [] t.type = "wss" /\ cfg.role = "client" ->
            t.noise = Nil /\ (t.tls.given => t.tls.cert = Nil /\ t.tls.ca \in {Nil, "good"}) /\ PathOK(t.path)
      [] OTHER -> FALSE
Transport ==
    /\ stage = "transport"
    /\ \E type \in {"noise", "wss", "other"}, noise, path \in {Nil, "bad", "good"}, tls \in TLS :
        Section(TransportOK([type |-> type, noise |-> noise, path |-> path, tls |-> tls]),
                "limits", [role |-> cfg.role, token |-> cfg.token, transport |-> type])

\* The server's own pool limits; the client's dial timeout.
ServerLimits ==
    /\ stage = "limits" /\ cfg.role = "server"
    /\ \E n \in Count, t \in Time :
          Section(n >= 1 /\ n <= 4096 /\ t > 0 /\ t <= Minute, "metrics", cfg)
DialTimeout ==
    /\ stage = "limits" /\ cfg.role = "client"
    /\ \E t \in Time : Section(t > 0 /\ t <= 5 * Second, "pool", cfg)

\* metricsConfig: no table, or an address and both credentials; a plain user name
\* has no ':' and no control character.
Metrics ==
    /\ stage = "metrics"
    /\ \E table \in BOOLEAN, a \in Address, user \in {-1, 0, 1, 64, 65}, plain \in BOOLEAN,
          pass \in Length :
        Section(table => /\ address(a, FALSE) /\ user >= 1 /\ user <= 64 /\ plain
                         /\ pass >= 16 /\ pass <= 256,
                "loaded", cfg)

-----------------------------------------------------------------------------
(* Pool timings.                                                            *)

\* A pool's timings and limits, as the client and the server check them.
ValidatePool(p) ==
    /\ p.minIdle >= 1 /\ p.minIdle <= 1024 /\ p.maxIdle >= p.minIdle /\ p.maxIdle <= 1024
    /\ p.heartbeat >= Second /\ p.heartbeat <= TenMinutes
    /\ p.idle >= Second /\ p.idle <= Day /\ p.idleJitter >= 0 /\ p.idleJitter <= p.idle
    /\ p.life >= Second /\ p.life <= Week /\ p.lifeJitter >= 0 /\ p.lifeJitter <= p.life

\* time.Duration's / truncates towards zero.
Quotient(d, n) == IF d >= 0 THEN d \div n ELSE -((-d) \div n)

\* clientPool: a jitter that is not given is a tenth of its timeout.
Jitter(given, j, timeout) == IF given THEN j ELSE Quotient(timeout, 10)
ClientPool ==
    /\ stage = "pool"
    /\ \E least, most \in Count, hb, i, l, ij, lj \in Time, giveI, giveL \in BOOLEAN :
        LET p == [minIdle |-> least, maxIdle |-> most, heartbeat |-> hb, idle |-> i,
                  idleJitter |-> Jitter(giveI, ij, i), life |-> l, lifeJitter |-> Jitter(giveL, lj, l)]
        IN  Section(ValidatePool(p), "metrics",
                    [role |-> cfg.role, token |-> cfg.token, transport |-> cfg.transport, pool |-> p])

\* poolParams: whole milliseconds.
poolParams(p) ==
    [heartbeat |-> Quotient(p.heartbeat, Ms), idle |-> Quotient(p.idle, Ms),
     idleJitter |-> Quotient(p.idleJitter, Ms), life |-> Quotient(p.life, Ms),
     lifeJitter |-> Quotient(p.lifeJitter, Ms)]

\* ms and poolOptions at the server.
Wrap(v) == ((v + Top) % (2 * Top)) - Top
msUnchecked(v) == Wrap(v * Ms)
ms(v) == IF v < 0 \/ v > MaxMs THEN -1 ELSE Wrap(v * Ms)
asPool(h) ==
    [minIdle |-> 1, maxIdle |-> 1, heartbeat |-> ms(h.heartbeat), idle |-> ms(h.idle),
     idleJitter |-> ms(h.idleJitter), life |-> ms(h.life), lifeJitter |-> ms(h.lifeJitter)]
poolOptions(h) == IF ValidatePool(asPool(h)) THEN "accepted" ELSE "invalid_pool"

-----------------------------------------------------------------------------
(* run, after Load.                                                         *)

Checked == stage = "loaded" /\ command = "check" /\ \E c \in {0, 1} : Exits(c)
WrongRole == stage = "loaded" /\ command \in Roles /\ command # cfg.role /\ Exits(2)

\* client.Run validates the pool again; a configuration of Load is never refused.
Runs ==
    /\ stage = "loaded" /\ command = cfg.role
    /\ IF cfg.role = "client" => ValidatePool(cfg.pool) THEN Goes("run", cfg) ELSE Exits(1)
Stops == stage = "run" /\ \E c \in {0, 1} : Exits(c)

\* A client registers and the server answers it; or any other HELLO arrives.
Registers ==
    /\ stage = "run" /\ reply = "none" /\ cfg.role = "client"
    /\ hello' = poolParams(cfg.pool) /\ reply' = "awaited"
    /\ UNCHANGED <<command, stage, cfg, exit, opts>>
Arrives ==
    /\ stage = "run" /\ reply = "none" /\ cfg.role = "server"
    /\ reply' = "awaited"
    /\ hello' \in [heartbeat : Announced, idle : Announced, idleJitter : Announced,
                   life : Announced, lifeJitter : Announced]
    /\ UNCHANGED <<command, stage, cfg, exit, opts>>
Answers ==
    /\ stage = "run" /\ reply = "awaited"
    /\ opts' = asPool(hello) /\ reply' = poolOptions(hello)
    /\ UNCHANGED <<command, stage, cfg, exit, hello>>

Exited == stage = "exit" /\ UNCHANGED vars

Next ==
    \/ Usage \/ Arguments \/ Decode \/ Endpoint \/ Services \/ Transport \/ ServerLimits \/ DialTimeout \/ ClientPool
    \/ Metrics \/ Checked \/ WrongRole \/ Runs \/ Registers \/ Arrives \/ Answers \/ Stops \/ Exited

Spec == Init /\ [][Next]_vars

-----------------------------------------------------------------------------
(* Properties.                                                              *)

\* Every variable has its type.
TypeOK ==
    /\ command \in Roles \cup {"check", "unknown"} /\ cfg.role \in Roles \cup {Nil}
    /\ stage \in {"args", "decode", "address", "services", "transport", "limits", "pool",
                  "metrics", "loaded", "run", "exit"}
    /\ exit \in -1..2 /\ (exit # -1 <=> stage = "exit")
    /\ reply \in {"none", "awaited", "accepted", "invalid_pool"}

\* The two ends agree on the pool.  What a client's own configuration accepts, every
\* server accepts after the conversion to milliseconds and back (ValidatePool's
\* comment: limits shared by both).  The server takes the timings announced to
\* it, exactly, or refuses them, and no deadline it computes from them wraps
\* around: with its jitter it is at most twice the timeout.
after(base, spread) == {Wrap(base + j) : j \in 0..spread}
PoolAgreed ==
    /\ cfg.role = "client" => reply # "invalid_pool"
    /\ reply = "accepted" =>
        /\ \A f \in {"heartbeat", "idle", "idleJitter", "life", "lifeJitter"} : opts[f] = hello[f] * Ms
        /\ after(opts.idle, opts.idleJitter) \subseteq opts.idle..2 * opts.idle
        /\ after(opts.life, opts.lifeJitter) \subseteq opts.life..2 * opts.life
=============================================================================
