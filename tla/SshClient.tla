----------------------------- MODULE SshClient -----------------------------
(***************************************************************************)
(* One reusable SSH connection of internal/sshx (client.go, retry.go): the *)
(* transport, its generations and keepalive loops, the sessions opened on  *)
(* it by concurrent callers, the self-healing redial, and Close.           *)
(*                                                                         *)
(* A transport is the number of the TCP connection that carries it.  Every *)
(* mutex-protected section without I/O is one step; heal, which holds mu   *)
(* across its dial, keeps it in `mu` between steps.  The network decides   *)
(* when a transport is reset or goes silent (a "hole": nothing is answered *)
(* and nothing fails), and whether a busy link answers a probe in time.    *)
(***************************************************************************)
EXTENDS Naturals, FiniteSets

CONSTANTS Workers,      \* goroutines that run a remote command each
          Closers,      \* goroutines that call Close
          MaxDials,     \* bound: TCP connections ever made
          DialRetries,  \* retry.go: attempts of one dial
          MaxMisses,    \* pool.go: keepaliveMaxMisses
          MaxSessions,  \* the server's cap on sessions of one connection
          NoOne

ASSUME ConstantsOK ==
    /\ MaxDials \in Nat \ {0} /\ DialRetries \in Nat \ {0}
    /\ MaxMisses \in Nat \ {0} /\ MaxSessions \in Nat \ {0}
    /\ IsFiniteSet(Workers) /\ NoOne \notin Workers

VARIABLES
    mu,         \* the worker that redials with Client.mu held, or NoOne
    cli, gen, state,                 \* the fields mu guards
    stops,      \* stops[g]: how often generation g's stopKA was closed
    ka, kcli, misses,                \* keepalive loop of each generation
    net, dials,                      \* state of each transport, number made
    abandoned,  \* connections of an aborted handshake, still to be closed
    cancelled,  \* the run's context
    openSes,    \* the counter of open sessions
    pc, tcli, tgen, att, twice,      \* the callers of Run / RunScript
    started,    \* how often the caller's command was started
    cpc, cowned                      \* Close: its step, the generation to stop
kaVars == <<stops, ka, kcli, misses>>
netVars == <<net, dials, abandoned>>
opVars == <<openSes, pc, tcli, tgen, att, twice, started>>
closeVars == <<cpc, cowned>>
vars == <<mu, cli, gen, state, kaVars, netVars, cancelled, opVars, closeVars>>

Transport == 1..MaxDials
Steps == {"idle", "snap", "open", "dead", "heal", "dial", "shake", "reopen",
          "env", "exec", "run", "done"}

TypeOK ==
    /\ mu \in Workers \cup {NoOne}
    /\ cli \in Transport /\ gen \in Transport
    /\ state \in {"live", "dead", "closed"}
    /\ stops \in [Transport -> Nat]
    /\ ka \in [Transport -> {"none", "wait", "mark", "end"}]
    /\ kcli \in [Transport -> Transport \cup {0}]
    /\ misses \in [Transport -> 0..MaxMisses]
    /\ net \in [Transport -> {"none", "up", "reset", "hole", "closed"}]
    /\ dials \in 0..MaxDials
    /\ abandoned \in SUBSET Transport
    /\ cancelled \in BOOLEAN
    /\ openSes \in Nat
    /\ pc \in [Workers -> Steps]
    /\ tcli \in [Workers -> Transport \cup {0}]
    /\ tgen \in [Workers -> Transport \cup {0}]
    /\ att \in [Workers -> 0..(DialRetries - 1)]
    /\ twice \in [Workers -> BOOLEAN]
    /\ started \in [Workers -> Nat]
    /\ cpc \in [Closers -> {"no", "teardown", "done"}]
    /\ cowned \in [Closers -> Transport \cup {0}]

\* dialWithRetry has just succeeded: generation 1 is live, its loop started.
Init ==
    /\ mu = NoOne /\ cli = 1 /\ gen = 1 /\ state = "live"
    /\ stops = [g \in Transport |-> 0]
    /\ ka = [g \in Transport |-> IF g = 1 THEN "wait" ELSE "none"]
    /\ kcli = [g \in Transport |-> IF g = 1 THEN 1 ELSE 0]
    /\ misses = [g \in Transport |-> 0]
    /\ net = [t \in Transport |-> IF t = 1 THEN "up" ELSE "none"] /\ dials = 1
    /\ abandoned = {} /\ cancelled = FALSE /\ openSes = 0
    /\ pc = [w \in Workers |-> "idle"]
    /\ tcli = [w \in Workers |-> 0] /\ tgen = [w \in Workers |-> 0]
    /\ att = [w \in Workers |-> 0] /\ twice = [w \in Workers |-> FALSE]
    /\ started = [w \in Workers |-> 0]
    /\ cpc = [c \in Closers |-> "no"] /\ cowned = [c \in Closers |-> 0]
-----------------------------------------------------------------------------
\* What a caller meets on a transport.
Gone(t) == net[t] \in {"reset", "closed"}
Answers(t) == net[t] = "up"
Shut(t) == net' = [net EXCEPT ![t] = "closed"]

\* isConnClosedErr: the errors that mean the transport itself is gone.
isConnClosedErr(t) == Gone(t)

StaleKills(g) == state = "live"

\* markDead's guard: a failure seen on a transport that has since been
\* replaced, or on a client already dead or closed, changes nothing.
Current(g) == state = "live" /\ gen = g

markDead(g) ==
    /\ mu = NoOne
    /\ IF Current(g)
         THEN /\ state' = "dead"
              /\ stops' = [stops EXCEPT ![gen] = @ + 1]
              /\ Shut(cli)
         ELSE UNCHANGED <<state, stops, net>>
-----------------------------------------------------------------------------
Go(w, to) == pc' = [pc EXCEPT ![w] = to]

\* The call returns to its caller, with a result or an error.
Return(w) ==
    /\ Go(w, "done")
    /\ tcli' = [tcli EXCEPT ![w] = 0] /\ tgen' = [tgen EXCEPT ![w] = 0]
    /\ att' = [att EXCEPT ![w] = 0] /\ twice' = [twice EXCEPT ![w] = FALSE]
    /\ started' = [started EXCEPT ![w] = 0]

\* newSession, the first thing Run and RunScript do: a cancelled context or a
\* closed client returns before any I/O; otherwise current() is the snapshot
\* (cli, gen) of this call.
Snapshot(w) ==
    /\ pc[w] \in {"idle", "snap"} /\ mu = NoOne
    /\ IF cancelled \/ state = "closed"
         THEN Return(w)
         ELSE /\ Go(w, "open")
              /\ tcli' = [tcli EXCEPT ![w] = cli]
              /\ tgen' = [tgen EXCEPT ![w] = gen]
              /\ UNCHANGED <<att, twice, started>>
    /\ UNCHANGED <<mu, cli, gen, state, kaVars, netVars, cancelled, closeVars,
                   openSes>>

\* Sessions the server holds for transport t.
OnServer(t) == {v \in Workers : pc[v] \in {"env", "exec", "run"} /\ tcli[v] = t}

\* NewSession on t, outside the lock: opened, refused by the server
\* (MaxSessions), or failed because the transport is gone.  On a silent
\* transport the call blocks until somebody closes it.  A script's first
\* session still has its environment to set.
Opened(w, t) ==
    /\ Answers(t) /\ Cardinality(OnServer(t)) < MaxSessions
    /\ openSes' = openSes + 1
    /\ Go(w, "exec") \/ (~twice[w] /\ Go(w, "env"))
    /\ UNCHANGED <<tcli, tgen, att, twice, started>>
Refused(w, t) ==
    /\ Answers(t) /\ Cardinality(OnServer(t)) >= MaxSessions
    /\ Return(w)
    /\ UNCHANGED openSes

NewSession(w) ==
    /\ pc[w] = "open"
    /\ \/ Opened(w, tcli[w])
       \/ Refused(w, tcli[w])
       \/ /\ isConnClosedErr(tcli[w])
          /\ Go(w, "dead")
          /\ UNCHANGED <<openSes, tcli, tgen, att, twice, started>>
    /\ UNCHANGED <<mu, cli, gen, state, kaVars, netVars, cancelled, closeVars>>

MarkDead(w) ==
    /\ pc[w] = "dead"
    /\ markDead(tgen[w])
    /\ Go(w, "heal")
    /\ UNCHANGED <<mu, cli, gen, ka, kcli, misses, dials, abandoned, cancelled,
                   closeVars, openSes, tcli, tgen, att, twice, started>>

\* heal's decision: never after Close; one redial per generation, the others
\* reuse what it produced.
HealChoice(w) == IF state = "closed" THEN "closed"
                 ELSE IF gen # tgen[w] THEN "reuse" ELSE "redial"

\* heal takes mu; it gives it back at once unless it must dial.
Heal(w) ==
    /\ pc[w] = "heal" /\ mu = NoOne
    /\ \/ /\ HealChoice(w) = "closed"
          /\ Return(w) /\ UNCHANGED mu
       \/ /\ HealChoice(w) = "reuse"
          /\ tcli' = [tcli EXCEPT ![w] = cli]
          /\ Go(w, "reopen") /\ UNCHANGED <<mu, tgen, att, twice, started>>
       \/ /\ HealChoice(w) = "redial"
          /\ mu' = w
          /\ Go(w, "dial") /\ UNCHANGED <<tcli, tgen, att, twice, started>>
    /\ UNCHANGED <<cli, gen, state, kaVars, netVars, cancelled, closeVars, openSes>>

AttemptLeft(w) == att[w] + 1 < DialRetries

\* dialAttempts: one more attempt after a transient failure with the context
\* alive; otherwise the call fails and heal leaves the client dead.
RetryDial(w) ==
    /\ AttemptLeft(w) /\ ~cancelled
    /\ Go(w, "dial") /\ att' = [att EXCEPT ![w] = @ + 1]
    /\ UNCHANGED <<mu, tcli, tgen, twice, started>>
GiveUp(w) == Return(w) /\ mu' = NoOne

\* dialOnce, TCP connect: a cancelled context fails here; a refused connect
\* is transient, other failures are permanent.
Connect(w) ==
    /\ pc[w] = "dial"
    /\ \/ /\ ~cancelled /\ dials < MaxDials
          /\ dials' = dials + 1 /\ net' = [net EXCEPT ![dials + 1] = "up"]
          /\ tcli' = [tcli EXCEPT ![w] = dials + 1]
          /\ Go(w, "shake") /\ UNCHANGED <<mu, tgen, att, twice, started>>
       \/ (RetryDial(w) \/ GiveUp(w)) /\ UNCHANGED <<dials, net>>
    /\ UNCHANGED <<cli, gen, state, kaVars, abandoned, cancelled, closeVars, openSes>>

\* Handshake and authentication succeed in time: heal installs the transport
\* as the next generation, with its own stop channel and keepalive loop.
Healed(w) ==
    /\ pc[w] = "shake" /\ ~cancelled /\ Answers(tcli[w])
    /\ cli' = tcli[w] /\ gen' = gen + 1 /\ state' = "live"
    /\ ka' = [ka EXCEPT ![gen + 1] = "wait"]
    /\ kcli' = [kcli EXCEPT ![gen + 1] = tcli[w]]
    /\ mu' = NoOne /\ Go(w, "reopen")
    /\ att' = [att EXCEPT ![w] = 0]
    /\ UNCHANGED <<stops, misses, netVars, cancelled, closeVars, openSes, tcli,
                   tgen, twice, started>>

\* A failed handshake closes its connection; it is retried only when the
\* failure is transient (auth rejected and a changed host key are not).
ShakeFails(w) ==
    /\ pc[w] = "shake"
    /\ Shut(tcli[w])
    /\ RetryDial(w) \/ GiveUp(w)
    /\ UNCHANGED <<cli, gen, state, kaVars, dials, abandoned, cancelled,
                   closeVars, openSes>>

AbandonNothing(w) == UNCHANGED abandoned

\* The connection of an aborted handshake is left to the watchdog and to the
\* goroutine that drains a late client.
Abandon(w) == abandoned' = abandoned \cup {tcli[w]}

\* Timeout or cancellation during the handshake: permanent, dialOnce returns.
ShakeAborted(w) ==
    /\ pc[w] = "shake"
    /\ Abandon(w)
    /\ GiveUp(w)
    /\ UNCHANGED <<cli, gen, state, kaVars, net, dials, cancelled, closeVars,
                   openSes>>

Watchdog(t) ==
    /\ t \in abandoned
    /\ abandoned' = abandoned \ {t} /\ Shut(t)
    /\ UNCHANGED <<mu, cli, gen, state, kaVars, dials, cancelled, opVars, closeVars>>

\* newSession's single retry: a failure of the fresh transport is an error.
Reopen(w) ==
    /\ pc[w] = "reopen"
    /\ \/ Opened(w, tcli[w])
       \/ Refused(w, tcli[w])
       \/ Gone(tcli[w]) /\ Return(w) /\ UNCHANGED openSes
    /\ UNCHANGED <<mu, cli, gen, state, kaVars, netVars, cancelled, closeVars>>

KeepTheSession == UNCHANGED openSes
closeSession == openSes' = openSes - 1

\* run: the environment is accepted, or Setenv fails and this session is
\* closed BEFORE runWithInlineEnv opens another one, which sets none.
Setenv(w) ==
    /\ pc[w] = "env"
    /\ \/ /\ Answers(tcli[w])
          /\ Go(w, "exec") /\ UNCHANGED <<openSes, twice>>
       \/ /\ Answers(tcli[w]) \/ Gone(tcli[w])
          /\ closeSession
          /\ twice' = [twice EXCEPT ![w] = TRUE]
          /\ Go(w, "snap")
    /\ UNCHANGED <<mu, cli, gen, state, kaVars, netVars, cancelled, closeVars,
                   tcli, tgen, att, started>>

StartCommand(w) ==
    /\ pc[w] = "exec" /\ Answers(tcli[w])
    /\ Go(w, "run")
    /\ started' = [started EXCEPT ![w] = @ + 1]
    /\ UNCHANGED <<mu, cli, gen, state, kaVars, netVars, cancelled, closeVars,
                   openSes, tcli, tgen, att, twice>>

\* A connection lost under a command is the call's error: run never repeats it.
AfterLoss(w) == Return(w)

\* The call returns: the command exited, the connection is gone, or the
\* context was cancelled (SIGKILL, no waiting); the session is closed.
Finish(w) ==
    /\ pc[w] \in {"exec", "run"}
    /\ \/ pc[w] = "run" /\ Answers(tcli[w]) /\ Return(w)
       \/ cancelled /\ Return(w)
       \/ Gone(tcli[w]) /\ AfterLoss(w)
    /\ closeSession
    /\ UNCHANGED <<mu, cli, gen, state, kaVars, netVars, cancelled, closeVars>>
-----------------------------------------------------------------------------
NeverSilent(g) == FALSE

\* So many consecutive probes without an answer make the connection dead.
Silent(g) == misses[g] + 1 >= MaxMisses

\* keepaliveLoop: the ticker fires, a probe is sent, and its answer comes in.
ProbeOK(g) ==
    /\ ka[g] = "wait" /\ Answers(kcli[g])
    /\ misses' = [misses EXCEPT ![g] = 0]
    /\ UNCHANGED <<mu, cli, gen, state, stops, ka, kcli, netVars, cancelled, opVars,
                   closeVars>>

\* No answer within the interval: a silent transport, or a busy one.
ProbeTimeout(g) ==
    /\ ka[g] = "wait" /\ ~Gone(kcli[g])
    /\ misses' = [misses EXCEPT ![g] = IF @ < MaxMisses THEN @ + 1 ELSE @]
    /\ ka' = [ka EXCEPT ![g] = IF Silent(g) THEN "mark" ELSE "wait"]
    /\ UNCHANGED <<mu, cli, gen, state, stops, kcli, netVars, cancelled, opVars,
                   closeVars>>

ProbeError(g) ==
    /\ ka[g] = "wait" /\ Gone(kcli[g])
    /\ ka' = [ka EXCEPT ![g] = "mark"]
    /\ UNCHANGED <<mu, cli, gen, state, stops, kcli, misses, netVars, cancelled,
                   opVars, closeVars>>

LoopMarksDead(g) ==
    /\ ka[g] = "mark"
    /\ markDead(g)
    /\ ka' = [ka EXCEPT ![g] = "end"] /\ misses' = [misses EXCEPT ![g] = 0]
    /\ UNCHANGED <<mu, cli, gen, kcli, dials, abandoned, cancelled,
                   opVars, closeVars>>

\* The stop channel is closed: the loop ends, waiting or with a probe out.
LoopStops(g) ==
    /\ ka[g] = "wait" /\ stops[g] > 0
    /\ ka' = [ka EXCEPT ![g] = "end"] /\ misses' = [misses EXCEPT ![g] = 0]
    /\ UNCHANGED <<mu, cli, gen, state, stops, kcli, netVars, cancelled,
                   opVars, closeVars>>
-----------------------------------------------------------------------------

\* Close tears down only what it took from a live client.
OwnsTransport == state = "live"

\* Close: the latch under mu, the tear-down after the unlock.
Close(c) ==
    /\ cpc[c] = "no" /\ mu = NoOne
    /\ state' = "closed"
    /\ cowned' = [cowned EXCEPT ![c] = IF OwnsTransport THEN gen ELSE 0]
    /\ cpc' = [cpc EXCEPT ![c] = IF OwnsTransport THEN "teardown" ELSE "done"]
    /\ UNCHANGED <<mu, cli, gen, kaVars, netVars, cancelled, opVars>>
TearDown(c) ==
    /\ cpc[c] = "teardown"
    /\ stops' = [stops EXCEPT ![cowned[c]] = @ + 1]
    /\ Shut(kcli[cowned[c]])
    /\ cpc' = [cpc EXCEPT ![c] = "done"]
    /\ UNCHANGED <<mu, cli, gen, state, ka, kcli, misses, dials, abandoned,
                   cancelled, opVars, cowned>>

\* The network and the operator.
Fault(t) ==
    /\ net[t] = "up"
    /\ \E n \in {"reset", "hole"} : net' = [net EXCEPT ![t] = n]
    /\ UNCHANGED <<mu, cli, gen, state, kaVars, dials, abandoned, cancelled,
                   opVars, closeVars>>
Cancel ==
    /\ ~cancelled /\ cancelled' = TRUE
    /\ UNCHANGED <<mu, cli, gen, state, kaVars, netVars, opVars, closeVars>>
-----------------------------------------------------------------------------
CallStep(w) ==
    \/ Snapshot(w) \/ NewSession(w) \/ MarkDead(w) \/ Heal(w) \/ Connect(w)
    \/ Healed(w) \/ ShakeFails(w) \/ ShakeAborted(w) \/ Reopen(w)
    \/ Setenv(w) \/ StartCommand(w) \/ Finish(w)
LoopStep(g) == ProbeOK(g) \/ ProbeTimeout(g) \/ ProbeError(g)
               \/ LoopMarksDead(g) \/ LoopStops(g)
CloseStep(c) == Close(c) \/ TearDown(c)

Next ==
    \/ \E w \in Workers : CallStep(w)
    \/ \E g \in Transport : LoopStep(g)
    \/ \E c \in Closers : CloseStep(c)
    \/ \E t \in Transport : Watchdog(t) \/ Fault(t)
    \/ Cancel

Spec == Init /\ [][Next]_vars

\* The remote command runs on a link that works: run puts no bound on it.
CommandRuns(w) == pc[w] = "run" /\ Answers(tcli[w]) /\ ~cancelled

\* Goroutines that can run do run, and timers fire.  Nothing is assumed of
\* the network, the operator, of when a caller calls or closes, or of when a
\* remote command exits.
Fairness ==
    /\ \A w \in Workers : WF_vars(pc[w] # "idle" /\ ~CommandRuns(w) /\ CallStep(w))
    /\ \A g \in Transport : WF_vars(LoopStep(g))
    /\ \A c \in Closers : WF_vars(TearDown(c))
FairSpec == Spec /\ Fairness
-----------------------------------------------------------------------------
Open == {t \in Transport : net[t] \notin {"none", "closed"}}

\* Every connection that is still open has an owner that will close it: it is
\* the live transport, a handshake in progress, an aborted one whose watchdog
\* has not run yet, or what a Close in progress has still to tear down.  heal
\* never overwrites cli while the transport in it is open (client.go:92-122).
NoLeakedTransport ==
    \A t \in Open :
        \/ t = cli /\ state = "live"
        \/ t \in abandoned
        \/ \E w \in Workers : pc[w] = "shake" /\ tcli[w] = t
        \/ \E c \in Closers : cpc[c] = "teardown" /\ kcli[cowned[c]] = t

\* A stop channel is closed at most once, whoever of markDead and any number
\* of Close calls gets there first: a second close would panic the process.
StopOnce == \A g \in Transport : stops[g] <= 1

\* The connection is only given up for a failure of its own: it was reset or
\* silent, or its own keepalive missed keepaliveMaxMisses answers.  A late
\* failure seen on an earlier connection never kills the one that replaced it.
KillsOnlyTheFailed ==
    [][state = "live" /\ state' = "dead" =>
          net[cli] # "up" \/ misses[gen] >= MaxMisses]_vars

\* Close is final: a client once closed stays closed and is never redialled,
\* even by a caller whose snapshot or failure came before the Close.
ClosedIsFinal == [][state = "closed" => state' = "closed" /\ gen' = gen]_vars

\* The count of open sessions, which the MaxSessions diagnosis reads, is zero
\* whenever no call is between opening and closing a session: no path through
\* the fallback, the heal or the cancellation forgets one or closes one twice.
SessionsReturned ==
    (\A w \in Workers : pc[w] \notin {"env", "exec", "run"}) => openSes = 0

\* One call of Run starts its command at most once, however often it opens a
\* session or heals (newSession, run): only the batch retry above it repeats
\* work, although the comment of Pool says that a self-heal may.
RunsAtMostOnce == \A w \in Workers : started[w] <= 1

\* Every call returns or is left with a command that runs on a live link, also
\* when the connection goes silent under a step that no context bounds: the
\* keepalive misses add up and their markDead unblocks it.
CallsReturn ==
    \A w \in Workers : pc[w] \notin {"idle", "done"} ~> pc[w] = "done" \/ CommandRuns(w)

\* What the comment of Pool says (pool.go:37-38): the operation that lost its
\* connection is retried on the fresh one.  The code's run returns the error.
DroppedIsRetried ==
    [][\A w \in Workers :
         pc[w] = "run" /\ Gone(tcli[w]) /\ ~cancelled /\ state # "closed"
           => pc'[w] # "done"]_vars

\* The connection is sound: every transport has one owner, who closes it; its
\* stop channel is closed once; no command runs twice (markDead, heal, Close).
ConnectionSound == TypeOK /\ NoLeakedTransport /\ StopOnce /\ RunsAtMostOnce

\* A transport ends by its own failure or by Close, and nothing brings a closed
\* client back, whichever callers, loops and closers are late.
TransportFate == KillsOnlyTheFailed /\ ClosedIsFinal
=============================================================================
