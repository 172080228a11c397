------------------------------ MODULE SshProofs ------------------------------
(***************************************************************************)
(* Proofs about the two halves of internal/sshx: one SSH connection        *)
(* (module SshClient), for any number of callers, of goroutines that call  *)
(* Close, of redials and of sessions; and the batches streamed over two of *)
(* them (module Bridge), for archives and windows of any size and any      *)
(* number of attempts.                                                     *)
(***************************************************************************)
EXTENDS SshClient, Bridge, FiniteSetTheorems, TLAPS

\* A generation has a transport that was dialled for it.
Numbers ==
    /\ gen <= cli /\ cli <= dials
    /\ kcli[gen] = cli
    /\ \A g \in Transport : kcli[g] <= dials

\* A loop of a generation yet to come does not run, and one that gives its
\* connection up has a reason.
Loops ==
    /\ \A g \in Transport : g > gen => ka[g] = "none" /\ stops[g] = 0
    /\ \A g \in Transport : ka[g] # "none" => kcli[g] \in Transport
    /\ \A g \in Transport :
         ka[g] = "mark" => misses[g] >= MaxMisses \/ Gone(kcli[g])

\* A caller's snapshot is of one generation, it gives up a transport that is
\* gone, and what it then heals is not that transport any more.  It dials with
\* mu held, and the connection that it shakes hands on is the newest.
CallSound(w) ==
    /\ tgen[w] <= gen /\ tcli[w] <= dials /\ started[w] <= 1
    /\ pc[w] \in {"open", "dead"} =>
         tgen[w] \in Transport /\ tcli[w] \in Transport /\ kcli[tgen[w]] = tcli[w]
    /\ pc[w] = "dead" => Gone(tcli[w])
    /\ pc[w] = "heal" => ~Current(tgen[w])
    /\ pc[w] = "shake" => tcli[w] = dials /\ cli < dials
    /\ pc[w] # "run" => started[w] = 0
    /\ pc[w] \in {"dial", "shake"} <=> mu = w

Calls == \A w \in Workers : CallSound(w)

\* mu is held over a redial of a dead client.  The stop channel of the
\* transport in use is open, until one Close at most has taken it.
Owners ==
    /\ mu # NoOne => state = "dead"
    /\ state = "live" => stops[gen] = 0
    /\ \A c \in Closers : cpc[c] = "teardown" =>
         /\ state = "closed" /\ cowned[c] = gen /\ stops[gen] = 0
         /\ \A d \in Closers : cpc[d] = "teardown" => d = c

\* The calls that hold a session.
Busy == {w \in Workers : pc[w] \in {"env", "exec", "run"}}
SessionsCounted == openSes = Cardinality(Busy)

Inv == /\ TypeOK /\ NoLeakedTransport /\ StopOnce
       /\ Numbers /\ Loops /\ Calls /\ Owners /\ SessionsCounted

\* What a caller shares with the other callers, the loops and the closers, and
\* the step of one caller that leaves the others' calls alone.
shared == <<cli, gen, state, stops, ka, kcli, misses, net, dials, abandoned,
            cancelled, cpc, cowned>>
OthersSame(w) ==
    \A v \in Workers \ {w} :
        pc'[v] = pc[v] /\ tcli'[v] = tcli[v] /\ tgen'[v] = tgen[v] /\ started'[v] = started[v]

\* What one caller's step does to the set of callers with a session.
LEMMA BusyStep ==
    ASSUME TypeOK, NEW w \in Workers, NEW to \in Steps, pc' = [pc EXCEPT ![w] = to]
    PROVE  /\ Cardinality(Busy) \in Nat
           /\ (w \notin Busy /\ to \in {"env", "exec", "run"}) => Cardinality(Busy') = Cardinality(Busy) + 1
           /\ (w \in Busy /\ to \notin {"env", "exec", "run"}) =>
                Cardinality(Busy') = Cardinality(Busy) - 1 /\ Cardinality(Busy) > 0
           /\ (w \in Busy <=> to \in {"env", "exec", "run"}) => Cardinality(Busy') = Cardinality(Busy)
<1>1. IsFiniteSet(Busy) /\ Cardinality(Busy) \in Nat
  BY ConstantsOK, FS_Subset, FS_CardinalityType DEF Busy
<1>2. CASE w \notin Busy /\ to \in {"env", "exec", "run"}
  <2>1. Busy' = Busy \cup {w}
    BY <1>2 DEF Busy, TypeOK
  <2>. QED BY <1>1, <1>2, <2>1, FS_AddElement
<1>3. CASE w \in Busy /\ to \notin {"env", "exec", "run"}
  <2>1. Busy' = Busy \ {w}
    BY <1>3 DEF Busy, TypeOK
  <2>2. Cardinality(Busy) # 0
    BY <1>1, <1>3, FS_EmptySet
  <2>. QED BY <1>1, <1>3, <2>1, <2>2, FS_RemoveElement
<1>4. CASE w \in Busy <=> to \in {"env", "exec", "run"}
  <2>1. Busy' = Busy
    BY <1>4 DEF Busy, TypeOK
  <2>. QED BY <1>1, <1>4, <2>1
<1>. QED BY <1>1, <1>2, <1>3, <1>4

\* The numbers that name transports and generations, and their order.
LEMMA Ordered ==
    ASSUME Inv
    PROVE  /\ dials \in Nat /\ dials <= MaxDials /\ gen \in Nat /\ cli \in Nat /\ MaxDials \in Nat
           /\ \A g \in Transport : g \in Nat /\ kcli[g] \in Nat /\ kcli[g] <= dials
           /\ \A w \in Workers : /\ tcli[w] \in Nat /\ tcli[w] <= dials
                                 /\ tgen[w] \in Nat /\ tgen[w] <= gen
<1>1. MaxDials \in Nat /\ Transport \cup {0} \subseteq Nat
  BY ConstantsOK DEF Transport
<1>2. dials \in 0..MaxDials /\ gen \in Transport /\ cli \in Transport /\ kcli \in [Transport -> Transport \cup {0}]
      /\ tcli \in [Workers -> Transport \cup {0}] /\ tgen \in [Workers -> Transport \cup {0}]
  BY DEF Inv, TypeOK
<1>3. \A g \in Transport : kcli[g] <= dials
  BY DEF Inv, Numbers
<1>4. \A w \in Workers : tcli[w] <= dials /\ tgen[w] <= gen
  BY DEF Inv, Calls, CallSound
<1>. QED BY <1>1, <1>2, <1>3, <1>4

-----------------------------------------------------------------------------
(* The steps of a caller                                                   *)

\* A step that concerns only the caller itself, and possibly who holds mu.
LEMMA LocalStep ==
    ASSUME Inv, NEW w \in Workers, UNCHANGED shared, OthersSame(w),
           TypeOK', SessionsCounted', CallSound(w)', pc[w] # "shake",
           mu' = mu \/ (mu = NoOne /\ mu' = w) \/ (mu = w /\ mu' = NoOne),
           mu' # NoOne => state = "dead"
    PROVE  Inv'
<1>1. \A v \in Workers \ {w} : CallSound(v)'
  <2>. SUFFICES ASSUME NEW v \in Workers \ {w} PROVE CallSound(v)'
    OBVIOUS
  <2>1. CallSound(v) /\ v # NoOne /\ (mu' = v <=> mu = v)
    BY ConstantsOK DEF Inv, Calls
  <2>. QED BY <2>1 DEF CallSound, shared, OthersSame, Gone, Current
<1>2. Numbers' /\ Loops' /\ StopOnce' /\ Owners'
  BY DEF Inv, Numbers, Loops, StopOnce, Owners, shared, Gone
<1>3. NoLeakedTransport'
  BY DEF Inv, NoLeakedTransport, Open, shared, OthersSame
<1>. QED BY <1>1, <1>2, <1>3 DEF Inv, Calls

\* A call that returns without touching the connection, and gives back the
\* session it holds, if it holds one.
LEMMA ReturnStep ==
    ASSUME Inv, NEW w \in Workers, UNCHANGED shared, Return(w), pc[w] # "shake",
           openSes' = IF w \in Busy THEN openSes - 1 ELSE openSes,
           (mu' = mu /\ mu # w) \/ (mu = w /\ mu' = NoOne)
    PROVE  Inv'
<1>1. SessionsCounted' /\ openSes' \in Nat
  <2>1. pc' = [pc EXCEPT ![w] = "done"] /\ "done" \in Steps /\ "done" \notin {"env", "exec", "run"} /\ TypeOK
    BY DEF Return, Go, Steps, Inv
  <2>2. openSes = Cardinality(Busy)
    BY DEF Inv, SessionsCounted
  <2>3. openSes \in Nat /\ (w \in Busy => Cardinality(Busy') = openSes - 1 /\ openSes > 0)
        /\ (w \notin Busy => Cardinality(Busy') = openSes)
    BY <2>1, <2>2, BusyStep
  <2>. QED BY <2>3 DEF SessionsCounted
<1>2. TypeOK' /\ OthersSame(w)
  BY <1>1, ConstantsOK DEF Inv, TypeOK, shared, OthersSame, Return, Go, Steps
<1>3. CallSound(w)'
  BY ConstantsOK DEF Inv, TypeOK, CallSound, shared, Return, Go, Transport
<1>. QED BY <1>1, <1>2, <1>3, LocalStep DEF Inv, Owners

\* A call that opens a session on its transport.
LEMMA OpenedStep ==
    ASSUME Inv, NEW w \in Workers, pc[w] \in {"open", "reopen"}, Opened(w, tcli[w]),
           UNCHANGED <<shared, mu>>
    PROVE  Inv'
<1>1. PICK to \in {"exec", "env"} : pc' = [pc EXCEPT ![w] = to]
  BY DEF Opened, Go
<1>2. openSes' = openSes + 1 /\ tcli' = tcli /\ tgen' = tgen /\ att' = att /\ twice' = twice /\ started' = started
  BY DEF Opened
<1>3. SessionsCounted' /\ openSes' \in Nat
  <2>1. to \in Steps /\ to \in {"env", "exec", "run"} /\ TypeOK /\ w \notin Busy
    BY DEF Steps, Inv, Busy
  <2>2. openSes = Cardinality(Busy)
    BY DEF Inv, SessionsCounted
  <2>3. openSes \in Nat /\ Cardinality(Busy') = openSes + 1
    BY <1>1, <2>1, <2>2, BusyStep
  <2>. QED BY <1>2, <2>3 DEF SessionsCounted
<1>4. TypeOK' /\ OthersSame(w)
  BY <1>1, <1>2, <1>3 DEF Inv, TypeOK, shared, OthersSame, Steps
<1>5. CallSound(w)'
  BY <1>1, <1>2, ConstantsOK DEF Inv, TypeOK, Calls, CallSound, shared
<1>. QED BY <1>3, <1>4, <1>5, LocalStep DEF Inv, Owners

\* A call reads the current transport under the mutex.
LEMMA SnapshotInv == ASSUME Inv, NEW w \in Workers, Snapshot(w) PROVE Inv'
<1>1. UNCHANGED shared /\ mu' = mu /\ openSes' = openSes /\ pc[w] \in {"idle", "snap"} /\ mu = NoOne
  BY DEF Snapshot, shared, kaVars, netVars, closeVars
<1>2. w \notin Busy /\ mu # w /\ started[w] = 0
  BY <1>1, ConstantsOK DEF Busy, Inv, Calls, CallSound
<1>3. CASE Return(w)
  BY <1>1, <1>2, <1>3, ReturnStep
<1>4. CASE ~Return(w)
  <2>1. pc' = [pc EXCEPT ![w] = "open"] /\ tcli' = [tcli EXCEPT ![w] = cli] /\ tgen' = [tgen EXCEPT ![w] = gen]
        /\ att' = att /\ twice' = twice /\ started' = started
    BY <1>4 DEF Snapshot, Go
  <2>2. TypeOK' /\ OthersSame(w)
    BY <1>1, <2>1 DEF Inv, TypeOK, shared, OthersSame, Steps
  <2>3. SessionsCounted'
    BY <1>1, <1>2, <2>1, BusyStep DEF Inv, SessionsCounted, Steps
  <2>4. CallSound(w)'
    BY <1>1, <1>2, <2>1, ConstantsOK DEF Inv, TypeOK, Numbers, CallSound, shared, Transport
  <2>. QED BY <1>1, <2>2, <2>3, <2>4, LocalStep
<1>. QED BY <1>3, <1>4

\* A session is opened on that transport, which may have failed by now.
LEMMA NewSessionInv == ASSUME Inv, NEW w \in Workers, NewSession(w) PROVE Inv'
<1>1. UNCHANGED <<shared, mu>> /\ pc[w] = "open"
  BY DEF NewSession, shared, kaVars, netVars, closeVars
<1>2. w \notin Busy /\ mu # w /\ CallSound(w)
  BY <1>1, ConstantsOK DEF Busy, Inv, Calls, CallSound
<1>3. CASE Opened(w, tcli[w])
  BY <1>1, <1>3, OpenedStep
<1>4. CASE Refused(w, tcli[w])
  BY <1>1, <1>2, <1>4, ReturnStep DEF Refused
<1>5. CASE isConnClosedErr(tcli[w]) /\ Go(w, "dead") /\ UNCHANGED <<openSes, tcli, tgen, att, twice, started>>
  <2>1. pc' = [pc EXCEPT ![w] = "dead"] /\ UNCHANGED <<openSes, tcli, tgen, att, twice, started>> /\ Gone(tcli[w])
    BY <1>5 DEF Go, isConnClosedErr
  <2>2. TypeOK' /\ OthersSame(w)
    BY <1>1, <2>1 DEF Inv, TypeOK, shared, OthersSame, Steps
  <2>3. SessionsCounted'
    BY <1>1, <1>2, <2>1, BusyStep DEF Inv, SessionsCounted, Steps
  <2>4. CallSound(w)'
    BY <1>1, <1>2, <2>1, ConstantsOK DEF Inv, TypeOK, CallSound, shared, Gone
  <2>. QED BY <1>1, <2>2, <2>3, <2>4, LocalStep DEF Inv, Owners
<1>. QED BY <1>3, <1>4, <1>5 DEF NewSession

\* heal takes the mutex, and dials only if the generation is still the one
\* that failed.
LEMMA HealInv == ASSUME Inv, NEW w \in Workers, Heal(w) PROVE Inv'
<1>1. UNCHANGED shared /\ openSes' = openSes /\ pc[w] = "heal" /\ mu = NoOne
  BY DEF Heal, shared, kaVars, netVars, closeVars
<1>2. w \notin Busy /\ mu # w /\ CallSound(w)
  BY <1>1, ConstantsOK DEF Busy, Inv, Calls, CallSound
<1>3. CASE Return(w) /\ mu' = mu
  BY <1>1, <1>2, <1>3, ReturnStep
<1>4. CASE /\ HealChoice(w) = "reuse" /\ tcli' = [tcli EXCEPT ![w] = cli]
           /\ Go(w, "reopen") /\ UNCHANGED <<mu, tgen, att, twice, started>>
  <2>1. pc' = [pc EXCEPT ![w] = "reopen"] /\ tcli' = [tcli EXCEPT ![w] = cli] /\ UNCHANGED <<mu, tgen, att, twice, started>>
    BY <1>4 DEF Go
  <2>2. TypeOK' /\ OthersSame(w)
    BY <1>1, <2>1 DEF Inv, TypeOK, shared, OthersSame, Steps
  <2>3. SessionsCounted'
    BY <1>1, <1>2, <2>1, BusyStep DEF Inv, SessionsCounted, Steps
  <2>4. CallSound(w)'
    BY <1>1, <1>2, <2>1, ConstantsOK DEF Inv, TypeOK, Numbers, CallSound, shared
  <2>. QED BY <1>1, <2>1, <2>2, <2>3, <2>4, LocalStep
<1>5. CASE HealChoice(w) = "redial" /\ mu' = w /\ Go(w, "dial") /\ UNCHANGED <<tcli, tgen, att, twice, started>>
  <2>1. pc' = [pc EXCEPT ![w] = "dial"] /\ mu' = w /\ UNCHANGED <<tcli, tgen, att, twice, started>>
    BY <1>5 DEF Go
  <2>2. TypeOK' /\ OthersSame(w)
    BY <1>1, <2>1 DEF Inv, TypeOK, shared, OthersSame, Steps
  <2>3. SessionsCounted'
    BY <1>1, <1>2, <2>1, BusyStep DEF Inv, SessionsCounted, Steps
  <2>4. CallSound(w)'
    BY <1>1, <1>2, <2>1, ConstantsOK DEF Inv, TypeOK, CallSound, shared
  <2>5. state = "dead"
    BY <1>1, <1>2, <1>5 DEF HealChoice, CallSound, Current, Inv, TypeOK
  <2>. QED BY <1>1, <2>1, <2>2, <2>3, <2>4, <2>5, LocalStep
<1>. QED BY <1>3, <1>4, <1>5 DEF Heal

\* After a heal the session is opened on the new transport.
LEMMA ReopenInv == ASSUME Inv, NEW w \in Workers, Reopen(w) PROVE Inv'
<1>1. UNCHANGED <<shared, mu>> /\ pc[w] = "reopen"
  BY DEF Reopen, shared, kaVars, netVars, closeVars
<1>2. w \notin Busy /\ mu # w
  BY <1>1, ConstantsOK DEF Busy, Inv, Calls, CallSound
<1>3. CASE Opened(w, tcli[w])
  BY <1>1, <1>3, OpenedStep
<1>4. CASE Return(w) /\ UNCHANGED openSes
  BY <1>1, <1>2, <1>4, ReturnStep
<1>. QED BY <1>3, <1>4 DEF Reopen, Refused

\* A refused Setenv closes its session before the fallback opens another.
LEMMA SetenvInv == ASSUME Inv, NEW w \in Workers, Setenv(w) PROVE Inv'
<1>1. UNCHANGED <<shared, mu, tcli, tgen, att, started>> /\ pc[w] = "env"
  BY DEF Setenv, shared, kaVars, netVars, closeVars
<1>2. w \in Busy /\ mu # w /\ CallSound(w)
  BY <1>1, ConstantsOK DEF Busy, Inv, Calls, CallSound
<1>3. CASE Go(w, "exec") /\ UNCHANGED <<openSes, twice>>
  <2>1. pc' = [pc EXCEPT ![w] = "exec"] /\ UNCHANGED <<openSes, twice>>
    BY <1>3 DEF Go
  <2>2. TypeOK' /\ OthersSame(w)
    BY <1>1, <2>1 DEF Inv, TypeOK, shared, OthersSame, Steps
  <2>3. SessionsCounted'
    BY <1>1, <1>2, <2>1, BusyStep DEF Inv, SessionsCounted, Steps
  <2>4. CallSound(w)'
    BY <1>1, <1>2, <2>1 DEF Inv, TypeOK, CallSound, shared
  <2>. QED BY <1>1, <2>2, <2>3, <2>4, LocalStep DEF Inv, Owners
<1>4. CASE closeSession /\ twice' = [twice EXCEPT ![w] = TRUE] /\ Go(w, "snap")
  <2>1. pc' = [pc EXCEPT ![w] = "snap"] /\ twice' = [twice EXCEPT ![w] = TRUE] /\ openSes' = openSes - 1
    BY <1>4 DEF Go, closeSession
  <2>2. SessionsCounted' /\ openSes' \in Nat
    <3>1. "snap" \in Steps /\ "snap" \notin {"env", "exec", "run"} /\ TypeOK /\ openSes = Cardinality(Busy)
      BY DEF Steps, Inv, SessionsCounted
    <3>2. openSes \in Nat /\ Cardinality(Busy') = openSes - 1 /\ openSes > 0
      BY <1>2, <2>1, <3>1, BusyStep
    <3>. QED BY <2>1, <3>2 DEF SessionsCounted
  <2>3. TypeOK' /\ OthersSame(w)
    BY <1>1, <2>1, <2>2 DEF Inv, TypeOK, shared, OthersSame, Steps
  <2>4. CallSound(w)'
    BY <1>1, <1>2, <2>1 DEF Inv, TypeOK, CallSound, shared
  <2>. QED BY <1>1, <2>2, <2>3, <2>4, LocalStep DEF Inv, Owners
<1>. QED BY <1>3, <1>4 DEF Setenv

\* A command is started once in a session.
LEMMA StartCommandInv == ASSUME Inv, NEW w \in Workers, StartCommand(w) PROVE Inv'
<1>1. /\ UNCHANGED <<shared, mu, openSes, tcli, tgen, att, twice>> /\ pc[w] = "exec"
      /\ pc' = [pc EXCEPT ![w] = "run"] /\ started' = [started EXCEPT ![w] = @ + 1]
  BY DEF StartCommand, Go, shared, kaVars, netVars, closeVars
<1>2. w \in Busy /\ mu # w /\ CallSound(w)
  BY <1>1, ConstantsOK DEF Busy, Inv, Calls, CallSound
<1>3. TypeOK' /\ OthersSame(w)
  BY <1>1 DEF Inv, TypeOK, shared, OthersSame, Steps
<1>4. SessionsCounted'
  BY <1>1, <1>2, BusyStep DEF Inv, SessionsCounted, Steps
<1>5. CallSound(w)'
  BY <1>1, <1>2 DEF Inv, TypeOK, CallSound, shared
<1>. QED BY <1>1, <1>3, <1>4, <1>5, LocalStep DEF Inv, Owners

\* A call that ends, or is cancelled, gives its session back.
LEMMA FinishInv == ASSUME Inv, NEW w \in Workers, Finish(w) PROVE Inv'
<1>1. UNCHANGED <<shared, mu>> /\ pc[w] \in {"exec", "run"} /\ openSes' = openSes - 1
  BY DEF Finish, closeSession, shared, kaVars, netVars, closeVars
<1>2. w \in Busy /\ mu # w
  BY <1>1, ConstantsOK DEF Busy, Inv, Calls, CallSound
<1>3. Return(w)
  BY DEF Finish, AfterLoss
<1>. QED BY <1>1, <1>2, <1>3, ReturnStep

\* What markDead changes, called with the generation of a transport.
LEMMA MarkDeadEffect ==
    ASSUME Inv, NEW g, markDead(g)
    PROVE  /\ mu = NoOne
           /\ \/ state' = "dead" /\ stops' = [stops EXCEPT ![gen] = 1] /\ net' = [net EXCEPT ![cli] = "closed"]
                 /\ Current(g)
              \/ UNCHANGED <<state, stops, net>> /\ ~Current(g)
  BY DEF markDead, Shut, Current, Inv, Owners, TypeOK

\* A caller that saw a failure retires the transport only if it is the
\* current one.
LEMMA MarkDeadInv == ASSUME Inv, NEW w \in Workers, MarkDead(w) PROVE Inv'
<1>1. /\ UNCHANGED <<mu, cli, gen, ka, kcli, misses, dials, abandoned, cancelled, cpc, cowned, openSes, tcli, tgen, att, twice, started>>
      /\ pc[w] = "dead" /\ pc' = [pc EXCEPT ![w] = "heal"] /\ markDead(tgen[w])
  BY DEF MarkDead, Go, closeVars
<1>2. w \notin Busy /\ mu = NoOne /\ CallSound(w)
  BY <1>1, MarkDeadEffect DEF Busy, Inv, Calls
<1>3. SessionsCounted'
  BY <1>1, <1>2, BusyStep DEF Inv, SessionsCounted, Steps
<1>4. CASE UNCHANGED <<state, stops, net>> /\ ~Current(tgen[w])
  <2>1. TypeOK' /\ OthersSame(w)
    BY <1>1, <1>4 DEF Inv, TypeOK, OthersSame, Steps
  <2>2. CallSound(w)'
    BY <1>1, <1>2, <1>4 DEF Inv, TypeOK, CallSound, Current
  <2>. QED BY <1>1, <1>3, <1>4, <2>1, <2>2, LocalStep DEF shared, Inv, Owners
<1>5. CASE state' = "dead" /\ stops' = [stops EXCEPT ![gen] = 1] /\ net' = [net EXCEPT ![cli] = "closed"] /\ Current(tgen[w])
  <2>1. TypeOK' /\ OthersSame(w)
    BY <1>1, <1>5 DEF Inv, TypeOK, OthersSame, Steps
  <2>2. Calls'
    <3>. SUFFICES ASSUME NEW v \in Workers PROVE CallSound(v)'
      BY DEF Calls
    <3>1. CallSound(v) /\ (Gone(tcli[v]) => Gone(tcli[v])') /\ pc'[v] = IF v = w THEN "heal" ELSE pc[v]
      BY <1>1, <1>5 DEF Inv, Calls, TypeOK, Gone
    <3>. QED BY <1>1, <1>2, <1>5, <3>1 DEF CallSound, Current
  <2>3. Numbers' /\ Loops' /\ StopOnce' /\ Owners'
    BY <1>1, <1>2, <1>5 DEF Inv, TypeOK, Numbers, Loops, StopOnce, Owners, Gone, Current, Transport
  <2>4. NoLeakedTransport'
    BY <1>1, <1>5, <2>1 DEF Inv, TypeOK, NoLeakedTransport, Open, Current, OthersSame
  <2>. QED BY <1>3, <2>1, <2>2, <2>3, <2>4 DEF Inv
<1>. QED BY <1>1, <1>4, <1>5, MarkDeadEffect

\* A dial adds a transport that only the healer knows.
LEMMA ConnectInv == ASSUME Inv, NEW w \in Workers, Connect(w) PROVE Inv'
<1>1. UNCHANGED <<cli, gen, state, stops, ka, kcli, misses, abandoned, cancelled, cpc, cowned, openSes>> /\ pc[w] = "dial"
  BY DEF Connect, kaVars, closeVars
<1>2. w \notin Busy /\ mu = w /\ CallSound(w) /\ state = "dead"
  BY <1>1, ConstantsOK DEF Busy, Inv, Calls, CallSound, Owners
<1>3. CASE GiveUp(w) /\ UNCHANGED <<dials, net>>
  BY <1>1, <1>2, <1>3, ReturnStep DEF GiveUp, shared
<1>4. CASE RetryDial(w) /\ UNCHANGED <<dials, net>>
  <2>1. pc' = [pc EXCEPT ![w] = "dial"] /\ att' = [att EXCEPT ![w] = @ + 1] /\ att[w] + 1 < DialRetries /\ UNCHANGED <<mu, tcli, tgen, twice, started, dials, net>>
    BY <1>4 DEF RetryDial, Go, AttemptLeft
  <2>2. TypeOK' /\ OthersSame(w)
    BY <1>1, <2>1, ConstantsOK DEF Inv, TypeOK, OthersSame, Steps
  <2>3. SessionsCounted'
    BY <1>1, <1>2, <2>1, BusyStep DEF Inv, SessionsCounted, Steps
  <2>4. CallSound(w)'
    BY <1>1, <1>2, <2>1 DEF Inv, TypeOK, CallSound
  <2>. QED BY <1>1, <1>2, <2>1, <2>2, <2>3, <2>4, LocalStep DEF shared
<1>5. CASE /\ dials < MaxDials /\ dials' = dials + 1 /\ net' = [net EXCEPT ![dials + 1] = "up"]
           /\ tcli' = [tcli EXCEPT ![w] = dials + 1]
           /\ Go(w, "shake") /\ UNCHANGED <<mu, tgen, att, twice, started>>
  <2>1. /\ dials < MaxDials /\ dials' = dials + 1 /\ net' = [net EXCEPT ![dials + 1] = "up"]
        /\ tcli' = [tcli EXCEPT ![w] = dials + 1] /\ pc' = [pc EXCEPT ![w] = "shake"]
        /\ UNCHANGED <<mu, tgen, att, twice, started>>
    BY <1>5 DEF Go
  <2>2. dials + 1 \in Transport /\ dials \in Nat /\ Transport \subseteq Nat
    BY <1>5, ConstantsOK DEF Transport, Inv, TypeOK
  <2>3. TypeOK' /\ OthersSame(w)
    BY <1>1, <2>1, <2>2, ConstantsOK DEF Inv, TypeOK, OthersSame, Steps
  <2>4. SessionsCounted'
    BY <1>1, <1>2, <2>1, BusyStep DEF Inv, SessionsCounted, Steps
  <2>5. Calls'
    <3>1. CallSound(w)'
      BY <1>1, <1>2, <2>1, <2>2 DEF Inv, TypeOK, CallSound, Numbers
    <3>2. ASSUME NEW v \in Workers \ {w} PROVE CallSound(v)'
      <4>1. CallSound(v) /\ tcli[v] \in Nat /\ tcli[v] # dials + 1
        BY Ordered DEF Inv, Calls
      <4>2. pc'[v] = pc[v] /\ tcli'[v] = tcli[v] /\ pc[v] \notin {"dial", "shake"}
        BY <1>2, <2>1, <4>1 DEF CallSound, Inv, TypeOK
      <4>3. tcli[v] \in Transport => net'[tcli[v]] = net[tcli[v]]
        BY <2>1, <4>1 DEF Inv, TypeOK
      <4>. QED BY <1>1, <2>1, <2>2, <4>1, <4>2, <4>3 DEF CallSound, Current, Gone
    <3>. QED BY <3>1, <3>2 DEF Calls
  <2>6. Numbers' /\ Loops' /\ StopOnce' /\ Owners'
    <3>1. \A g \in Transport : kcli[g] \in Nat /\ kcli[g] # dials + 1
      BY Ordered
    <3>2. \A g \in Transport : kcli[g] \in Transport /\ Gone(kcli[g]) => Gone(kcli[g])'
      BY <1>1, <2>1, <2>2, <3>1 DEF Gone, Inv, TypeOK
    <3>3. Numbers'
      BY <1>1, <2>1, <2>2, <3>1 DEF Inv, TypeOK, Numbers
    <3>4. Loops' /\ StopOnce' /\ Owners'
      BY <1>1, <2>1, <3>2 DEF Inv, Loops, StopOnce, Owners
    <3>. QED BY <3>3, <3>4
  <2>7. NoLeakedTransport'
    BY <1>1, <2>1, <2>2, <2>3 DEF Inv, TypeOK, NoLeakedTransport, Open, OthersSame
  <2>. QED BY <2>3, <2>4, <2>5, <2>6, <2>7 DEF Inv
<1>. QED BY <1>3, <1>4, <1>5 DEF Connect

\* A new transport gets the next generation and a keepalive loop of its own.
LEMMA HealedInv == ASSUME Inv, NEW w \in Workers, Healed(w) PROVE Inv'
<1>1. /\ UNCHANGED <<stops, misses, net, dials, abandoned, cancelled, cpc, cowned, openSes, tcli, tgen, twice, started>>
      /\ pc[w] = "shake" /\ pc' = [pc EXCEPT ![w] = "reopen"] /\ att' = [att EXCEPT ![w] = 0]
      /\ cli' = tcli[w] /\ gen' = gen + 1 /\ state' = "live" /\ mu' = NoOne
      /\ ka' = [ka EXCEPT ![gen + 1] = "wait"] /\ kcli' = [kcli EXCEPT ![gen + 1] = tcli[w]]
  BY DEF Healed, Go, netVars, closeVars
<1>2. w \notin Busy /\ mu = w /\ CallSound(w) /\ state = "dead"
  BY <1>1, ConstantsOK DEF Busy, Inv, Calls, CallSound, Owners
<1>3. /\ tcli[w] = dials /\ dials \in Transport /\ gen + 1 \in Transport
      /\ cli < dials /\ gen + 1 <= dials /\ gen \in Nat
  <2>1. tcli[w] = dials /\ cli < dials /\ gen <= cli
    BY <1>1, <1>2 DEF CallSound, Inv, Numbers
  <2>2. gen \in Transport
    BY DEF Inv, TypeOK
  <2>. QED BY <2>1, <2>2, Ordered DEF Transport
<1>4. TypeOK' /\ OthersSame(w)
  BY <1>1, <1>3, ConstantsOK DEF Inv, TypeOK, OthersSame, Steps
<1>5. SessionsCounted'
  BY <1>1, <1>2, BusyStep DEF Inv, SessionsCounted, Steps
<1>6. Calls'
  <2>1. CallSound(w)'
    <3>1. tgen[w] <= gen + 1 /\ tcli[w] <= dials /\ started[w] <= 1 /\ started[w] = 0 /\ w # NoOne /\ pc'[w] = "reopen"
      BY <1>1, <1>2, Ordered, ConstantsOK DEF CallSound, Inv, TypeOK
    <3>. QED BY <1>1, <3>1 DEF CallSound
  <2>2. ASSUME NEW v \in Workers \ {w} PROVE CallSound(v)'
    <3>1. CallSound(v) /\ v # NoOne /\ pc'[v] = pc[v] /\ pc[v] \notin {"dial", "shake"}
      BY <1>1, <1>2, ConstantsOK DEF Inv, Calls, CallSound, TypeOK
    <3>2. tgen[v] # gen + 1 /\ tgen[v] <= gen + 1
      BY Ordered
    <3>3. tgen[v] \in Transport => kcli'[tgen[v]] = kcli[tgen[v]]
      BY <1>1, <3>2 DEF Inv, TypeOK
    <3>. QED BY <1>1, <1>3, <3>1, <3>2, <3>3 DEF CallSound, Gone, Current
  <2>. QED BY <2>1, <2>2 DEF Calls
<1>7. Numbers'
  BY <1>1, <1>3, ConstantsOK DEF Inv, TypeOK, Numbers, Transport
<1>8. Loops' /\ StopOnce' /\ Owners'
  <2>1. \A g \in Transport : g # gen + 1 => ka'[g] = ka[g] /\ kcli'[g] = kcli[g]
    BY <1>1 DEF Inv, TypeOK
  <2>2. ka'[gen + 1] = "wait" /\ kcli'[gen + 1] = dials
    BY <1>1, <1>3 DEF Inv, TypeOK
  <2>3. Loops'
    BY <1>1, <1>3, <2>1, <2>2 DEF Inv, Loops, Gone, Transport
  <2>4. StopOnce' /\ Owners'
    BY <1>1, <1>2, <1>3, ConstantsOK DEF Inv, StopOnce, Owners, Loops, Transport
  <2>. QED BY <2>3, <2>4
<1>9. NoLeakedTransport'
  BY <1>1, <1>2, <1>4 DEF Inv, NoLeakedTransport, Open, OthersSame, Owners
<1>. QED BY <1>4, <1>5, <1>6, <1>7, <1>8, <1>9 DEF Inv

\* The end of a handshake that failed: its connection is closed or abandoned,
\* and nobody else's is.
LEMMA ShakeEnds ==
    ASSUME Inv, NEW w \in Workers, pc[w] = "shake", RetryDial(w) \/ GiveUp(w),
           UNCHANGED <<cli, gen, state, stops, ka, kcli, misses, dials, cancelled, cpc, cowned, openSes>>,
           \/ abandoned' = abandoned /\ net' = [net EXCEPT ![dials] = "closed"]
           \/ abandoned' = abandoned \cup {dials} /\ net' = net
    PROVE  Inv'
<1>1. w \notin Busy /\ mu = w /\ CallSound(w) /\ state = "dead" /\ tcli[w] = dials /\ w # NoOne
  BY ConstantsOK DEF Busy, Inv, Calls, CallSound, Owners
<1>2. dials \in Transport
  BY <1>1, ConstantsOK DEF Inv, TypeOK, CallSound, Transport
<1>3. PICK to \in {"dial", "done"} :
        /\ pc' = [pc EXCEPT ![w] = to] /\ mu' = IF to = "dial" THEN w ELSE NoOne
        /\ tcli' \in {tcli, [tcli EXCEPT ![w] = 0]} /\ tgen' \in {tgen, [tgen EXCEPT ![w] = 0]}
        /\ att' \in {[att EXCEPT ![w] = 0], [att EXCEPT ![w] = @ + 1]} /\ att'[w] < DialRetries
        /\ twice' \in {twice, [twice EXCEPT ![w] = FALSE]} /\ started' \in {started, [started EXCEPT ![w] = 0]}
  BY <1>1, ConstantsOK DEF RetryDial, AttemptLeft, GiveUp, Return, Go, Inv, TypeOK
<1>4. TypeOK' /\ OthersSame(w)
  <2>1. att' \in [Workers -> 0..(DialRetries - 1)]
    BY <1>3, ConstantsOK DEF Inv, TypeOK
  <2>2. pc' \in [Workers -> Steps] /\ mu' \in Workers \cup {NoOne} /\ tcli' \in [Workers -> Transport \cup {0}]
        /\ tgen' \in [Workers -> Transport \cup {0}] /\ twice' \in [Workers -> BOOLEAN] /\ started' \in [Workers -> Nat]
    <3>1. /\ mu \in Workers \cup {NoOne} /\ pc \in [Workers -> Steps] /\ tcli \in [Workers -> Transport \cup {0}]
          /\ tgen \in [Workers -> Transport \cup {0}] /\ twice \in [Workers -> BOOLEAN] /\ started \in [Workers -> Nat]
      BY DEF Inv, TypeOK
    <3>2. pc' \in [Workers -> Steps] /\ mu' \in Workers \cup {NoOne}
      BY <1>3, <3>1 DEF Steps
    <3>3. tcli' \in [Workers -> Transport \cup {0}] /\ tgen' \in [Workers -> Transport \cup {0}]
      BY <1>3, <3>1
    <3>4. started' \in [Workers -> Nat]
      BY <1>3, <3>1
    <3>5. twice' \in [Workers -> BOOLEAN]
      BY <1>3, <3>1, Zenon
    <3>. QED BY <3>2, <3>3, <3>4, <3>5
  <2>3. net' \in [Transport -> {"none", "up", "reset", "hole", "closed"}] /\ abandoned' \in SUBSET Transport
    BY <1>2 DEF Inv, TypeOK
  <2>4. OthersSame(w)
    BY <1>3 DEF OthersSame, Inv, TypeOK
  <2>. QED BY <2>1, <2>2, <2>3, <2>4 DEF Inv, TypeOK
<1>5. SessionsCounted'
  BY <1>1, <1>3, BusyStep DEF Inv, SessionsCounted, Steps
<1>6. \A t \in Transport : Gone(t) => Gone(t)'
  BY <1>2 DEF Gone, Inv, TypeOK
<1>7. Calls'
  <2>1. CallSound(w)'
    <3>0. /\ tcli[w] <= dials /\ tgen[w] <= gen /\ started[w] = 0
          /\ dials \in Nat /\ gen \in Nat /\ tcli[w] \in Nat /\ tgen[w] \in Nat
      BY <1>1, Ordered DEF Inv, Calls, CallSound
    <3>2. /\ pc \in [Workers -> Steps] /\ tcli \in [Workers -> Transport \cup {0}]
           /\ tgen \in [Workers -> Transport \cup {0}] /\ started \in [Workers -> Nat]
      BY DEF Inv, TypeOK
    <3>1. tcli'[w] <= dials /\ tgen'[w] <= gen /\ started'[w] = 0 /\ pc'[w] = to
      BY <1>3, <3>0, <3>2
    <3>. QED BY <1>1, <1>3, <3>1 DEF CallSound
  <2>2. ASSUME NEW v \in Workers \ {w} PROVE CallSound(v)'
    <3>1. CallSound(v) /\ v # NoOne /\ pc[v] \notin {"dial", "shake"} /\ mu' # v
      BY <1>1, <1>3, ConstantsOK DEF Inv, Calls, CallSound
    <3>. QED BY <1>4, <1>6, <3>1 DEF CallSound, OthersSame, Current
  <2>. QED BY <2>1, <2>2 DEF Calls
<1>8. Numbers' /\ Loops' /\ StopOnce' /\ Owners'
  BY <1>1, <1>6 DEF Inv, Numbers, Loops, StopOnce, Owners
<1>9. NoLeakedTransport'
  BY <1>1, <1>2, <1>4 DEF Inv, TypeOK, NoLeakedTransport, Open, OthersSame
<1>. QED BY <1>4, <1>5, <1>7, <1>8, <1>9 DEF Inv

\* A handshake that fails closes its connection.
LEMMA ShakeFailsInv == ASSUME Inv, NEW w \in Workers, ShakeFails(w) PROVE Inv'
<1>1. pc[w] = "shake" /\ tcli[w] = dials
  BY DEF ShakeFails, Inv, Calls, CallSound
<1>. QED BY <1>1, ShakeEnds DEF ShakeFails, Shut, kaVars, closeVars

\* A cancelled handshake leaves its connection to the watchdog.
LEMMA ShakeAbortedInv == ASSUME Inv, NEW w \in Workers, ShakeAborted(w) PROVE Inv'
<1>1. pc[w] = "shake" /\ tcli[w] = dials
  BY DEF ShakeAborted, Inv, Calls, CallSound
<1>. QED BY <1>1, ShakeEnds DEF ShakeAborted, Abandon, kaVars, closeVars
-----------------------------------------------------------------------------
(* The keepalive loops, Close and the network                              *)

\* A step that leaves all calls, the numbers and the ownership alone, and
\* brings no lost transport back.
LEMMA ElsewhereStep ==
    ASSUME Inv, TypeOK', UNCHANGED <<opVars, mu, cli, gen, kcli, dials>>,
           \A t \in Transport : Gone(t) => Gone(t)',
           state' = state \/ (state' # "live" /\ mu = NoOne)
    PROVE  Calls' /\ Numbers' /\ SessionsCounted'
<1>1. Numbers' /\ SessionsCounted'
  BY DEF Inv, Numbers, SessionsCounted, Busy, opVars
<1>2. ASSUME NEW w \in Workers PROVE CallSound(w)'
  <2>1. CallSound(w)
    BY DEF Inv, Calls
  <2>. QED BY <2>1 DEF CallSound, Current, opVars
<1>. QED BY <1>1, <1>2 DEF Calls

\* A probe of the keepalive counts a miss, forgets the misses, or ends its
\* loop.
LEMMA ProbeInv ==
    ASSUME Inv, NEW g \in Transport, ProbeOK(g) \/ ProbeTimeout(g) \/ ProbeError(g) \/ LoopStops(g)
    PROVE  Inv'
<1>1. UNCHANGED <<mu, cli, gen, state, stops, kcli, net, dials, abandoned, cancelled, opVars, cpc, cowned>> /\ ka[g] = "wait"
  BY DEF ProbeOK, ProbeTimeout, ProbeError, LoopStops, netVars, closeVars
<1>2. PICK n \in 0..MaxMisses, k \in {"wait", "mark", "end"} :
        /\ misses' = [misses EXCEPT ![g] = n] /\ ka' = [ka EXCEPT ![g] = k]
        /\ k = "mark" => n >= MaxMisses \/ Gone(kcli[g])
  <2>1. /\ misses[g] \in 0..MaxMisses /\ MaxMisses \in Nat /\ 0 \in 0..MaxMisses
        /\ misses = [misses EXCEPT ![g] = misses[g]] /\ ka = [ka EXCEPT ![g] = "wait"]
    BY <1>1, ConstantsOK DEF Inv, TypeOK
  <2>2. CASE ProbeOK(g)
    BY <2>1, <2>2, Zenon DEF ProbeOK
  <2>3. CASE ProbeTimeout(g)
    <3>. DEFINE n == IF misses[g] < MaxMisses THEN misses[g] + 1 ELSE misses[g]
                k == IF Silent(g) THEN "mark" ELSE "wait"
    <3>1. n \in 0..MaxMisses /\ k \in {"wait", "mark", "end"} /\ (k = "mark" => n >= MaxMisses)
      BY <2>1 DEF Silent
    <3>2. misses' = [misses EXCEPT ![g] = n] /\ ka' = [ka EXCEPT ![g] = k]
      BY <1>1, <2>3 DEF ProbeTimeout, Inv, TypeOK
    <3>. QED BY <3>1, <3>2
  <2>4. CASE ProbeError(g)
    BY <2>1, <2>4 DEF ProbeError
  <2>5. CASE LoopStops(g)
    BY <2>1, <2>5, Zenon DEF LoopStops
  <2>. QED BY <2>2, <2>3, <2>4, <2>5
<1>3. TypeOK'
  BY <1>1, <1>2 DEF Inv, TypeOK, opVars
<1>4. Calls' /\ Numbers' /\ SessionsCounted'
  BY <1>1, <1>3, ElsewhereStep DEF Gone
<1>5. Loops'
  BY <1>1, <1>2 DEF Inv, TypeOK, Loops, Gone
<1>6. StopOnce' /\ Owners' /\ NoLeakedTransport'
  BY <1>1 DEF Inv, StopOnce, Owners, NoLeakedTransport, Open, opVars
<1>. QED BY <1>3, <1>4, <1>5, <1>6 DEF Inv

\* A keepalive loop retires its own transport and no later one.
LEMMA LoopMarksDeadInv == ASSUME Inv, NEW g \in Transport, LoopMarksDead(g) PROVE Inv'
<1>1. /\ UNCHANGED <<mu, cli, gen, kcli, dials, abandoned, cancelled, opVars, cpc, cowned>> /\ ka[g] = "mark"
      /\ ka' = [ka EXCEPT ![g] = "end"] /\ misses' = [misses EXCEPT ![g] = 0] /\ markDead(g)
  BY DEF LoopMarksDead, closeVars
<1>2. /\ mu = NoOne
      /\ \/ state = "live" /\ state' = "dead" /\ stops' = [stops EXCEPT ![gen] = 1] /\ net' = [net EXCEPT ![cli] = "closed"]
         \/ UNCHANGED <<state, stops, net>>
  BY <1>1, MarkDeadEffect DEF Current
<1>3. TypeOK'
  <2>1. stops' \in [Transport -> Nat] /\ net' \in [Transport -> {"none", "up", "reset", "hole", "closed"}] /\ state' \in {"live", "dead", "closed"}
    BY <1>2 DEF Inv, TypeOK
  <2>2. ka' \in [Transport -> {"none", "wait", "mark", "end"}] /\ misses' \in [Transport -> 0..MaxMisses]
    BY <1>1, ConstantsOK DEF Inv, TypeOK
  <2>. QED BY <1>1, <2>1, <2>2 DEF Inv, TypeOK, opVars
<1>4. \A t \in Transport : Gone(t) => Gone(t)'
  BY <1>2 DEF Inv, TypeOK, Gone
<1>5. Calls' /\ Numbers' /\ SessionsCounted'
  BY <1>1, <1>2, <1>3, <1>4, ElsewhereStep
<1>6. Loops'
  <2>1. \A h \in Transport : h > gen => stops'[h] = stops[h] /\ h # g
    BY <1>1, <1>2, Ordered DEF Inv, TypeOK, Loops
  <2>. QED BY <1>1, <1>4, <2>1 DEF Inv, TypeOK, Loops
<1>7. StopOnce' /\ Owners'
  BY <1>1, <1>2 DEF Inv, TypeOK, StopOnce, Owners
<1>8. NoLeakedTransport'
  BY <1>1, <1>2 DEF Inv, TypeOK, NoLeakedTransport, Open, opVars
<1>. QED BY <1>3, <1>5, <1>6, <1>7, <1>8 DEF Inv

\* Close takes the live transport over from the client.
LEMMA CloseInv == ASSUME Inv, NEW c \in Closers, Close(c) PROVE Inv'
<1>1. /\ UNCHANGED <<mu, cli, gen, stops, ka, kcli, misses, net, dials, abandoned, cancelled, opVars>>
      /\ cpc[c] = "no" /\ mu = NoOne /\ state' = "closed"
      /\ cowned' = [cowned EXCEPT ![c] = IF state = "live" THEN gen ELSE 0]
      /\ cpc' = [cpc EXCEPT ![c] = IF state = "live" THEN "teardown" ELSE "done"]
  BY DEF Close, OwnsTransport, kaVars, netVars
<1>2. TypeOK'
  BY <1>1 DEF Inv, TypeOK, opVars
<1>3. Calls' /\ Numbers' /\ SessionsCounted'
  BY <1>1, <1>2, ElsewhereStep DEF Gone
<1>4. Loops' /\ StopOnce'
  BY <1>1 DEF Inv, Loops, StopOnce, Gone
<1>5. Owners'
  BY <1>1 DEF Inv, TypeOK, Owners
<1>6. NoLeakedTransport'
  <2>1. \A d \in Closers : cpc[d] = "teardown" => cpc'[d] = "teardown" /\ cowned'[d] = cowned[d]
    BY <1>1 DEF Inv, TypeOK
  <2>2. state = "live" => cpc'[c] = "teardown" /\ kcli'[cowned'[c]] = cli
    BY <1>1 DEF Inv, TypeOK, Numbers
  <2>. QED BY <1>1, <2>1, <2>2 DEF Inv, NoLeakedTransport, Open, opVars
<1>. QED BY <1>2, <1>3, <1>4, <1>5, <1>6 DEF Inv

\* The transport that Close took over is stopped once.
LEMMA TearDownInv == ASSUME Inv, NEW c \in Closers, TearDown(c) PROVE Inv'
<1>1. /\ UNCHANGED <<mu, cli, gen, state, ka, kcli, misses, dials, abandoned, cancelled, opVars, cowned>>
      /\ cpc[c] = "teardown" /\ cpc' = [cpc EXCEPT ![c] = "done"]
      /\ stops' = [stops EXCEPT ![cowned[c]] = @ + 1] /\ net' = [net EXCEPT ![kcli[cowned[c]]] = "closed"]
  BY DEF TearDown, Shut
<1>2. /\ state = "closed" /\ cowned[c] = gen /\ stops[gen] = 0 /\ kcli[gen] = cli
      /\ \A d \in Closers : cpc[d] = "teardown" => d = c
  BY <1>1 DEF Inv, Owners, Numbers
<1>3. stops' = [stops EXCEPT ![gen] = 1] /\ net' = [net EXCEPT ![cli] = "closed"]
  BY <1>1, <1>2
<1>4. TypeOK'
  <2>1. stops' \in [Transport -> Nat] /\ net' \in [Transport -> {"none", "up", "reset", "hole", "closed"}]
    BY <1>3 DEF Inv, TypeOK
  <2>2. cpc' \in [Closers -> {"no", "teardown", "done"}]
    BY <1>1 DEF Inv, TypeOK
  <2>. QED BY <1>1, <2>1, <2>2 DEF Inv, TypeOK, opVars
<1>5. \A t \in Transport : Gone(t) => Gone(t)'
  BY <1>3 DEF Inv, TypeOK, Gone
<1>6. Calls' /\ Numbers' /\ SessionsCounted'
  BY <1>1, <1>4, <1>5, ElsewhereStep
<1>7. Loops'
  <2>1. \A h \in Transport : h > gen => stops'[h] = stops[h]
    BY <1>3, Ordered DEF Inv, TypeOK
  <2>. QED BY <1>1, <1>5, <2>1 DEF Inv, Loops
<1>8. StopOnce' /\ Owners'
  BY <1>1, <1>2, <1>3 DEF Inv, TypeOK, StopOnce, Owners
<1>9. NoLeakedTransport'
  BY <1>1, <1>2, <1>3 DEF Inv, TypeOK, NoLeakedTransport, Open, opVars
<1>. QED BY <1>4, <1>6, <1>7, <1>8, <1>9 DEF Inv

\* The network fails a transport, and the watchdog closes an abandoned one.
LEMMA NetworkInv == ASSUME Inv, NEW t \in Transport, Watchdog(t) \/ Fault(t) PROVE Inv'
<1>1. UNCHANGED <<mu, cli, gen, state, stops, ka, kcli, misses, dials, cancelled, opVars, cpc, cowned>>
  BY DEF Watchdog, Fault, kaVars, closeVars
<1>2. \/ net' = [net EXCEPT ![t] = "closed"] /\ abandoned' = abandoned \ {t}
      \/ net[t] = "up" /\ net' \in {[net EXCEPT ![t] = "reset"], [net EXCEPT ![t] = "hole"]} /\ abandoned' = abandoned
  BY DEF Watchdog, Fault, Shut
<1>3. TypeOK'
  <2>1. net' \in [Transport -> {"none", "up", "reset", "hole", "closed"}] /\ abandoned' \in SUBSET Transport
    BY <1>2 DEF Inv, TypeOK
  <2>. QED BY <1>1, <2>1 DEF Inv, TypeOK, opVars
<1>4. \A u \in Transport : Gone(u) => Gone(u)'
  BY <1>2 DEF Inv, TypeOK, Gone
<1>5. Calls' /\ Numbers' /\ SessionsCounted'
  BY <1>1, <1>3, <1>4, ElsewhereStep
<1>6. Loops' /\ StopOnce' /\ Owners'
  BY <1>1, <1>4 DEF Inv, Loops, StopOnce, Owners
<1>7. NoLeakedTransport'
  <2>1. \A u \in Transport : u \in Open' => u \in Open /\ (u \in abandoned => u \in abandoned')
    BY <1>2 DEF Inv, TypeOK, Open
  <2>. QED BY <1>1, <2>1 DEF Inv, NoLeakedTransport, Open, opVars
<1>. QED BY <1>3, <1>5, <1>6, <1>7 DEF Inv

\* The invariant holds initially.
LEMMA InitInv == Init => Inv
<1>. SUFFICES ASSUME Init PROVE Inv
  OBVIOUS
<1>0. 1 \in Transport /\ Transport \subseteq Nat /\ DialRetries - 1 \in Nat /\ 0 \in 0..(DialRetries - 1)
      /\ 0 \in 0..MaxMisses /\ 1 \in 0..MaxDials
  BY ConstantsOK DEF Transport
<1>1. TypeOK
  <2>1. mu \in Workers \cup {NoOne} /\ cli \in Transport /\ gen \in Transport /\ state \in {"live", "dead", "closed"}
        /\ dials \in 0..MaxDials /\ abandoned \in SUBSET Transport /\ cancelled \in BOOLEAN /\ openSes \in Nat
    BY <1>0 DEF Init
  <2>2. stops \in [Transport -> Nat] /\ ka \in [Transport -> {"none", "wait", "mark", "end"}]
        /\ kcli \in [Transport -> Transport \cup {0}] /\ misses \in [Transport -> 0..MaxMisses]
        /\ net \in [Transport -> {"none", "up", "reset", "hole", "closed"}]
    BY <1>0 DEF Init
  <2>3. pc \in [Workers -> Steps] /\ tcli \in [Workers -> Transport \cup {0}] /\ tgen \in [Workers -> Transport \cup {0}]
        /\ att \in [Workers -> 0..(DialRetries - 1)] /\ twice \in [Workers -> BOOLEAN] /\ started \in [Workers -> Nat]
    BY <1>0 DEF Init, Steps
  <2>4. cpc \in [Closers -> {"no", "teardown", "done"}] /\ cowned \in [Closers -> Transport \cup {0}]
    BY <1>0 DEF Init
  <2>. QED BY <2>1, <2>2, <2>3, <2>4 DEF TypeOK
<1>2. SessionsCounted
  <2>1. Busy = {}
    BY DEF Init, Busy
  <2>. QED BY <2>1, FS_EmptySet DEF Init, SessionsCounted
<1>3. Numbers /\ Loops /\ Owners
  BY <1>0 DEF Init, Numbers, Loops, Owners
<1>4. Calls
  BY ConstantsOK DEF Init, Calls, CallSound
<1>5. NoLeakedTransport /\ StopOnce
  BY <1>0 DEF Init, NoLeakedTransport, Open, StopOnce
<1>. QED BY <1>1, <1>2, <1>3, <1>4, <1>5 DEF Inv

\* The context may be cancelled at any time.
LEMMA CancelInv == ASSUME Inv, Cancel PROVE Inv'
<1>1. UNCHANGED <<mu, cli, gen, state, stops, ka, kcli, misses, net, dials, abandoned, opVars, cpc, cowned>> /\ cancelled' = TRUE
  BY DEF Cancel, kaVars, netVars, closeVars
<1>2. TypeOK'
  BY <1>1 DEF Inv, TypeOK, opVars
<1>3. Calls' /\ Numbers' /\ SessionsCounted'
  BY <1>1, <1>2, ElsewhereStep DEF Gone
<1>4. Loops' /\ StopOnce' /\ Owners' /\ NoLeakedTransport'
  BY <1>1 DEF Inv, Loops, StopOnce, Owners, NoLeakedTransport, Open, Gone, opVars
<1>. QED BY <1>2, <1>3, <1>4 DEF Inv

\* Every step keeps the invariant.
LEMMA NextInv == ASSUME Inv, [Next]_vars PROVE Inv'
<1>1. ASSUME NEW w \in Workers, CallStep(w) PROVE Inv'
  BY <1>1, SnapshotInv, NewSessionInv, MarkDeadInv, HealInv, ConnectInv, HealedInv, ShakeFailsInv, ShakeAbortedInv,
     ReopenInv, SetenvInv, StartCommandInv, FinishInv DEF CallStep
<1>2. ASSUME NEW g \in Transport, LoopStep(g) PROVE Inv'
  BY <1>2, ProbeInv, LoopMarksDeadInv DEF LoopStep
<1>3. ASSUME NEW c \in Closers, CloseStep(c) PROVE Inv'
  BY <1>3, CloseInv, TearDownInv DEF CloseStep
<1>4. ASSUME UNCHANGED vars PROVE Inv'
  <2>1. UNCHANGED <<mu, cli, gen, state, stops, ka, kcli, misses, net, dials, abandoned, cancelled, opVars, cpc, cowned>>
    BY <1>4 DEF vars, kaVars, netVars, closeVars
  <2>2. TypeOK'
    BY <2>1 DEF Inv, TypeOK, opVars
  <2>3. Calls' /\ Numbers' /\ SessionsCounted'
    BY <2>1, <2>2, ElsewhereStep DEF Gone
  <2>. QED BY <2>1, <2>2, <2>3 DEF Inv, Loops, StopOnce, Owners, NoLeakedTransport, Open, Gone, opVars
<1>. QED BY <1>1, <1>2, <1>3, <1>4, NetworkInv, CancelInv DEF Next

-----------------------------------------------------------------------------
(* The results                                                             *)

\* For any number of callers and closers, every connection still open has an
\* owner who will close it, a stop channel is closed once at most (a second
\* close would panic), and one call of Run starts its command once at most,
\* whichever heals, keepalive failures and Close calls interleave (client.go).
THEOREM Connection == Spec => []ConnectionSound
<1>1. Inv => ConnectionSound
  BY DEF Inv, Calls, CallSound, ConnectionSound, RunsAtMostOnce
<1>. QED BY <1>1, InitInv, NextInv, PTL DEF Spec

\* No path through the environment fallback, the heal or the cancellation of a
\* call forgets a session or closes one twice: the counter that the
\* MaxSessions diagnosis reads is zero whenever no call holds a session.
THEOREM SessionsBalance == Spec => []SessionsReturned
<1>1. Inv => SessionsReturned
  <2>. SUFFICES ASSUME Inv, \A w \in Workers : pc[w] \notin {"env", "exec", "run"} PROVE openSes = 0
    BY DEF SessionsReturned
  <2>1. Busy = {}
    BY DEF Busy
  <2>. QED BY <2>1, FS_EmptySet DEF Inv, SessionsCounted
<1>. QED BY <1>1, InitInv, NextInv, PTL DEF Spec

\* A live connection is given up only for a failure of its own: a caller's
\* snapshot and a keepalive loop both name the generation they failed on.
LEMMA FailedItself ==
    ASSUME Inv, [Next]_vars, state = "live", state' = "dead"
    PROVE  net[cli] # "up" \/ misses[gen] >= MaxMisses
<1>1. CASE \E w \in Workers : MarkDead(w)
  <2>1. PICK w \in Workers : MarkDead(w)
    BY <1>1
  <2>2. pc[w] = "dead" /\ CallSound(w) /\ Current(tgen[w])
    BY <2>1 DEF MarkDead, markDead, Inv, Calls
  <2>3. tgen[w] = gen /\ kcli[gen] = cli /\ tcli[w] = cli /\ Gone(tcli[w])
    BY <2>2 DEF CallSound, Current, Inv, Numbers
  <2>. QED BY <2>3 DEF Gone
<1>2. CASE \E g \in Transport : LoopMarksDead(g)
  <2>1. PICK g \in Transport : LoopMarksDead(g)
    BY <1>2
  <2>2. ka[g] = "mark" /\ g = gen /\ kcli[gen] = cli
    BY <2>1 DEF LoopMarksDead, markDead, Current, Inv, Numbers
  <2>. QED BY <2>2 DEF Inv, Loops, Gone
<1>. QED BY <1>1, <1>2 DEF Next, vars, CallStep, LoopStep, CloseStep, Snapshot, NewSession, Heal, Connect, Healed,
       ShakeFails, ShakeAborted, Reopen, Setenv, StartCommand, Finish, ProbeOK, ProbeTimeout, ProbeError, LoopStops,
       Close, TearDown, Watchdog, Fault, Cancel

\* Nobody redials a closed client.
LEMMA ClosedStays ==
    ASSUME Inv, [Next]_vars, state = "closed"
    PROVE  state' = "closed" /\ gen' = gen
<1>1. \A w \in Workers : ~Healed(w)
  BY ConstantsOK DEF Healed, Inv, Calls, CallSound, Owners
<1>. QED BY <1>1 DEF Next, vars, CallStep, LoopStep, CloseStep, Snapshot, NewSession, MarkDead, markDead, Current, Heal, Connect,
       ShakeFails, ShakeAborted, Reopen, Setenv, StartCommand, Finish, ProbeOK, ProbeTimeout, ProbeError, LoopMarksDead,
       LoopStops, Close, TearDown, Watchdog, Fault, Cancel

\* A transport ends by its own failure or by Close: a late failure seen on an
\* earlier connection never kills the one that replaced it, and a client once
\* closed is never brought back by a caller that began before (markDead, heal).
THEOREM TransportsFate == Spec => TransportFate
<1>1. Inv /\ [Next]_vars => [state = "live" /\ state' = "dead" => net[cli] # "up" \/ misses[gen] >= MaxMisses]_vars
  BY FailedItself
<1>2. Inv /\ [Next]_vars => [state = "closed" => state' = "closed" /\ gen' = gen]_vars
  BY ClosedStays
<1>. QED BY <1>1, <1>2, InitInv, NextInv, PTL DEF Spec, TransportFate, KillsOnlyTheFailed, ClosedIsFinal
-----------------------------------------------------------------------------
(* The batches of module Bridge. *)

\* Who is at work, and what an attempt starts from.
Stages ==
    /\ step \in {"writer", "relay", "drain", "waitDest", "waitBoth", "backoff"} => mode = "bridge"
    /\ step = "consume" => mode = "stream"
    /\ step # "end" => res = "none"
    /\ step \notin {"failed", "backoff", "end"} => tags = {}
    /\ step \in {"reader", "writer"} => cp = "no" /\ ~eof
    /\ step = "reader" => /\ src = "no" /\ dst = "no" /\ feed = "no" /\ sent = 0
                          /\ pipe = 0 /\ got = 0 /\ wpipe = 0
    /\ mode = "stream" => dst = "no" /\ cp = "no" /\ wpipe = 0
    /\ step = "backoff" => attempt < TransferRetries
    /\ late <= attempt /\ (step \notin {"failed", "backoff", "end"} => late < attempt)

\* Which sessions an attempt has open.
SessionsOpen ==
    /\ rs # 2 /\ ws # 2
    /\ mode = "stream" => ws = None
    /\ step = "reader" => rs = None /\ ws = None
    /\ step = "writer" => rs = 0 /\ ws = None
    /\ step \in {"relay", "waitDest"} \/ (mode = "bridge" /\ step \in {"close", "closeFeed"}) => rs = 0 /\ ws = 0
    /\ step = "waitBoth" => rs # 0 /\ ws = 0
    /\ step \in {"drain", "failed", "backoff", "end"} => rs # 0 /\ ws # 0

\* No piece is lost between the two sides, and a command that ended content has
\* sent or taken all that it was given.
PiecesMove ==
    /\ sent = IF mode = "bridge" THEN got + wpipe + pipe ELSE got + pipe
    /\ sent <= Goal
    /\ src = "ok" => sent = Goal /\ feed # "feeding"
    /\ dst = "ok" => wpipe = 0 /\ eof
    /\ eof => cp # "copying"

\* A relay that saw the end of the source's output has moved all of it, and
\* nobody has torn the source down meanwhile.
Relayed ==
    /\ mode = "bridge" /\ step \in {"writer", "relay", "waitDest", "close", "closeFeed", "waitBoth"}
         => src \in {"run", "ok", "fail"}
    /\ mode = "bridge" /\ step \in {"close", "closeFeed", "waitBoth"} => cp = "eof"
    /\ \/ step \in {"relay", "waitBoth"} /\ cp = "eof"
       \/ step \in {"close", "closeFeed"}
       => pipe = 0 /\ (src # "run")

\* The progress shown is this attempt's part, and what relays of earlier
\* attempts wrote too late.
ProgressCounts ==
    /\ attemptBytes = IF mode = "bridge" THEN got + wpipe ELSE 0
    /\ step # "backoff" /\ res \in {"none", "ok"} => attemptBytes <= counted /\ (stray \/ counted = attemptBytes)
    /\ step = "backoff" => stray \/ counted = 0

BridgeInv == BatchSound /\ Stages /\ SessionsOpen /\ PiecesMove /\ Relayed /\ ProgressCounts

\* The two commands and the feeder send, take and end.
LEMMA CommandsInv ==
    ASSUME BridgeInv,
           Emit \/ SourceExits \/ Feed \/ Take \/ DestExits
    PROVE  BridgeInv'
<1>1. CASE Emit
  <2>1. BridgeTyped'
    BY BridgeConstants, <1>1 DEF Emit, Goal, barVars, ctxVars, dstVars, lateVars, None, BridgeInv, BatchSound,
       BridgeTyped
  <2>2. /\ Stages' /\ SessionsOpen' /\ Relayed' /\ ProgressCounts'
        /\ OkIsComplete' /\ SessionsClosedOnce' /\ ProgressExact' /\ SourceTagIsReal'
    BY <1>1 DEF Emit, Goal, barVars, ctxVars, dstVars, lateVars, None, BridgeInv, BatchSound, Stages,
       SessionsOpen, Relayed, ProgressCounts, OkIsComplete, SessionsClosedOnce, ProgressExact, SourceTagIsReal
  <2>3. PiecesMove'
    BY BridgeConstants, <1>1 DEF Emit, Goal, barVars, ctxVars, dstVars, lateVars, BridgeInv, BatchSound,
       BridgeTyped, PiecesMove
  <2>. QED BY <2>1, <2>2, <2>3 DEF BridgeInv, BatchSound
<1>2. CASE SourceExits
  <2>1. /\ BridgeTyped' /\ Stages' /\ SessionsOpen' /\ PiecesMove' /\ Relayed'
        /\ ProgressCounts' /\ OkIsComplete' /\ SessionsClosedOnce' /\ ProgressExact' /\ SourceTagIsReal'
    BY <1>2 DEF SourceExits, Goal, barVars, ctxVars, dstVars, lateVars, None, BridgeInv, BatchSound,
       BridgeTyped, Stages, SessionsOpen, PiecesMove, Relayed, ProgressCounts, OkIsComplete,
       SessionsClosedOnce, ProgressExact, SourceTagIsReal
  <2>. QED BY <2>1 DEF BridgeInv, BatchSound
<1>3. CASE Feed
  <2>1. /\ BridgeTyped' /\ Stages' /\ SessionsOpen' /\ Relayed' /\ ProgressCounts'
        /\ OkIsComplete' /\ SessionsClosedOnce' /\ ProgressExact' /\ SourceTagIsReal'
    BY <1>3 DEF Feed, barVars, ctxVars, dstVars, lateVars, None, BridgeInv, BatchSound, BridgeTyped, Stages,
       SessionsOpen, Relayed, ProgressCounts, OkIsComplete, SessionsClosedOnce, ProgressExact, SourceTagIsReal
  <2>2. PiecesMove'
    BY BridgeConstants, <1>3 DEF Feed, barVars, ctxVars, dstVars, lateVars, Goal, BridgeInv, BatchSound,
       PiecesMove
  <2>. QED BY <2>1, <2>2 DEF BridgeInv, BatchSound
<1>4. CASE Take
  <2>1. BridgeTyped'
    BY BridgeConstants, <1>4 DEF Take, barVars, ctxVars, lateVars, srcVars, None, Goal, BridgeInv, BatchSound,
       BridgeTyped, Stages, PiecesMove
  <2>2. /\ Stages' /\ SessionsOpen' /\ Relayed'
        /\ SessionsClosedOnce' /\ ProgressExact' /\ SourceTagIsReal'
    BY <1>4 DEF Take, barVars, ctxVars, lateVars, srcVars, None, BridgeInv, BatchSound, Stages, SessionsOpen,
       Relayed, SessionsClosedOnce, ProgressExact, SourceTagIsReal
  <2>3. PiecesMove' /\ OkIsComplete'
    BY <1>4 DEF Take, barVars, ctxVars, lateVars, srcVars, Goal, BridgeInv, BatchSound, BridgeTyped, Stages,
       PiecesMove, OkIsComplete
  <2>4. ProgressCounts'
    BY <1>4 DEF Take, barVars, ctxVars, lateVars, srcVars, BridgeInv, BatchSound, BridgeTyped, ProgressCounts
  <2>. QED BY <2>1, <2>2, <2>3, <2>4 DEF BridgeInv, BatchSound
<1>5. CASE DestExits
  <2>1. /\ BridgeTyped' /\ Stages' /\ SessionsOpen' /\ PiecesMove' /\ Relayed'
        /\ ProgressCounts' /\ OkIsComplete' /\ SessionsClosedOnce' /\ ProgressExact' /\ SourceTagIsReal'
    BY <1>5 DEF DestExits, barVars, ctxVars, lateVars, srcVars, None, Goal, BridgeInv, BatchSound, BridgeTyped,
       Stages, SessionsOpen, PiecesMove, Relayed, ProgressCounts, OkIsComplete, SessionsClosedOnce,
       ProgressExact, SourceTagIsReal
  <2>. QED BY <2>1 DEF BridgeInv, BatchSound
<1>. QED BY <1>1, <1>2, <1>3, <1>4, <1>5

\* An attempt opens its two sessions, or gives the first one back.
LEMMA OpeningInv ==
    ASSUME BridgeInv,
           StartReaderStdin \/ StartWriter \/ WriterFails
    PROVE  BridgeInv'
<1>1. CASE StartReaderStdin
  <2>1. BridgeTyped'
    <3>1. /\ UNCHANGED <<mode, attempt, res, cp, sent, pipe, dst, got, wpipe, eof, ws, ctxCancelled, stalled,
                        counted, attemptBytes, late, stray>>
          /\ rs' \in {0, rs} /\ src' \in {"run", src} /\ feed' \in {"no", "feeding", feed}
          /\ step' \in {"writer", "consume", "failed"} /\ tags' \in {tags, {}}
      BY <1>1 DEF StartReaderStdin, Fails, dstVars, ctxVars, barVars, lateVars
    <3>. QED BY <3>1 DEF BridgeInv, BatchSound, BridgeTyped
  <2>2. Stages'
    <3>1. /\ UNCHANGED <<mode, attempt, res, cp, sent, pipe, dst, got, wpipe, eof, late>>
          /\ step = "reader" /\ step' \in {"writer", "consume", "failed"}
          /\ (step' = "writer" => mode = "bridge") /\ (step' = "consume" => mode = "stream")
          /\ tags' \in {tags, {}}
      BY <1>1 DEF StartReaderStdin, Fails, dstVars, ctxVars, barVars, lateVars, BridgeInv, BatchSound, BridgeTyped
    <3>. QED BY <3>1 DEF BridgeInv, Stages
  <2>3. SessionsOpen' /\ Relayed' /\ ProgressCounts' /\ ProgressExact'
    BY <1>1 DEF StartReaderStdin, Done, Fails, barVars, ctxVars, dstVars, lateVars, None, BridgeInv,
       BatchSound, SessionsOpen, Relayed, ProgressCounts, ProgressExact
  <2>4. PiecesMove'
    BY BridgeConstants, <1>1 DEF StartReaderStdin, Done, Fails, barVars, ctxVars, dstVars, lateVars, Goal,
       BridgeInv, BatchSound, PiecesMove
  <2>5. OkIsComplete' /\ SourceTagIsReal'
    BY <1>1 DEF StartReaderStdin, Done, Fails, barVars, ctxVars, dstVars, lateVars, BridgeInv, BatchSound,
       Stages, OkIsComplete, SourceTagIsReal
  <2>6. SessionsClosedOnce'
    BY <1>1 DEF StartReaderStdin, Done, Fails, barVars, ctxVars, dstVars, lateVars, None, BridgeInv,
       BatchSound, SessionsOpen, SessionsClosedOnce
  <2>. QED BY <2>1, <2>2, <2>3, <2>4, <2>5, <2>6 DEF BridgeInv, BatchSound
<1>2. CASE StartWriter
  <2>1. /\ BridgeTyped' /\ Stages' /\ Relayed' /\ ProgressCounts'
        /\ SessionsClosedOnce' /\ ProgressExact' /\ SourceTagIsReal'
    BY <1>2 DEF StartWriter, Done, barVars, ctxVars, lateVars, srcVars, None, BridgeInv, BatchSound,
       BridgeTyped, Stages, Relayed, ProgressCounts, SessionsClosedOnce, ProgressExact, SourceTagIsReal
  <2>2. SessionsOpen' /\ OkIsComplete'
    BY <1>2 DEF StartWriter, Done, barVars, ctxVars, lateVars, srcVars, None, BridgeInv, BatchSound, Stages,
       SessionsOpen, OkIsComplete
  <2>3. PiecesMove'
    BY BridgeConstants, <1>2 DEF StartWriter, Done, barVars, ctxVars, lateVars, srcVars, Goal, BridgeInv,
       BatchSound, BridgeTyped, Stages, PiecesMove
  <2>. QED BY <2>1, <2>2, <2>3 DEF BridgeInv, BatchSound
<1>3. CASE WriterFails
  <2>1. /\ BridgeTyped' /\ Stages' /\ SessionsOpen' /\ PiecesMove' /\ Relayed'
        /\ ProgressCounts' /\ OkIsComplete' /\ ProgressExact' /\ SourceTagIsReal'
    BY <1>3 DEF WriterFails, AbortReader, CloseReader, Fails, Killed, ReleaseSource, barVars, ctxVars, dstVars,
       lateVars, None, Goal, BridgeInv, BatchSound, BridgeTyped, Stages, SessionsOpen, PiecesMove, Relayed,
       ProgressCounts, OkIsComplete, ProgressExact, SourceTagIsReal
  <2>2. SessionsClosedOnce'
    BY <1>3 DEF WriterFails, AbortReader, CloseReader, Fails, Killed, ReleaseSource, barVars, ctxVars, dstVars,
       lateVars, None, BridgeInv, BatchSound, SessionsOpen, SessionsClosedOnce
  <2>. QED BY <2>1, <2>2 DEF BridgeInv, BatchSound
<1>. QED BY <1>1, <1>2, <1>3

\* The relay moves pieces and ends, and may outlive its attempt.
LEMMA RelayInv ==
    ASSUME BridgeInv,
           Relay \/ RelayEnds \/ LateChunk
    PROVE  BridgeInv'
<1>1. CASE Relay
  <2>1. BridgeTyped'
    BY BridgeConstants, <1>1 DEF Relay, ctxVars, lateVars, None, BridgeInv, BatchSound, BridgeTyped
  <2>2. /\ Stages' /\ SessionsOpen' /\ Relayed'
        /\ OkIsComplete' /\ SessionsClosedOnce' /\ SourceTagIsReal'
    BY <1>1 DEF Relay, ctxVars, lateVars, None, BridgeInv, BatchSound, Stages, SessionsOpen, Relayed,
       OkIsComplete, SessionsClosedOnce, SourceTagIsReal
  <2>3. PiecesMove' /\ ProgressCounts'
    BY <1>1 DEF Relay, ctxVars, lateVars, None, Goal, BridgeInv, BatchSound, BridgeTyped, SessionsOpen,
       PiecesMove, ProgressCounts
  <2>4. ProgressExact'
    BY <1>1 DEF Relay, ctxVars, lateVars, BridgeInv, BatchSound, OkIsComplete, ProgressExact
  <2>. QED BY <2>1, <2>2, <2>3, <2>4 DEF BridgeInv, BatchSound
<1>2. CASE RelayEnds
  <2>1. /\ BridgeTyped' /\ Stages' /\ SessionsOpen' /\ PiecesMove' /\ ProgressCounts'
        /\ OkIsComplete' /\ SessionsClosedOnce' /\ ProgressExact' /\ SourceTagIsReal'
    BY <1>2 DEF RelayEnds, barVars, ctxVars, lateVars, srcVars, None, Goal, BridgeInv, BatchSound, BridgeTyped,
       Stages, SessionsOpen, PiecesMove, ProgressCounts, OkIsComplete, SessionsClosedOnce, ProgressExact,
       SourceTagIsReal
  <2>2. Relayed'
    BY <1>2 DEF RelayEnds, barVars, ctxVars, lateVars, srcVars, None, BridgeInv, BatchSound, Stages,
       SessionsOpen, Relayed
  <2>. QED BY <2>1, <2>2 DEF BridgeInv, BatchSound
<1>3. CASE LateChunk
  <2>1. BridgeTyped'
    BY BridgeConstants, <1>3 DEF LateChunk, ctxVars, dstVars, srcVars, None, BridgeInv, BatchSound, BridgeTyped
  <2>2. Stages' /\ ProgressCounts'
    BY <1>3 DEF LateChunk, ctxVars, dstVars, srcVars, BridgeInv, BatchSound, BridgeTyped, Stages,
       ProgressCounts
  <2>3. /\ SessionsOpen' /\ PiecesMove' /\ Relayed' /\ OkIsComplete'
        /\ SessionsClosedOnce' /\ ProgressExact' /\ SourceTagIsReal'
    BY <1>3 DEF LateChunk, ctxVars, dstVars, srcVars, None, Goal, BridgeInv, BatchSound, SessionsOpen,
       PiecesMove, Relayed, OkIsComplete, SessionsClosedOnce, ProgressExact, SourceTagIsReal
  <2>. QED BY <2>1, <2>2, <2>3 DEF BridgeInv, BatchSound
<1>. QED BY <1>1, <1>2, <1>3

\* Whoever gives an attempt up tears both sides down.
LEMMA AbortInv ==
    ASSUME BridgeInv,
           Interrupted \/ Drained \/ RelayFailed \/ WaitDest
    PROVE  BridgeInv'
<1>1. CASE Interrupted
  <2>1. /\ BridgeTyped' /\ Stages' /\ SessionsOpen' /\ PiecesMove' /\ Relayed'
        /\ ProgressCounts' /\ OkIsComplete' /\ SessionsClosedOnce' /\ ProgressExact' /\ SourceTagIsReal'
    BY <1>1 DEF Interrupted, AbortReader, AbortWriter, CloseReader, CloseWriter, Done, Killed, barVars,
       ctxVars, lateVars, None, Goal, BridgeInv, BatchSound, BridgeTyped, Stages, SessionsOpen, PiecesMove,
       Relayed, ProgressCounts, OkIsComplete, SessionsClosedOnce, ProgressExact, SourceTagIsReal
  <2>. QED BY <2>1 DEF BridgeInv, BatchSound
<1>2. CASE Drained
  <2>1. BridgeTyped'
    BY BridgeConstants, <1>2 DEF Drained, Fails, ctxVars, dstVars, srcVars, None, BridgeInv, BatchSound,
       BridgeTyped, Stages
  <2>2. Stages'
    BY <1>2 DEF Drained, Fails, ctxVars, dstVars, srcVars, BridgeInv, BatchSound, BridgeTyped, Stages
  <2>3. /\ SessionsOpen' /\ PiecesMove' /\ Relayed' /\ ProgressCounts'
        /\ OkIsComplete' /\ ProgressExact' /\ SourceTagIsReal'
    BY <1>2 DEF Drained, Fails, ctxVars, dstVars, srcVars, None, Goal, BridgeInv, BatchSound, SessionsOpen,
       PiecesMove, Relayed, ProgressCounts, OkIsComplete, ProgressExact, SourceTagIsReal
  <2>4. SessionsClosedOnce'
    BY <1>2 DEF Drained, Fails, ctxVars, dstVars, srcVars, None, BridgeInv, BatchSound, SessionsOpen,
       SessionsClosedOnce
  <2>. QED BY <2>1, <2>2, <2>3, <2>4 DEF BridgeInv, BatchSound
<1>3. CASE RelayFailed
  <2>1. /\ BridgeTyped' /\ Stages' /\ SessionsOpen' /\ PiecesMove' /\ Relayed'
        /\ ProgressCounts' /\ OkIsComplete' /\ SessionsClosedOnce' /\ ProgressExact' /\ SourceTagIsReal'
    BY <1>3 DEF RelayFailed, barVars, ctxVars, dstVars, lateVars, srcVars, None, Goal, BridgeInv, BatchSound,
       BridgeTyped, Stages, SessionsOpen, PiecesMove, Relayed, ProgressCounts, OkIsComplete,
       SessionsClosedOnce, ProgressExact, SourceTagIsReal
  <2>. QED BY <2>1 DEF BridgeInv, BatchSound
<1>4. CASE WaitDest
  <2>1. /\ BridgeTyped' /\ Stages' /\ SessionsOpen' /\ PiecesMove' /\ Relayed'
        /\ ProgressCounts' /\ OkIsComplete' /\ SessionsClosedOnce' /\ ProgressExact' /\ SourceTagIsReal'
    BY <1>4 DEF WaitDest, AbortReader, CloseReader, CloseWriter, Fails, Killed, RelayBlame, barVars, ctxVars,
       dstVars, lateVars, None, Goal, BridgeInv, BatchSound, BridgeTyped, Stages, SessionsOpen, PiecesMove,
       Relayed, ProgressCounts, OkIsComplete, SessionsClosedOnce, ProgressExact, SourceTagIsReal
  <2>. QED BY <2>1 DEF BridgeInv, BatchSound
<1>. QED BY <1>1, <1>2, <1>3, <1>4

\* After a clean relay both commands are waited for.
LEMMA BatchCloseInv ==
    ASSUME BridgeInv,
           RelayClean \/ WaitSource \/ SourceClosed \/ WaitBoth
    PROVE  BridgeInv'
<1>1. CASE RelayClean
  <2>1. /\ BridgeTyped' /\ Stages' /\ SessionsOpen' /\ PiecesMove' /\ Relayed'
        /\ ProgressCounts' /\ OkIsComplete' /\ SessionsClosedOnce' /\ ProgressExact' /\ SourceTagIsReal'
    BY <1>1 DEF RelayClean, barVars, ctxVars, dstVars, lateVars, srcVars, None, Goal, BridgeInv, BatchSound,
       BridgeTyped, Stages, SessionsOpen, PiecesMove, Relayed, ProgressCounts, OkIsComplete,
       SessionsClosedOnce, ProgressExact, SourceTagIsReal
  <2>. QED BY <2>1 DEF BridgeInv, BatchSound
<1>2. CASE WaitSource
  <2>1. /\ BridgeTyped' /\ Stages' /\ SessionsOpen' /\ PiecesMove' /\ Relayed'
        /\ ProgressCounts' /\ OkIsComplete' /\ SessionsClosedOnce' /\ ProgressExact' /\ SourceTagIsReal'
    BY <1>2 DEF WaitSource, barVars, ctxVars, dstVars, lateVars, srcVars, None, Goal, BridgeInv, BatchSound,
       BridgeTyped, Stages, SessionsOpen, PiecesMove, Relayed, ProgressCounts, OkIsComplete,
       SessionsClosedOnce, ProgressExact, SourceTagIsReal
  <2>. QED BY <2>1 DEF BridgeInv, BatchSound
<1>3. CASE SourceClosed
  <2>1. BridgeTyped'
    <3>1. UNCHANGED tags /\ step' \in {"waitBoth", "end"} /\ res' \in {res, "cancelled", "error", "ok"}
      BY <1>3 DEF SourceClosed
    <3>2. /\ UNCHANGED <<mode, attempt, cp, src, sent, feed, pipe, dst, got, wpipe, eof, ws, ctxCancelled,
                        stalled, counted, attemptBytes, late, stray>>
          /\ rs' \in {1, rs}
      BY <1>3 DEF SourceClosed, CloseReader, srcVars, dstVars, ctxVars, barVars, lateVars
    <3>. QED BY <3>1, <3>2 DEF BridgeInv, BatchSound, BridgeTyped
  <2>2. Stages' /\ PiecesMove' /\ Relayed' /\ ProgressExact' /\ SourceTagIsReal'
    BY <1>3 DEF SourceClosed, AwaitFeed, CloseReader, FeedBad, SourceBad, barVars, ctxVars, dstVars, lateVars,
       srcVars, Goal, BridgeInv, BatchSound, Stages, PiecesMove, Relayed, ProgressExact, SourceTagIsReal
  <2>3. SessionsOpen'
    BY <1>3 DEF SourceClosed, AwaitFeed, CloseReader, FeedBad, SourceBad, barVars, ctxVars, dstVars, lateVars,
       srcVars, None, BridgeInv, BatchSound, BridgeTyped, SessionsOpen
  <2>4. ProgressCounts'
    BY <1>3 DEF SourceClosed, AwaitFeed, CloseReader, FeedBad, SourceBad, barVars, ctxVars, dstVars, lateVars,
       srcVars, BridgeInv, BatchSound, Stages, ProgressCounts
  <2>5. OkIsComplete'
    BY <1>3 DEF SourceClosed, AwaitFeed, CloseReader, FeedBad, SourceBad, barVars, ctxVars, dstVars, lateVars,
       srcVars, Goal, BridgeInv, BatchSound, BridgeTyped, PiecesMove, Relayed, OkIsComplete
  <2>6. SessionsClosedOnce'
    BY <1>3 DEF SourceClosed, AwaitFeed, CloseReader, FeedBad, SourceBad, barVars, ctxVars, dstVars, lateVars,
       srcVars, None, BridgeInv, BatchSound, BridgeTyped, SessionsOpen, SessionsClosedOnce
  <2>. QED BY <2>1, <2>2, <2>3, <2>4, <2>5, <2>6 DEF BridgeInv, BatchSound
<1>4. CASE WaitBoth
  <2>1. BridgeTyped'
    <3>1. SideErrors \in SUBSET {"dest", "source"}
      BY DEF SideErrors
    <3>2. /\ tags' \in SUBSET {"source", "dest", "relay", "ctx", "stall"}
          /\ step' \in {"end", "failed"} /\ res' \in {"ok", res}
      BY <1>4, <3>1 DEF WaitBoth, Fails, BridgeInv, BatchSound, BridgeTyped
    <3>3. /\ UNCHANGED <<mode, attempt, cp, src, sent, feed, pipe, dst, got, wpipe, eof, rs, ctxCancelled,
                        stalled, counted, attemptBytes, late, stray>>
          /\ ws' \in {1, ws}
      BY <1>4 DEF WaitBoth, CloseWriter, srcVars, dstVars, ctxVars, barVars, lateVars
    <3>. QED BY <3>2, <3>3 DEF BridgeInv, BatchSound, BridgeTyped
  <2>2. Stages' /\ SessionsOpen' /\ PiecesMove' /\ Relayed'
    BY <1>4 DEF WaitBoth, CloseWriter, Fails, FeedBad, SideErrors, SourceBad, barVars, ctxVars, dstVars,
       lateVars, srcVars, None, Goal, BridgeInv, BatchSound, Stages, SessionsOpen, PiecesMove, Relayed
  <2>3. ProgressCounts'
    BY <1>4 DEF WaitBoth, CloseWriter, Fails, FeedBad, SideErrors, SourceBad, barVars, ctxVars, dstVars,
       lateVars, srcVars, BridgeInv, BatchSound, Stages, ProgressCounts
  <2>4. OkIsComplete'
    BY <1>4 DEF WaitBoth, CloseWriter, Fails, FeedBad, SideErrors, SourceBad, barVars, ctxVars, dstVars,
       lateVars, srcVars, None, Goal, BridgeInv, BatchSound, BridgeTyped, SessionsOpen, PiecesMove, Relayed,
       OkIsComplete
  <2>5. SessionsClosedOnce'
    BY <1>4 DEF WaitBoth, CloseWriter, Fails, FeedBad, SideErrors, SourceBad, barVars, ctxVars, dstVars,
       lateVars, srcVars, None, BridgeInv, BatchSound, SessionsOpen, SessionsClosedOnce
  <2>6. ProgressExact'
    BY <1>4 DEF WaitBoth, CloseWriter, Fails, FeedBad, SideErrors, SourceBad, barVars, ctxVars, dstVars,
       lateVars, srcVars, Goal, BridgeInv, BatchSound, Stages, PiecesMove, Relayed, ProgressCounts,
       ProgressExact
  <2>7. SourceTagIsReal'
    BY <1>4 DEF WaitBoth, CloseWriter, Fails, FeedBad, SideErrors, SourceBad, barVars, ctxVars, dstVars,
       lateVars, srcVars, BridgeInv, BatchSound, Stages, Relayed, SourceTagIsReal
  <2>. QED BY <2>1, <2>2, <2>3, <2>4, <2>5, <2>6, <2>7 DEF BridgeInv, BatchSound
<1>. QED BY <1>1, <1>2, <1>3, <1>4

\* A one-sided stream is consumed here.
LEMMA StreamInv ==
    ASSUME BridgeInv,
           Consume \/ ConsumeEnds \/ ConsumeFails \/ Watcher
    PROVE  BridgeInv'
<1>1. CASE Consume
  <2>1. BridgeTyped'
    BY BridgeConstants, <1>1 DEF Consume, barVars, ctxVars, lateVars, None, Goal, BridgeInv, BatchSound,
       BridgeTyped, PiecesMove
  <2>2. /\ Stages' /\ SessionsOpen' /\ Relayed'
        /\ SessionsClosedOnce' /\ ProgressExact' /\ SourceTagIsReal'
    BY <1>1 DEF Consume, barVars, ctxVars, lateVars, None, BridgeInv, BatchSound, Stages, SessionsOpen,
       Relayed, SessionsClosedOnce, ProgressExact, SourceTagIsReal
  <2>3. PiecesMove'
    BY <1>1 DEF Consume, barVars, ctxVars, lateVars, Goal, BridgeInv, BatchSound, BridgeTyped, PiecesMove
  <2>4. ProgressCounts' /\ OkIsComplete'
    BY <1>1 DEF Consume, barVars, ctxVars, lateVars, BridgeInv, BatchSound, Stages, ProgressCounts,
       OkIsComplete
  <2>. QED BY <2>1, <2>2, <2>3, <2>4 DEF BridgeInv, BatchSound
<1>2. CASE ConsumeEnds
  <2>1. /\ BridgeTyped' /\ Stages' /\ PiecesMove' /\ ProgressCounts'
        /\ OkIsComplete' /\ SessionsClosedOnce' /\ ProgressExact' /\ SourceTagIsReal'
    BY <1>2 DEF ConsumeEnds, barVars, ctxVars, dstVars, lateVars, srcVars, None, Goal, BridgeInv, BatchSound,
       BridgeTyped, Stages, PiecesMove, ProgressCounts, OkIsComplete, SessionsClosedOnce, ProgressExact,
       SourceTagIsReal
  <2>2. SessionsOpen' /\ Relayed'
    BY <1>2 DEF ConsumeEnds, barVars, ctxVars, dstVars, lateVars, srcVars, None, BridgeInv, BatchSound, Stages,
       SessionsOpen, Relayed
  <2>. QED BY <2>1, <2>2 DEF BridgeInv, BatchSound
<1>3. CASE ConsumeFails
  <2>1. /\ BridgeTyped' /\ Stages' /\ PiecesMove' /\ Relayed'
        /\ ProgressCounts' /\ OkIsComplete' /\ ProgressExact' /\ SourceTagIsReal'
    BY <1>3 DEF ConsumeFails, AbortReader, CloseReader, Killed, ReleaseSource, barVars, ctxVars, dstVars,
       lateVars, None, Goal, BridgeInv, BatchSound, BridgeTyped, Stages, PiecesMove, Relayed, ProgressCounts,
       OkIsComplete, ProgressExact, SourceTagIsReal
  <2>2. SessionsOpen'
    BY <1>3 DEF ConsumeFails, AbortReader, CloseReader, Killed, ReleaseSource, barVars, ctxVars, dstVars,
       lateVars, None, BridgeInv, BatchSound, Stages, SessionsOpen
  <2>3. SessionsClosedOnce'
    BY <1>3 DEF ConsumeFails, AbortReader, CloseReader, Killed, ReleaseSource, barVars, ctxVars, dstVars,
       lateVars, None, BridgeInv, BatchSound, Stages, SessionsOpen, SessionsClosedOnce
  <2>. QED BY <2>1, <2>2, <2>3 DEF BridgeInv, BatchSound
<1>4. CASE Watcher
  <2>1. /\ BridgeTyped' /\ Stages' /\ PiecesMove' /\ Relayed' /\ ProgressCounts'
        /\ OkIsComplete' /\ SessionsClosedOnce' /\ ProgressExact' /\ SourceTagIsReal'
    BY <1>4 DEF Watcher, AbortReader, CloseReader, Killed, barVars, ctxVars, dstVars, lateVars, None, Goal,
       BridgeInv, BatchSound, BridgeTyped, Stages, PiecesMove, Relayed, ProgressCounts, OkIsComplete,
       SessionsClosedOnce, ProgressExact, SourceTagIsReal
  <2>2. SessionsOpen'
    BY <1>4 DEF Watcher, AbortReader, CloseReader, Killed, barVars, ctxVars, dstVars, lateVars, None,
       BridgeInv, BatchSound, Stages, SessionsOpen
  <2>. QED BY <2>1, <2>2 DEF BridgeInv, BatchSound
<1>. QED BY <1>1, <1>2, <1>3, <1>4

\* A failed attempt is taken back, and repeated from nothing.
LEMMA RetryInv ==
    ASSUME BridgeInv,
           AttemptFailed \/ NextAttempt
    PROVE  BridgeInv'
<1>1. CASE AttemptFailed
  <2>1. BridgeTyped'
    BY <1>1 DEF AttemptFailed, LastErr, MayRetry, RollBack, ctxVars, dstVars, lateVars, srcVars, None,
       BridgeInv, BatchSound, BridgeTyped, Stages, ProgressCounts
  <2>2. /\ Stages' /\ SessionsOpen' /\ PiecesMove' /\ Relayed'
        /\ OkIsComplete' /\ SessionsClosedOnce' /\ SourceTagIsReal'
    BY <1>1 DEF AttemptFailed, LastErr, MayRetry, RollBack, ctxVars, dstVars, lateVars, srcVars, None, Goal,
       BridgeInv, BatchSound, Stages, SessionsOpen, PiecesMove, Relayed, OkIsComplete, SessionsClosedOnce,
       SourceTagIsReal
  <2>3. ProgressCounts' /\ ProgressExact'
    BY <1>1 DEF AttemptFailed, LastErr, MayRetry, RollBack, ctxVars, dstVars, lateVars, srcVars, BridgeInv,
       BatchSound, Stages, ProgressCounts, ProgressExact
  <2>. QED BY <2>1, <2>2, <2>3 DEF BridgeInv, BatchSound
<1>2. CASE NextAttempt
  <2>1. BridgeTyped'
    <3>1. UNCHANGED <<mode, ctxCancelled, late, stray, counted>>
      BY <1>2 DEF NextAttempt, lateVars
    <3>2. CASE ctxCancelled
      <4>1. /\ UNCHANGED <<attempt, tags, cp, src, sent, feed, pipe, dst, got, wpipe, eof, rs, ws, stalled,
                           attemptBytes>>
            /\ step' = "end" /\ res' = "cancelled"
        BY <1>2, <3>2 DEF NextAttempt, srcVars, dstVars
      <4>. QED BY <3>1, <4>1 DEF BridgeInv, BatchSound, BridgeTyped
    <3>3. CASE ~ctxCancelled
      <4>1. /\ step' = "reader" /\ attempt' = attempt + 1 /\ res' = res
            /\ cp' = "no" /\ src' = "no" /\ sent' = 0 /\ feed' = "no" /\ pipe' = 0
            /\ dst' = "no" /\ got' = 0 /\ wpipe' = 0 /\ eof' = FALSE
            /\ rs' = None /\ ws' = None /\ stalled' = FALSE /\ attemptBytes' = 0 /\ tags' = {}
        BY <1>2, <3>3 DEF NextAttempt
      <4>2. attempt + 1 \in 1..TransferRetries
        BY BridgeConstants, <1>2 DEF NextAttempt, BridgeInv, BatchSound, BridgeTyped, Stages
      <4>3. 0 \in 0..Chunks /\ 0 \in 0..Window
        BY BridgeConstants
      <4>. QED BY <3>1, <4>1, <4>2, <4>3 DEF None, BridgeInv, BatchSound, BridgeTyped
    <3>. QED BY <3>2, <3>3
  <2>2. Stages' /\ ProgressCounts'
    BY <1>2 DEF NextAttempt, None, dstVars, lateVars, srcVars, BridgeInv, BatchSound, BridgeTyped, Stages,
       ProgressCounts
  <2>3. SessionsOpen' /\ Relayed' /\ SessionsClosedOnce' /\ ProgressExact' /\ SourceTagIsReal'
    BY <1>2 DEF NextAttempt, None, dstVars, lateVars, srcVars, BridgeInv, BatchSound, SessionsOpen, Relayed,
       SessionsClosedOnce, ProgressExact, SourceTagIsReal
  <2>4. PiecesMove'
    BY BridgeConstants, <1>2 DEF NextAttempt, None, dstVars, lateVars, srcVars, Goal, BridgeInv, BatchSound,
       PiecesMove
  <2>5. OkIsComplete'
    BY <1>2 DEF NextAttempt, None, dstVars, lateVars, srcVars, BridgeInv, BatchSound, Stages, OkIsComplete
  <2>. QED BY <2>1, <2>2, <2>3, <2>4, <2>5 DEF BridgeInv, BatchSound
<1>. QED BY <1>1, <1>2

\* A context ends.
LEMMA ContextInv ==
    ASSUME BridgeInv,
           Stall \/ CancelContext
    PROVE  BridgeInv'
<1>1. CASE Stall
  <2>1. /\ BridgeTyped' /\ Stages' /\ SessionsOpen' /\ PiecesMove' /\ Relayed'
        /\ ProgressCounts' /\ OkIsComplete' /\ SessionsClosedOnce' /\ ProgressExact' /\ SourceTagIsReal'
    BY <1>1 DEF Stall, barVars, dstVars, lateVars, srcVars, None, Goal, BridgeInv, BatchSound, BridgeTyped,
       Stages, SessionsOpen, PiecesMove, Relayed, ProgressCounts, OkIsComplete, SessionsClosedOnce,
       ProgressExact, SourceTagIsReal
  <2>. QED BY <2>1 DEF BridgeInv, BatchSound
<1>2. CASE CancelContext
  <2>1. /\ BridgeTyped' /\ Stages' /\ SessionsOpen' /\ PiecesMove' /\ Relayed'
        /\ ProgressCounts' /\ OkIsComplete' /\ SessionsClosedOnce' /\ ProgressExact' /\ SourceTagIsReal'
    BY <1>2 DEF CancelContext, barVars, dstVars, lateVars, srcVars, None, Goal, BridgeInv, BatchSound,
       BridgeTyped, Stages, SessionsOpen, PiecesMove, Relayed, ProgressCounts, OkIsComplete,
       SessionsClosedOnce, ProgressExact, SourceTagIsReal
  <2>. QED BY <2>1 DEF BridgeInv, BatchSound
<1>. QED BY <1>1, <1>2

\* Nothing has been opened, sent or counted before the first attempt.
LEMMA BridgeInitInv == BridgeInit => BridgeInv
<1>. SUFFICES ASSUME BridgeInit PROVE BridgeInv
  OBVIOUS
<1>1. BridgeTyped
  <2>1. 1 \in 1..TransferRetries /\ 0 \in 0..TransferRetries /\ 0 \in 0..Chunks /\ 0 \in 0..Window
    BY BridgeConstants
  <2>. QED BY <2>1 DEF BridgeInit, BridgeTyped, None
<1>2. OkIsComplete /\ SessionsClosedOnce /\ ProgressExact /\ SourceTagIsReal
  BY DEF BridgeInit, OkIsComplete, SessionsClosedOnce, ProgressExact, SourceTagIsReal, None
<1>3. Stages /\ SessionsOpen /\ ProgressCounts
  BY DEF BridgeInit, Stages, SessionsOpen, ProgressCounts, None
<1>4. PiecesMove /\ Relayed
  BY BridgeConstants DEF BridgeInit, PiecesMove, Relayed, Goal
<1>. QED BY <1>1, <1>2, <1>3, <1>4 DEF BridgeInv, BatchSound

\* A step of somebody else leaves the batch alone.
LEMMA BridgeStutter == ASSUME BridgeInv, UNCHANGED bridgeVars PROVE BridgeInv'
<1>. UNCHANGED <<mode, step, attempt, tags, res, cp, src, sent, feed, pipe, dst, got, wpipe, eof,
                 rs, ws, ctxCancelled, stalled, counted, attemptBytes, late, stray>>
  BY DEF bridgeVars, srcVars, dstVars, ctxVars, barVars, lateVars
<1>1. BatchSound'
  BY DEF BridgeInv, BatchSound, BridgeTyped, OkIsComplete, SessionsClosedOnce, ProgressExact, SourceTagIsReal
<1>2. Stages' /\ SessionsOpen' /\ PiecesMove' /\ Relayed' /\ ProgressCounts'
  BY DEF BridgeInv, Stages, SessionsOpen, PiecesMove, Goal, Relayed, ProgressCounts
<1>. QED BY <1>1, <1>2 DEF BridgeInv

\* Every step of the caller, the relay, the two commands and the contexts keeps the invariant.
LEMMA BridgeNextInv == ASSUME BridgeInv, [BridgeNext]_bridgeVars PROVE BridgeInv'
<1>1. CASE Caller
  BY <1>1, OpeningInv, AbortInv, BatchCloseInv, RelayInv, StreamInv, RetryInv DEF Caller
<1>2. CASE BridgeNext /\ ~Caller
  BY <1>2, CommandsInv, RelayInv, StreamInv, ContextInv DEF BridgeNext
<1>3. CASE UNCHANGED bridgeVars
  BY <1>3, BridgeStutter
<1>. QED BY <1>1, <1>2, <1>3

\* Whatever the two commands, the network and the watchdog do, success means that everything was
\* taken and both commands were content; no session is left open or closed twice; the progress shown
\* is that of the attempt that counts; and the source is blamed only for a failure of its own
\* (BridgeProgress, RunStream and RetryBatch).
THEOREM BatchesAreSound == BridgeSpec => []BatchSound
<1>1. BridgeInit => BridgeInv
  BY BridgeInitInv
<1>2. BridgeInv /\ [BridgeNext]_bridgeVars => BridgeInv'
  BY BridgeNextInv
<1>3. BridgeInv => BatchSound
  BY DEF BridgeInv
<1>. QED BY <1>1, <1>2, <1>3, PTL DEF BridgeSpec
=============================================================================
