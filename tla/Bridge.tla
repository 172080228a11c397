------------------------------- MODULE Bridge -------------------------------
(***************************************************************************)
(* The streaming layer of internal/sshx (stream.go, stall.go, retry.go): a *)
(* source command whose stdout this process relays into a destination      *)
(* command (BridgeProgress), repeated by RetryBatch under an idle watchdog *)
(* (StallContext), and the one-sided RunStream, whose output is consumed   *)
(* here.                                                                   *)
(*                                                                         *)
(* An archive is Chunks pieces.  Between a command and this process fits   *)
(* one SSH window; a command whose window is full blocks.  A lost          *)
(* connection is a command that failed: x/crypto reports end of file to    *)
(* the reader and a missing exit status to Wait.                           *)
(***************************************************************************)
EXTENDS Naturals, FiniteSets

CONSTANTS Chunks,           \* pieces of a complete archive
          Window,           \* pieces one SSH window holds
          TransferRetries   \* retry.go: attempts of one batch

ASSUME BridgeConstants == Chunks \in Nat \ {0} /\ Window \in Nat \ {0}
                          /\ TransferRetries \in Nat \ {0}

VARIABLES
    mode,        \* "bridge" (BridgeProgress in RetryBatch) or "stream" (RunStream)
    step, attempt, tags, res,       \* the caller's goroutine
    cp,                           \* the relay goroutine of a bridge
    src, sent, feed, pipe,        \* source command, its file list, its stdout
    dst, got, wpipe, eof,         \* destination command and its stdin
    rs, ws,                       \* how often each session was closed; 0 = open
    ctxCancelled, stalled,           \* the run's context, the attempt's watchdog
    counted, attemptBytes,        \* progress shown, this attempt's part
    late,        \* relays that outlived their attempts
    stray        \* history: one of them has written
srcVars == <<src, sent, feed, pipe>>
dstVars == <<dst, got, wpipe, eof>>
ctxVars == <<ctxCancelled, stalled>>
lateVars == <<late, stray>>
barVars == <<counted, attemptBytes, lateVars>>
bridgeVars == <<mode, step, attempt, tags, res, cp, srcVars, dstVars, rs, ws, ctxVars, barVars>>

None == 9    \* a session that was never opened in this attempt

BridgeTyped ==
    /\ mode \in {"bridge", "stream"}
    /\ step \in {"reader", "writer", "relay", "drain", "waitDest", "close",
               "closeFeed", "waitBoth", "consume", "failed", "backoff", "end"}
    /\ attempt \in 1..TransferRetries
    /\ tags \in SUBSET {"source", "dest", "relay", "ctx", "stall"}
    /\ res \in {"none", "ok", "error", "cancelled"}
    /\ cp \in {"no", "copying", "eof", "error"}
    /\ src \in {"no", "run", "ok", "fail", "killed"}
    /\ dst \in {"no", "run", "ok", "fail", "killed"}
    /\ feed \in {"no", "feeding", "ok", "short"}
    /\ sent \in 0..Chunks /\ got \in 0..Chunks
    /\ pipe \in 0..Window /\ wpipe \in 0..Window
    /\ eof \in BOOLEAN /\ ctxCancelled \in BOOLEAN /\ stalled \in BOOLEAN
    /\ rs \in {0, 1, 2, None} /\ ws \in {0, 1, 2, None}
    /\ counted \in Nat /\ attemptBytes \in Nat 
    /\ late \in 0..TransferRetries /\ stray \in BOOLEAN

BridgeInit ==
    /\ mode \in {"bridge", "stream"}
    /\ step = "reader" /\ attempt = 1 /\ res = "none"
    /\ ctxCancelled = FALSE /\ counted = 0 /\ late = 0 /\ stray = FALSE
    /\ cp = "no" /\ src = "no" /\ sent = 0 /\ feed = "no" /\ pipe = 0
    /\ dst = "no" /\ got = 0 /\ wpipe = 0 /\ eof = FALSE
    /\ rs = None /\ ws = None /\ stalled = FALSE /\ attemptBytes = 0 /\ tags = {}
-----------------------------------------------------------------------------
\* The context of the attempt: the run's, or the watchdog's child of it.
Done == ctxCancelled \/ stalled

\* The pieces the source can archive: a truncated file list holds fewer.
Goal == IF feed = "short" THEN Chunks - 1 ELSE Chunks

\* once.Do: whoever of Abort, Close and Wait comes first closes the session.
CloseReader == rs' = IF rs = 0 THEN 1 ELSE rs
CloseWriter == ws' = IF ws = 0 THEN 1 ELSE ws

\* Abort: immediate teardown; a command still running dies with its session.
Killed(s) == IF s = "run" THEN "killed" ELSE s
AbortReader == CloseReader /\ src' = Killed(src)
AbortWriter == CloseWriter /\ dst' = Killed(dst)

Fails(t) == step' = "failed" /\ tags' = t
-----------------------------------------------------------------------------
(* The two commands and the file-list feeder. *)

Emit ==
    /\ src = "run" /\ pipe < Window /\ sent < Goal
    /\ sent < Chunks - 1 \/ feed # "feeding"
    /\ sent' = sent + 1 /\ pipe' = pipe + 1
    /\ UNCHANGED <<mode, step, attempt, tags, res, cp, src, feed, dstVars, rs, ws,
                   ctxVars, barVars>>
SourceExits ==
    /\ src = "run"
    /\ \/ src' = "ok" /\ sent = Goal /\ feed # "feeding"
       \/ src' = "fail"
    /\ UNCHANGED <<mode, step, attempt, tags, res, cp, sent, feed, pipe, dstVars,
                   rs, ws, ctxVars, barVars>>

\* The feeder: the whole list written, or reading it failed and the command
\* saw end of file early.  It blocks once nobody reads.
Feed ==
    /\ feed = "feeding" /\ src = "run"
    /\ feed' = "ok" \/ (feed' = "short" /\ sent < Chunks)
    /\ UNCHANGED <<mode, step, attempt, tags, res, cp, src, sent, pipe, dstVars,
                   rs, ws, ctxVars, barVars>>

Take ==
    /\ dst = "run" /\ wpipe > 0
    /\ wpipe' = wpipe - 1 /\ got' = got + 1
    /\ UNCHANGED <<mode, step, attempt, tags, res, cp, srcVars, dst, eof, rs, ws,
                   ctxVars, barVars>>

\* At the end of its input the destination command may accept a stream that
\* is cut at a record boundary; it may fail at any time.
DestExits ==
    /\ dst = "run"
    /\ \/ dst' = "ok" /\ eof /\ wpipe = 0
       \/ dst' = "fail"
    /\ UNCHANGED <<mode, step, attempt, tags, res, cp, srcVars, got, wpipe, eof,
                   rs, ws, ctxVars, barVars>>
-----------------------------------------------------------------------------
(* BridgeProgress. *)

\* A session that fails to open, a rejected Setenv whose second session fails
\* to open, and a command that fails to start all end with no session open.
StartReaderStdin ==
    /\ step = "reader"
    /\ \/ /\ ~Done
          /\ rs' = 0 /\ src' = "run"
          /\ feed' \in {"no", "feeding"}
          /\ step' = (IF mode = "bridge" THEN "writer" ELSE "consume") /\ UNCHANGED tags
       \/ Fails({}) /\ UNCHANGED <<rs, src, feed>>
    /\ UNCHANGED <<mode, attempt, res, cp, sent, pipe, dstVars, ws, ctxVars, barVars>>

StartWriter ==
    /\ step = "writer" /\ ~Done
    /\ ws' = 0 /\ dst' = "run" /\ cp' = "copying" /\ step' = "relay"
    /\ UNCHANGED <<mode, attempt, tags, res, srcVars, got, wpipe, eof, rs, ctxVars,
                   barVars>>

\* No writer will drain the source: tear it down instead of waiting for it.
ReleaseSource == AbortReader

WriterFails ==
    /\ step = "writer"
    /\ ReleaseSource
    /\ Fails({})
    /\ UNCHANGED <<mode, attempt, res, cp, sent, feed, pipe, dstVars, ws, ctxVars,
                   barVars>>

\* io.Copy through the countingWriter: a chunk written is counted and resets
\* the watchdog.
Relay ==
    /\ cp = "copying" /\ pipe > 0 /\ dst = "run" /\ wpipe < Window /\ ws = 0
    /\ pipe' = pipe - 1 /\ wpipe' = wpipe + 1
    /\ counted' = counted + 1 /\ attemptBytes' = attemptBytes + 1
    /\ UNCHANGED <<mode, step, attempt, tags, res, cp, src, sent, feed, dst, got,
                   eof, rs, ws, ctxVars, lateVars>>

\* The source's output ended (its exit, a lost connection, an Abort), or a
\* write failed because the destination command is gone; then CloseStdin.
RelayEnds ==
    /\ cp = "copying"
    /\ \/ ((pipe = 0 /\ src # "run") \/ rs # 0) /\ cp' = "eof"
       \/ pipe > 0 /\ (dst # "run" \/ ws # 0) /\ cp' = "error"
    /\ eof' = TRUE
    /\ UNCHANGED <<mode, step, attempt, tags, res, srcVars, dst, got, wpipe, rs, ws,
                   ctxVars, barVars>>

\* ctx.Done: both sessions torn down, then a short wait for the relay.
Interrupted ==
    /\ step = "relay" /\ Done
    /\ AbortReader /\ AbortWriter
    /\ step' = "drain"
    /\ UNCHANGED <<mode, attempt, tags, res, cp, sent, feed, pipe, got, wpipe, eof,
                   ctxVars, barVars>>
Drained ==
    /\ step = "drain"
    /\ late' = IF cp = "copying" THEN late + 1 ELSE late   \* five seconds passed
    /\ Fails({"ctx"})
    /\ UNCHANGED <<mode, attempt, res, cp, srcVars, dstVars, rs, ws, ctxVars,
                   counted, attemptBytes, stray>>

\* The relay failed: the destination command is waited for, the source aborted.
RelayFailed ==
    /\ step = "relay" /\ cp = "error"
    /\ step' = "waitDest"
    /\ UNCHANGED <<mode, attempt, tags, res, cp, srcVars, dstVars, rs, ws, ctxVars,
                   barVars>>
RelayBlame == IF dst = "ok" THEN {"relay"} ELSE {"dest"}

WaitDest ==
    /\ step = "waitDest" /\ dst # "run"
    /\ CloseWriter /\ AbortReader
    /\ Fails(RelayBlame)
    /\ UNCHANGED <<mode, attempt, res, cp, sent, feed, pipe, dstVars, ctxVars,
                   barVars>>

RelayClean ==
    /\ step = "relay" /\ cp = "eof"
    /\ step' = "close"
    /\ UNCHANGED <<mode, attempt, tags, res, cp, srcVars, dstVars, rs, ws, ctxVars,
                   barVars>>

AwaitFeedAlways == feed # "no"

\* Close waits for the feeder only after a clean exit of the command.
AwaitFeed == src = "ok" /\ feed # "no"

\* StreamReader.Close: Wait for the command, then for the feeder.
WaitSource ==
    /\ step = "close" /\ src # "run"
    /\ step' = "closeFeed"
    /\ UNCHANGED <<mode, attempt, tags, res, cp, srcVars, dstVars, rs, ws, ctxVars,
                   barVars>>

FeedNeverBad == FALSE
\* A list that could not be read makes the transfer incomplete.
FeedBad == feed = "short"
SourceBad == src # "ok" \/ FeedBad

SourceClosed ==
    /\ step = "closeFeed" /\ (AwaitFeed => feed # "feeding")
    /\ CloseReader
    /\ IF mode = "bridge"
         THEN step' = "waitBoth" /\ UNCHANGED <<tags, res>>
         ELSE /\ step' = "end" /\ UNCHANGED tags
              /\ res' = (IF ctxCancelled THEN "cancelled" ELSE IF SourceBad THEN "error" ELSE "ok")
    /\ UNCHANGED <<mode, attempt, cp, srcVars, dstVars, ws, ctxVars, barVars>>

\* Both sides are reported: each command can fail on its own.
SideErrors == (IF dst = "ok" THEN {} ELSE {"dest"}) \cup (IF SourceBad THEN {"source"} ELSE {})

WaitBoth ==
    /\ step = "waitBoth" /\ dst # "run"
    /\ CloseWriter
    /\ IF SideErrors = {} THEN step' = "end" /\ res' = "ok" /\ UNCHANGED tags
                          ELSE Fails(SideErrors) /\ UNCHANGED res
    /\ UNCHANGED <<mode, attempt, cp, srcVars, dstVars, rs, ctxVars, barVars>>
-----------------------------------------------------------------------------
(* RunStream: the consumer reads to the end, or returns early with an      *)
(* error and leaves the source writing; a watcher aborts on cancellation.  *)

Consume ==
    /\ step = "consume" /\ pipe > 0
    /\ pipe' = pipe - 1 /\ got' = got + 1
    /\ UNCHANGED <<mode, step, attempt, tags, res, cp, src, sent, feed, dst, wpipe,
                   eof, rs, ws, ctxVars, barVars>>
ConsumeEnds ==
    /\ step = "consume" /\ pipe = 0 /\ src # "run"
    /\ step' = "close"
    /\ UNCHANGED <<mode, attempt, tags, res, cp, srcVars, dstVars, rs, ws, ctxVars,
                   barVars>>
ConsumeFails ==
    /\ step = "consume"
    /\ ReleaseSource
    /\ step' = "end" /\ res' = (IF ctxCancelled THEN "cancelled" ELSE "error")
    /\ UNCHANGED <<mode, attempt, tags, cp, sent, feed, pipe, dstVars, ws, ctxVars,
                   barVars>>
Watcher ==
    /\ mode = "stream" /\ ctxCancelled /\ rs = 0 /\ step # "end"
    /\ AbortReader
    /\ UNCHANGED <<mode, step, attempt, tags, res, cp, sent, feed, pipe, dstVars, ws,
                   ctxVars, barVars>>
-----------------------------------------------------------------------------
(* RetryBatch and the contexts. *)

RollBack == counted' = counted - attemptBytes

\* An attempt the watchdog killed is reported as a stall, which hides whose
\* error unblocked it.
LastErr == IF stalled /\ ~ctxCancelled THEN {"stall"} ELSE tags

MayRetry == attempt < TransferRetries

\* After a failed attempt: its bytes are taken back; a cancelled run, an error
\* the caller handles itself (stopRetry: a file vanished on the source), and
\* the last attempt end the batch.
AttemptFailed ==
    /\ step = "failed"
    /\ RollBack /\ tags' = LastErr
    /\ \/ /\ mode = "bridge" /\ ~ctxCancelled /\ MayRetry
          /\ step' = "backoff" /\ UNCHANGED res
       \/ /\ ctxCancelled \/ ~MayRetry \/ mode = "stream" \/ "source" \in LastErr
          /\ step' = "end" /\ res' = (IF ctxCancelled THEN "cancelled" ELSE "error")
    /\ UNCHANGED <<mode, attempt, cp, srcVars, dstVars, rs, ws, ctxVars,
                   attemptBytes, lateVars>>

NextAttempt ==
    /\ step = "backoff"
    /\ IF ctxCancelled
         THEN /\ step' = "end" /\ res' = "cancelled"
              /\ UNCHANGED <<attempt, tags, cp, srcVars, dstVars, rs, ws, stalled,
                             attemptBytes>>
         ELSE /\ step' = "reader" /\ attempt' = attempt + 1
              /\ cp' = "no" /\ src' = "no" /\ sent' = 0 /\ feed' = "no" /\ pipe' = 0
              /\ dst' = "no" /\ got' = 0 /\ wpipe' = 0 /\ eof' = FALSE
              /\ rs' = None /\ ws' = None /\ stalled' = FALSE
              /\ attemptBytes' = 0 /\ tags' = {} /\ UNCHANGED res
    /\ UNCHANGED <<mode, ctxCancelled, counted, lateVars>>

\* The relay goroutine of an attempt that was not waited for writes once more.
LateChunk ==
    /\ late > 0 /\ late' = late - 1 /\ stray' = TRUE /\ counted' = counted + 1
    /\ UNCHANGED <<mode, step, attempt, tags, res, cp, srcVars, dstVars, rs, ws,
                   ctxVars, attemptBytes>>

\* No chunk for the idle time: also while a session is opened, and while the
\* commands are waited for, when nobody listens to the context any more.
Stall ==
    /\ mode = "bridge" /\ step \notin {"failed", "backoff", "end"} /\ ~stalled
    /\ stalled' = TRUE
    /\ UNCHANGED <<mode, step, attempt, tags, res, cp, srcVars, dstVars, rs, ws,
                   ctxCancelled, barVars>>
CancelContext ==
    /\ ~ctxCancelled /\ step # "end" /\ ctxCancelled' = TRUE
    /\ UNCHANGED <<mode, step, attempt, tags, res, cp, srcVars, dstVars, rs, ws,
                   stalled, barVars>>
-----------------------------------------------------------------------------
Caller ==
    \/ StartReaderStdin \/ StartWriter \/ WriterFails \/ Interrupted \/ Drained
    \/ RelayFailed \/ WaitDest \/ RelayClean \/ WaitSource \/ SourceClosed
    \/ WaitBoth \/ Consume \/ ConsumeEnds \/ ConsumeFails
    \/ AttemptFailed \/ NextAttempt
BridgeNext == Caller \/ Relay \/ RelayEnds \/ Watcher \/ Emit \/ SourceExits \/ Feed
        \/ Take \/ DestExits \/ LateChunk \/ Stall \/ CancelContext

BridgeSpec == BridgeInit /\ [][BridgeNext]_bridgeVars

\* The goroutines run and the watchdog fires on a transfer that stands still.
\* A command that is not blocked gets on and ends; nothing is assumed of one
\* that waits for its window or for its input.
BridgeFairness ==
    /\ WF_bridgeVars(Caller) /\ WF_bridgeVars(Relay \/ RelayEnds) /\ WF_bridgeVars(Watcher)
    /\ WF_bridgeVars(Stall /\ step = "relay")
    /\ WF_bridgeVars(Emit) /\ WF_bridgeVars(src = "run" /\ sent = Goal /\ SourceExits)
    /\ WF_bridgeVars(Feed)
    /\ WF_bridgeVars(Take) /\ WF_bridgeVars(eof /\ wpipe = 0 /\ DestExits)
BridgeFairSpec == BridgeSpec /\ BridgeFairness
-----------------------------------------------------------------------------
\* A bridge or a stream that reports success moved everything: the source
\* command read its whole list and exited clean, every piece reached the other
\* side, and the destination command exited clean.  Neither end of file from a
\* dying connection nor a destination content with half a stream counts.
OkIsComplete ==
    res = "ok" => /\ src = "ok" /\ feed # "short" /\ got = Chunks
                  /\ mode = "bridge" => dst = "ok"

\* Whatever path an attempt takes, it leaves no session open and closes none
\* twice (a leaked one counts against the server's MaxSessions until the end).
SessionsClosedOnce ==
    /\ rs # 2 /\ ws # 2
    /\ step \in {"failed", "backoff", "end"} => rs # 0 /\ ws # 0

\* An error is blamed on the source only when the source command failed by
\* itself: one that this process tore down because the destination had failed
\* is not, else the mail copy would re-scan for files that never vanished.
SourceTagIsReal == "source" \in tags => src = "fail" \/ feed = "short"

\* The progress shown at the end is what the successful attempt moved: failed
\* attempts leave nothing behind, unless a relay outlived its attempt.
ProgressExact == mode = "bridge" /\ res = "ok" /\ ~stray => counted = Chunks

\* A batch always ends, whichever side dies or blocks and at whatever point:
\* nobody waits for a command that waits for a window nobody drains.
BatchEnds == <>(step = "end")

\* A batch is sound: success means that all was taken and every command
\* content, each session is closed once, the progress counts the bytes of the
\* attempt that counts, and the source is blamed only for its own failures
\* (BridgeProgress, RetryBatch).
BatchSound == BridgeTyped /\ OkIsComplete /\ SessionsClosedOnce /\ ProgressExact /\ SourceTagIsReal
=============================================================================
