--------------------------- MODULE WorkerOperation ---------------------------
(***************************************************************************)
(* One worker of a version 2 run, driven over the docker helper's HTTP API   *)
(* (`worker_operation.ts`, `helper_http.ts`, `worker_signals.ts`): one       *)
(* create, then cycles of a log drain and a status poll, the chain of drains *)
(* after a terminal status, and one cancel when a signal or the operation's  *)
(* own deadline claims it.  A step of the caller is the answer to the        *)
(* exchange in flight with everything up to the next await.                  *)
(*                                                                           *)
(* An exchange may always fail: the daemon is gone, the exchange timed out   *)
(* (remainingMs leaves one millisecond once the deadline has passed), or the *)
(* abort signal cut it.                                                      *)
(***************************************************************************)
EXTENDS Naturals, Sequences, SequencesExt, FiniteSets, FiniteSetsExt

CONSTANTS
  LogLength,      \* bound: bytes the worker writes
  PageSize,       \* bound: bytes of one log page
  CaptureBound,   \* WORKER_LOG_CAPTURE_BOUND_BYTES
  MaxRepeated     \* bound: bytes delivered when a page may still not advance

ASSUME WorkerAssumption ==
  /\ LogLength \in Nat \ {0}
  /\ PageSize \in Nat \ {0}
  /\ CaptureBound \in Nat \ {0}
  /\ MaxRepeated \in Nat

VARIABLES
  op,             \* the daemon's operation: its state
  written,        \* bytes the worker has written
  evicted,        \* bytes the daemon has dropped from the head of its log
  missed,         \* the bytes it dropped before the sink got them
  cancels,        \* the cancel requests sent: "taken" or "lost"
  active,         \* an operation is registered with the hub
  cause,          \* the terminal cause that claimed it, or "none"
  recorded,       \* a signal was recorded as an abort while it was active
  pc,             \* the exchange in flight
  known,          \* the operation id is known
  status,         \* the status of the last poll
  drain,          \* the drain's state: its cursor and how it ended; `turn`
                  \* tells a fetch that got no answer from the one before
  output,         \* the bytes given to the output sink, in order
  tail,           \* the retained chunks
  outcome, capture

daemon == <<op, written, evicted, missed, cancels>>
hub == <<active, cause, recorded>>
logs == <<drain, output, tail>>
vars == <<op, written, evicted, missed, cancels, active, cause, recorded, pc, known,
          status, drain, output, tail, outcome, capture>>

Live == {"pending", "running"}
\* "contradictory": succeeded with an exit or result code that denies it.
Terminal == {"succeeded", "contradictory", "failed", "cancelled"}
Polled == Live \union Terminal

\* The bytes a list of chunks holds (the code's running byte count).
Held(chunks) == Len(FlattenSeq(chunks))
Bytes(from, n) == [i \in 1..n |-> from + i]
Increasing(s) == \A i, j \in DOMAIN s : i < j => s[i] < s[j]

Init ==
  /\ op = "none" /\ written = 0 /\ evicted = 0 /\ missed = {} /\ cancels = <<>>
  /\ active = TRUE /\ cause = "none" /\ recorded = FALSE
  /\ pc = "create" /\ known = FALSE /\ status = "none"
  /\ drain = [cursor |-> 0, complete |-> FALSE, failed |-> FALSE, stalled |-> FALSE,
              turn |-> 0, truncatedDaemon |-> FALSE, truncatedLocal |-> FALSE]
  /\ output = <<>> /\ tail = <<>>
  /\ outcome = "worker_failed" /\ capture = "none"

-----------------------------------------------------------------------------
(* The hub: the first terminal cause claims the active operation.  A claim   *)
(* is handle.abort, which fires the abort signal and ends the sleep.         *)

ClaimTimeout ==
  /\ active /\ cause = "none"
  /\ cause' = "timeout"
  /\ UNCHANGED <<daemon, active, recorded, pc, known, status, logs, outcome, capture>>

ForwardUserSignal ==
  /\ active /\ cause # "timeout"
  /\ cause' = "user_signal"
  /\ recorded' = TRUE
  /\ UNCHANGED <<daemon, active, pc, known, status, logs, outcome, capture>>

-----------------------------------------------------------------------------
(* The daemon and its worker.                                                *)

OpStarts ==
  /\ op = "pending" /\ op' = "running"
  /\ UNCHANGED <<written, evicted, missed, cancels, hub, pc, known, status, logs, outcome, capture>>

OpWrites ==
  /\ op = "running" /\ written < LogLength
  /\ \E n \in 1..(LogLength - written) : written' = written + n
  /\ UNCHANGED <<op, evicted, missed, cancels, hub, pc, known, status, logs, outcome, capture>>

OpEnds ==
  /\ op \in Live
  /\ op' \in Terminal
  /\ UNCHANGED <<written, evicted, missed, cancels, hub, pc, known, status, logs, outcome, capture>>

Evict ==
  /\ evicted < written
  /\ evicted' \in (evicted + 1)..written
  /\ missed' = missed \union (((evicted + 1)..evicted') \ ToSet(output))
  /\ UNCHANGED <<op, written, cancels, hub, pc, known, status, logs, outcome, capture>>

\* The pages the daemon may answer for the cursor: what is retained from
\* there on, an empty page when there is nothing, the end once the operation
\* is over; and two pages that break its contract, a page that does not
\* advance and an empty one that does.
PagesFlagged(flag) ==
  LET from == Max({drain.cursor, evicted})
      page(n, next) ==
        [bytes |-> Bytes(from, n), next |-> next, end |-> FALSE, truncated |-> flag]
      honest == {page(n, from + n) : n \in {k \in 1..PageSize : from + k <= written}}
      caughtUp == IF from >= written THEN {page(0, drain.cursor)} ELSE {}
      end == IF op \in Terminal
               THEN {[page(IF from < written THEN written - from ELSE 0, from) EXCEPT !.end = TRUE]}
               ELSE {}
      stuck == IF Len(output) <= MaxRepeated THEN {[p EXCEPT !.next = drain.cursor] : p \in honest} ELSE {}
      empty == {page(0, drain.cursor + 1)}
  IN honest \union caughtUp \union end \union stuck \union empty

\* That bytes were dropped is the daemon's word, and nothing holds it to it.
Pages == UNION {PagesFlagged(flag) : flag \in BOOLEAN}

-----------------------------------------------------------------------------
(* The caller.                                                               *)

\* finally: the deadline is cleared and the operation is no longer signalable.
Ended(with, captured) ==
  /\ pc' = "done" /\ active' = FALSE
  /\ outcome' = with /\ capture' = captured

Claimed == IF cause = "timeout" THEN "worker_timeout" ELSE "worker_failed"

\* Mutant: a stream that stalled counts as captured.
CapturedUnlessFailed(state, got) ==
  IF got = <<>> THEN "unavailable"
  ELSE IF ~state.failed /\ ~state.truncatedDaemon /\ ~state.truncatedLocal THEN "captured"
  ELSE "truncated"

CaptureStatus(state, got) ==
  IF got = <<>> THEN "unavailable"
  ELSE IF /\ state.complete /\ ~state.failed /\ ~state.stalled
          /\ ~state.truncatedDaemon /\ ~state.truncatedLocal THEN "captured"
  ELSE "truncated"

\* After the loop: a claimed operation is cancelled first.
Return(with, state, got) ==
  IF cause # "none"
    THEN /\ pc' = "cancel"
         /\ UNCHANGED <<active, outcome, capture>>
    ELSE Ended(with, CaptureStatus(state, got))

Goto(next) ==
  /\ pc' = next
  /\ UNCHANGED <<active, outcome, capture>>

\* Lost, rejected or unreadable: the daemon may have accepted the operation,
\* and nobody will cancel it.  An answer that is not JSON leaves by a throw.
CreateUnanswered ==
  /\ pc = "create"
  /\ op' \in {"none", "pending"}
  /\ \/ Ended(Claimed, "unavailable")
     \/ Ended("thrown", "none")
  /\ UNCHANGED <<written, evicted, missed, cancels, cause, recorded, known, status, logs>>

Created ==
  /\ pc = "create"
  /\ op' = "pending" /\ known' = TRUE
  /\ Goto(IF cause # "none" THEN "cancel_early" ELSE "drain")
  /\ UNCHANGED <<written, evicted, missed, cancels, cause, recorded, status, logs>>

\* appendChunk: whole chunks leave from the head; one chunk over the bound
\* replaces everything with its own tail.
Retain(chunks, chunk) ==
  IF Len(chunk) > CaptureBound
    THEN <<SubSeq(chunk, Len(chunk) - CaptureBound + 1, Len(chunk))>>
    ELSE LET all == Append(chunks, chunk)
             fits == {k \in 1..Len(all) : Held(SubSeq(all, k, Len(all))) <= CaptureBound}
         IN SubSeq(all, Min(fits), Len(all))

\* What a page says of the stream.
PageSays(page) ==
  IF page.end THEN "complete"
  ELSE IF page.bytes = <<>>
    THEN IF page.next > drain.cursor THEN "stalled"
         ELSE IF pc = "drain_terminal" THEN "complete" ELSE "none"
  ELSE IF page.next = drain.cursor THEN "stalled" ELSE "advanced"

\* Mutant: the exit code of a success is not looked at.
ClassifyByState(polled) == IF polled \in {"succeeded", "contradictory"} THEN "completed" ELSE "worker_failed"

Classify(polled) == IF polled = "succeeded" THEN "completed" ELSE "worker_failed"

\* After a drain of the running phase the abort is looked at.  The chain after
\* a terminal status only looks at how the drain ended.
AfterDrain(state, got) ==
  IF pc = "drain"
    THEN Goto(IF cause # "none" THEN "cancel" ELSE "poll")
    ELSE IF state.complete \/ state.failed \/ state.stalled
           THEN Return(Classify(status), state, got)
           ELSE Goto("drain_terminal")

DrainOnce ==
  /\ pc \in {"drain", "drain_terminal"}
  /\ \E page \in Pages :
       LET says == PageSays(page)
           kept == IF page.bytes = <<>> THEN tail ELSE Retain(tail, page.bytes)
           state == [drain EXCEPT
             !.cursor = IF says = "advanced" THEN page.next ELSE @,
             !.complete = @ \/ says = "complete",
             !.stalled = @ \/ says = "stalled",
             !.truncatedDaemon = @ \/ page.truncated,
             !.truncatedLocal = @ \/ Held(kept) < Held(tail) + Len(page.bytes)]
       IN /\ output' = output \o page.bytes
          /\ tail' = kept
          /\ drain' = state
          /\ AfterDrain(state, output \o page.bytes)
  /\ UNCHANGED <<daemon, cause, recorded, known, status>>

\* No answer ends the drain, unless an abort was claimed; an answer that is
\* not one (its status, body, offset or cursor) always does.
DrainUnanswered ==
  /\ pc \in {"drain", "drain_terminal"}
  /\ \E failed \in {cause = "none", TRUE} :
       LET state == [drain EXCEPT !.failed = @ \/ failed, !.turn = 1 - @]
       IN drain' = state /\ AfterDrain(state, output)
  /\ UNCHANGED <<daemon, cause, recorded, known, status, output, tail>>

PollStatus ==
  /\ pc = "poll"
  /\ status' = op
  /\ IF op \in Live THEN Goto("sleep")
     ELSE IF drain.complete \/ drain.failed \/ drain.stalled
       THEN Return(Classify(op), drain, output)
       ELSE Goto("drain_terminal")
  /\ UNCHANGED <<daemon, cause, recorded, known, logs>>

\* No status, or one that cannot be read: a failure of the worker.
PollUnanswered ==
  /\ pc = "poll"
  /\ status' = "unreadable"
  /\ Return("worker_failed", drain, output)
  /\ UNCHANGED <<daemon, cause, recorded, known, logs>>

\* Mutant: the head of the loop does not look at the abort.
WakeUnchecked ==
  /\ pc = "sleep"
  /\ Goto(IF drain.complete \/ drain.failed THEN "poll" ELSE "drain")
  /\ UNCHANGED <<daemon, cause, recorded, known, status, logs>>

\* The next cycle.  A drain that only stalled is tried again here.
Wake ==
  /\ pc = "sleep"
  /\ Goto(IF cause # "none" THEN "cancel"
          ELSE IF drain.complete \/ drain.failed THEN "poll" ELSE "drain")
  /\ UNCHANGED <<daemon, cause, recorded, known, status, logs>>

\* The one cancel; whether it was taken changes nothing for the caller.
Cancel ==
  /\ pc \in {"cancel", "cancel_early"}
  /\ \E taken \in {"taken", "lost"} :
       /\ cancels' = Append(cancels, taken)
       /\ op' = IF taken = "taken" /\ op \in Live THEN "cancelled" ELSE op
  /\ Ended(Claimed,
           IF pc = "cancel_early" \/ output = <<>> THEN "unavailable" ELSE "truncated")
  /\ UNCHANGED <<written, evicted, missed, cause, recorded, known, status, logs>>

Caller ==
  \/ CreateUnanswered \/ Created
  \/ DrainOnce \/ DrainUnanswered
  \/ PollStatus \/ PollUnanswered \/ Wake \/ Cancel

Worker == OpStarts \/ OpWrites \/ OpEnds \/ Evict

Next == Caller \/ Worker \/ ClaimTimeout \/ ForwardUserSignal

Spec == Init /\ [][Next]_vars

\* Every exchange is bounded by its own timeout, and the deadline is a timer.
FairSpec == Spec /\ WF_vars(Caller) /\ WF_vars(ClaimTimeout)

-----------------------------------------------------------------------------
(* Properties.                                                               *)

\* The types of the variables.
WorkerTypeOK ==
  /\ op \in {"none"} \union Polled
  /\ written \in 0..LogLength /\ evicted \in 0..written /\ missed \subseteq 1..evicted
  /\ cancels \in Seq({"taken", "lost"})
  /\ active \in BOOLEAN /\ recorded \in BOOLEAN /\ known \in BOOLEAN
  /\ cause \in {"none", "user_signal", "timeout"}
  /\ pc \in {"create", "drain", "poll", "sleep", "drain_terminal", "cancel", "cancel_early", "done"}
  /\ status \in {"none", "unreadable"} \union Polled
  /\ drain.cursor \in 0..LogLength
  /\ outcome \in {"completed", "worker_failed", "worker_timeout", "thrown"}
  /\ capture \in {"none", "captured", "truncated", "unavailable"}

\* The outcome is the first claim's, else the daemon's word: a success is
\* reported only when the operation succeeded and nothing claimed it, a
\* timeout exactly when the deadline claimed it, and a signal recorded as an
\* abort while the operation was signalable never meets a success or a
\* timeout; a create that was answered always gets an outcome (classify, createOutcome and the check after the loop).
OutcomeHonest ==
  pc = "done" =>
    /\ outcome = "completed" => op = "succeeded" /\ cause = "none"
    /\ (outcome = "worker_timeout") <=> (cause = "timeout" /\ outcome # "thrown")
    /\ outcome = "thrown" => ~known
    /\ recorded => outcome \in {"worker_failed", "thrown"}

\* A claimed operation whose id is known is cancelled exactly once, an
\* unclaimed one never; and the caller leaves an operation running behind it
\* only when the create's answer was lost, the cancel was lost, or the status
\* could not be read (sendCancel and the returns of runWorkerOperation).
CancelAccounted ==
  pc = "done" =>
    /\ Len(cancels) = IF cause # "none" /\ known THEN 1 ELSE 0
    /\ op \in Live => ~known \/ cancels = <<"lost">> \/ status = "unreadable"

\* Captured never means complete: the daemon may drop what was not read yet and
\* say nothing.  But it means that nothing else is missing: the operation is over,
\* the sink got, once and in order, every byte that was not dropped before it was
\* read, and the retained tail is all the sink got.  What is retained is always the
\* end of what the sink got, within the bound; and until a page breaks the
\* daemon's contract no byte is delivered twice (drainOnce, appendChunk and the
\* capture status).
CaptureHonest ==
  /\ capture = "captured" =>
       /\ op \in Terminal /\ FlattenSeq(tail) = output
       /\ Increasing(output) /\ ToSet(output) = (1..written) \ missed
  /\ capture = "unavailable" => output = <<>>
  /\ IsSuffix(FlattenSeq(tail), output) /\ Len(FlattenSeq(tail)) <= CaptureBound
  /\ ~drain.stalled => Increasing(output)

\* What is left behind is accounted for: the operation in the daemon, the cancels it
\* was sent, and the log that was captured of it.
OperationAccounted ==
  /\ WorkerTypeOK
  /\ CancelAccounted
  /\ CaptureHonest

\* The operation returns, or it is in the chain of drains after a terminal
\* status with a claim made: there no failure ends the drain.
ReturnsUnlessClaimed == <>(pc = "done") \/ <>[](pc = "drain_terminal" /\ cause # "none")

\* worker_operation.ts:57-61 says of a log fetch that never answers: "costs at
\* most this bound once (the drain then stops permanently) and can never eat
\* the worker deadline, so a terminal status is still reached before the
\* overall timeout": the operation returns.
OperationReturns == <>(pc = "done")
=============================================================================
