----------------------------- MODULE RunDocument -----------------------------
(***************************************************************************)
(* One run's state document `<state-root>/pipeline-runs/<run>/state.json`  *)
(* and the mutating commands that share it: the fresh runner, the          *)
(* existing-run commands (resume, continue-stage, revise-task,             *)
(* resume-plan) and the wait response.  Each command is an operating       *)
(* system process: it claims or verifies the run root, takes the kernel    *)
(* lock on it (pipeline_v2_run_mutation_lock.ts), opens a sink             *)
(* (pipeline_v2_state_sink.ts) and dispatches commands, each of which      *)
(* replaces the document through the commit protocol of                    *)
(* run_snapshot_store.ts.  Any file system call may fail, a process may    *)
(* die between any two steps, and the machine may lose power.              *)
(*                                                                         *)
(* A document is the sequence of the dispatches that produced it; its      *)
(* length is its revision and the empty sequence is the absent document.   *)
(* What a dispatch writes is RunState's business; here a dispatch is the   *)
(* pair <<command, number>>.                                               *)
(***************************************************************************)
EXTENDS Naturals, SequencesExt

CONSTANTS
    Commands,       \* the processes that are ever started on the run
    NoCommand,      \* the lock is free
    Torn,           \* a state.json whose bytes did not reach the disk
    MaxDispatches,  \* bound: dispatches of one command
    EntryPersists   \* the file system persists the entry of a new directory
                    \* in its parent together with the directory's own fsync

ASSUME NoCommandAssumption == NoCommand \notin Commands
ASSUME MaxDispatchesAssumption == MaxDispatches \in Nat \ {0}
ASSUME EntryPersistsAssumption == EntryPersists \in BOOLEAN
ASSUME TornAssumption == Torn \notin Seq(Commands \X (1..MaxDispatches))

Dispatches == 1..MaxDispatches
Documents == Seq(Commands \X Dispatches)
Absent == << >>

VARIABLES
    root,       \* the run root directory exists
    visible,    \* the document a read of state.json returns now
    survivors,  \* the documents a read may return after a power loss
    holder,     \* the command that holds the flock on the run root
    pc,         \* where each command is
    current,    \* the snapshot of each command's sink, Absent for null
    poisoned,   \* the sink refuses every further dispatch
    op,         \* the phase of each dispatch of each command
    candidate,  \* the document each dispatch is committing
    acknowledged \* history: the last document whose commit was confirmed

vars == <<root, visible, survivors, holder, pc, current, poisoned, op,
          candidate, acknowledged>>
files == <<root, visible, survivors, acknowledged>>
sinks == <<current, poisoned, op, candidate>>

(***************************************************************************)
(* A dispatch is queued on the sink's promise chain, runs through the      *)
(* phases of the commit protocol, and settles.                             *)
(***************************************************************************)
InFlight == {"check", "create", "temp", "written", "synced", "renamed"}
Settled == {"unchanged", "committed", "not_committed", "durability_unknown"}
Phases == {"uncalled", "queued"} \union InFlight \union Settled

Stages == {"idle", "claimed", "verified", "probed", "opening", "running",
           "over", "dead"}
Holding == {"opening", "running"}

NoDispatch == [d \in Dispatches |-> "uncalled"]
NoCandidate == [d \in Dispatches |-> Absent]

Init ==
    /\ root = FALSE
    /\ visible = Absent
    /\ survivors = {Absent}
    /\ holder = NoCommand
    /\ pc = [p \in Commands |-> "idle"]
    /\ current = [p \in Commands |-> Absent]
    /\ poisoned = [p \in Commands |-> FALSE]
    /\ op = [p \in Commands |-> NoDispatch]
    /\ candidate = [p \in Commands |-> NoCandidate]
    /\ acknowledged = Absent

-----------------------------------------------------------------------------
(* The lock and the life of a command. *)

Goto(p, stage) == pc' = [pc EXCEPT ![p] = stage]

\* The process is gone and with it its sink; the kernel closes its descriptors.
Leave(p, stage) ==
    /\ Goto(p, stage)
    /\ holder' = IF holder = p THEN NoCommand ELSE holder
    /\ current' = [current EXCEPT ![p] = Absent]
    /\ poisoned' = [poisoned EXCEPT ![p] = FALSE]
    /\ op' = [op EXCEPT ![p] = NoDispatch]
    /\ candidate' = [candidate EXCEPT ![p] = NoCandidate]
    /\ UNCHANGED files

\* The fresh runner's exclusive mkdir of the run root.
ClaimRunRoot(p) ==
    /\ pc[p] = "idle"
    /\ ~root
    /\ root' = TRUE
    /\ Goto(p, "claimed")
    /\ UNCHANGED <<visible, survivors, acknowledged, holder, sinks>>

\* An existing-run command finds the run root.
VerifyRunRoot(p) ==
    /\ pc[p] = "idle"
    /\ root
    /\ Goto(p, "verified")
    /\ UNCHANGED <<files, holder, sinks>>

\* run_already_exists for the fresh runner, run_not_found for the others, and
\* every refusal of the read-only preflight before the lock.
RefusePreflight(p) ==
    /\ pc[p] \in {"idle", "claimed", "verified"}
    /\ Leave(p, "over")

\* statSync of state.json before the lock, in mode "existing" only.
ProbeStateDocument(p) ==
    /\ pc[p] = "verified"
    /\ visible # Absent
    /\ Goto(p, "probed")
    /\ UNCHANGED <<files, holder, sinks>>

\* Mutant: the flock does not exclude.
AcquireShared(p, stage) ==
    /\ holder' = p
    /\ Goto(p, stage)
    /\ UNCHANGED <<files, sinks>>

Acquire(p, stage) ==
    /\ holder = NoCommand
    /\ holder' = p
    /\ Goto(p, stage)
    /\ UNCHANGED <<files, sinks>>

\* The fresh runner has an empty sink of its own.
AcquireFresh(p) == pc[p] = "claimed" /\ Acquire(p, "running")
AcquireExisting(p) == pc[p] = "probed" /\ Acquire(p, "opening")

\* EWOULDBLOCK: the typed run_busy refusal.
RefuseBusy(p) ==
    /\ pc[p] \in {"claimed", "probed"}
    /\ holder # NoCommand
    /\ Leave(p, "over")

\* PipelineV2RunStateSink.open under the lock.
OpenSink(p) ==
    /\ pc[p] = "opening"
    /\ visible \notin {Absent, Torn}
    /\ current' = [current EXCEPT ![p] = visible]
    /\ Goto(p, "running")
    /\ UNCHANGED <<files, holder, poisoned, op, candidate>>

\* Mutant: the refusal returns before the `finally` that releases.
RefuseOpenHolding(p) ==
    /\ pc[p] = "opening"
    /\ Goto(p, "over")
    /\ UNCHANGED <<files, holder, sinks>>

\* The load failed, found nothing, or found bytes that do not parse.
RefuseOpen(p) ==
    /\ pc[p] = "opening"
    /\ Leave(p, "over")

\* The outcome is constructed after every awaited dispatch; `finally` releases.
Release(p) ==
    /\ pc[p] = "running"
    /\ \A d \in Dispatches : op[p][d] \in Settled \union {"uncalled"}
    /\ Leave(p, "over")

Die(p) ==
    /\ pc[p] \notin {"idle", "over", "dead"}
    /\ Leave(p, "dead")

-----------------------------------------------------------------------------
(* One dispatch: reduce, write the candidate, adopt it. *)

Phase(p, d, phase) == op' = [op EXCEPT ![p][d] = phase]

\* sink.dispatch appends to the promise chain of its sink.
Dispatch(p, d) ==
    /\ pc[p] = "running"
    /\ op[p][d] = "uncalled"
    /\ d > 1 => op[p][d - 1] # "uncalled"
    /\ Phase(p, d, "queued")
    /\ UNCHANGED <<files, holder, pc, current, poisoned, candidate>>

\* Mutant: dispatches of one sink are not chained.
AtOnce(p, d) == op[p][d] = "queued"

AtHead(p, d) ==
    /\ op[p][d] = "queued"
    /\ \A e \in 1..(d - 1) : op[p][e] \in Settled

\* A poisoned sink refuses before the reducer; the reducer rejects the command
\* or returns the same snapshot.  Nothing is written.
RunWithoutWrite(p, d) ==
    /\ AtHead(p, d)
    /\ Phase(p, d, "unchanged")
    /\ UNCHANGED <<files, holder, pc, current, poisoned, candidate>>

\* Mutant: a poisoned sink goes on.
RunReducerPoisoned(p, d) ==
    /\ AtHead(p, d)
    /\ candidate' = [candidate EXCEPT ![p][d] = Append(current[p], <<p, d>>)]
    /\ Phase(p, d, IF current[p] = Absent THEN "create" ELSE "check")
    /\ UNCHANGED <<files, holder, pc, current, poisoned>>

RunReducer(p, d) ==
    /\ AtHead(p, d)
    /\ ~poisoned[p]
    /\ candidate' = [candidate EXCEPT ![p][d] = Append(current[p], <<p, d>>)]
    /\ Phase(p, d, IF current[p] = Absent THEN "create" ELSE "check")
    /\ UNCHANGED <<files, holder, pc, current, poisoned>>

\* create: the directories are there and state.json is not.
CheckAbsent(p, d) ==
    /\ op[p][d] = "create"
    /\ visible = Absent
    /\ Phase(p, d, "temp")
    /\ UNCHANGED <<files, holder, pc, current, poisoned, candidate>>

\* commit: the document on disk has the revision of the snapshot.
CheckRevision(p, d) ==
    /\ op[p][d] = "check"
    /\ visible \notin {Absent, Torn}
    /\ Len(visible) = Len(current[p])
    /\ Phase(p, d, "temp")
    /\ UNCHANGED <<files, holder, pc, current, poisoned, candidate>>

\* Exclusive open of a uniquely named temporary file, chmod and write.
WriteTemp(p, d) ==
    /\ op[p][d] = "temp"
    /\ Phase(p, d, "written")
    /\ UNCHANGED <<files, holder, pc, current, poisoned, candidate>>

SyncTemp(p, d) ==
    /\ op[p][d] = "written"
    /\ Phase(p, d, "synced")
    /\ UNCHANGED <<files, holder, pc, current, poisoned, candidate>>

\* What a power loss can leave of the renamed file.
Content(p, d) ==
    IF op[p][d] = "synced" THEN candidate[p][d] ELSE Torn

Rename(p, d) ==
    /\ op[p][d] = "synced"
    /\ visible' = candidate[p][d]
    /\ survivors' = survivors \union {Content(p, d)}
    /\ Phase(p, d, "renamed")
    /\ UNCHANGED <<root, acknowledged, holder, pc, current, poisoned, candidate>>

\* Mutant: success without the fsync of the directory.
SkipSyncDirectory(p, d) ==
    /\ op[p][d] = "renamed"
    /\ acknowledged' = candidate[p][d]
    /\ current' = [current EXCEPT ![p] = candidate[p][d]]
    /\ Phase(p, d, "committed")
    /\ UNCHANGED <<root, visible, survivors, holder, pc, poisoned, candidate>>

\* fsync of the run directory confirms the rename; the sink adopts.
SyncDirectory(p, d) ==
    /\ op[p][d] = "renamed"
    /\ survivors' = {visible}
    /\ acknowledged' = candidate[p][d]
    /\ current' = [current EXCEPT ![p] = candidate[p][d]]
    /\ Phase(p, d, "committed")
    /\ UNCHANGED <<root, visible, holder, pc, poisoned, candidate>>

\* Mutant: a failure after the rename reported as not_committed.
FailAnywhere(p, d) ==
    /\ op[p][d] \in InFlight
    /\ Phase(p, d, "not_committed")
    /\ UNCHANGED <<files, holder, pc, current, poisoned, candidate>>

\* Every failure before the rename: the previous document stays.
FailBeforeRename(p, d) ==
    /\ op[p][d] \in {"check", "create", "temp", "written", "synced"}
    /\ Phase(p, d, "not_committed")
    /\ UNCHANGED <<files, holder, pc, current, poisoned, candidate>>

\* Mutant: the sink poisons itself without adopting the candidate.
FailWithoutAdopting(p, d) ==
    /\ op[p][d] = "renamed"
    /\ poisoned' = [poisoned EXCEPT ![p] = TRUE]
    /\ Phase(p, d, "durability_unknown")
    /\ UNCHANGED <<files, holder, pc, current, candidate>>

\* openDir, fsync or close of the directory failed after the rename.
FailAfterRename(p, d) ==
    /\ op[p][d] = "renamed"
    /\ current' = [current EXCEPT ![p] = candidate[p][d]]
    /\ poisoned' = [poisoned EXCEPT ![p] = TRUE]
    /\ Phase(p, d, "durability_unknown")
    /\ UNCHANGED <<files, holder, pc, candidate>>

-----------------------------------------------------------------------------
\* Every process dies, and the disk holds one of the survivors.  The run root
\* itself is gone when its entry never reached the disk.
PowerLoss ==
    /\ \/ visible' \in survivors /\ root' = root
       \/ /\ Absent \in survivors \/ ~EntryPersists
          /\ visible' = Absent
          /\ root' = FALSE
    /\ survivors' = {visible'}
    /\ holder' = NoCommand
    /\ pc' = [p \in Commands |-> IF pc[p] \in {"idle", "over"} THEN pc[p] ELSE "dead"]
    /\ current' = [p \in Commands |-> Absent]
    /\ poisoned' = [p \in Commands |-> FALSE]
    /\ op' = [p \in Commands |-> NoDispatch]
    /\ candidate' = [p \in Commands |-> NoCandidate]
    /\ UNCHANGED acknowledged

Commit(p, d) ==
    \/ RunWithoutWrite(p, d) \/ RunReducer(p, d)
    \/ CheckAbsent(p, d) \/ CheckRevision(p, d)
    \/ WriteTemp(p, d) \/ SyncTemp(p, d) \/ Rename(p, d) \/ SyncDirectory(p, d)
    \/ FailBeforeRename(p, d) \/ FailAfterRename(p, d)

Step(p) ==
    \/ ClaimRunRoot(p) \/ VerifyRunRoot(p) \/ RefusePreflight(p)
    \/ ProbeStateDocument(p)
    \/ AcquireFresh(p) \/ AcquireExisting(p) \/ RefuseBusy(p)
    \/ OpenSink(p) \/ RefuseOpen(p) \/ Release(p)
    \/ \E d \in Dispatches : Dispatch(p, d) \/ Commit(p, d)

Next ==
    \/ \E p \in Commands : Step(p) \/ Die(p)
    \/ PowerLoss

Spec == Init /\ [][Next]_vars

\* Every call a command awaits settles, so a command that runs goes on.
FairSpec == Spec /\ \A p \in Commands : WF_vars(pc[p] # "idle" /\ Step(p))

-----------------------------------------------------------------------------
(* Properties. *)

\* The shape of the variables.
TypeOK ==
    /\ root \in BOOLEAN
    /\ visible \in Documents \union {Torn}
    /\ survivors \subseteq Documents \union {Torn}
    /\ holder \in Commands \union {NoCommand}
    /\ pc \in [Commands -> Stages]
    /\ current \in [Commands -> Documents]
    /\ poisoned \in [Commands -> BOOLEAN]
    /\ op \in [Commands -> [Dispatches -> Phases]]
    /\ candidate \in [Commands -> [Dispatches -> Documents]]
    /\ acknowledged \in Documents

\* The runner takes the lock of the run root it has just claimed and no
\* existing-run command can be there first, although the claim and the flock
\* are two steps: nobody sees a state document before the fresh runner wrote it
\* under its lock.
FreshNeverBusy == \A p \in Commands : pc[p] = "claimed" => holder = NoCommand

\* Between two dispatches the sink of the command that holds the lock has
\* exactly the document on disk, whatever failed before: a not_committed outcome
\* left the old one, a durability_unknown one was adopted.
SinkMirrorsDocument ==
    \A p \in Commands :
        /\ pc[p] = "running"
        /\ \A d \in Dispatches : op[p][d] \notin InFlight
        => current[p] = visible

\* No reader, with or without the lock and before or after a power loss, finds a
\* document that is only partly there.
NeverTorn == visible # Torn /\ Torn \notin survivors

\* A commit that dispatch confirmed is part of every later document: no later
\* writer, crash or power loss takes it back.
AcknowledgedSurvives ==
    /\ visible # Torn => IsPrefix(acknowledged, visible)
    /\ \A s \in survivors \ {Torn} : IsPrefix(acknowledged, s)

\* A writer replaces the document it has read by one that has exactly one
\* dispatch more: no update of another command is overwritten.
NoLostUpdate ==
    [][visible' # visible /\ (\E p \in Commands : pc'[p] = "running") =>
           /\ Len(visible') = Len(visible) + 1
           /\ IsPrefix(visible, visible')]_vars

\* A dispatch that reported not_committed has left no trace on disk, and none
\* appears while its command lives.
NotCommittedLeavesNoTrace ==
    \A p \in Commands, d \in Dispatches :
        op[p][d] = "not_committed" =>
            \A s \in ({visible} \union survivors) \ {Torn} :
                \A i \in 1..Len(s) : s[i] # <<p, d>>

\* After a durability_unknown commit a sink writes nothing more.
PoisonedSinkIsSilent ==
    [][\A p \in Commands : poisoned[p] /\ pc'[p] = "running" => visible' = visible]_vars

\* Through every failure, death and power loss the document can be trusted by
\* who reads it: the fresh runner keeps its claim, the holder's sink has what is
\* on disk, and nobody finds a part of a document.
DocumentSafe ==
    /\ TypeOK
    /\ FreshNeverBusy
    /\ SinkMirrorsDocument
    /\ NeverTorn

\* A command that takes the lock gives it back on every path.
LockIsReleased == \A p \in Commands : holder = p ~> holder # p

\* Through all commands, failures, deaths and power losses the document is one
\* log that loses unconfirmed entries only.
Log == INSTANCE DurableLog WITH
           Entries <- Commands \X Dispatches,
           log <- visible,
           confirmed <- acknowledged
ImplementsLog == Log!Spec
=============================================================================
