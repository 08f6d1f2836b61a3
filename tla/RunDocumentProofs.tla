--------------------------- MODULE RunDocumentProofs ---------------------------
(***************************************************************************)
(* Theorems about the run's state document, for any number of commands and *)
(* dispatches.                                                             *)
(***************************************************************************)
EXTENDS RunDocument, TLAPS

-----------------------------------------------------------------------------
(* Prefixes of documents, element by element.                              *)

LEMMA PrefixIff ==
  ASSUME NEW S, NEW s \in Seq(S), NEW t \in Seq(S)
  PROVE  IsPrefix(s, t) <=> Len(s) <= Len(t) /\ \A i \in 1..Len(s) : s[i] = t[i]
<1>1. CASE Len(s) <= Len(t)
  <2>1. /\ SubSeq(s, 1, Len(s)) = [i \in 1..Len(s) |-> s[i]]
        /\ SubSeq(t, 1, Len(s)) = [i \in 1..Len(s) |-> t[i]]
    BY <1>1
  <2>2. QED
    BY <1>1, <2>1 DEF IsPrefix
<1>2. QED
  BY <1>1 DEF IsPrefix

\* A dispatch extends its document and keeps what it had.
LEMMA AppendPrefix ==
  ASSUME NEW S, NEW s \in Seq(S), NEW t \in Seq(S), NEW e \in S, IsPrefix(s, t)
  PROVE  IsPrefix(s, Append(t, e)) /\ IsPrefix(s, s)
<1>1. /\ Append(t, e) \in Seq(S)
      /\ Len(Append(t, e)) = Len(t) + 1
      /\ \A i \in 1..Len(t) : Append(t, e)[i] = t[i]
  OBVIOUS
<1>2. Len(s) <= Len(t) /\ \A i \in 1..Len(s) : s[i] = t[i]
  BY PrefixIff
<1>3. IsPrefix(s, Append(t, e))
  <2>1. Len(s) <= Len(Append(t, e)) /\ \A i \in 1..Len(s) : s[i] = Append(t, e)[i]
    BY <1>1, <1>2
  <2>2. QED
    BY <1>1, <2>1, PrefixIff
<1>4. IsPrefix(s, s)
  BY PrefixIff
<1>5. QED
  BY <1>3, <1>4

LEMMA AbsentPrefix ==
  ASSUME NEW S, NEW s \in Seq(S), IsPrefix(s, Absent)
  PROVE  s = Absent
<1>1. Absent \in Seq(S)
  BY DEF Absent
<1>2. Len(s) <= Len(Absent)
  BY <1>1, PrefixIff
<1>3. Len(s) = 0
  BY <1>2 DEF Absent
<1>4. QED
  BY <1>3 DEF Absent

-----------------------------------------------------------------------------
(* Type correctness.                                                       *)

LEMMA DocumentFacts ==
  /\ Absent \in Documents
  /\ Torn \notin Documents
  /\ Torn # Absent
  /\ \A s \in Documents, p \in Commands, d \in Dispatches :
        /\ Append(s, <<p, d>>) \in Documents
        /\ Len(Append(s, <<p, d>>)) = Len(s) + 1
  /\ NoDispatch \in [Dispatches -> Phases]
  /\ NoCandidate \in [Dispatches -> Documents]
<1>1. Absent \in Documents
  BY DEF Absent, Documents
<1>2. Torn \notin Documents
  BY TornAssumption DEF Documents, Dispatches
<1>3. QED
  BY <1>1, <1>2 DEF Documents, NoDispatch, NoCandidate, Phases

LEMMA LeaveType ==
  ASSUME TypeOK, NEW p \in Commands, NEW stage \in Stages, Leave(p, stage)
  PROVE  TypeOK'
BY DocumentFacts DEF TypeOK, Leave, Goto, files

\* Every step of a dispatch but the ones that touch the files.
LEMMA PhaseType ==
  ASSUME TypeOK, NEW p \in Commands, NEW d \in Dispatches,
         NEW phase \in Phases, Phase(p, d, phase)
  PROVE  op' \in [Commands -> [Dispatches -> Phases]]
BY DEF TypeOK, Phase

LEMMA CommitType ==
  ASSUME TypeOK, NEW p \in Commands, NEW d \in Dispatches,
         Dispatch(p, d) \/ Commit(p, d)
  PROVE  TypeOK'
<1>. USE DEF TypeOK, files
<1>1. CASE Dispatch(p, d)
  BY <1>1, PhaseType DEF Dispatch, Phases
<1>2. CASE RunWithoutWrite(p, d)
  BY <1>2, PhaseType DEF RunWithoutWrite, Phases, Settled
<1>3. CASE RunReducer(p, d)
  <2>1. op' \in [Commands -> [Dispatches -> Phases]]
    BY <1>3, PhaseType DEF RunReducer, Phases, InFlight
  <2>2. Append(current[p], <<p, d>>) \in Documents
    BY DocumentFacts
  <2>3. QED
    BY <1>3, <2>1, <2>2 DEF RunReducer
<1>4. CASE CheckAbsent(p, d)
  BY <1>4, PhaseType DEF CheckAbsent, Phases, InFlight
<1>5. CASE CheckRevision(p, d)
  BY <1>5, PhaseType DEF CheckRevision, Phases, InFlight
<1>6. CASE WriteTemp(p, d)
  BY <1>6, PhaseType DEF WriteTemp, Phases, InFlight
<1>7. CASE SyncTemp(p, d)
  BY <1>7, PhaseType DEF SyncTemp, Phases, InFlight
<1>8. CASE Rename(p, d)
  BY <1>8, PhaseType DEF Rename, Content, Phases, InFlight
<1>9. CASE SyncDirectory(p, d)
  BY <1>9, PhaseType DEF SyncDirectory, Phases, Settled
<1>10. CASE FailBeforeRename(p, d)
  BY <1>10, PhaseType DEF FailBeforeRename, Phases, Settled
<1>11. CASE FailAfterRename(p, d)
  BY <1>11, PhaseType DEF FailAfterRename, Phases, Settled
<1>12. QED
  BY <1>1, <1>2, <1>3, <1>4, <1>5, <1>6, <1>7, <1>8, <1>9, <1>10, <1>11
     DEF Commit

LEMMA CommandType ==
  ASSUME TypeOK, NEW p \in Commands, Step(p) \/ Die(p)
  PROVE  TypeOK'
<1>. USE DEF TypeOK, files, sinks, Stages, Goto
<1>1. CASE ClaimRunRoot(p)
  BY <1>1 DEF ClaimRunRoot
<1>2. CASE VerifyRunRoot(p)
  BY <1>2 DEF VerifyRunRoot
<1>3. CASE RefusePreflight(p)
  BY <1>3, LeaveType DEF RefusePreflight
<1>4. CASE ProbeStateDocument(p)
  BY <1>4 DEF ProbeStateDocument
<1>5. CASE AcquireFresh(p)
  BY <1>5 DEF AcquireFresh, Acquire
<1>6. CASE AcquireExisting(p)
  BY <1>6 DEF AcquireExisting, Acquire
<1>7. CASE RefuseBusy(p)
  BY <1>7, LeaveType DEF RefuseBusy
<1>8. CASE OpenSink(p)
  BY <1>8 DEF OpenSink
<1>9. CASE RefuseOpen(p)
  BY <1>9, LeaveType DEF RefuseOpen
<1>10. CASE Release(p)
  BY <1>10, LeaveType DEF Release
<1>11. CASE \E d \in Dispatches : Dispatch(p, d) \/ Commit(p, d)
  BY <1>11, CommitType
<1>12. CASE Die(p)
  BY <1>12, LeaveType DEF Die
<1>13. QED
  BY <1>1, <1>2, <1>3, <1>4, <1>5, <1>6, <1>7, <1>8, <1>9, <1>10, <1>11,
     <1>12 DEF Step

LEMMA PowerLossType ==
  ASSUME TypeOK, PowerLoss
  PROVE  TypeOK'
BY DocumentFacts DEF TypeOK, PowerLoss, Stages

\* The document, the lock and the sinks of every command keep their types.
THEOREM TypeCorrect == Spec => []TypeOK
<1>1. Init => TypeOK
  BY DocumentFacts DEF Init, TypeOK, Stages
<1>2. TypeOK /\ [Next]_vars => TypeOK'
  <2>1. TypeOK /\ UNCHANGED vars => TypeOK'
    BY DEF TypeOK, vars
  <2>2. QED
    BY <2>1, CommandType, PowerLossType DEF Next
<1>3. QED
  BY <1>1, <1>2, PTL DEF Spec

-----------------------------------------------------------------------------
(* The inductive invariant: the lock and the sinks under it.               *)

\* Only the holder is past the lock.  A state document lies in a run root, and
\* nobody is past the preflight without one.  As long as a fresh runner has its
\* claim and not yet its lock there is no document, and therefore nobody who
\* could compete for the lock.
LockInv ==
    /\ \A p \in Commands : pc[p] \in Holding <=> holder = p
    /\ \A p \in Commands : pc[p] \in {"claimed", "verified", "probed"} \union Holding => root
    /\ survivors # {Absent} => root
    /\ visible \in survivors
    /\ \A p \in Commands : pc[p] = "probed" => visible # Absent
    /\ \A p \in Commands : pc[p] = "claimed" =>
          /\ visible = Absent
          /\ survivors = {Absent}
          /\ holder = NoCommand
          /\ \A q \in Commands \ {p} : pc[q] # "claimed"

\* Dispatches run in their order and one at a time; the running one extends the
\* snapshot of its sink; and the snapshot is the document, or the document is
\* the candidate that has just been renamed over it.
Started(p, d) == op[p][d] \notin {"uncalled", "queued"}

SinkInv ==
    /\ \A p \in Commands : pc[p] # "running" => op[p] = NoDispatch /\ current[p] = Absent
    /\ \A p \in Commands, d, e \in Dispatches :
          Started(p, d) /\ e < d => op[p][e] \in Settled
    /\ \A p \in Commands, d \in Dispatches :
          op[p][d] \in InFlight => candidate[p][d] = Append(current[p], <<p, d>>)
    /\ \A p \in Commands, d \in Dispatches :
          op[p][d] = "renamed" => visible = candidate[p][d]
    /\ \A p \in Commands :
          pc[p] = "running" /\ (\A d \in Dispatches : op[p][d] # "renamed")
             => current[p] = visible

Inv == TypeOK /\ LockInv /\ SinkInv

LEMMA InvInit == Init => Inv
<1>. SUFFICES ASSUME Init PROVE Inv
  OBVIOUS
<1>1. TypeOK
  BY DocumentFacts DEF Init, TypeOK, Stages
<1>2. LockInv
  BY NoCommandAssumption DEF Init, LockInv, Holding
<1>3. SinkInv
  BY DEF Init, SinkInv, Started, NoDispatch, InFlight
<1>4. QED
  BY <1>1, <1>2, <1>3 DEF Inv

\* A dispatch that is under way belongs to the command that holds the lock, and
\* it is the only one.
LEMMA OneInFlight ==
  ASSUME Inv, NEW p \in Commands, NEW d \in Dispatches, op[p][d] # "uncalled"
  PROVE  /\ pc[p] = "running"
         /\ holder = p
         /\ \A q \in Commands \ {p} : pc[q] \notin Holding /\ op[q] = NoDispatch
         /\ \A q \in Commands : pc[q] # "claimed"
         /\ op[p][d] \in InFlight =>
               \A e \in Dispatches \ {d} : op[p][e] \notin InFlight
<1>1. pc[p] = "running"
  BY DEF Inv, SinkInv, NoDispatch
<1>2. holder = p
  BY <1>1 DEF Inv, LockInv, Holding
<1>3. \A q \in Commands \ {p} : pc[q] \notin Holding /\ op[q] = NoDispatch
  BY <1>2 DEF Inv, LockInv, SinkInv, Holding
<1>4. \A q \in Commands : pc[q] # "claimed"
  BY <1>2, NoCommandAssumption DEF Inv, LockInv
<1>5. ASSUME op[p][d] \in InFlight, NEW e \in Dispatches \ {d}, op[p][e] \in InFlight
      PROVE  FALSE
  <2>1. Started(p, d) /\ Started(p, e)
    BY <1>5 DEF Started, InFlight
  <2>2. d < e \/ e < d
    BY <1>5, MaxDispatchesAssumption DEF Dispatches
  <2>3. op[p][d] \in Settled \/ op[p][e] \in Settled
    BY <2>1, <2>2, <1>5 DEF Inv, SinkInv
  <2>4. QED
    BY <1>5, <2>3 DEF Settled, InFlight
<1>6. QED
  BY <1>1, <1>2, <1>3, <1>4, <1>5

LEMMA LeaveInv ==
  ASSUME Inv, NEW p \in Commands, NEW stage \in {"over", "dead"}, Leave(p, stage)
  PROVE  LockInv' /\ SinkInv'
<1>1. LockInv'
  BY NoCommandAssumption DEF Inv, TypeOK, LockInv, Leave, Goto, Holding, files
<1>2. SinkInv'
  BY DEF Inv, TypeOK, SinkInv, Leave, Goto, files, Started, NoDispatch, InFlight
<1>3. QED
  BY <1>1, <1>2

LEMMA PowerLossInv ==
  ASSUME Inv, PowerLoss
  PROVE  LockInv' /\ SinkInv'
<1>1. \A p \in Commands : pc'[p] \in {"idle", "over", "dead"}
  BY DEF PowerLoss
<1>2. LockInv'
  BY <1>1, NoCommandAssumption DEF Inv, TypeOK, LockInv, PowerLoss, Holding
<1>3. SinkInv'
  BY <1>1 DEF Inv, TypeOK, SinkInv, PowerLoss, Started, NoDispatch, InFlight
<1>4. QED
  BY <1>2, <1>3

\* The steps of a command up to its sink, which no dispatch of its has begun.
LEMMA PreflightInv ==
  ASSUME Inv, NEW p \in Commands,
         \/ ClaimRunRoot(p) \/ VerifyRunRoot(p) \/ ProbeStateDocument(p)
         \/ AcquireFresh(p) \/ AcquireExisting(p) \/ OpenSink(p)
  PROVE  LockInv' /\ SinkInv'
<1>. USE DEF Goto, files, sinks
<1>1. UNCHANGED <<visible, survivors, op, candidate>> /\ pc' \in [Commands -> Stages]
  BY DEF Inv, TypeOK, ClaimRunRoot, VerifyRunRoot, ProbeStateDocument,
         AcquireFresh, AcquireExisting, Acquire, OpenSink, Stages
<1>2. LockInv'
  <2>1. CASE ClaimRunRoot(p)
    BY <2>1, NoCommandAssumption DEF Inv, TypeOK, LockInv, ClaimRunRoot, Holding
  <2>2. CASE VerifyRunRoot(p)
    BY <2>2 DEF Inv, TypeOK, LockInv, VerifyRunRoot, Holding
  <2>3. CASE ProbeStateDocument(p)
    BY <2>3 DEF Inv, TypeOK, LockInv, ProbeStateDocument, Holding
  <2>4. CASE AcquireFresh(p)
    BY <2>4, NoCommandAssumption
       DEF Inv, TypeOK, LockInv, AcquireFresh, Acquire, Holding
  <2>5. CASE AcquireExisting(p)
    BY <2>5, NoCommandAssumption
       DEF Inv, TypeOK, LockInv, AcquireExisting, Acquire, Holding
  <2>6. CASE OpenSink(p)
    BY <2>6 DEF Inv, TypeOK, LockInv, OpenSink, Holding
  <2>7. QED
    BY <2>1, <2>2, <2>3, <2>4, <2>5, <2>6
<1>3. pc[p] # "running" /\ op[p] = NoDispatch /\ current[p] = Absent
  BY DEF Inv, SinkInv, ClaimRunRoot, VerifyRunRoot, ProbeStateDocument,
         AcquireFresh, AcquireExisting, OpenSink
<1>4. \A q \in Commands \ {p} : pc'[q] = pc[q] /\ current'[q] = current[q]
  BY DEF Inv, TypeOK, ClaimRunRoot, VerifyRunRoot, ProbeStateDocument,
         AcquireFresh, AcquireExisting, Acquire, OpenSink
<1>5. IF pc'[p] = "running" THEN current'[p] = visible ELSE current'[p] = Absent
  BY <1>3 DEF Inv, TypeOK, LockInv, ClaimRunRoot, VerifyRunRoot, ProbeStateDocument,
              AcquireFresh, AcquireExisting, Acquire, OpenSink
<1>6. SinkInv'
  <2>1. \A q \in Commands : pc'[q] # "running" => op'[q] = NoDispatch /\ current'[q] = Absent
    BY <1>1, <1>3, <1>4, <1>5 DEF Inv, SinkInv
  <2>2. \A q \in Commands, d, e \in Dispatches :
          Started(q, d)' /\ e < d => op'[q][e] \in Settled
    BY <1>1 DEF Inv, SinkInv, Started
  <2>3. \A q \in Commands, d \in Dispatches :
          op'[q][d] \in InFlight => candidate'[q][d] = Append(current'[q], <<q, d>>)
    BY SMTT(20), <1>1, <1>3, <1>4 DEF Inv, SinkInv, NoDispatch, InFlight
  <2>4. \A q \in Commands, d \in Dispatches :
          op'[q][d] = "renamed" => visible' = candidate'[q][d]
    BY <1>1 DEF Inv, SinkInv
  <2>5. \A q \in Commands :
          pc'[q] = "running" /\ (\A d \in Dispatches : op'[q][d] # "renamed")
             => current'[q] = visible'
    BY <1>1, <1>3, <1>4, <1>5 DEF Inv, SinkInv
  <2>6. QED
    BY <2>1, <2>2, <2>3, <2>4, <2>5 DEF SinkInv
<1>7. QED
  BY <1>2, <1>6

\* A step of one dispatch: its phase moves, it may have gained a candidate, and
\* the document and the snapshot of its sink still fit together.
LEMMA DispatchFrame ==
  ASSUME Inv, NEW p \in Commands, NEW d \in Dispatches, NEW phase \in Phases,
         pc[p] = "running", Phase(p, d, phase), UNCHANGED <<pc, holder, root>>,
         visible' \in survivors', visible' = visible \/ visible' # Absent,
         \A e \in Dispatches : phase \notin {"uncalled", "queued"} /\ e < d => op[p][e] \in Settled,
         Started(p, d) => phase \in Settled \/ op[p][d] \in InFlight,
         \A e \in Dispatches : Started(p, e) /\ d < e => phase \in Settled,
         current' \in [Commands -> Documents],
         \A q \in Commands \ {p} : current'[q] = current[q],
         \A q \in Commands, e \in Dispatches :
            q # p \/ e # d => candidate'[q][e] = candidate[q][e],
         \A e \in Dispatches \ {d} : op[p][e] \in InFlight => current'[p] = current[p],
         phase \in InFlight => candidate'[p][d] = Append(current'[p], <<p, d>>),
         phase = "renamed" => visible' = candidate'[p][d],
         phase # "renamed" /\ (\A e \in Dispatches \ {d} : op[p][e] # "renamed")
            => current'[p] = visible',
         \A e \in Dispatches \ {d} : op[p][e] = "renamed" => visible' = visible
  PROVE  LockInv' /\ SinkInv'
<1>1. LockInv'
  BY NoCommandAssumption DEF Inv, LockInv, Holding
<1>2. \A q \in Commands, e \in Dispatches :
         op'[q][e] = IF q = p /\ e = d THEN phase ELSE op[q][e]
  BY DEF Inv, TypeOK, Phase
<1>3. \A q \in Commands \ {p} : pc[q] # "running" /\ op'[q] = NoDispatch
  <2>1. holder = p
    BY DEF Inv, LockInv, Holding
  <2>2. \A q \in Commands \ {p} : pc[q] # "running"
    BY <2>1 DEF Inv, LockInv, Holding
  <2>3. QED
    BY <2>2 DEF Inv, TypeOK, SinkInv, Phase
<1>4. \A q \in Commands : pc'[q] # "running" => op'[q] = NoDispatch /\ current'[q] = Absent
  BY <1>3 DEF Inv, SinkInv
<1>5. \A q \in Commands, a, e \in Dispatches :
        Started(q, a)' /\ e < a => op'[q][e] \in Settled
  <2>1. SUFFICES ASSUME NEW a \in Dispatches, NEW e \in Dispatches,
                        Started(p, a)', e < a
                 PROVE  op'[p][e] \in Settled
    BY <1>3 DEF Started, NoDispatch
  <2>2. CASE a = d
    BY <1>2, <2>1, <2>2, MaxDispatchesAssumption DEF Started, Dispatches
  <2>3. CASE a # d /\ e = d
    BY <1>2, <2>1, <2>3 DEF Started
  <2>4. CASE a # d /\ e # d
    BY <1>2, <2>1, <2>4 DEF Started, Inv, SinkInv
  <2>5. QED
    BY <2>2, <2>3, <2>4
<1>6. \A q \in Commands, e \in Dispatches :
        op'[q][e] \in InFlight => candidate'[q][e] = Append(current'[q], <<q, e>>)
  <2>1. SUFFICES ASSUME NEW e \in Dispatches, op'[p][e] \in InFlight
                 PROVE  candidate'[p][e] = Append(current'[p], <<p, e>>)
    BY <1>3 DEF NoDispatch, InFlight
  <2>2. CASE e = d
    BY <1>2, <2>1, <2>2
  <2>3. CASE e # d
    <3>1. op[p][e] \in InFlight /\ current'[p] = current[p] /\ candidate'[p][e] = candidate[p][e]
      BY <1>2, <2>1, <2>3
    <3>2. QED
      BY <3>1 DEF Inv, SinkInv
  <2>4. QED
    BY <2>2, <2>3
<1>7. \A q \in Commands, e \in Dispatches :
        op'[q][e] = "renamed" => visible' = candidate'[q][e]
  BY <1>2, <1>3 DEF Inv, SinkInv, NoDispatch
<1>8. \A q \in Commands :
        pc'[q] = "running" /\ (\A e \in Dispatches : op'[q][e] # "renamed")
           => current'[q] = visible'
  BY <1>2, <1>3
<1>9. SinkInv'
  BY <1>4, <1>5, <1>6, <1>7, <1>8 DEF SinkInv
<1>10. QED
  BY <1>1, <1>9

\* What the steps of a dispatch have in common.
LEMMA AtHeadFacts ==
  ASSUME Inv, NEW p \in Commands, NEW d \in Dispatches,
         AtHead(p, d) \/ op[p][d] \in InFlight
  PROVE  /\ pc[p] = "running"
         /\ \A e \in Dispatches : e < d => op[p][e] \in Settled
         /\ \A e \in Dispatches : d < e => ~Started(p, e)
         /\ \A e \in Dispatches \ {d} : op[p][e] \notin InFlight
<1>1. pc[p] = "running"
  BY OneInFlight DEF AtHead, InFlight
<1>2. \A e \in Dispatches : e < d => op[p][e] \in Settled
  <2>1. CASE AtHead(p, d)
    BY <2>1, MaxDispatchesAssumption DEF AtHead, Dispatches
  <2>2. CASE op[p][d] \in InFlight
    BY <2>2 DEF Inv, SinkInv, Started, InFlight
  <2>3. QED
    BY <2>1, <2>2
<1>3. \A e \in Dispatches : d < e => ~Started(p, e)
  BY DEF Inv, SinkInv, AtHead, InFlight, Settled
<1>4. \A e \in Dispatches \ {d} : e < d \/ d < e
  BY MaxDispatchesAssumption DEF Dispatches
<1>5. QED
  BY <1>1, <1>2, <1>3, <1>4 DEF Started, InFlight, Settled

\* The steps that only move the phase of their dispatch.
LEMMA QuietInv ==
  ASSUME Inv, NEW p \in Commands, NEW d \in Dispatches,
         \/ Dispatch(p, d) \/ RunWithoutWrite(p, d) \/ CheckAbsent(p, d)
         \/ CheckRevision(p, d) \/ WriteTemp(p, d) \/ SyncTemp(p, d)
         \/ FailBeforeRename(p, d)
  PROVE  LockInv' /\ SinkInv'
<1>1. UNCHANGED <<root, visible, survivors, holder, pc, current, candidate>>
  BY DEF Dispatch, RunWithoutWrite, CheckAbsent, CheckRevision, WriteTemp, SyncTemp,
         FailBeforeRename, files
<1>2. CASE Dispatch(p, d)
  <2>1. pc[p] = "running" /\ Phase(p, d, "queued") /\ op[p][d] = "uncalled"
    BY <1>2 DEF Dispatch
  <2>2. \A e \in Dispatches : d < e => ~Started(p, e)
    BY <2>1 DEF Inv, SinkInv, Settled
  <2>3. "queued" \in Phases /\ "queued" \notin InFlight /\ ~Started(p, d)
    BY <2>1 DEF Phases, InFlight, Started
  <2>4. (\A e \in Dispatches \ {d} : op[p][e] # "renamed") => current[p] = visible
    BY <2>1 DEF Inv, SinkInv
  <2>5. QED
    BY <1>1, <2>1, <2>2, <2>3, <2>4, DispatchFrame DEF Inv, TypeOK, LockInv
<1>3. ASSUME NEW phase \in (InFlight \ {"renamed", "check", "create"}) \union Settled,
             Phase(p, d, phase),
             AtHead(p, d) \/ op[p][d] \in InFlight \ {"renamed"},
             AtHead(p, d) => phase \in Settled
      PROVE  LockInv' /\ SinkInv'
  <2>1. /\ phase \in Phases /\ phase \notin {"uncalled", "queued", "renamed"}
        /\ phase \in InFlight => op[p][d] \in InFlight
    BY <1>3 DEF Phases, InFlight, Settled, AtHead
  <2>2. op[p][d] # "renamed" /\ (Started(p, d) => op[p][d] \in InFlight)
    BY <1>3 DEF AtHead, Started, InFlight
  <2>3. current[p] = visible
    BY <2>2, <1>3, AtHeadFacts DEF Inv, SinkInv, InFlight
  <2>4. /\ pc[p] = "running"
        /\ \A e \in Dispatches : e < d => op[p][e] \in Settled
        /\ \A e \in Dispatches : d < e => ~Started(p, e)
    BY <1>3, AtHeadFacts
  <2>5. phase \in InFlight => candidate[p][d] = Append(current[p], <<p, d>>)
    BY <2>1 DEF Inv, SinkInv
  <2>6. QED
    BY <1>1, <1>3, <2>1, <2>2, <2>3, <2>4, <2>5, DispatchFrame
       DEF Inv, TypeOK, LockInv
<1>4. CASE RunWithoutWrite(p, d)
  BY <1>3, <1>4 DEF RunWithoutWrite, Settled
<1>5. CASE CheckAbsent(p, d)
  BY <1>3, <1>5 DEF CheckAbsent, InFlight, AtHead
<1>6. CASE CheckRevision(p, d)
  BY <1>3, <1>6 DEF CheckRevision, InFlight, AtHead
<1>7. CASE WriteTemp(p, d)
  BY <1>3, <1>7 DEF WriteTemp, InFlight, AtHead
<1>8. CASE SyncTemp(p, d)
  BY <1>3, <1>8 DEF SyncTemp, InFlight, AtHead
<1>9. CASE FailBeforeRename(p, d)
  BY <1>3, <1>9 DEF FailBeforeRename, InFlight, Settled, AtHead
<1>10. QED
  BY <1>2, <1>4, <1>5, <1>6, <1>7, <1>8, <1>9

LEMMA RunReducerInv ==
  ASSUME Inv, NEW p \in Commands, NEW d \in Dispatches, RunReducer(p, d)
  PROVE  LockInv' /\ SinkInv'
<1>. DEFINE phase == IF current[p] = Absent THEN "create" ELSE "check"
<1>1. /\ phase \in Phases /\ phase \in InFlight /\ phase # "renamed"
      /\ Phase(p, d, phase) /\ AtHead(p, d)
      /\ UNCHANGED <<root, visible, survivors, holder, pc, current>>
  BY DEF RunReducer, Phases, InFlight, files
<1>. HIDE DEF phase
<1>2. /\ pc[p] = "running"
      /\ \A e \in Dispatches : e < d => op[p][e] \in Settled
      /\ \A e \in Dispatches : d < e => ~Started(p, e)
      /\ \A e \in Dispatches \ {d} : op[p][e] # "renamed"
  BY <1>1, AtHeadFacts DEF InFlight
<1>3. op[p][d] = "queued" /\ ~Started(p, d) /\ current[p] = visible
  BY <1>1, <1>2 DEF AtHead, Started, Inv, SinkInv
<1>4. /\ candidate'[p][d] = Append(current[p], <<p, d>>)
      /\ \A q \in Commands, e \in Dispatches :
            q # p \/ e # d => candidate'[q][e] = candidate[q][e]
  BY DEF RunReducer, Inv, TypeOK
<1>5. QED
  BY <1>1, <1>2, <1>3, <1>4, DispatchFrame DEF Inv, TypeOK, LockInv

LEMMA RenameInv ==
  ASSUME Inv, NEW p \in Commands, NEW d \in Dispatches, Rename(p, d)
  PROVE  /\ LockInv' /\ SinkInv'
         /\ visible' = Append(visible, <<p, d>>)
         /\ survivors' = survivors \union {visible'}
<1>1. /\ op[p][d] = "synced" /\ Phase(p, d, "renamed")
      /\ UNCHANGED <<root, holder, pc, current, candidate>>
      /\ visible' = candidate[p][d]
      /\ survivors' = survivors \union {visible'}
      /\ op[p][d] \in InFlight /\ "renamed" \in Phases /\ "renamed" \in InFlight
      /\ "renamed" \notin {"uncalled", "queued"}
  BY DEF Rename, Content, InFlight, Phases
<1>2. /\ pc[p] = "running"
      /\ \A e \in Dispatches : e < d => op[p][e] \in Settled
      /\ \A e \in Dispatches : d < e => ~Started(p, e)
      /\ \A e \in Dispatches \ {d} : op[p][e] # "renamed"
  BY <1>1, AtHeadFacts DEF InFlight
<1>3. current[p] = visible /\ candidate[p][d] = Append(visible, <<p, d>>)
  BY <1>1, <1>2 DEF Inv, SinkInv
<1>4. visible' # Absent
  BY <1>1, <1>3, DocumentFacts DEF Inv, TypeOK, Absent
<1>5. QED
  BY <1>1, <1>2, <1>3, <1>4, DispatchFrame DEF Inv, TypeOK

\* The two ways a rename settles: the sink adopts the candidate.
LEMMA AdoptInv ==
  ASSUME Inv, NEW p \in Commands, NEW d \in Dispatches,
         SyncDirectory(p, d) \/ FailAfterRename(p, d)
  PROVE  /\ LockInv' /\ SinkInv'
         /\ visible = candidate[p][d]
<1>1. PICK phase \in {"committed", "durability_unknown"} :
         /\ op[p][d] = "renamed" /\ Phase(p, d, phase)
         /\ UNCHANGED <<root, visible, holder, pc, candidate>>
         /\ current' = [current EXCEPT ![p] = candidate[p][d]]
         /\ survivors' \in {survivors, {visible}}
  BY DEF SyncDirectory, FailAfterRename, files
<1>2. /\ phase \in Phases /\ phase \in Settled /\ phase \notin InFlight
      /\ op[p][d] \in InFlight
  BY <1>1 DEF Phases, Settled, InFlight
<1>3. /\ pc[p] = "running"
      /\ \A e \in Dispatches : e < d => op[p][e] \in Settled
      /\ \A e \in Dispatches : d < e => ~Started(p, e)
      /\ \A e \in Dispatches \ {d} : op[p][e] \notin InFlight /\ op[p][e] # "renamed"
  BY <1>2, AtHeadFacts DEF InFlight
<1>4. visible = candidate[p][d]
  BY <1>1 DEF Inv, SinkInv
<1>5. /\ current'[p] = visible
      /\ \A q \in Commands \ {p} : current'[q] = current[q]
      /\ current' \in [Commands -> Documents]
  BY <1>1, <1>4 DEF Inv, TypeOK
<1>6. visible' \in survivors'
  BY <1>1 DEF Inv, LockInv
<1>7. QED
  BY <1>1, <1>2, <1>3, <1>4, <1>5, <1>6, DispatchFrame

\* Only a rename, a directory fsync and a power loss touch the document.
LEMMA OtherwiseFilesStay ==
  ASSUME [Next]_vars
  PROVE  \/ UNCHANGED <<visible, survivors, acknowledged>>
         \/ PowerLoss
         \/ \E p \in Commands, d \in Dispatches : Rename(p, d) \/ SyncDirectory(p, d)
<1>1. ASSUME NEW p \in Commands, Step(p) \/ Die(p),
             ~\E d \in Dispatches : Rename(p, d) \/ SyncDirectory(p, d)
      PROVE  UNCHANGED <<visible, survivors, acknowledged>>
  BY <1>1 DEF Step, Die, ClaimRunRoot, VerifyRunRoot, RefusePreflight,
       ProbeStateDocument, AcquireFresh, AcquireExisting, Acquire, RefuseBusy,
       OpenSink, RefuseOpen, Release, Leave, Dispatch, Commit, RunWithoutWrite,
       RunReducer, CheckAbsent, CheckRevision, WriteTemp, SyncTemp,
       FailBeforeRename, FailAfterRename, files
<1>2. QED
  BY <1>1 DEF Next, vars

LEMMA InvNext == Inv /\ [Next]_vars => Inv'
<1> SUFFICES ASSUME Inv, [Next]_vars PROVE Inv'
  OBVIOUS
<1>1. ASSUME NEW p \in Commands, Step(p) \/ Die(p) PROVE Inv'
  <2>1. TypeOK'
    BY <1>1, CommandType DEF Inv
  <2>2. CASE \/ ClaimRunRoot(p) \/ VerifyRunRoot(p) \/ ProbeStateDocument(p)
             \/ AcquireFresh(p) \/ AcquireExisting(p) \/ OpenSink(p)
    BY <2>1, <2>2, PreflightInv DEF Inv
  <2>3. CASE RefusePreflight(p) \/ RefuseBusy(p) \/ RefuseOpen(p) \/ Release(p) \/ Die(p)
    BY <2>1, <2>3, LeaveInv
       DEF Inv, RefusePreflight, RefuseBusy, RefuseOpen, Release, Die
  <2>4. CASE \E d \in Dispatches : Dispatch(p, d) \/ Commit(p, d)
    BY <2>1, <2>4, QuietInv, RunReducerInv, RenameInv, AdoptInv DEF Inv, Commit
  <2>5. QED
    BY <1>1, <2>2, <2>3, <2>4 DEF Step
<1>2. CASE PowerLoss
  BY <1>2, PowerLossType, PowerLossInv DEF Inv
<1>3. CASE UNCHANGED vars
  BY <1>3 DEF Inv, TypeOK, LockInv, SinkInv, Started, vars
<1>4. QED
  BY <1>1, <1>2, <1>3 DEF Next

LEMMA InvAlways == Spec => []Inv
<1>1. Init => Inv
  BY InvInit
<1>2. Inv /\ [Next]_vars => Inv'
  BY InvNext
<1>3. QED
  BY <1>1, <1>2, PTL DEF Spec

\* A fresh runner that has claimed its run root finds the lock free.
THEOREM FreshNeverBusyAlways == Spec => []FreshNeverBusy
<1>1. Inv => FreshNeverBusy
  BY DEF Inv, LockInv, FreshNeverBusy
<1>2. QED
  BY <1>1, InvAlways, PTL

\* Between two dispatches the snapshot of the lock's holder is the document on
\* disk, whatever its dispatches ended in.
THEOREM SinkMirrorsAlways == Spec => []SinkMirrorsDocument
<1>1. Inv => SinkMirrorsDocument
  BY DEF Inv, SinkInv, SinkMirrorsDocument, InFlight
<1>2. QED
  BY <1>1, InvAlways, PTL

\* No crash at any point of the commit protocol leaves a part of a document.
THEOREM NeverTornAlways == Spec => []NeverTorn
<1>1. Init => NeverTorn
  BY DocumentFacts DEF Init, NeverTorn
<1>2. Inv /\ NeverTorn /\ [Next]_vars => NeverTorn'
  <2> SUFFICES ASSUME Inv, NeverTorn, [Next]_vars PROVE NeverTorn'
    OBVIOUS
  <2>1. CASE UNCHANGED <<visible, survivors>>
    BY <2>1 DEF NeverTorn
  <2>2. ASSUME NEW p \in Commands, NEW d \in Dispatches, Rename(p, d)
        PROVE  NeverTorn'
    <3>1. Append(visible, <<p, d>>) \in Documents
      BY DocumentFacts DEF Inv, TypeOK, NeverTorn
    <3>2. QED
      BY <2>2, <3>1, RenameInv, DocumentFacts DEF NeverTorn
  <2>3. ASSUME NEW p \in Commands, NEW d \in Dispatches, SyncDirectory(p, d)
        PROVE  NeverTorn'
    BY <2>3 DEF SyncDirectory, NeverTorn
  <2>4. CASE PowerLoss
    BY <2>4, DocumentFacts DEF PowerLoss, NeverTorn
  <2>5. QED
    BY <2>1, <2>2, <2>3, <2>4, OtherwiseFilesStay
<1>3. QED
  BY <1>1, <1>2, InvAlways, PTL DEF Spec

\* The document can be trusted by who reads it, through every failure, death and
\* power loss, for any number of commands.
THEOREM DocumentSafeAlways == Spec => []DocumentSafe
<1>1. TypeOK /\ FreshNeverBusy /\ SinkMirrorsDocument /\ NeverTorn => DocumentSafe
  BY DEF DocumentSafe
<1>2. QED
  BY <1>1, TypeCorrect, FreshNeverBusyAlways, SinkMirrorsAlways, NeverTornAlways, PTL

\* Whatever the commands do to the file, each writes over the very document it
\* has read.
THEOREM NoLostUpdateAlways == Spec => NoLostUpdate
<1>1. Inv /\ [Next]_vars =>
        (visible' # visible /\ (\E p \in Commands : pc'[p] = "running") =>
           /\ Len(visible') = Len(visible) + 1
           /\ IsPrefix(visible, visible'))
  <2> SUFFICES ASSUME Inv, [Next]_vars, visible' # visible,
                      NEW q \in Commands, pc'[q] = "running"
               PROVE  Len(visible') = Len(visible) + 1 /\ IsPrefix(visible, visible')
    OBVIOUS
  <2>1. ~PowerLoss
    BY DEF PowerLoss
  <2>2. PICK p \in Commands, d \in Dispatches : Rename(p, d)
    BY <2>1, OtherwiseFilesStay DEF SyncDirectory
  <2>3. visible \in Documents /\ visible' = Append(visible, <<p, d>>)
    <3>1. op[p][d] \in InFlight /\ op[p][d] # "renamed"
      BY <2>2 DEF Rename, InFlight
    <3>2. current[p] = visible
      BY <3>1, AtHeadFacts DEF Inv, SinkInv, InFlight
    <3>3. QED
      BY <2>2, <3>2, RenameInv DEF Inv, TypeOK
  <2>4. IsPrefix(visible, visible)
    BY <2>3, PrefixIff DEF Documents
  <2>5. QED
    BY <2>3, <2>4, AppendPrefix, DocumentFacts, <<p, d>> \in Commands \X Dispatches
       DEF Documents
<1>2. QED
  BY <1>1, InvAlways, PTL DEF Spec, NoLostUpdate

-----------------------------------------------------------------------------
(* The document implements the log, where the entry of a new directory      *)
(* persists with the directory.                                             *)

\* Everything a power loss may leave lies between the confirmed document and
\* the visible one.
Between ==
    /\ IsPrefix(acknowledged, visible)
    /\ \A s \in survivors :
          s \in Documents /\ IsPrefix(acknowledged, s) /\ IsPrefix(s, visible)

LEMMA ReflexivePrefix ==
  ASSUME NEW s \in Documents
  PROVE  IsPrefix(s, s)
BY PrefixIff DEF Documents

LEMMA BetweenInit == Init => Between
BY DocumentFacts, ReflexivePrefix DEF Init, Between

LEMMA BetweenRename ==
  ASSUME Inv, Between, NeverTorn, NEW p \in Commands, NEW d \in Dispatches, Rename(p, d)
  PROVE  Between' /\ visible \in Documents
<1>1. <<p, d>> \in Commands \X Dispatches /\ visible \in Documents
  BY DEF Inv, TypeOK, NeverTorn
<1>2. /\ visible' = Append(visible, <<p, d>>)
      /\ survivors' = survivors \union {visible'}
      /\ acknowledged' = acknowledged
  BY RenameInv DEF Rename
<1>3. acknowledged \in Documents /\ visible' \in Documents
  BY <1>1, <1>2, DocumentFacts DEF Inv, TypeOK
<1>4. \A s \in Documents : IsPrefix(s, visible) => IsPrefix(s, visible')
  BY <1>1, <1>2, AppendPrefix DEF Documents
<1>5. QED
  BY <1>1, <1>2, <1>3, <1>4, ReflexivePrefix DEF Between

LEMMA BetweenNext ==
  ASSUME EntryPersists
  PROVE  Inv /\ NeverTorn /\ Between /\ [Next]_vars => Between'
<1> SUFFICES ASSUME Inv, NeverTorn, Between, [Next]_vars PROVE Between'
  OBVIOUS
<1>1. visible \in Documents
  BY DEF Inv, TypeOK, NeverTorn
<1>2. CASE UNCHANGED <<visible, survivors, acknowledged>>
  BY <1>2 DEF Between
<1>3. ASSUME NEW p \in Commands, NEW d \in Dispatches, SyncDirectory(p, d)
      PROVE  Between'
  <2>1. acknowledged' = visible /\ survivors' = {visible} /\ visible' = visible
    BY <1>3, AdoptInv DEF SyncDirectory
  <2>2. QED
    BY <2>1, <1>1, ReflexivePrefix DEF Between
<1>4. CASE PowerLoss
  <2>1. visible' \in survivors /\ survivors' = {visible'} /\ acknowledged' = acknowledged
    BY <1>4 DEF PowerLoss
  <2>2. QED
    BY <2>1, ReflexivePrefix DEF Between
<1>5. QED
  BY <1>2, <1>3, <1>4, BetweenRename, OtherwiseFilesStay

LEMMA BetweenAlways ==
  ASSUME EntryPersists
  PROVE  Spec => []Between
<1>1. Init => Between
  BY BetweenInit
<1>2. Inv /\ NeverTorn /\ Between /\ [Next]_vars => Between'
  BY BetweenNext
<1>3. QED
  BY <1>1, <1>2, InvAlways, NeverTornAlways, PTL DEF Spec

\* A confirmed commit is in every later document.
THEOREM AcknowledgedSurvivesAlways ==
  ASSUME EntryPersists
  PROVE  Spec => []AcknowledgedSurvives
<1>1. Between => AcknowledgedSurvives
  BY DEF Between, AcknowledgedSurvives
<1>2. QED
  BY <1>1, BetweenAlways, PTL

\* A proper prefix of the log is what a loss leaves.
LEMMA PrefixIsSubSeq ==
  ASSUME NEW s \in Documents, NEW t \in Documents, NEW a \in Documents,
         IsPrefix(a, s), IsPrefix(s, t)
  PROVE  \E n \in Len(a)..Len(t) : s = SubSeq(t, 1, n)
<1>1. /\ Len(s) <= Len(t) /\ Len(a) <= Len(s)
      /\ \A i \in 1..Len(s) : s[i] = t[i]
  BY PrefixIff DEF Documents
<1>2. Len(s) \in Len(a)..Len(t)
  BY <1>1 DEF Documents
<1>3. SubSeq(t, 1, Len(s)) = [i \in 1..Len(s) |-> t[i]]
  BY <1>1 DEF Documents
<1>4. s = [i \in 1..Len(s) |-> s[i]]
  BY DEF Documents
<1>5. QED
  BY <1>1, <1>2, <1>3, <1>4

\* All commands together, with every failure, death and power loss, behave like
\* one log that loses unconfirmed entries only.
THEOREM DocumentImplementsLog ==
  ASSUME EntryPersists
  PROVE  Spec => ImplementsLog
<1>1. Init => Log!Init
  BY DEF Init, Log!Init, Absent
<1>2. Inv /\ NeverTorn /\ Between /\ [Next]_vars => [Log!Next]_<<visible, acknowledged>>
  <2> SUFFICES ASSUME Inv, NeverTorn, Between, [Next]_vars
               PROVE  Log!Next \/ UNCHANGED <<visible, acknowledged>>
    OBVIOUS
  <2>1. ASSUME NEW p \in Commands, NEW d \in Dispatches, Rename(p, d)
        PROVE  Log!Write
    <3>1. visible' = Append(visible, <<p, d>>) /\ acknowledged' = acknowledged
      BY <2>1, RenameInv DEF Rename
    <3>2. <<p, d>> \in Commands \X Dispatches
      OBVIOUS
    <3>3. QED
      BY <3>1, <3>2 DEF Log!Write
  <2>2. ASSUME NEW p \in Commands, NEW d \in Dispatches, SyncDirectory(p, d)
        PROVE  Log!Confirm
    BY <2>2, AdoptInv DEF SyncDirectory, Log!Confirm
  <2>3. CASE PowerLoss
    <3>1. visible' \in survivors /\ acknowledged' = acknowledged
      BY <2>3 DEF PowerLoss
    <3>2. visible \in Documents /\ acknowledged \in Documents
      BY DEF Inv, TypeOK, NeverTorn
    <3>3. \E n \in Len(acknowledged)..Len(visible) : visible' = SubSeq(visible, 1, n)
      BY <3>1, <3>2, PrefixIsSubSeq DEF Between
    <3>4. QED
      BY <3>1, <3>3 DEF Log!Lose, Log!Next
  <2>4. QED
    BY <2>1, <2>2, <2>3, OtherwiseFilesStay DEF Log!Next
<1>3. QED
  BY <1>1, <1>2, InvAlways, NeverTornAlways, BetweenAlways, PTL
     DEF Spec, ImplementsLog, Log!Spec
-----------------------------------------------------------------------------
(* What a dispatch told its caller.                                        *)

\* A sink that lost track has nothing under way.
PoisonInv ==
    \A p \in Commands, d \in Dispatches : poisoned[p] => op[p][d] \notin InFlight

LEMMA PoisonCommit ==
  ASSUME Inv, PoisonInv, NEW p \in Commands, NEW d \in Dispatches,
         Dispatch(p, d) \/ Commit(p, d)
  PROVE  PoisonInv'
<1>. SUFFICES ASSUME NEW q \in Commands, NEW e \in Dispatches, poisoned'[q]
              PROVE  op'[q][e] \notin InFlight
  BY DEF PoisonInv
<1>. USE DEF Phase, InFlight
<1>0. op \in [Commands -> [Dispatches -> Phases]] /\ poisoned \in [Commands -> BOOLEAN]
  BY DEF Inv, TypeOK
<1>1. CASE Dispatch(p, d)
  BY <1>0, <1>1 DEF Dispatch, PoisonInv
<1>2. CASE RunWithoutWrite(p, d)
  BY <1>0, <1>2 DEF RunWithoutWrite, PoisonInv
<1>3. CASE RunReducer(p, d)
  BY <1>0, <1>3 DEF RunReducer, PoisonInv
<1>4. CASE CheckAbsent(p, d) \/ CheckRevision(p, d) \/ WriteTemp(p, d) \/ SyncTemp(p, d)
           \/ Rename(p, d)
  BY <1>0, <1>4 DEF CheckAbsent, CheckRevision, WriteTemp, SyncTemp, Rename, PoisonInv
<1>5. CASE SyncDirectory(p, d) \/ FailBeforeRename(p, d)
  BY <1>0, <1>5 DEF SyncDirectory, FailBeforeRename, PoisonInv
<1>6. CASE FailAfterRename(p, d)
  <2>1. op[p][d] = "renamed" /\ \A x \in Dispatches \ {d} : op[p][x] \notin InFlight
    BY <1>6, OneInFlight DEF FailAfterRename
  <2>2. QED
    BY <1>0, <1>6, <2>1 DEF FailAfterRename, PoisonInv
<1>7. QED
  BY <1>1, <1>2, <1>3, <1>4, <1>5, <1>6 DEF Commit

LEMMA PoisonNext == Inv /\ PoisonInv /\ [Next]_vars => PoisonInv'
<1>. SUFFICES ASSUME Inv, PoisonInv, [Next]_vars PROVE PoisonInv'
  OBVIOUS
<1>0. op \in [Commands -> [Dispatches -> Phases]] /\ poisoned \in [Commands -> BOOLEAN]
  BY DEF Inv, TypeOK
<1>1. ASSUME NEW p \in Commands, NEW stage \in Stages, Leave(p, stage)
      PROVE  PoisonInv'
  BY <1>0, <1>1 DEF Leave, PoisonInv, NoDispatch, InFlight
<1>2. ASSUME NEW p \in Commands, UNCHANGED <<op, poisoned>>
      PROVE  PoisonInv'
  BY <1>2 DEF PoisonInv
<1>3. ASSUME NEW p \in Commands, Step(p) \/ Die(p)
      PROVE  PoisonInv'
  <2>1. CASE \E d \in Dispatches : Dispatch(p, d) \/ Commit(p, d)
    BY <2>1, PoisonCommit
  <2>2. CASE RefusePreflight(p) \/ RefuseBusy(p) \/ RefuseOpen(p) \/ Release(p) \/ Die(p)
    BY <2>2, <1>1 DEF RefusePreflight, RefuseBusy, RefuseOpen, Release, Die, Stages
  <2>3. CASE ClaimRunRoot(p) \/ VerifyRunRoot(p) \/ ProbeStateDocument(p)
             \/ AcquireFresh(p) \/ AcquireExisting(p) \/ OpenSink(p)
    BY <2>3, <1>2 DEF ClaimRunRoot, VerifyRunRoot, ProbeStateDocument, AcquireFresh,
         AcquireExisting, Acquire, OpenSink, sinks
  <2>4. QED
    BY <1>3, <2>1, <2>2, <2>3 DEF Step
<1>4. CASE PowerLoss
  BY <1>4 DEF PowerLoss, PoisonInv
<1>5. CASE UNCHANGED vars
  BY <1>5 DEF vars, sinks, PoisonInv
<1>6. QED
  BY <1>3, <1>4, <1>5 DEF Next

LEMMA PoisonAlways == Spec => []PoisonInv
<1>1. Init => PoisonInv
  BY DEF Init, PoisonInv
<1>2. QED
  BY <1>1, PoisonNext, InvAlways, PTL DEF Spec

\* A sink that was told durability_unknown leaves the document alone: nobody
\* writes while its command holds the lock.
THEOREM PoisonedSinkIsSilentAlways == Spec => PoisonedSinkIsSilent
<1>1. Inv /\ PoisonInv /\ [Next]_vars =>
        (\A p \in Commands : poisoned[p] /\ pc'[p] = "running" => visible' = visible)
  <2> SUFFICES ASSUME Inv, PoisonInv, [Next]_vars, NEW q \in Commands,
                      poisoned[q], pc'[q] = "running", visible' # visible
               PROVE  FALSE
    OBVIOUS
  <2>1. ~PowerLoss
    BY DEF PowerLoss
  <2>2. PICK p \in Commands, d \in Dispatches : Rename(p, d)
    BY <2>1, OtherwiseFilesStay DEF SyncDirectory
  <2>3. op[p][d] \in InFlight /\ op[p][d] # "uncalled" /\ pc' = pc
    BY <2>2 DEF Rename, InFlight
  <2>4. p = q
    BY <2>3, OneInFlight DEF Holding
  <2>5. QED
    BY <2>3, <2>4 DEF PoisonInv
<1>2. QED
  BY <1>1, InvAlways, PoisonAlways, PTL DEF Spec, PoisonedSinkIsSilent

-----------------------------------------------------------------------------
(* A dispatch that is on disk has passed its rename.                       *)

Renamed == {"renamed", "committed", "durability_unknown"}

\* The dispatch may be found on disk: its command is gone, or it was renamed.
MayBeFound(p, d) ==
    \/ pc[p] \in {"over", "dead"}
    \/ pc[p] = "running" /\ op[p][d] \in Renamed

TraceInv ==
    \A s \in {visible} \union survivors : \A i \in 1..Len(s) :
       \A p \in Commands, d \in Dispatches : s[i] = <<p, d>> => MayBeFound(p, d)

LEMMA CommandStaysFound ==
  ASSUME Inv, NEW p \in Commands, NEW d \in Dispatches, MayBeFound(p, d),
         NEW q \in Commands, Step(q) \/ Die(q)
  PROVE  MayBeFound(p, d)'
<1>0. /\ op \in [Commands -> [Dispatches -> Phases]]
      /\ pc \in [Commands -> Stages]
  BY DEF Inv, TypeOK
<1>1. ASSUME NEW stage \in {"over", "dead"}, Leave(q, stage)
      PROVE  MayBeFound(p, d)'
  <2>1. CASE p = q
    BY <1>0, <1>1, <2>1 DEF Leave, Goto, MayBeFound
  <2>2. CASE p # q
    BY <1>0, <1>1, <2>2 DEF Leave, Goto, MayBeFound
  <2>3. QED
    BY <2>1, <2>2
<1>2. CASE RefusePreflight(q) \/ RefuseBusy(q) \/ RefuseOpen(q) \/ Release(q) \/ Die(q)
  BY <1>1, <1>2 DEF RefusePreflight, RefuseBusy, RefuseOpen, Release, Die
<1>3. CASE ClaimRunRoot(q) \/ VerifyRunRoot(q) \/ ProbeStateDocument(q)
           \/ AcquireFresh(q) \/ AcquireExisting(q) \/ OpenSink(q)
  <2>1. pc[q] \notin {"over", "dead", "running"} /\ op' = op
        /\ \A r \in Commands \ {q} : pc'[r] = pc[r]
    BY <1>0, <1>3 DEF ClaimRunRoot, VerifyRunRoot, ProbeStateDocument,
         AcquireFresh, AcquireExisting, Acquire, OpenSink, sinks, Goto
  <2>2. QED
    BY <2>1 DEF MayBeFound
<1>4. ASSUME NEW e \in Dispatches, Dispatch(q, e) \/ Commit(q, e)
      PROVE  MayBeFound(p, d)'
  <2>1. PICK phase : /\ op' = [op EXCEPT ![q][e] = phase]
                     /\ pc' = pc
                     /\ op[q][e] \in Renamed => phase \in Renamed
    BY <1>4 DEF Dispatch, Commit, RunWithoutWrite, RunReducer, AtHead, CheckAbsent,
         CheckRevision, WriteTemp, SyncTemp, Rename, SyncDirectory,
         FailBeforeRename, FailAfterRename, Phase, Renamed
  <2>2. CASE p = q /\ d = e
    BY <1>0, <2>1, <2>2 DEF MayBeFound
  <2>3. CASE ~(p = q /\ d = e)
    BY <1>0, <2>1, <2>3 DEF MayBeFound
  <2>4. QED
    BY <2>2, <2>3
<1>5. QED
  BY <1>2, <1>3, <1>4 DEF Step

LEMMA StaysFound ==
  ASSUME Inv, [Next]_vars, NEW p \in Commands, NEW d \in Dispatches, MayBeFound(p, d)
  PROVE  MayBeFound(p, d)'
<1>1. CASE PowerLoss
  BY <1>1 DEF PowerLoss, MayBeFound
<1>2. CASE UNCHANGED vars
  BY <1>2 DEF vars, sinks, MayBeFound
<1>3. QED
  BY <1>1, <1>2, CommandStaysFound DEF Next

LEMMA TraceRename ==
  ASSUME Inv, NeverTorn, TraceInv, [Next]_vars,
         NEW p \in Commands, NEW d \in Dispatches, Rename(p, d)
  PROVE  TraceInv'
<1>1. visible \in Documents /\ <<p, d>> \in Commands \X Dispatches
  BY DEF Inv, TypeOK, NeverTorn
<1>2. visible' = Append(visible, <<p, d>>) /\ survivors' = survivors \union {visible'}
  BY RenameInv DEF Rename
<1>3. MayBeFound(p, d)'
  <2>1. op[p][d] # "uncalled" /\ pc' = pc /\ op' = [op EXCEPT ![p][d] = "renamed"]
    BY DEF Rename, Phase
  <2>2. op \in [Commands -> [Dispatches -> Phases]]
    BY DEF Inv, TypeOK
  <2>3. QED
    BY <2>1, <2>2, OneInFlight DEF MayBeFound, Renamed
<1>4. ASSUME NEW i \in 1..Len(visible'), NEW q \in Commands, NEW e \in Dispatches,
             visible'[i] = <<q, e>>
      PROVE  MayBeFound(q, e)'
  <2>1. CASE i = Len(visible) + 1
    BY <1>1, <1>2, <1>3, <1>4, <2>1 DEF Documents
  <2>2. CASE i # Len(visible) + 1
    <3>1. i \in 1..Len(visible) /\ visible[i] = <<q, e>>
      BY <1>1, <1>2, <1>4, <2>2 DEF Documents
    <3>2. QED
      BY <3>1, StaysFound DEF TraceInv
  <2>3. QED
    BY <2>1, <2>2
<1>5. ASSUME NEW s \in survivors, NEW i \in 1..Len(s), NEW q \in Commands,
             NEW e \in Dispatches, s[i] = <<q, e>>
      PROVE  MayBeFound(q, e)'
  BY <1>5, StaysFound DEF TraceInv
<1>6. QED
  BY <1>2, <1>4, <1>5 DEF TraceInv

LEMMA TraceNext == Inv /\ NeverTorn /\ TraceInv /\ [Next]_vars => TraceInv'
<1>. SUFFICES ASSUME Inv, NeverTorn, TraceInv, [Next]_vars PROVE TraceInv'
  OBVIOUS
<1>1. CASE \/ {visible'} \union survivors' \subseteq {visible} \union survivors
           \/ {visible'} \union survivors' = {Absent}
  <2>. SUFFICES ASSUME NEW s \in {visible'} \union survivors', NEW i \in 1..Len(s),
                       NEW p \in Commands, NEW d \in Dispatches, s[i] = <<p, d>>
                PROVE  MayBeFound(p, d)'
    BY DEF TraceInv
  <2>1. s # Absent
    BY DEF Absent
  <2>2. s \in {visible} \union survivors
    BY <1>1, <2>1
  <2>3. QED
    BY <2>2, StaysFound DEF TraceInv
<1>2. CASE PowerLoss
  BY <1>1, <1>2 DEF PowerLoss
<1>3. CASE \E p \in Commands, d \in Dispatches : SyncDirectory(p, d)
  BY <1>1, <1>3 DEF SyncDirectory
<1>4. CASE UNCHANGED <<visible, survivors>>
  BY <1>1, <1>4
<1>5. QED
  BY <1>2, <1>3, <1>4, TraceRename, OtherwiseFilesStay

\* What reported not_committed is nowhere on disk, whoever fails or dies.
THEOREM NotCommittedLeavesNoTraceAlways == Spec => []NotCommittedLeavesNoTrace
<1>1. Init => TraceInv
  BY DEF Init, TraceInv, Absent
<1>2. Inv /\ TraceInv => NotCommittedLeavesNoTrace
  <2>. SUFFICES ASSUME Inv, TraceInv, NEW p \in Commands, NEW d \in Dispatches,
                       op[p][d] = "not_committed"
                PROVE  ~MayBeFound(p, d)
    BY DEF TraceInv, NotCommittedLeavesNoTrace
  <2>1. pc[p] = "running"
    BY OneInFlight
  <2>2. QED
    BY <2>1 DEF MayBeFound, Renamed
<1>3. QED
  BY <1>1, <1>2, TraceNext, InvAlways, NeverTornAlways, PTL DEF Spec

=============================================================================
