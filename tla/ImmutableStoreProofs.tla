------------------------ MODULE ImmutableStoreProofs ------------------------
(***************************************************************************)
(* Theorems about the publication under one name, for any number of         *)
(* publishers, contents, calls and faults.                                 *)
(***************************************************************************)
EXTENDS ImmutableStore, TLAPS

\* Where a publisher holds a candidate, and where the name carries its content.
Writing == {"write", "sync_file", "link"}
Linked == {"unlink", "sync_directory", "read_back"}
\* The steps after the directory's own entry was synced.
InDirectory == {"inspect", "open", "adopt", "raced"} \cup Writing \cup Linked

\* The directory a call works in stays, as long as nobody withdrew it.
DirectoryInv ==
  /\ dir.durable => dir.made
  /\ ~withdrawn => \A p \in Publishers :
       /\ pc[p] \in {"chmod", "sync_parent"} => dir.made
       /\ pc[p] \in InDirectory => dir.durable

\* The candidate is the publisher's content, written and synced before the link.
CandidateInv ==
  \A p \in Publishers :
    /\ pc[p] \in Writing => temp[p] # Absent /\ temp[p].content = wants[p]
    /\ pc[p] \in {"sync_file", "link"} => temp[p].whole
    /\ pc[p] = "link" => temp[p].synced

\* The name and its entry.
NameInv ==
  /\ final # Absent => final.whole /\ final.synced
  /\ entry => final # Absent
  /\ entry /\ ~withdrawn => dir.durable
  /\ \A p \in Publishers :
       /\ pc[p] \in Linked => final # Absent /\ final.content = wants[p]
       /\ pc[p] = "read_back" => entry
  /\ told /\ ~withdrawn => entry

\* What a caller was told.
ToldInv ==
  \A p \in Publishers : outcome[p] = "published" /\ ~withdrawn =>
    entry /\ final.content = wants[p]

StoreInv == StoreTypeOK /\ DirectoryInv /\ CandidateInv /\ NameInv /\ ToldInv

-----------------------------------------------------------------------------
(* Type correctness.                                                       *)

\* What a step makes of the inode.
LEMMA RecordFacts ==
  /\ \A c \in Contents : [content |-> c, whole |-> FALSE, synced |-> FALSE] \in Inode
  /\ \A i \in Inode :
       /\ [i EXCEPT !.whole = TRUE] \in Inode
       /\ [i EXCEPT !.synced = TRUE] \in Inode
       /\ [i EXCEPT !.whole = i.synced /\ i.whole, !.synced = TRUE] \in Inode
  /\ Absent \notin Inode /\ Absent \notin Outcomes
<1>1. \A c \in Contents : [content |-> c, whole |-> FALSE, synced |-> FALSE] \in Inode
  BY Zenon DEF Inode
<1>2. ASSUME NEW i \in Inode
      PROVE  /\ [i EXCEPT !.whole = TRUE] \in Inode
             /\ [i EXCEPT !.synced = TRUE] \in Inode
  BY DEF Inode
<1>3. ASSUME NEW i \in Inode
      PROVE  [i EXCEPT !.whole = i.synced /\ i.whole, !.synced = TRUE] \in Inode
  BY DEF Inode
<1>4. Absent \notin Inode /\ Absent \notin Outcomes
  BY AbsentAssumption
<1>5. QED
  BY <1>1, <1>2, <1>3, <1>4

\* A power loss keeps the content, and all of it where it was synced.
LEMMA SurvivorFacts ==
  ASSUME NEW i \in Inode, NEW s \in Survivor(i)
  PROVE  /\ s \in Inode
         /\ s.content = i.content
         /\ i.whole /\ i.synced => s.whole /\ s.synced
<1>1. s = [i EXCEPT !.whole = i.synced /\ i.whole, !.synced = TRUE]
  BY DEF Survivor
<1>2. s \in Inode
  BY <1>1, RecordFacts
<1>3. s.content = i.content /\ s.whole = (i.synced /\ i.whole) /\ s.synced = TRUE
  BY <1>1 DEF Inode
<1>4. QED
  BY <1>2, <1>3

LEMMA DirectoryFacts ==
  \A a, b, c \in BOOLEAN : [made |-> a, ready |-> b, durable |-> c] \in [made : BOOLEAN, ready : BOOLEAN, durable : BOOLEAN]
  BY Zenon

LEMMA InitInv == Init => StoreInv
<1> SUFFICES ASSUME Init PROVE StoreInv
  OBVIOUS
<1>1. StoreTypeOK
  <2>1. dir \in [made : BOOLEAN, ready : BOOLEAN, durable : BOOLEAN]
    BY DirectoryFacts, Zenon DEF Init, NoDirectory
  <2>2. calls \in [Publishers -> 0..MaxCalls] /\ faults \in 0..MaxFaults
    BY BoundsAssumption DEF Init
  <2>3. QED
    BY <2>1, <2>2 DEF Init, StoreTypeOK, Steps
<1>2. DirectoryInv /\ CandidateInv /\ NameInv
  BY DEF Init, DirectoryInv, CandidateInv, NameInv, NoDirectory, Writing, Linked, InDirectory
<1>3. ToldInv
  BY RecordFacts DEF Init, ToldInv, Outcomes
<1>4. QED
  BY <1>1, <1>2, <1>3 DEF StoreInv

LEMMA TypeNext == StoreTypeOK /\ CandidateInv /\ [Next]_vars => StoreTypeOK'
<1> SUFFICES ASSUME StoreTypeOK, CandidateInv, [Next]_vars PROVE StoreTypeOK'
  OBVIOUS
<1> USE BoundsAssumption DEF StoreTypeOK, Kinds, Steps, Outcomes, names, At, Goto, Fault, Return
<1>1. ASSUME NEW p \in Publishers, Call(p) PROVE StoreTypeOK'
  BY <1>1 DEF Call
<1>2. ASSUME NEW p \in Publishers, InspectDirectory(p) PROVE StoreTypeOK'
  <2>1. dir' \in [made : BOOLEAN, ready : BOOLEAN, durable : BOOLEAN]
    <3>1. \/ \E r \in BOOLEAN : dir' = [made |-> TRUE, ready |-> r, durable |-> FALSE]
          \/ dir' = dir
      BY <1>2 DEF InspectDirectory
    <3>2. ASSUME NEW r \in BOOLEAN, dir' = [made |-> TRUE, ready |-> r, durable |-> FALSE]
          PROVE  dir' \in [made : BOOLEAN, ready : BOOLEAN, durable : BOOLEAN]
      BY <3>2, DirectoryFacts
    <3>3. QED
      BY <3>1, <3>2
  <2>2. QED
    BY <1>2, <2>1 DEF InspectDirectory
<1>3. ASSUME NEW p \in Publishers, ChmodDirectory(p) PROVE StoreTypeOK'
  BY RecordFacts, <1>3 DEF ChmodDirectory
<1>4. ASSUME NEW p \in Publishers, SyncParent(p) PROVE StoreTypeOK'
  BY RecordFacts, <1>4 DEF SyncParent, NextAfterDirectory
<1>5. ASSUME NEW p \in Publishers, OpenTemp(p) PROVE StoreTypeOK'
  <2>1. wants[p] \in Contents
    OBVIOUS
  <2>2. temp' \in [Publishers -> Inode \cup {Absent}]
    <3> DEFINE opened == [content |-> wants[p], whole |-> FALSE, synced |-> FALSE]
    <3>1. opened \in Inode
      BY <2>1, RecordFacts
    <3>2. temp' = temp \/ temp' = [temp EXCEPT ![p] = opened]
      BY <1>5 DEF OpenTemp
    <3> HIDE DEF opened
    <3>3. QED
      BY <3>1, <3>2
  <2>3. QED
    BY <1>5, <2>2 DEF OpenTemp
<1>6. ASSUME NEW p \in Publishers, WriteTemp(p) PROVE StoreTypeOK'
  BY ZenonT(30), RecordFacts, <1>6 DEF WriteTemp, CandidateInv, Writing
<1>7. ASSUME NEW p \in Publishers, SyncTemp(p) PROVE StoreTypeOK'
  BY RecordFacts, <1>7 DEF SyncTemp, CandidateInv, Writing
<1>8. ASSUME NEW p \in Publishers, DiscardBlob(p) PROVE StoreTypeOK'
  BY ZenonT(30), <1>8 DEF DiscardBlob, GiveUp, RemoveOwnedTemp
<1>9. ASSUME NEW p \in Publishers, Link(p) PROVE StoreTypeOK'
  BY ZenonT(30), <1>9 DEF Link, RemoveOwnedTemp
<1>10. ASSUME NEW p \in Publishers, Adopt(p) PROVE StoreTypeOK'
  BY <1>10 DEF Adopt
<1>11. ASSUME NEW p \in Publishers, AdoptBlob(p) PROVE StoreTypeOK'
  BY <1>11 DEF AdoptBlob
<1>12. ASSUME NEW p \in Publishers, UnlinkTemp(p) PROVE StoreTypeOK'
  BY <1>12 DEF UnlinkTemp
<1>13. ASSUME NEW p \in Publishers, SyncDirectory(p) PROVE StoreTypeOK'
  BY ZenonT(30), <1>13 DEF SyncDirectory, Tell
<1>14. ASSUME NEW p \in Publishers, InspectBinding(p) PROVE StoreTypeOK'
  BY <1>14 DEF InspectBinding
<1>15. ASSUME NEW p \in Publishers, LoadRaced(p) PROVE StoreTypeOK'
  BY <1>15 DEF LoadRaced
<1>16. ASSUME NEW p \in Publishers, ReadBack(p) PROVE StoreTypeOK'
  BY ZenonT(30), <1>16 DEF ReadBack, Tell
<1>17. ASSUME NEW p \in Publishers, ChmodFails(p) PROVE StoreTypeOK'
  <2>1. dir' \in [made : BOOLEAN, ready : BOOLEAN, durable : BOOLEAN] /\ withdrawn' \in BOOLEAN
    <3>1. \/ dir' = [made |-> FALSE, ready |-> FALSE, durable |-> FALSE] /\ withdrawn' = TRUE
          \/ dir' = dir /\ withdrawn' = withdrawn
      BY <1>17 DEF ChmodFails, NoDirectory
    <3>2. QED
      BY <3>1, DirectoryFacts, Zenon
  <2>2. QED
    BY <1>17, <2>1 DEF ChmodFails
<1>18. ASSUME NEW p \in Publishers, TempFails(p) PROVE StoreTypeOK'
  <2>1. litter' \in BOOLEAN
    BY <1>18, Zenon DEF TempFails, GiveUp, RemoveOwnedTemp
  <2>2. temp' \in [Publishers -> Inode \cup {Absent}] /\ dir' = dir /\ final' = final
    BY <1>18 DEF TempFails, GiveUp, RemoveOwnedTemp
  <2>3. pc' \in [Publishers -> Steps] /\ outcome' \in [Publishers -> Outcomes \cup {Absent}]
    BY ZenonT(30), <1>18 DEF TempFails, GiveUp, RemoveOwnedTemp
  <2>4. entry' = entry
    BY <1>18 DEF TempFails, GiveUp, RemoveOwnedTemp
  <2>5. QED
    BY <1>18, <2>1, <2>2, <2>3, <2>4 DEF TempFails
<1>19. ASSUME NEW p \in Publishers, LinkFails(p) PROVE StoreTypeOK'
  <2>1. litter' \in BOOLEAN
    BY <1>19, Zenon DEF LinkFails, GiveUp, RemoveOwnedTemp
  <2>2. QED
    BY <1>19, <2>1 DEF LinkFails, GiveUp, RemoveOwnedTemp
<1>20. ASSUME NEW p \in Publishers, AdoptFails(p) PROVE StoreTypeOK'
  BY <1>20 DEF AdoptFails
<1>21. ASSUME NEW p \in Publishers, AfterLinkFails(p) PROVE StoreTypeOK'
  <2>1. litter' \in BOOLEAN
    BY <1>21, Zenon DEF AfterLinkFails
  <2>2. QED
    BY <1>21, <2>1 DEF AfterLinkFails
<1>22. ASSUME NEW p \in Publishers, Die(p) PROVE StoreTypeOK'
  BY <1>22 DEF Die
<1>23. CASE PowerLoss
  <2>1. dir' \in [made : BOOLEAN, ready : BOOLEAN, durable : BOOLEAN] /\ litter' \in BOOLEAN /\ entry' \in BOOLEAN
    <3>1. \/ dir' = [made |-> FALSE, ready |-> FALSE, durable |-> FALSE]
          \/ dir' = dir
      BY <1>23, Zenon DEF PowerLoss, NoDirectory
    <3>2. dir' \in [made : BOOLEAN, ready : BOOLEAN, durable : BOOLEAN]
      BY <3>1, DirectoryFacts, Zenon
    <3>3. litter' \in BOOLEAN
      BY <1>23, Zenon DEF PowerLoss
    <3>4. entry' \in BOOLEAN
      BY <1>23, Zenon DEF PowerLoss
    <3>5. QED
      BY <3>2, <3>3, <3>4
  <2>2. final' \in Inode \cup {Absent}
    <3>1. CASE final' = Absent
      BY <3>1
    <3>2. CASE final # Absent /\ final' \in Survivor(final)
      <4>1. final \in Inode
        BY <3>2
      <4>2. QED
        BY <3>2, <4>1, SurvivorFacts
    <3>3. QED
      BY <1>23, <3>1, <3>2, Zenon DEF PowerLoss
  <2>3. QED
    BY <1>23, <2>1, <2>2 DEF PowerLoss
<1>24. CASE UNCHANGED vars
  BY <1>24 DEF vars
<1>25. QED
  BY <1>1, <1>2, <1>3, <1>4, <1>5, <1>6, <1>7, <1>8, <1>9, <1>10, <1>11, <1>12, <1>13, <1>14, <1>15, <1>16, <1>17, <1>18, <1>19, <1>20, <1>21, <1>22, <1>23, <1>24 DEF Next, Step, Trouble

-----------------------------------------------------------------------------
(* What a step of one publisher leaves alone.                              *)

Moves(p) == Call(p) \/ Step(p) \/ Trouble(p)

LEMMA StepFrame ==
  ASSUME StoreTypeOK, NEW p \in Publishers, Moves(p)
  PROVE  /\ wants' = wants
         /\ \A q \in Publishers \ {p} :
              pc'[q] = pc[q] /\ temp'[q] = temp[q] /\ outcome'[q] = outcome[q]
<1> USE DEF StoreTypeOK, names, At, Goto, Return
<1>1. CASE Call(p)
  BY <1>1 DEF Call
<1>2. CASE InspectDirectory(p)
  BY <1>2 DEF InspectDirectory
<1>3. CASE ChmodDirectory(p)
  BY <1>3 DEF ChmodDirectory
<1>4. CASE SyncParent(p)
  BY <1>4 DEF SyncParent, NextAfterDirectory
<1>5. CASE OpenTemp(p)
  BY <1>5 DEF OpenTemp
<1>6. CASE WriteTemp(p)
  BY <1>6 DEF WriteTemp
<1>7. CASE SyncTemp(p)
  BY <1>7 DEF SyncTemp
<1>8. CASE DiscardBlob(p)
  BY <1>8 DEF DiscardBlob, GiveUp, RemoveOwnedTemp
<1>9. CASE Link(p)
  BY <1>9 DEF Link, RemoveOwnedTemp
<1>10. CASE Adopt(p)
  BY <1>10 DEF Adopt, StoredIs
<1>11. CASE AdoptBlob(p)
  BY <1>11 DEF AdoptBlob, StoredIs
<1>12. CASE UnlinkTemp(p)
  BY <1>12 DEF UnlinkTemp
<1>13. CASE SyncDirectory(p)
  BY <1>13 DEF SyncDirectory, Tell
<1>14. CASE InspectBinding(p)
  BY <1>14 DEF InspectBinding, StoredIs
<1>15. CASE LoadRaced(p)
  BY <1>15 DEF LoadRaced, StoredIs
<1>16. CASE ReadBack(p)
  BY <1>16 DEF ReadBack, Tell, StoredIs
<1>17. CASE ChmodFails(p)
  BY <1>17 DEF ChmodFails, NoDirectory, DirectoryEmpty
<1>18. CASE TempFails(p)
  BY <1>18 DEF TempFails, GiveUp, RemoveOwnedTemp
<1>19. CASE LinkFails(p)
  BY <1>19 DEF LinkFails, GiveUp, RemoveOwnedTemp
<1>20. CASE AdoptFails(p)
  BY <1>20 DEF AdoptFails
<1>21. CASE AfterLinkFails(p)
  BY <1>21 DEF AfterLinkFails
<1>22. CASE Die(p)
  BY <1>22 DEF Die
<1>23. QED
  BY <1>1, <1>2, <1>3, <1>4, <1>5, <1>6, <1>7, <1>8, <1>9, <1>10, <1>11, <1>12, <1>13, <1>14, <1>15, <1>16, <1>17, <1>18, <1>19, <1>20, <1>21, <1>22 DEF Moves, Step, Trouble

\* Most steps leave the name, its directory and the history alone.
LEMMA QuietFrame ==
  ASSUME NEW p \in Publishers, Moves(p),
         ~InspectDirectory(p), ~ChmodDirectory(p), ~ChmodFails(p), ~SyncParent(p),
         ~Link(p), ~SyncDirectory(p), ~ReadBack(p)
  PROVE  UNCHANGED <<dir, final, entry, told, withdrawn>>
<1> USE DEF names, At, Goto, Return
<1>1. CASE Call(p)
  BY <1>1 DEF Call
<1>2. CASE OpenTemp(p)
  BY <1>2 DEF OpenTemp
<1>3. CASE WriteTemp(p)
  BY <1>3 DEF WriteTemp
<1>4. CASE SyncTemp(p)
  BY <1>4 DEF SyncTemp
<1>5. CASE DiscardBlob(p)
  BY <1>5 DEF DiscardBlob, GiveUp, RemoveOwnedTemp
<1>6. CASE Adopt(p)
  BY <1>6 DEF Adopt, StoredIs
<1>7. CASE AdoptBlob(p)
  BY <1>7 DEF AdoptBlob, StoredIs
<1>8. CASE UnlinkTemp(p)
  BY <1>8 DEF UnlinkTemp
<1>9. CASE InspectBinding(p)
  BY <1>9 DEF InspectBinding, StoredIs
<1>10. CASE LoadRaced(p)
  BY <1>10 DEF LoadRaced, StoredIs
<1>11. CASE TempFails(p)
  BY <1>11 DEF TempFails, GiveUp, RemoveOwnedTemp
<1>12. CASE LinkFails(p)
  BY <1>12 DEF LinkFails, GiveUp, RemoveOwnedTemp
<1>13. CASE AdoptFails(p)
  BY <1>13 DEF AdoptFails
<1>14. CASE AfterLinkFails(p)
  BY <1>14 DEF AfterLinkFails
<1>15. CASE Die(p)
  BY <1>15 DEF Die
<1>16. QED
  BY <1>1, <1>2, <1>3, <1>4, <1>5, <1>6, <1>7, <1>8, <1>9, <1>10, <1>11, <1>12, <1>13, <1>14, <1>15 DEF Moves, Step, Trouble

LEMMA PowerLossFacts ==
  ASSUME StoreTypeOK, PowerLoss
  PROVE  /\ wants' = wants /\ outcome' = outcome /\ told' = told /\ withdrawn' = withdrawn
         /\ \A p \in Publishers : pc'[p] = "idle"
         /\ \/ dir' = dir
            \/ ~dir.durable /\ ~dir'.made /\ ~dir'.durable
         /\ \/ final' = Absent /\ entry' = FALSE /\ (~entry \/ ~dir'.made)
            \/ /\ final # Absent /\ final' # Absent /\ entry' = entry
               /\ dir'.made
               /\ final'.content = final.content
               /\ final.whole /\ final.synced => final'.whole /\ final'.synced
<1>1. /\ wants' = wants /\ outcome' = outcome /\ told' = told /\ withdrawn' = withdrawn
      /\ \A p \in Publishers : pc'[p] = "idle"
  BY DEF PowerLoss
<1>2. \/ dir' = dir
      \/ ~dir.durable /\ ~dir'.made /\ ~dir'.durable
  BY DEF PowerLoss, NoDirectory
<1>3. CASE final # Absent /\ dir'.made /\ final' \in Survivor(final) /\ entry' = entry
  <2>1. final \in Inode
    BY <1>3 DEF StoreTypeOK
  <2>2. QED
    BY <1>1, <1>2, <1>3, <2>1, SurvivorFacts, RecordFacts
<1>4. CASE final' = Absent /\ entry' = FALSE /\ (~entry \/ ~dir'.made)
  BY <1>1, <1>2, <1>4
<1>5. QED
  BY <1>3, <1>4, Zenon DEF PowerLoss

-----------------------------------------------------------------------------
(* The directory.                                                          *)

LEMMA DirectoryNext == StoreInv /\ [Next]_vars => DirectoryInv'
<1> SUFFICES ASSUME StoreInv, [Next]_vars PROVE DirectoryInv'
  OBVIOUS
<1>0. StoreTypeOK /\ DirectoryInv /\ NameInv
  BY DEF StoreInv
<1> USE <1>0 DEF names, At, Goto, Return, DirectoryInv, Writing, Linked, InDirectory, StoreTypeOK
<1>1. ASSUME NEW p \in Publishers, Moves(p) PROVE DirectoryInv'
  <2>1. \A q \in Publishers \ {p} : pc'[q] = pc[q]
    BY <1>1, StepFrame
  <2>2. CASE InspectDirectory(p)
    <3>1. /\ \/ dir' = dir /\ dir.made
             \/ ~dir.made /\ dir'.made /\ ~dir'.durable
          /\ pc'[p] \in {"chmod", "sync_parent", "idle"} /\ withdrawn' = withdrawn
      BY <2>2 DEF InspectDirectory
    <3>2. QED
      BY <2>1, <3>1
  <2>3. CASE ChmodDirectory(p)
    BY <2>3 DEF ChmodDirectory
  <2>4. CASE SyncParent(p)
    BY <2>4 DEF SyncParent, NextAfterDirectory
  <2>5. CASE ChmodFails(p)
    <3>1. \/ withdrawn' /\ ~dir'.durable
          \/ withdrawn' = withdrawn /\ dir' = dir /\ pc'[p] = "idle"
      BY <2>5 DEF ChmodFails, NoDirectory
    <3>2. QED
      BY <2>1, <3>1
  <2>6. CASE Call(p)
    BY <2>6 DEF Call
  <2>7. CASE OpenTemp(p)
    BY <2>7 DEF OpenTemp
  <2>8. CASE WriteTemp(p)
    BY <2>8 DEF WriteTemp
  <2>9. CASE SyncTemp(p)
    BY <2>9 DEF SyncTemp
  <2>10. CASE DiscardBlob(p)
    BY <2>10 DEF DiscardBlob, GiveUp, RemoveOwnedTemp
  <2>11. CASE Link(p)
    BY <2>11 DEF Link, RemoveOwnedTemp
  <2>12. CASE Adopt(p)
    BY <2>12 DEF Adopt, StoredIs
  <2>13. CASE AdoptBlob(p)
    BY <2>13 DEF AdoptBlob, StoredIs
  <2>14. CASE UnlinkTemp(p)
    BY <2>14 DEF UnlinkTemp
  <2>15. CASE SyncDirectory(p)
    BY <2>15 DEF SyncDirectory, Tell
  <2>16. CASE InspectBinding(p)
    BY <2>16 DEF InspectBinding, StoredIs
  <2>17. CASE LoadRaced(p)
    BY <2>17 DEF LoadRaced, StoredIs
  <2>18. CASE ReadBack(p)
    BY <2>18 DEF ReadBack, Tell, StoredIs
  <2>19. CASE TempFails(p)
    <3>1. dir' = dir /\ withdrawn' = withdrawn /\ pc'[p] \in {"discard", "idle"}
      BY <2>19 DEF TempFails, GiveUp, RemoveOwnedTemp
    <3>2. QED
      BY <2>1, <3>1
  <2>20. CASE LinkFails(p)
    BY <2>20 DEF LinkFails, GiveUp, RemoveOwnedTemp
  <2>21. CASE AdoptFails(p)
    BY <2>21 DEF AdoptFails
  <2>22. CASE AfterLinkFails(p)
    BY <2>22 DEF AfterLinkFails
  <2>23. CASE Die(p)
    BY <2>23 DEF Die
  <2>24. QED
    BY <1>1, <2>2, <2>3, <2>4, <2>5, <2>6, <2>7, <2>8, <2>9, <2>10, <2>11, <2>12, <2>13, <2>14, <2>15, <2>16, <2>17, <2>18, <2>19, <2>20, <2>21, <2>22, <2>23 DEF Moves, Step, Trouble
<1>2. CASE PowerLoss
  BY <1>2, PowerLossFacts
<1>3. CASE UNCHANGED vars
  BY <1>3 DEF vars
<1>4. QED
  BY <1>1, <1>2, <1>3 DEF Next, Moves

-----------------------------------------------------------------------------
(* The candidates.                                                         *)

LEMMA CandidateNext == StoreInv /\ [Next]_vars => CandidateInv'
<1> SUFFICES ASSUME StoreInv, [Next]_vars PROVE CandidateInv'
  OBVIOUS
<1>0. StoreTypeOK /\ CandidateInv
  BY DEF StoreInv
<1> USE <1>0 DEF CandidateInv
<1>1. ASSUME NEW p \in Publishers, Moves(p) PROVE CandidateInv'
  <2> USE DEF names, At, Goto, Return, Writing, StoreTypeOK
  <2>1. /\ wants' = wants
        /\ \A q \in Publishers \ {p} : pc'[q] = pc[q] /\ temp'[q] = temp[q]
    BY <1>1, StepFrame
  <2>2. CASE pc'[p] \notin Writing
    BY <2>1, <2>2
  <2>3. CASE OpenTemp(p)
    <3>1. CASE dir.made
      <4> DEFINE opened == [content |-> wants[p], whole |-> FALSE, synced |-> FALSE]
      <4>1. wants[p] \in Contents
        OBVIOUS
      <4>2. opened # Absent /\ opened.content = wants[p]
        BY <4>1, RecordFacts
      <4>3. temp'[p] = opened /\ pc'[p] = "write"
        BY <2>3, <3>1 DEF OpenTemp
      <4> HIDE DEF opened
      <4>4. QED
        BY <2>1, <4>2, <4>3
    <3>2. QED
      BY <2>2, <2>3, <3>1 DEF OpenTemp
  <2>4. ASSUME NEW t, WriteTemp(p) \/ SyncTemp(p), t = temp[p] PROVE CandidateInv'
    <3>1. t \in Inode /\ t.content = wants[p] /\ (SyncTemp(p) => t.whole)
      BY <2>4 DEF WriteTemp, SyncTemp
    <3>2. /\ [t EXCEPT !.whole = TRUE] \in Inode /\ [t EXCEPT !.synced = TRUE] \in Inode
          /\ [t EXCEPT !.whole = TRUE].content = t.content
          /\ [t EXCEPT !.whole = TRUE].whole
          /\ [t EXCEPT !.synced = TRUE].content = t.content
          /\ [t EXCEPT !.synced = TRUE].whole = t.whole
          /\ [t EXCEPT !.synced = TRUE].synced
      BY <3>1, RecordFacts DEF Inode
    <3>3. CASE WriteTemp(p)
      <4>1. temp'[p] = [t EXCEPT !.whole = TRUE] /\ pc'[p] = "sync_file"
        BY <2>4, <3>3 DEF WriteTemp
      <4>2. temp'[p] # Absent /\ temp'[p].content = wants[p] /\ temp'[p].whole
        BY <3>1, <3>2, <4>1, RecordFacts, Zenon
      <4>3. QED
        BY ZenonT(30), <2>1, <4>1, <4>2
    <3>4. CASE SyncTemp(p)
      <4>1. temp'[p] = [t EXCEPT !.synced = TRUE] /\ pc'[p] = "link"
        BY <2>4, <3>4 DEF SyncTemp
      <4>2. /\ temp'[p] # Absent /\ temp'[p].content = wants[p]
            /\ temp'[p].whole /\ temp'[p].synced
        BY <3>1, <3>2, <3>4, <4>1, RecordFacts, Zenon
      <4>3. QED
        BY ZenonT(30), <2>1, <4>1, <4>2
    <3>5. QED
      BY <2>4, <3>3, <3>4
  <2>5. CASE ~OpenTemp(p) /\ ~WriteTemp(p) /\ ~SyncTemp(p)
    <3>1. CASE Call(p)
      BY <2>2, <3>1 DEF Call
    <3>2. CASE InspectDirectory(p)
      BY <2>2, <3>2 DEF InspectDirectory
    <3>3. CASE ChmodDirectory(p)
      BY <2>2, <3>3 DEF ChmodDirectory
    <3>4. CASE SyncParent(p)
      BY <2>2, <3>4 DEF SyncParent, NextAfterDirectory
    <3>5. CASE DiscardBlob(p)
      BY <2>2, <3>5 DEF DiscardBlob, GiveUp, RemoveOwnedTemp
    <3>6. CASE Link(p)
      BY <2>2, <3>6 DEF Link, RemoveOwnedTemp
    <3>7. CASE Adopt(p)
      BY <2>2, <3>7 DEF Adopt, StoredIs
    <3>8. CASE AdoptBlob(p)
      BY <2>2, <3>8 DEF AdoptBlob, StoredIs
    <3>9. CASE UnlinkTemp(p)
      BY <2>2, <3>9 DEF UnlinkTemp
    <3>10. CASE SyncDirectory(p)
      BY <2>2, <3>10 DEF SyncDirectory, Tell
    <3>11. CASE InspectBinding(p)
      BY <2>2, <3>11 DEF InspectBinding, StoredIs
    <3>12. CASE LoadRaced(p)
      BY <2>2, <3>12 DEF LoadRaced, StoredIs
    <3>13. CASE ReadBack(p)
      BY <2>2, <3>13 DEF ReadBack, Tell, StoredIs
    <3>14. CASE ChmodFails(p)
      BY <2>2, <3>14 DEF ChmodFails, NoDirectory, DirectoryEmpty
    <3>15. CASE TempFails(p)
      BY <2>2, <3>15 DEF TempFails, GiveUp, RemoveOwnedTemp
    <3>16. CASE LinkFails(p)
      BY <2>2, <3>16 DEF LinkFails, GiveUp, RemoveOwnedTemp
    <3>17. CASE AdoptFails(p)
      BY <2>2, <3>17 DEF AdoptFails
    <3>18. CASE AfterLinkFails(p)
      BY <2>2, <3>18 DEF AfterLinkFails
    <3>19. CASE Die(p)
      BY <2>2, <3>19 DEF Die
    <3>20. QED
      BY <1>1, <2>5, <3>1, <3>2, <3>3, <3>4, <3>5, <3>6, <3>7, <3>8, <3>9, <3>10, <3>11, <3>12, <3>13, <3>14, <3>15, <3>16, <3>17, <3>18, <3>19 DEF Moves, Step, Trouble
  <2>6. QED
    BY <2>3, <2>4, <2>5
<1>2. CASE PowerLoss
  BY <1>2, PowerLossFacts DEF Writing
<1>3. CASE UNCHANGED vars
  BY <1>3 DEF vars
<1>4. QED
  BY <1>1, <1>2, <1>3 DEF Next, Moves

-----------------------------------------------------------------------------
(* The name.                                                               *)

\* A step that leaves name and history alone, and whose publisher does not come
\* to the steps behind the link unless it found its content there.
LEMMA NameFrame ==
  ASSUME StoreTypeOK, NameInv, NEW p \in Publishers, Moves(p),
         UNCHANGED <<dir, final, entry, told, withdrawn>>,
         pc'[p] \in Linked \ {"read_back"} => final # Absent /\ final.content = wants[p],
         pc'[p] # "read_back"
  PROVE  NameInv'
<1>1. /\ wants' = wants
      /\ \A q \in Publishers \ {p} : pc'[q] = pc[q]
  BY StepFrame
<1>2. QED
  BY <1>1 DEF NameInv, Linked

LEMMA NameNext == StoreInv /\ [Next]_vars => NameInv'
<1> SUFFICES ASSUME StoreInv, [Next]_vars PROVE NameInv'
  OBVIOUS
<1>0. StoreTypeOK /\ DirectoryInv /\ CandidateInv /\ NameInv
  BY DEF StoreInv
<1> USE <1>0
<1>1. ASSUME NEW p \in Publishers, Moves(p) PROVE NameInv'
  <2>1. /\ wants' = wants
        /\ \A q \in Publishers \ {p} : pc'[q] = pc[q]
    BY <1>1, StepFrame
  <2>2. CASE InspectDirectory(p)
    <3>1. /\ \/ dir' = dir
             \/ ~dir.made
          /\ pc'[p] \notin Linked
          /\ UNCHANGED <<final, entry, told, withdrawn>>
      BY <2>2 DEF InspectDirectory, At, Goto, Return, Linked, StoreTypeOK
    <3>2. ~dir.made /\ entry => withdrawn
      BY DEF DirectoryInv, NameInv
    <3>3. QED
      BY <2>1, <3>1, <3>2 DEF NameInv, Linked
  <2>3. CASE ChmodDirectory(p) \/ SyncParent(p)
    <3>1. /\ dir.durable => dir'.durable
          /\ pc'[p] \notin Linked
          /\ UNCHANGED <<final, entry, told, withdrawn>>
      BY <2>3 DEF ChmodDirectory, SyncParent, NextAfterDirectory, At, Goto, Linked, StoreTypeOK
    <3>2. QED
      BY <2>1, <3>1 DEF NameInv, Linked
  <2>4. CASE ChmodFails(p)
    <3>1. /\ \/ dir' = dir /\ withdrawn' = withdrawn
             \/ final = Absent /\ withdrawn' = TRUE
          /\ pc'[p] \notin Linked
          /\ UNCHANGED <<final, entry, told>>
      BY <2>4 DEF ChmodFails, DirectoryEmpty, At, Return, Linked, StoreTypeOK
    <3>2. QED
      BY <2>1, <3>1 DEF NameInv, Linked
  <2>5. CASE Link(p)
    <3>1. CASE final = Absent
      <4>1. /\ final' = temp[p] /\ entry' = FALSE /\ pc'[p] = "unlink"
            /\ UNCHANGED <<dir, told, withdrawn>>
        BY <2>5, <3>1 DEF Link, At, Goto, StoreTypeOK
      <4>2. /\ temp[p] # Absent /\ temp[p].content = wants[p]
            /\ temp[p].whole /\ temp[p].synced
        BY <2>5 DEF Link, At, CandidateInv, Writing
      <4>3. ~entry /\ \A q \in Publishers : pc[q] \notin Linked
        BY <3>1 DEF NameInv
      <4>4. ~(told /\ ~withdrawn)
        BY <4>3 DEF NameInv
      <4>5. QED
        BY <2>1, <4>1, <4>2, <4>3, <4>4 DEF NameInv, Linked
    <3>2. CASE final # Absent
      BY <1>1, <2>5, <3>2, NameFrame DEF Link, At, Goto, StoreTypeOK, Linked
    <3>3. QED
      BY <3>1, <3>2
  <2>6. CASE SyncDirectory(p)
    <3>1. final # Absent /\ final.content = wants[p] /\ (~withdrawn => dir.durable)
      BY <2>6 DEF SyncDirectory, At, NameInv, DirectoryInv, Linked, InDirectory
    <3>2. /\ entry' = TRUE /\ UNCHANGED <<dir, final, withdrawn>>
      BY <2>6 DEF SyncDirectory
    <3>3. QED
      BY <2>1, <3>1, <3>2 DEF NameInv
  <2>7. CASE ReadBack(p)
    <3>1. /\ pc[p] = "read_back" /\ pc'[p] = "idle"
          /\ UNCHANGED <<dir, final, entry, withdrawn>>
      BY <2>7 DEF ReadBack, Tell, At, Return, names, StoreTypeOK
    <3>2. entry
      BY <3>1 DEF NameInv
    <3>3. QED
      BY <2>1, <3>1, <3>2 DEF NameInv, Linked
  <2>8. CASE Adopt(p) \/ AdoptBlob(p)
    <3>1. /\ pc'[p] \in Linked => StoredIs(wants[p])
          /\ pc'[p] # "read_back"
          /\ UNCHANGED <<dir, final, entry, told, withdrawn>>
      BY <2>8 DEF Adopt, AdoptBlob, At, Goto, Return, names, Linked, StoreTypeOK
    <3>2. QED
      BY <1>1, <3>1, NameFrame DEF StoredIs, Linked
  <2>9. ASSUME UNCHANGED <<dir, final, entry, told, withdrawn>>,
               pc'[p] \in Linked => pc'[p] = "sync_directory" /\ pc[p] = "unlink"
        PROVE  NameInv'
    BY <1>1, <2>9, NameFrame DEF NameInv, Linked
  <2>10. CASE Call(p)
    BY <2>9, <2>10 DEF Call, At, Goto, Return, names, Linked, StoreTypeOK
  <2>11. CASE OpenTemp(p)
    BY <2>9, <2>11 DEF OpenTemp, At, Goto, Return, names, Linked, StoreTypeOK
  <2>12. CASE WriteTemp(p)
    BY <2>9, <2>12 DEF WriteTemp, At, Goto, Return, names, Linked, StoreTypeOK
  <2>13. CASE SyncTemp(p)
    BY <2>9, <2>13 DEF SyncTemp, At, Goto, Return, names, Linked, StoreTypeOK
  <2>14. CASE DiscardBlob(p)
    BY <2>9, <2>14 DEF DiscardBlob, GiveUp, RemoveOwnedTemp, At, Goto, Return, names, Linked, StoreTypeOK
  <2>15. CASE UnlinkTemp(p)
    BY <2>9, <2>15 DEF UnlinkTemp, At, Goto, Return, names, Linked, StoreTypeOK
  <2>16. CASE InspectBinding(p)
    BY <2>9, <2>16 DEF InspectBinding, StoredIs, At, Goto, Return, names, Linked, StoreTypeOK
  <2>17. CASE LoadRaced(p)
    BY <2>9, <2>17 DEF LoadRaced, StoredIs, At, Goto, Return, names, Linked, StoreTypeOK
  <2>18. CASE TempFails(p)
    BY <2>9, <2>18 DEF TempFails, GiveUp, RemoveOwnedTemp, At, Goto, Return, names, Linked, StoreTypeOK
  <2>19. CASE LinkFails(p)
    BY <2>9, <2>19 DEF LinkFails, GiveUp, RemoveOwnedTemp, At, Goto, Return, names, Linked, StoreTypeOK
  <2>20. CASE AdoptFails(p)
    BY <2>9, <2>20 DEF AdoptFails, At, Goto, Return, names, Linked, StoreTypeOK
  <2>21. CASE AfterLinkFails(p)
    BY <2>9, <2>21 DEF AfterLinkFails, At, Goto, Return, names, Linked, StoreTypeOK
  <2>22. CASE Die(p)
    BY <2>9, <2>22 DEF Die, At, Goto, Return, names, Linked, StoreTypeOK
  <2>23. QED
    BY <1>1, <2>2, <2>3, <2>4, <2>5, <2>6, <2>7, <2>8, <2>10, <2>11, <2>12, <2>13, <2>14, <2>15, <2>16, <2>17, <2>18, <2>19, <2>20, <2>21, <2>22 DEF Moves, Step, Trouble
<1>2. CASE PowerLoss
  <2>1. entry /\ ~withdrawn => dir.durable /\ dir.made
    BY DEF NameInv, DirectoryInv
  <2>2. \A p \in Publishers : pc'[p] \notin Linked
    BY <1>2, PowerLossFacts DEF Linked
  <2>3. CASE final' = Absent /\ entry' = FALSE /\ (~entry \/ ~dir'.made)
    <3>1. ~(entry /\ ~withdrawn)
      BY <1>2, <2>1, <2>3, PowerLossFacts
    <3>2. QED
      BY <1>2, <2>2, <2>3, <3>1, PowerLossFacts DEF NameInv, Linked
  <2>4. CASE final # Absent /\ final' # Absent /\ entry' = entry
    <3>1. final'.whole /\ final'.synced
      BY <1>2, <2>4, PowerLossFacts DEF NameInv
    <3>2. QED
      BY <1>2, <2>1, <2>2, <2>4, <3>1, PowerLossFacts DEF NameInv, Linked
  <2>5. QED
    BY <1>2, <2>3, <2>4, PowerLossFacts
<1>3. CASE UNCHANGED vars
  BY <1>3 DEF vars, names, NameInv, Linked
<1>4. QED
  BY <1>1, <1>2, <1>3 DEF Next, Moves

-----------------------------------------------------------------------------
(* What the callers were told.                                             *)

\* A name that reached the disk keeps its content, unless its directory is withdrawn.
LEMMA EntryStays ==
  ASSUME StoreInv, [Next]_vars
  PROVE  /\ withdrawn => withdrawn'
         /\ entry /\ ~withdrawn' => entry' /\ final' # Absent /\ final'.content = final.content
<1>0. StoreTypeOK /\ DirectoryInv /\ NameInv
  BY DEF StoreInv
<1> USE <1>0
<1>1. ASSUME NEW p \in Publishers, Moves(p)
      PROVE  /\ withdrawn => withdrawn'
             /\ entry => entry' /\ final' = final
  <2>1. CASE InspectDirectory(p) \/ ChmodDirectory(p) \/ SyncParent(p) \/ ReadBack(p)
    BY <2>1 DEF InspectDirectory, ChmodDirectory, SyncParent, ReadBack, names
  <2>2. CASE ChmodFails(p)
    BY <2>2 DEF ChmodFails
  <2>3. CASE SyncDirectory(p)
    BY <2>3 DEF SyncDirectory
  <2>4. CASE Link(p)
    <3>1. entry => final # Absent
      BY DEF NameInv
    <3>2. QED
      BY <2>4, <3>1 DEF Link
  <2>5. QED
    BY <1>1, <2>1, <2>2, <2>3, <2>4, QuietFrame
<1>2. CASE PowerLoss
  <2>1. entry /\ ~withdrawn => dir.durable /\ dir.made
    BY DEF NameInv, DirectoryInv
  <2>2. CASE final' = Absent /\ entry' = FALSE /\ (~entry \/ ~dir'.made)
    <3>1. ~(entry /\ ~withdrawn)
      BY <1>2, <2>1, <2>2, PowerLossFacts
    <3>2. QED
      BY <1>2, <3>1, PowerLossFacts
  <2>3. CASE final # Absent /\ final' # Absent /\ entry' = entry /\ final'.content = final.content
    BY <1>2, <2>3, PowerLossFacts
  <2>4. QED
    BY <1>2, <2>2, <2>3, PowerLossFacts
<1>3. CASE UNCHANGED vars
  BY <1>3 DEF vars, names, NameInv
<1>4. ASSUME NEW p \in Publishers, Moves(p)
      PROVE  entry => final # Absent
  BY DEF NameInv
<1>5. QED
  BY <1>1, <1>2, <1>3, <1>4 DEF Next, Moves

\* Only the directory's fsync, and a claim's reading back, answer "published".
LEMMA OnlyTellPublishes ==
  ASSUME StoreTypeOK, NEW p \in Publishers, Moves(p), ~SyncDirectory(p), ~ReadBack(p)
  PROVE  told' = told /\ (outcome'[p] = "published" => outcome[p] = "published")
<1> USE RecordFacts DEF names, At, Goto, Return, Outcomes, StoreTypeOK
<1>1. CASE Call(p)
  BY <1>1 DEF Call
<1>2. CASE InspectDirectory(p)
  BY <1>2 DEF InspectDirectory
<1>3. CASE ChmodDirectory(p)
  BY <1>3 DEF ChmodDirectory
<1>4. CASE SyncParent(p)
  BY <1>4 DEF SyncParent, NextAfterDirectory
<1>5. CASE OpenTemp(p)
  BY <1>5 DEF OpenTemp
<1>6. CASE WriteTemp(p)
  BY <1>6 DEF WriteTemp
<1>7. CASE SyncTemp(p)
  BY <1>7 DEF SyncTemp
<1>8. CASE DiscardBlob(p)
  BY <1>8 DEF DiscardBlob, GiveUp, RemoveOwnedTemp
<1>9. CASE Link(p)
  BY <1>9 DEF Link, RemoveOwnedTemp
<1>10. CASE Adopt(p)
  BY <1>10 DEF Adopt, StoredIs
<1>11. CASE AdoptBlob(p)
  BY <1>11 DEF AdoptBlob, StoredIs
<1>12. CASE UnlinkTemp(p)
  BY <1>12 DEF UnlinkTemp
<1>13. CASE InspectBinding(p)
  BY <1>13 DEF InspectBinding, StoredIs
<1>14. CASE LoadRaced(p)
  BY <1>14 DEF LoadRaced, StoredIs
<1>15. CASE ChmodFails(p)
  BY <1>15 DEF ChmodFails, NoDirectory, DirectoryEmpty
<1>16. CASE TempFails(p)
  BY <1>16 DEF TempFails, GiveUp, RemoveOwnedTemp
<1>17. CASE LinkFails(p)
  BY <1>17 DEF LinkFails, GiveUp, RemoveOwnedTemp
<1>18. CASE AdoptFails(p)
  BY <1>18 DEF AdoptFails
<1>19. CASE AfterLinkFails(p)
  BY <1>19 DEF AfterLinkFails
<1>20. CASE Die(p)
  BY <1>20 DEF Die
<1>21. QED
  BY <1>1, <1>2, <1>3, <1>4, <1>5, <1>6, <1>7, <1>8, <1>9, <1>10, <1>11, <1>12, <1>13, <1>14, <1>15, <1>16, <1>17, <1>18, <1>19, <1>20 DEF Moves, Step, Trouble

\* Who is told, is told by a publisher whose content is there for good.
LEMMA TellFacts ==
  ASSUME StoreInv, NEW p \in Publishers, SyncDirectory(p) \/ ReadBack(p)
  PROVE  /\ final' = final /\ final # Absent /\ withdrawn' = withdrawn
         /\ entry' /\ final.content = wants[p] /\ wants' = wants
  BY DEF StoreInv, NameInv, Linked, SyncDirectory, ReadBack, At, names

LEMMA ToldNext == StoreInv /\ [Next]_vars => ToldInv'
<1> SUFFICES ASSUME StoreInv, [Next]_vars PROVE ToldInv'
  OBVIOUS
<1>0. StoreTypeOK /\ ToldInv
  BY DEF StoreInv
<1> USE <1>0
<1>1. ASSUME NEW p \in Publishers, Moves(p) PROVE ToldInv'
  <2>1. /\ wants' = wants
        /\ \A q \in Publishers \ {p} : outcome'[q] = outcome[q]
    BY <1>1, StepFrame
  <2>2. CASE ~SyncDirectory(p) /\ ~ReadBack(p)
    <3>1. \A q \in Publishers : outcome'[q] = "published" => outcome[q] = "published"
      BY <1>1, <2>1, <2>2, OnlyTellPublishes
    <3>2. QED
      BY <2>1, <3>1, EntryStays DEF ToldInv
  <2>3. CASE SyncDirectory(p) \/ ReadBack(p)
    BY <2>1, <2>3, TellFacts, EntryStays DEF ToldInv
  <2>4. QED
    BY <2>2, <2>3
<1>2. CASE PowerLoss
  BY <1>2, PowerLossFacts, EntryStays DEF ToldInv
<1>3. CASE UNCHANGED vars
  BY <1>3 DEF vars, names, ToldInv
<1>4. QED
  BY <1>1, <1>2, <1>3 DEF Next, Moves

LEMMA StoreInvAlways == Spec => []StoreInv
<1>1. StoreInv /\ [Next]_vars => StoreInv'
  <2>1. StoreInv => StoreTypeOK /\ CandidateInv
    BY DEF StoreInv
  <2>2. StoreInv /\ [Next]_vars => StoreTypeOK'
    BY <2>1, TypeNext
  <2>3. QED
    BY <2>2, DirectoryNext, CandidateNext, NameNext, ToldNext DEF StoreInv
<1>2. QED
  BY <1>1, InitInv, PTL DEF Spec

-----------------------------------------------------------------------------
(* The results.                                                            *)

\* publishImmutableDocumentFile, publishImmutableBlob and claimRunBinding: whatever
\* the race and the faults, a name shows a whole, synced content, and a caller that
\* was told "published" is right for as long as its directory was not withdrawn.
THEOREM StoreSafeAlways == Spec => []StoreSafe
<1>1. StoreInv => StoreSafe
  <2> SUFFICES ASSUME StoreInv PROVE StoreSafe
    OBVIOUS
  <2>0. StoreTypeOK /\ DirectoryInv /\ NameInv /\ ToldInv
    BY DEF StoreInv
  <2>1. FinalWhole
    <3>1. final # Absent => final \in Inode
      BY <2>0 DEF StoreTypeOK
    <3>2. QED
      BY <2>0, <3>1 DEF FinalWhole, Listing, NameInv, Inode
  <2>2. OutcomeHonest
    BY <2>0 DEF OutcomeHonest, ToldInv, NameInv
  <2>3. QED
    BY <2>0, <2>1, <2>2 DEF StoreSafe
<1>2. QED
  BY <1>1, StoreInvAlways, PTL

\* The same three: the name is a place that is filled once, and what somebody was
\* told is there outlives every failure, death and power loss.
THEOREM StoreImplementsWriteOnce == Spec => ImplementsWriteOnce
<1> DEFINE held == IF final = Absent THEN Absent ELSE final.content
           known == told /\ ~withdrawn
<1>1. Init => held = Absent /\ known = FALSE
  BY DEF Init
<1>2. StoreInv /\ [Next]_vars => [Place!Next]_<<held, known>>
  <2> SUFFICES ASSUME StoreInv, [Next]_vars
               PROVE  Place!Fill \/ Place!Tell \/ Place!Lose \/ UNCHANGED <<held, known>>
    BY DEF Place!Next
  <2>0. StoreTypeOK /\ DirectoryInv /\ CandidateInv /\ NameInv
    BY DEF StoreInv
  <2>1. final # Absent => final.content \in Contents /\ final.content # Absent
    BY <2>0, AbsentAssumption DEF StoreTypeOK, Inode
  <2>2. ASSUME NEW p \in Publishers, Moves(p)
        PROVE  Place!Fill \/ Place!Tell \/ Place!Lose \/ UNCHANGED <<held, known>>
    <3>1. CASE SyncDirectory(p) \/ ReadBack(p)
      <4>1. final' = final /\ final # Absent /\ withdrawn' = withdrawn
        BY <3>1, TellFacts
      <4>2. told' = told \/ told' = TRUE
        BY <3>1 DEF SyncDirectory, ReadBack, Tell
      <4>3. QED
        BY <2>1, <4>1, <4>2 DEF Place!Tell
    <3>2. CASE Link(p)
      <4>1. told' = told /\ withdrawn' = withdrawn
        BY <3>2 DEF Link
      <4>2. CASE final = Absent
        <5>1. final' = temp[p] /\ temp[p] \in Inode
          BY <2>0, <3>2, <4>2 DEF Link, At, CandidateInv, Writing, StoreTypeOK
        <5>2. final' # Absent /\ final'.content \in Contents
          <6>1. final' \in Inode
            BY <5>1
          <6>2. final' # Absent
            BY <6>1, RecordFacts
          <6>3. QED
            BY <6>1, <6>2 DEF Inode
        <5>3. QED
          BY <4>1, <4>2, <5>2 DEF Place!Fill
      <4>3. QED
        BY <3>2, <4>1, <4>2 DEF Link
    <3>3. CASE ChmodFails(p)
      <4>1. final' = final /\ told' = told
        BY <3>3 DEF ChmodFails
      <4>2. \/ withdrawn' = withdrawn
            \/ withdrawn' = TRUE /\ final = Absent
        BY <3>3 DEF ChmodFails, DirectoryEmpty
      <4>3. told /\ ~withdrawn => final # Absent
        BY <2>0 DEF NameInv
      <4>4. QED
        BY <4>1, <4>2, <4>3
    <3>4. CASE InspectDirectory(p) \/ ChmodDirectory(p) \/ SyncParent(p)
      BY <3>4 DEF InspectDirectory, ChmodDirectory, SyncParent
    <3>5. QED
      BY <2>2, <3>1, <3>2, <3>3, <3>4, QuietFrame
  <2>3. CASE PowerLoss
    <3>1. told' = told /\ withdrawn' = withdrawn
      BY <2>0, <2>3, PowerLossFacts
    <3>2. known => final' # Absent /\ final'.content = final.content
      BY <2>0, <3>1, EntryStays DEF NameInv
    <3>3. CASE final' = Absent
      BY <3>1, <3>2, <3>3 DEF Place!Lose
    <3>4. CASE final' # Absent
      BY <2>0, <2>3, <3>1, <3>4, PowerLossFacts
    <3>5. QED
      BY <3>3, <3>4
  <2>4. CASE UNCHANGED vars
    BY <2>4 DEF vars, names
  <2>5. QED
    BY <2>2, <2>3, <2>4 DEF Next, Moves
<1>3. QED
  BY <1>1, <1>2, StoreInvAlways, PTL DEF Spec, ImplementsWriteOnce, Place!Spec, Place!Init
=============================================================================
