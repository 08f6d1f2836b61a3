---------------------------- MODULE ImmutableStore ----------------------------
(***************************************************************************)
(* The publication of one immutable document under its final name          *)
(* (pipeline_v2_immutable_document_store_internal.ts), of one immutable    *)
(* blob (pipeline_v2_immutable_blob_internal.ts), and the claim of a run   *)
(* binding built on the first (control_plane/run_binding_store_internal.ts)*)
(* A publisher is a call in some process; several may race for the name,   *)
(* any file system call may fail, a process may die between two steps, and *)
(* the machine may lose power.                                             *)
(*                                                                         *)
(* A content is a model value; the inode behind a name carries how much of *)
(* it was written and whether it was synced.  A temp name is random (64    *)
(* bits), so a publisher's candidate is its own; what a dead publisher     *)
(* leaves behind only shows as a directory that is not empty.              *)
(***************************************************************************)
EXTENDS Naturals, FiniteSets

CONSTANTS
    Publishers,
    Contents,     \* what a publisher may want to stand under the name
    Absent,       \* no inode, no outcome
    MaxFaults,    \* bound: failing calls, deaths and power losses together
    MaxCalls      \* bound: calls one publisher makes

ASSUME BoundsAssumption == MaxFaults \in Nat /\ MaxCalls \in Nat \ {0}

VARIABLES
    kind,      \* which store it is; the three differ in the steps they take
    dir,       \* [made, ready, durable]: the store-owned directory
    litter,    \* an orphaned candidate lies in the directory
    final,     \* the inode under the final name
    entry,     \* the final name's directory entry reached the disk
    temp,      \* the candidate inode of each publisher
    wants,     \* the content of each publisher's current call
    pc,
    outcome,   \* how the publisher's last call ended
    calls,
    faults,
    told,      \* history: some caller was told the content is published
    withdrawn  \* history: a call took the directory it had made away again

names == <<dir, litter, final, entry>>
vars == <<kind, names, temp, wants, pc, outcome, calls, faults, told, withdrawn>>

Kinds == {"document", "blob", "binding"}
Inode == [content : Contents, whole : BOOLEAN, synced : BOOLEAN]
Outcomes == {"published", "existing", "conflict", "not_published",
             "durability_unknown"}
ASSUME AbsentAssumption == Absent \notin Contents \cup Inode \cup Outcomes

Steps == {"idle", "inspect", "directory", "chmod", "sync_parent", "open",
          "write", "sync_file", "discard", "link", "adopt", "raced", "unlink",
          "sync_directory", "read_back"}

StoreTypeOK ==
    /\ kind \in Kinds
    /\ dir \in [made : BOOLEAN, ready : BOOLEAN, durable : BOOLEAN]
    /\ litter \in BOOLEAN
    /\ final \in Inode \cup {Absent}
    /\ entry \in BOOLEAN
    /\ temp \in [Publishers -> Inode \cup {Absent}]
    /\ wants \in [Publishers -> Contents]
    /\ pc \in [Publishers -> Steps]
    /\ outcome \in [Publishers -> Outcomes \cup {Absent}]
    /\ calls \in [Publishers -> 0..MaxCalls]
    /\ faults \in 0..MaxFaults
    /\ told \in BOOLEAN
    /\ withdrawn \in BOOLEAN

NoDirectory == [made |-> FALSE, ready |-> FALSE, durable |-> FALSE]

Init ==
    /\ kind \in Kinds
    /\ dir = NoDirectory
    /\ litter = FALSE
    /\ final = Absent /\ entry = FALSE
    /\ temp = [p \in Publishers |-> Absent]
    /\ wants \in [Publishers -> Contents]
    /\ pc = [p \in Publishers |-> "idle"]
    /\ outcome = [p \in Publishers |-> Absent]
    /\ calls = [p \in Publishers |-> 0]
    /\ faults = 0
    /\ told = FALSE
    /\ withdrawn = FALSE

At(p, step) == pc[p] = step
Goto(p, step) == pc' = [pc EXCEPT ![p] = step] /\ UNCHANGED outcome
Fault == faults < MaxFaults /\ faults' = faults + 1

Return(p, how) ==
    /\ pc' = [pc EXCEPT ![p] = "idle"]
    /\ outcome' = [outcome EXCEPT ![p] = how]

\* removeOwnedTempFile: best effort, a failure leaves the candidate behind.
\* Random names and the inode check make it the publisher's own.
RemoveOwnedTemp(p) ==
    /\ temp' = [temp EXCEPT ![p] = Absent]
    /\ litter' \in {litter, TRUE}

\* publishImmutableDocumentFile before the link: the candidate goes and the
\* caller learns that nothing was published.
GiveUp(p) ==
    /\ RemoveOwnedTemp(p)
    /\ Return(p, "not_published")
    /\ UNCHANGED <<dir, final, entry>>

Call(p) ==
    /\ At(p, "idle") /\ calls[p] < MaxCalls
    /\ calls' = [calls EXCEPT ![p] = @ + 1]
    /\ pc' = [pc EXCEPT ![p] = "directory"]
    /\ outcome' = [outcome EXCEPT ![p] = Absent]
    /\ UNCHANGED <<kind, names, temp, wants, faults, told, withdrawn>>

-----------------------------------------------------------------------------
(* ensureImmutableDirectory.                                               *)

\* An existing directory has to have its mode already; a missing one is made,
\* and whether mkdir alone gives it the mode depends on where it is made.
InspectDirectory(p) ==
    /\ At(p, "directory")
    /\ IF ~dir.made
       THEN /\ \E ready \in BOOLEAN :
                   dir' = [made |-> TRUE, ready |-> ready, durable |-> FALSE]
            /\ Goto(p, "chmod")
       ELSE /\ UNCHANGED dir
            /\ IF dir.ready THEN Goto(p, "sync_parent")
                            ELSE Return(p, "not_published")
    /\ UNCHANGED <<kind, litter, final, entry, temp, wants, calls, faults, told, withdrawn>>

ChmodDirectory(p) ==
    /\ At(p, "chmod") /\ dir.made
    /\ dir' = [dir EXCEPT !.ready = TRUE]
    /\ Goto(p, "sync_parent")
    /\ UNCHANGED <<kind, litter, final, entry, temp, wants, calls, faults, told, withdrawn>>

DirectoryEmpty ==
    ~litter /\ final = Absent /\ \A q \in Publishers : temp[q] = Absent

\* removeOwnedEmptyDirectory: best effort, and rmdir takes an empty one only.
ChmodFails(p) ==
    /\ At(p, "chmod") /\ Fault
    /\ \/ DirectoryEmpty /\ dir' = NoDirectory /\ withdrawn' = TRUE
       \/ UNCHANGED <<dir, withdrawn>>
    /\ Return(p, "not_published")
    /\ UNCHANGED <<kind, litter, final, entry, temp, wants, calls, told>>

NextAfterDirectory == IF kind = "binding" THEN "inspect" ELSE "open"

\* The parent is synced even when the directory was there before the call.
SyncParent(p) ==
    /\ At(p, "sync_parent")
    /\ dir' = [dir EXCEPT !.durable = @ \/ dir.made]
    /\ Goto(p, NextAfterDirectory)
    /\ UNCHANGED <<kind, litter, final, entry, temp, wants, calls, faults, told, withdrawn>>

-----------------------------------------------------------------------------
(* The candidate.                                                          *)

OpenTempOnly(p) ==          \* mutant: no way out when the directory is gone
    /\ At(p, "open") /\ dir.made
    /\ temp' = [temp EXCEPT ![p] = [content |-> wants[p], whole |-> FALSE,
                                    synced |-> FALSE]]
    /\ Goto(p, "write")
    /\ UNCHANGED <<kind, names, wants, calls, faults, told, withdrawn>>

\* The directory may have been taken away by another call whose chmod failed.
OpenTemp(p) ==
    /\ At(p, "open")
    /\ IF dir.made
       THEN /\ temp' = [temp EXCEPT ![p] = [content |-> wants[p],
                                            whole |-> FALSE, synced |-> FALSE]]
            /\ Goto(p, "write")
       ELSE Return(p, "not_published") /\ UNCHANGED temp
    /\ UNCHANGED <<kind, names, wants, calls, faults, told, withdrawn>>

\* Short writes are repeated until every byte is written.
WriteTemp(p) ==
    /\ At(p, "write")
    /\ temp' = [temp EXCEPT ![p].whole = TRUE]
    /\ Goto(p, "sync_file")
    /\ UNCHANGED <<kind, names, wants, calls, faults, told, withdrawn>>

LinkUnsynced(p) ==          \* mutant: the candidate is linked before its fsync
    /\ At(p, "sync_file")
    /\ UNCHANGED temp
    /\ Goto(p, "link")
    /\ UNCHANGED <<kind, names, wants, calls, faults, told, withdrawn>>

SyncTemp(p) ==
    /\ At(p, "sync_file")
    /\ temp' = [temp EXCEPT ![p].synced = TRUE]
    /\ Goto(p, "link")
    /\ UNCHANGED <<kind, names, wants, calls, faults, told, withdrawn>>

\* A blob's streamed candidate is not removed by the step that failed: the
\* caller has to discard it.
TempFails(p) ==
    /\ pc[p] \in {"sync_parent", "open", "write", "sync_file"} /\ Fault
    /\ IF kind = "blob" /\ temp[p] # Absent
       THEN Goto(p, "discard") /\ UNCHANGED <<names, temp>>
       ELSE IF temp[p] # Absent
            THEN GiveUp(p)
            ELSE Return(p, "not_published") /\ UNCHANGED <<names, temp>>
    /\ UNCHANGED <<kind, wants, calls, told, withdrawn>>

DiscardBlob(p) ==
    /\ At(p, "discard")
    /\ GiveUp(p)
    /\ UNCHANGED <<kind, wants, calls, faults, told, withdrawn>>

-----------------------------------------------------------------------------
(* The exclusive link, or the adoption of what is there.                   *)

LinkOverwrites(p) ==        \* mutant: a rename in place of the exclusive link
    /\ At(p, "link")
    /\ final' = temp[p] /\ entry' = FALSE
    /\ Goto(p, "unlink")
    /\ UNCHANGED <<dir, litter, temp>>
    /\ UNCHANGED <<kind, wants, calls, faults, told, withdrawn>>

Link(p) ==
    /\ At(p, "link")
    /\ IF final = Absent
       THEN /\ final' = temp[p] /\ entry' = FALSE
            /\ Goto(p, "unlink")
            /\ UNCHANGED <<dir, litter, temp>>
       ELSE /\ RemoveOwnedTemp(p)
            /\ Goto(p, "adopt")
            /\ UNCHANGED <<dir, final, entry>>
    /\ UNCHANGED <<kind, wants, calls, faults, told, withdrawn>>

LinkFails(p) ==
    /\ At(p, "link") /\ Fault
    /\ GiveUp(p)
    /\ UNCHANGED <<kind, wants, calls, told, withdrawn>>

\* readStoredImmutableDocument: a regular file of the right mode, byte for byte.
StoredIs(c) == final # Absent /\ final.content = c /\ final.whole

\* adoptExistingFinalFile; a claim that lost the race loads what won it.
Adopt(p) ==
    /\ At(p, "adopt") /\ kind # "blob"
    /\ IF StoredIs(wants[p]) THEN Goto(p, "sync_directory")
       ELSE IF kind = "binding" THEN Goto(p, "raced")
       ELSE Return(p, "conflict")
    /\ UNCHANGED <<kind, names, temp, wants, calls, faults, told, withdrawn>>

\* verifyStoredImmutableBlob: the size first, then the digest of every byte.
AdoptBlob(p) ==
    /\ At(p, "adopt") /\ kind = "blob"
    /\ IF StoredIs(wants[p]) THEN Goto(p, "sync_directory")
       ELSE Return(p, "conflict")
    /\ UNCHANGED <<kind, names, temp, wants, calls, faults, told, withdrawn>>

AdoptFails(p) ==
    /\ At(p, "adopt") /\ Fault
    /\ Return(p, "not_published")
    /\ UNCHANGED <<kind, names, temp, wants, calls, told, withdrawn>>

UnlinkTemp(p) ==
    /\ At(p, "unlink")
    /\ temp' = [temp EXCEPT ![p] = Absent]
    /\ Goto(p, "sync_directory")
    /\ UNCHANGED <<kind, names, wants, calls, faults, told, withdrawn>>

Tell(p, how) == Return(p, how) /\ told' = TRUE

SyncDirectory(p) ==
    /\ At(p, "sync_directory")
    /\ entry' = TRUE
    /\ IF kind = "binding" THEN Goto(p, "read_back") /\ UNCHANGED told
                           ELSE Tell(p, "published")
    /\ UNCHANGED <<kind, dir, litter, final, temp, wants, calls, faults, withdrawn>>

\* After the name exists a failure never means "not published".
AfterLinkFails(p) ==
    /\ pc[p] \in {"unlink", "sync_directory"} /\ Fault
    /\ litter' \in {litter, temp[p] # Absent}
    /\ temp' = [temp EXCEPT ![p] = Absent]
    /\ Return(p, "durability_unknown")
    /\ UNCHANGED <<kind, dir, final, entry, wants, calls, told, withdrawn>>

-----------------------------------------------------------------------------
(* claimRunBinding.                                                        *)

\* A binding of the same project is the answer without any write, a binding of
\* another one a conflict; a fresh claim publishes.
InspectBinding(p) ==
    /\ At(p, "inspect")
    /\ IF final = Absent THEN Goto(p, "open")
       ELSE Return(p, IF StoredIs(wants[p]) THEN "existing" ELSE "conflict")
    /\ UNCHANGED <<kind, names, temp, wants, calls, faults, told, withdrawn>>

LoadRaced(p) ==
    /\ At(p, "raced")
    /\ Return(p, IF StoredIs(wants[p]) THEN "existing" ELSE "conflict")
    /\ UNCHANGED <<kind, names, temp, wants, calls, faults, told, withdrawn>>

\* listRunBindings: candidates are skipped, a defective file fails the listing.
Listing ==
    IF final = Absent THEN {}
    ELSE IF final.whole THEN {final.content} ELSE {"binding_invalid"}

ReadBack(p) ==
    /\ At(p, "read_back")
    /\ IF StoredIs(wants[p])
       THEN Tell(p, "published")
       ELSE Return(p, "durability_unknown") /\ UNCHANGED told
    /\ UNCHANGED <<kind, names, temp, wants, calls, faults, withdrawn>>

-----------------------------------------------------------------------------
(* Death and power loss.                                                   *)

Die(p) ==
    /\ ~At(p, "idle") /\ Fault
    /\ litter' = (litter \/ temp[p] # Absent)
    /\ temp' = [temp EXCEPT ![p] = Absent]
    /\ pc' = [pc EXCEPT ![p] = "idle"]
    /\ UNCHANGED <<kind, dir, final, entry, wants, outcome, calls, told, withdrawn>>

\* What a name keeps of its inode: bytes that were not synced may be missing.
Survivor(inode) ==
    {[inode EXCEPT !.whole = inode.synced /\ inode.whole, !.synced = TRUE]}

PowerLoss ==
    /\ Fault
    /\ \/ dir' = dir
       \/ ~dir.durable /\ dir' = NoDirectory
    /\ litter' \in IF dir'.made THEN BOOLEAN ELSE {FALSE}
    /\ \/ /\ final # Absent /\ dir'.made
          /\ final' \in Survivor(final)
          /\ UNCHANGED entry
       \/ /\ ~entry \/ ~dir'.made
          /\ final' = Absent /\ entry' = FALSE
    /\ temp' = [p \in Publishers |-> Absent]
    /\ pc' = [p \in Publishers |-> "idle"]
    /\ UNCHANGED <<kind, wants, outcome, calls, told, withdrawn>>

Step(p) ==
    \/ InspectDirectory(p) \/ ChmodDirectory(p) \/ SyncParent(p)
    \/ OpenTemp(p) \/ WriteTemp(p) \/ SyncTemp(p) \/ DiscardBlob(p)
    \/ Link(p) \/ Adopt(p) \/ AdoptBlob(p) \/ UnlinkTemp(p) \/ SyncDirectory(p)
    \/ InspectBinding(p) \/ LoadRaced(p) \/ ReadBack(p)

Trouble(p) ==
    \/ ChmodFails(p) \/ TempFails(p) \/ LinkFails(p) \/ AdoptFails(p)
    \/ AfterLinkFails(p) \/ Die(p)

Next == (\E p \in Publishers : Call(p) \/ Step(p) \/ Trouble(p)) \/ PowerLoss

\* A call that was made runs: the event loop of its process goes on.
Fairness == \A p \in Publishers : WF_vars(Step(p))

Spec == Init /\ [][Next]_vars /\ Fairness

-----------------------------------------------------------------------------
(* Properties.                                                             *)

\* A name never shows half a document: what stands under it is whole, and its
\* bytes reached the disk before the name did.
FinalWhole ==
    /\ Listing \subseteq Contents
    /\ final # Absent => final.synced

\* A caller that was told its content is published is right for ever: the name
\* carries that content and it reached the disk with its directory, unless the
\* directory was withdrawn (and made again, unsynced) while the call ran.
OutcomeHonest ==
    \A p \in Publishers : outcome[p] = "published" /\ ~withdrawn =>
        /\ final # Absent /\ final.content = wants[p]
        /\ entry /\ dir.durable

\* Types, whole documents and true answers, under races, faults and losses.
StoreSafe == StoreTypeOK /\ FinalWhole /\ OutcomeHonest

\* The store implements a place that is filled once: racing publishers, retries
\* and adoptions never replace a content, and a content somebody was told is
\* published survives every power loss.
Place == INSTANCE WriteOnce
    WITH Empty <- Absent, told <- told /\ ~withdrawn,
         content <- IF final = Absent THEN Absent ELSE final.content
ImplementsWriteOnce == Place!Spec

\* A call returns, or its process dies.
CallReturns == \A p \in Publishers : ~At(p, "idle") ~> At(p, "idle")
=============================================================================
