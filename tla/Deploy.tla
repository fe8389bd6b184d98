------------------------------- MODULE Deploy -------------------------------
(***************************************************************************)
(* A macOS deployment: one application bundle at its canonical path, the   *)
(* private slots beside it, the records that say what is being done to it, *)
(* and the launchd labels it applied.  The verbs run one at a time under   *)
(* the deployment lock, so the state is of the verb that holds it; around  *)
(* it launchd restarts the daemon of a loaded label, the system launches a *)
(* helper from the installed bundle, and the verb's process may die        *)
(* between any two steps.                                                  *)
(*                                                                         *)
(* A tree is a bundle on disk: its inode and the build it was copied from. *)
(* An inode is taken again once no tree and no process holds it.  A tree   *)
(* whose removal was cut short is torn: it stands for no build.  An error  *)
(* a verb simply returns leaves what a crash leaves, and is that step.     *)
(***************************************************************************)
EXTENDS Naturals

CONSTANTS
    Builds,      \* the bundles a caller may ask for
    Ids,         \* inodes
    Labels,      \* launchd labels
    Calls,       \* the calls that are made: verb, bundle and configured labels
    DaemonLabel, \* the label whose job is the daemon
    MaxStarts,   \* bound: instances the daemon has
    MaxCrashes,  \* bound: verbs that die or fail
    MaxLaunches, \* bound: helpers the system launches
    None,
    Torn

Slots == {"canonical", "prior", "candidate", "removed"}
Trees == [id : Ids, build : Builds \cup {Torn}]
Verbs == {"install", "supersede", "activate", "uninstall", "reset", "fresh"}

ASSUME DeployAssumption ==
    /\ Calls \subseteq [verb : Verbs, build : Builds, agents : SUBSET Labels]
    /\ DaemonLabel \in Labels
    /\ {MaxStarts, MaxCrashes, MaxLaunches} \subseteq Nat
    /\ Torn \notin Builds
    /\ None \notin Trees \cup Builds \cup [prior : Trees \cup {None}, candidate : Trees]

VARIABLES
    slot,      \* the tree each slot holds
    stages,    \* staging trees under the metadata directory
    swap,      \* the swap record: the prior and the candidate tree
    seal,      \* the activation record: tree, and instance proved ready
    removal,   \* the removal record: the tree it names
    services,  \* the labels of the services record
    loaded,    \* the labels launchd holds
    daemon,    \* the daemon: its tree and its instance
    starts,    \* instances the daemon has had
    owned,     \* the daemon's owner record exists
    helper,    \* the tree another process runs from
    launches,  \* helpers launched so far
    pc,        \* the next step of the verb that holds the lock
    call,      \* that verb and its arguments
    prior,     \* the incumbent it inspected
    staged,    \* the candidate it staged
    labels,    \* the services record its supersede found
    ready,     \* the instance it proved ready
    after,     \* where a quiesce returns to
    todo,      \* labels or slots a loop still has to visit
    failed,    \* a step of an errors.Join failed
    proved,    \* trees its last inventory found no process on
    gate,      \* whether that inventory came after the last launchctl
    crashes

trees == <<slot, stages>>
records == <<swap, seal, removal, services>>
machine == <<loaded, daemon, starts, owned, helper, launches>>
locals == <<call, prior, staged, labels, ready, after>>
loop == <<todo, failed>>
ghosts == <<proved, gate>>
vars == <<trees, records, machine, pc, locals, loop, ghosts, crashes>>

NoCall == [verb |-> None, build |-> None, agents |-> {}]

\* The trees on disk, and the inodes something still holds.
OnDisk == ({slot[s] : s \in Slots} \ {None}) \cup stages
InUse == {t.id : t \in OnDisk} \cup (IF daemon = None THEN {} ELSE {daemon.tree.id})
                               \cup (IF helper = None THEN {} ELSE {helper.id})

TypeOK ==
    /\ slot \in [Slots -> Trees \cup {None}]
    /\ stages \subseteq Trees
    /\ swap = None \/ swap \in [prior : Trees \cup {None}, candidate : Trees]
    /\ seal = None \/ seal \in [tree : Trees, inst : 1..MaxStarts]
    /\ removal \in Trees \cup {None}
    /\ services \subseteq Labels
    /\ loaded \subseteq Labels
    /\ daemon = None \/ daemon \in [tree : Trees, inst : 1..MaxStarts]
    /\ starts \in 0..MaxStarts
    /\ owned \in BOOLEAN
    /\ helper \in Trees \cup {None}
    /\ launches \in 0..MaxLaunches
    /\ call \in Calls \cup {NoCall}
    /\ prior \in Trees \cup {None}
    /\ staged \in Trees \cup {None}
    /\ labels \subseteq Labels
    /\ ready \in 0..MaxStarts
    /\ todo \subseteq Labels \cup Slots \cup {"stages"}
    /\ failed \in BOOLEAN
    /\ proved \subseteq Trees
    /\ gate \in {"none", "stale", "fresh"}
    /\ crashes \in 0..MaxCrashes

Init ==
    /\ slot = [s \in Slots |-> None]
    /\ stages = {}
    /\ swap = None
    /\ seal = None
    /\ removal = None
    /\ services = {}
    /\ loaded = {}
    /\ daemon = None
    /\ starts = 0
    /\ owned = FALSE
    /\ helper = None
    /\ launches = 0
    /\ pc = "idle"
    /\ call = NoCall
    /\ prior = None
    /\ staged = None
    /\ labels = {}
    /\ ready = 0
    /\ after = None
    /\ todo = {}
    /\ failed = FALSE
    /\ proved = {}
    /\ gate = "none"
    /\ crashes = 0

-----------------------------------------------------------------------------
Goto(label) == pc' = label

\* The verb returns, with an answer or an error, and the lock is released.
Return ==
    /\ Goto("idle")
    /\ call' = NoCall
    /\ prior' = None
    /\ staged' = None
    /\ labels' = {}
    /\ ready' = 0
    /\ after' = None
    /\ todo' = {}
    /\ failed' = FALSE
    /\ proved' = {}
    /\ gate' = "none"

\* What can go wrong at a call is counted.
Fault == crashes < MaxCrashes /\ crashes' = crashes + 1
NoFault == UNCHANGED crashes

\* RemoveTree is not one step: cut short it leaves a tree that stands for
\* nothing, whatever slot it was in.
Tear(s) == slot' = [slot EXCEPT ![s] = [id |-> slot[s].id, build |-> Torn]]

Removing ==
    IF pc = "discardCandidate" THEN {"candidate"}
    ELSE IF pc \in {"clearPrior", "retirePrior"} THEN {"prior"}
    ELSE IF pc = "discard" THEN todo \cap Slots
    ELSE {}

\* The process dies, or a call it makes answers an error it returns.
Crash ==
    /\ pc # "idle"
    /\ Fault
    /\ Return
    /\ \/ UNCHANGED slot
       \/ \E s \in Removing : slot[s] # None /\ Tear(s)
    /\ UNCHANGED <<stages, records, machine>>

-----------------------------------------------------------------------------
(***************************************************************************)
(* The machine around the verb.                                            *)
(***************************************************************************)

\* launchd runs the job of a loaded label; the daemon records itself before
\* it serves.
StartDaemon ==
    /\ DaemonLabel \in loaded
    /\ daemon = None
    /\ slot["canonical"] # None
    /\ starts < MaxStarts
    /\ starts' = starts + 1
    /\ daemon' = [tree |-> slot["canonical"], inst |-> starts + 1]
    /\ owned' = TRUE
    /\ UNCHANGED <<trees, records, loaded, helper, launches, pc, locals, loop, ghosts, crashes>>

\* The system runs an extension or a helper of the installed application.
Launch ==
    /\ helper = None
    /\ launches < MaxLaunches
    /\ slot["canonical"] # None
    /\ helper' = slot["canonical"]
    /\ launches' = launches + 1
    /\ UNCHANGED <<trees, records, loaded, daemon, starts, owned, pc, locals, loop, ghosts, crashes>>

\* A process of the deployment ends by itself.
Quit ==
    /\ \/ daemon' = None /\ daemon # None /\ UNCHANGED helper
       \/ helper' = None /\ helper # None /\ UNCHANGED daemon
    /\ UNCHANGED <<trees, records, loaded, starts, owned, launches, pc, locals, loop, ghosts, crashes>>

-----------------------------------------------------------------------------
(***************************************************************************)
(* Entering a verb: the lock, then the resume of an outstanding swap.      *)
(***************************************************************************)

Begin ==
    /\ pc = "idle"
    /\ \E c \in Calls :
          /\ call' = c
          /\ Goto(IF c.verb = "fresh" THEN "fresh" ELSE "recover")
    /\ UNCHANGED <<trees, records, machine, prior, staged, labels, ready, after, loop, ghosts, crashes>>

\* Quiesce, then converge; the verb goes on at `next`.
Quiesce(next) == Goto("stop") /\ after' = next

\* Mutant of ResumeDestroys: a landed candidate is taken for a retired prior.
ResumeDestroysNothing ==
    /\ swap.prior # None
    /\ slot["canonical"] # swap.candidate

\* A resume still moves or destroys a generation's bytes.
ResumeDestroys ==
    /\ swap.prior # None
    /\ \/ slot["prior"] # None
       \/ slot["canonical"] # swap.candidate

Recover ==
    /\ pc = "recover"
    /\ IF swap = None THEN Goto("dispatch") /\ UNCHANGED after
       ELSE IF ResumeDestroys THEN Quiesce("settle")
       ELSE Goto("settle") /\ UNCHANGED after
    /\ UNCHANGED <<trees, records, machine, call, prior, staged, labels, ready, loop, ghosts, crashes>>

\* The body of each verb, up to its first wait.
Dispatch ==
    /\ pc = "dispatch"
    /\ LET installed == slot["canonical"] # None
           v == call.verb IN
       \/ /\ \/ v = "install" /\ installed
             \/ v \in {"supersede", "activate"} /\ ~installed
          /\ Return
       \/ /\ \/ v = "install" /\ ~installed
             \/ v = "supersede" /\ installed
          /\ prior' = slot["canonical"]
          /\ Goto("stage")
          /\ UNCHANGED <<call, staged, labels, ready, after, loop, ghosts>>
       \/ /\ v = "activate" /\ installed
          /\ prior' = slot["canonical"]
          /\ IF services \subseteq call.agents THEN Goto("union") /\ after' = "prove" ELSE Quiesce("prove")
          /\ UNCHANGED <<call, staged, labels, ready, loop, ghosts>>
       \/ /\ v \in {"uninstall", "reset"}
          /\ Quiesce(IF v = "reset" THEN "regate" ELSE "tombstone")
          /\ UNCHANGED <<call, prior, staged, labels, ready, loop, ghosts>>
    /\ UNCHANGED <<trees, records, machine, crashes>>

-----------------------------------------------------------------------------
(***************************************************************************)
(* Quiesce: the daemon stopped, survivors ended, the inventory empty; then *)
(* converge: launchd brought to the wanted labels one launchctl at a time. *)
(***************************************************************************)

Target == IF after = "prove" THEN call.agents ELSE {}

\* An abort between the quiesce and the swap record puts the incumbent back.
Abort ==
    IF call.verb = "supersede" /\ after = "regate"
    THEN Goto("restore") /\ UNCHANGED <<locals, loop, ghosts>>
    ELSE Return

\* Drained, settled from its record, or terminated: an absence was observed.
StopDaemon ==
    /\ pc = "stop"
    /\ \/ daemon' = None /\ Goto("survivors") /\ NoFault /\ UNCHANGED <<locals, loop, ghosts>>
       \/ daemon' \in {daemon, None} /\ Fault /\ Abort
    /\ UNCHANGED <<trees, records, loaded, starts, owned, helper, launches>>

\* What runs from one of the bundle's slots, and the recorded daemon.
Survivors == (IF helper \in OnDisk THEN {helper} ELSE {})
             \cup (IF daemon = None THEN {} ELSE {daemon.tree})

TerminateSurvivors ==
    /\ pc = "survivors"
    /\ \/ /\ daemon' = None
          /\ helper' = IF helper \in OnDisk THEN None ELSE helper
          /\ Goto("gate")
          /\ NoFault
          /\ UNCHANGED <<locals, loop, ghosts>>
       \/ UNCHANGED <<daemon, helper>> /\ Fault /\ Abort
    /\ UNCHANGED <<trees, records, loaded, starts, owned, launches>>

\* requireEmpty: the inventory over every generation slot.
RequireEmpty(next) ==
    IF Survivors = {}
    THEN /\ Goto(next)
         /\ proved' = OnDisk
         /\ gate' = "fresh"
         /\ UNCHANGED <<locals, loop>>
    ELSE Abort

Gate ==
    /\ pc = "gate"
    /\ RequireEmpty("union")
    /\ UNCHANGED <<trees, records, machine, crashes>>

\* Mutant of RecordUnion: the record follows what was applied.
RecordNothing ==
    /\ pc = "union"
    /\ todo' = Target
    /\ Goto("apply")
    /\ UNCHANGED <<trees, records, machine, failed, locals, ghosts, crashes>>

\* The record names the union before the first launchctl.
RecordUnion ==
    /\ pc = "union"
    /\ \/ /\ services' = services \cup Target
          /\ todo' = Target
          /\ Goto("apply")
          /\ NoFault
          /\ UNCHANGED <<failed, locals, ghosts>>
       \/ Fault /\ Abort /\ UNCHANGED services
    /\ UNCHANGED <<trees, swap, seal, removal, machine>>

Launchctl == gate' = IF gate = "fresh" THEN "stale" ELSE gate

\* launchd.Apply: installed and started, or reloaded when it had drifted, which
\* ends the running job.
ApplyAgent ==
    /\ pc = "apply"
    /\ \E l \in todo :
          /\ daemon' \in {daemon} \cup (IF l = DaemonLabel THEN {None} ELSE {})
          /\ \/ /\ loaded' = loaded \cup {l}
                /\ todo' = todo \ {l}
                /\ Launchctl
                /\ NoFault
                /\ UNCHANGED <<pc, failed, locals, proved>>
             \/ /\ loaded' \in {loaded, loaded \cup {l}, loaded \ {l}}
                /\ Fault
                /\ Abort
    /\ UNCHANGED <<trees, records, starts, owned, helper, launches>>

AppliedAll ==
    /\ pc = "apply"
    /\ todo = {}
    /\ todo' = services \ Target
    /\ Goto("drop")
    /\ UNCHANGED <<trees, records, machine, failed, locals, ghosts, crashes>>

\* launchd.Remove: the job is booted out, whatever it runs, and its plist goes.
DropAgent ==
    /\ pc = "drop"
    /\ todo \subseteq loaded
    /\ \E l \in todo :
          /\ loaded' = loaded \ {l}
          /\ daemon' = IF l = DaemonLabel THEN None ELSE daemon
          /\ \/ Launchctl /\ NoFault /\ UNCHANGED <<pc, loop, locals, proved>>
             \/ Fault /\ Abort
    /\ UNCHANGED <<trees, records, starts, owned, helper, launches>>

\* The record drops a label once its removal has landed.
RecordDrop ==
    /\ pc = "drop"
    /\ \E l \in todo \ loaded :
          /\ services' = services \ {l}
          /\ todo' = todo \ {l}
    /\ UNCHANGED <<trees, swap, seal, removal, machine, pc, failed, locals, ghosts, crashes>>

Converged ==
    /\ pc = "drop"
    /\ todo = {}
    /\ services' = Target
    /\ Goto(after)
    /\ UNCHANGED <<trees, swap, seal, removal, machine, loop, locals, ghosts, crashes>>

\* Mutant of Regate: the inventory before the launchctl calls is enough.
RegateSkipped ==
    /\ pc = "regate"
    /\ Goto(CASE call.verb = "supersede" -> "commit"
              [] call.verb = "uninstall" -> "remove"
              [] call.verb = "reset" -> "wipeSeal")
    /\ UNCHANGED <<trees, records, machine, locals, loop, ghosts, crashes>>

\* The inventory half again, after the launchctl calls.
Regate ==
    /\ pc = "regate"
    /\ RequireEmpty(CASE call.verb = "supersede" -> "commit"
                      [] call.verb = "uninstall" -> "remove"
                      [] call.verb = "reset" -> "wipeSeal")
    /\ UNCHANGED <<trees, records, machine, crashes>>

-----------------------------------------------------------------------------
(***************************************************************************)
(* Landing: the candidate staged beside the canonical path, the swap       *)
(* recorded, the rename pair driven to its end, what it invalidates        *)
(* retired and the record last.                                            *)
(***************************************************************************)

\* An occupied candidate slot is adopted when it holds the build asked for,
\* discarded when it holds another that nothing runs from, and refused when it
\* cannot be inspected.
Stage ==
    /\ pc = "stage"
    /\ LET held == slot["candidate"] IN
       \/ /\ held = None
          /\ Goto("copy")
          /\ UNCHANGED <<locals, loop, ghosts>>
       \/ /\ held # None /\ held.build = call.build
          /\ staged' = held
          /\ Goto("staged")
          /\ UNCHANGED <<call, prior, labels, ready, after, loop, ghosts>>
       \/ /\ held # None /\ held.build \notin {call.build, Torn} /\ held \notin Survivors
          /\ proved' = proved \cup {held}
          /\ Goto("discardCandidate")
          /\ UNCHANGED <<locals, loop, gate>>
       \/ /\ held # None /\ held.build # call.build /\ (held.build = Torn \/ held \in Survivors)
          /\ Return
    /\ UNCHANGED <<trees, records, machine, crashes>>

DiscardCandidate ==
    /\ pc = "discardCandidate"
    /\ slot' = [slot EXCEPT !["candidate"] = None]
    /\ Goto("copy")
    /\ UNCHANGED <<stages, records, machine, locals, loop, ghosts, crashes>>

\* copyIntoStage, up to the publication; a copy that fails is removed.
Copy ==
    /\ pc = "copy"
    /\ \/ \E i \in Ids \ InUse :
             /\ staged' = [id |-> i, build |-> call.build]
             /\ stages' = stages \cup {staged'}
             /\ Goto("publish")
             /\ UNCHANGED <<call, prior, labels, ready, after, loop, ghosts>>
       \/ Ids = InUse /\ Return /\ UNCHANGED stages
    /\ UNCHANGED <<slot, records, machine, crashes>>

Publish ==
    /\ pc = "publish"
    /\ stages' = stages \ {staged}
    /\ slot' = [slot EXCEPT !["candidate"] = staged]
    /\ Goto("staged")
    /\ UNCHANGED <<records, machine, locals, loop, ghosts, crashes>>

\* Mutant of Staged: the slots are taken for idle, and the incumbent is replaced
\* while it serves.
StagedUngated ==
    /\ pc = "staged"
    /\ labels' = services
    /\ proved' = OnDisk
    /\ gate' = "fresh"
    /\ Goto("commit")
    /\ UNCHANGED <<trees, records, machine, call, prior, staged, ready, after, loop, crashes>>

\* A first install commits; a supersede first quiesces what it replaces.
Staged ==
    /\ pc = "staged"
    /\ IF prior = None
       THEN Goto("commit") /\ UNCHANGED <<labels, after>>
       ELSE labels' = services /\ Quiesce("regate")
    /\ UNCHANGED <<trees, records, machine, call, prior, staged, ready, loop, ghosts, crashes>>

Commit ==
    /\ pc = "commit"
    /\ LET record == [prior |-> prior, candidate |-> staged] IN
       \/ swap' = record /\ Goto("settle") /\ NoFault /\ UNCHANGED <<locals, loop, ghosts>>
       \/ swap' \in {swap, record} /\ Fault /\ Abort
    /\ UNCHANGED <<trees, seal, removal, services, machine>>

\* Mutant of SettleSwap: a candidate that already landed is a conflict.
SettleSwapRefuses ==
    /\ pc = "settle"
    /\ LET occupant == slot["canonical"] IN
       \/ occupant = None /\ Goto("land") /\ UNCHANGED <<locals, loop, ghosts>>
       \/ /\ occupant # None /\ occupant = swap.prior
          /\ Goto("clearPrior")
          /\ UNCHANGED <<locals, loop, ghosts>>
       \/ occupant \notin {None, swap.prior} /\ Return
    /\ UNCHANGED <<trees, records, machine, crashes>>

\* Mutant of SettleSwap: the same bytes are the same tree.
SettleSwapByBytes ==
    /\ pc = "settle"
    /\ LET occupant == slot["canonical"] IN
       \/ occupant = None /\ Goto("land") /\ UNCHANGED <<locals, loop, ghosts>>
       \/ /\ occupant # None /\ occupant.build = swap.candidate.build
          /\ Goto("retireSeal")
          /\ UNCHANGED <<locals, loop, ghosts>>
       \/ /\ occupant # None /\ occupant.build # swap.candidate.build
          /\ Goto("clearPrior")
          /\ UNCHANGED <<locals, loop, ghosts>>
    /\ UNCHANGED <<trees, records, machine, crashes>>

\* Which of the two renames already happened is asked of the canonical path.
SettleSwap ==
    /\ pc = "settle"
    /\ LET occupant == slot["canonical"] IN
       \/ occupant = None /\ Goto("land") /\ UNCHANGED <<locals, loop, ghosts>>
       \/ occupant = swap.candidate /\ Goto("retireSeal") /\ UNCHANGED <<locals, loop, ghosts>>
       \/ /\ occupant \notin {None, swap.candidate} /\ occupant = swap.prior
          /\ Goto("clearPrior")
          /\ UNCHANGED <<locals, loop, ghosts>>
       \/ occupant \notin {None, swap.candidate, swap.prior} /\ Return
    /\ UNCHANGED <<trees, records, machine, crashes>>

ClearPrior ==
    /\ pc = "clearPrior"
    /\ slot' = [slot EXCEPT !["prior"] = None]
    /\ Goto("setAside")
    /\ UNCHANGED <<stages, records, machine, locals, loop, ghosts, crashes>>

\* Mutant of SetAside: the prior is deleted to make room.
SetAsideDeletes ==
    /\ pc = "setAside"
    /\ slot' = [slot EXCEPT !["canonical"] = None]
    /\ Goto("land")
    /\ UNCHANGED <<stages, records, machine, locals, loop, ghosts, crashes>>

SetAside ==
    /\ pc = "setAside"
    /\ slot' = [slot EXCEPT !["prior"] = slot["canonical"], !["canonical"] = None]
    /\ Goto("land")
    /\ UNCHANGED <<stages, records, machine, locals, loop, ghosts, crashes>>

\* The staged tree is attested by its inode and renamed into the empty path.
Land ==
    /\ pc = "land"
    /\ LET held == slot["candidate"] IN
       IF held = swap.candidate /\ slot["canonical"] = None
       THEN /\ slot' = [slot EXCEPT !["canonical"] = held, !["candidate"] = None]
            /\ Goto("retireSeal")
            /\ UNCHANGED <<locals, loop, ghosts>>
       ELSE Return /\ UNCHANGED slot
    /\ UNCHANGED <<stages, records, machine, crashes>>

\* One argument of an errors.Join: a failure is remembered, and the next is
\* evaluated all the same.
JoinOk == NoFault /\ UNCHANGED failed
JoinFails == Fault /\ failed' = TRUE

\* The labels at which a record is removed, and where the verb goes on.
RemovesSeal == [retireSeal |-> "retireRemoval", tombSeal |-> "entomb", wipeSeal |-> "wipeRemoval"]
RemovesRemoval == [retireRemoval |-> "retirePrior", wipeRemoval |-> "wipeSwap", unbury |-> "seal"]

RemoveSeal ==
    /\ pc \in DOMAIN RemovesSeal
    /\ Goto(RemovesSeal[pc])
    /\ \/ seal' = None /\ JoinOk
       \/ UNCHANGED seal /\ JoinFails
    /\ UNCHANGED <<trees, swap, removal, services, machine, locals, todo, ghosts>>

RemoveRemoval ==
    /\ pc \in DOMAIN RemovesRemoval
    /\ Goto(RemovesRemoval[pc])
    /\ \/ removal' = None /\ JoinOk
       \/ UNCHANGED removal /\ JoinFails
    /\ UNCHANGED <<trees, swap, seal, services, machine, locals, todo, ghosts>>

\* The prior tree is destroyed only when the record names one.
RetirePrior ==
    /\ pc = "retirePrior"
    /\ Goto("retireSwap")
    /\ \/ slot' = (IF swap.prior = None THEN slot ELSE [slot EXCEPT !["prior"] = None]) /\ JoinOk
       \/ UNCHANGED slot /\ JoinFails
    /\ UNCHANGED <<stages, records, machine, locals, todo, ghosts>>

\* Mutant of RetireSwap: the record goes whatever became of the rest.
RetireSwapAnyway ==
    /\ pc = "retireSwap"
    /\ swap' = None
    /\ Return
    /\ UNCHANGED <<trees, seal, removal, services, machine, crashes>>

\* The swap record goes last, and only when the rest went.  A resume goes on
\* with its verb; a landing is over, or activates what it landed.
RetireSwap ==
    /\ pc = "retireSwap"
    /\ IF failed
       THEN Return /\ UNCHANGED swap
       ELSE /\ swap' = None
            /\ IF staged # None /\ call.verb # "fresh" THEN Return
               ELSE /\ Goto(IF staged = None THEN "dispatch" ELSE "landed")
                    /\ UNCHANGED <<locals, loop, ghosts>>
    /\ UNCHANGED <<trees, seal, removal, services, machine, crashes>>

-----------------------------------------------------------------------------
(***************************************************************************)
(* The restore of an incumbent a supersede stopped and did not replace.    *)
(***************************************************************************)

\* A committed swap belongs to the resume.  A daemon that answers ready keeps
\* its seal and is given back only what the converge took away.
Restore ==
    /\ pc = "restore"
    /\ LET gone == labels \ services IN
       \/ (swap # None \/ slot["canonical"] # prior) /\ Return /\ UNCHANGED seal
       \/ /\ swap = None /\ slot["canonical"] = prior
          /\ \E answers \in {daemon # None, FALSE} :
                IF answers /\ gone = {} THEN Return /\ UNCHANGED seal
                ELSE /\ seal' = IF answers THEN seal ELSE None
                     /\ todo' = IF answers THEN gone ELSE labels
                     /\ Goto("rerecord")
                     /\ UNCHANGED <<failed, locals, ghosts>>
    /\ UNCHANGED <<trees, swap, removal, services, machine, crashes>>

Rerecord ==
    /\ pc = "rerecord"
    /\ services' = labels
    /\ Goto("reapply")
    /\ UNCHANGED <<trees, swap, seal, removal, machine, locals, loop, ghosts, crashes>>

\* A label the configuration no longer names cannot be applied again.
Reapply ==
    /\ pc = "reapply"
    /\ \/ \E l \in todo :
             \/ l \notin call.agents /\ Return /\ UNCHANGED loaded
             \/ /\ l \in call.agents
                /\ loaded' = loaded \cup {l}
                /\ todo' = todo \ {l}
                /\ UNCHANGED <<pc, failed, locals, ghosts>>
       \/ todo = {} /\ Return /\ UNCHANGED loaded
    /\ UNCHANGED <<trees, records, daemon, starts, owned, helper, launches, crashes>>

-----------------------------------------------------------------------------
(***************************************************************************)
(* Activate, Uninstall and Reset after their converge.                     *)
(***************************************************************************)

Sealing == [tree |-> prior, inst |-> ready]

\* The daemon publishes readiness within the budget, or the verb fails; what it
\* proves must be what an earlier activation sealed.
Prove ==
    /\ pc = "prove"
    /\ \/ Return
       \/ /\ daemon # None
          /\ ready' = daemon.inst
          /\ seal \in {None, [tree |-> prior, inst |-> daemon.inst]}
          /\ Goto(IF call.verb = "fresh" THEN "seal" ELSE "unbury")
          /\ UNCHANGED <<call, prior, staged, labels, after, loop, ghosts>>
    /\ UNCHANGED <<trees, records, machine, crashes>>

Seal ==
    /\ pc = "seal"
    /\ \/ seal' = Sealing /\ NoFault
       \/ UNCHANGED seal /\ Fault
    /\ Return
    /\ UNCHANGED <<trees, swap, removal, services, machine>>

\* The generation an earlier pass named, or the installed one.
Tombstone ==
    /\ pc = "tombstone"
    /\ \/ /\ removal # None
          /\ prior' = removal
          /\ Goto("regate")
          /\ UNCHANGED <<call, staged, labels, ready, after, loop, ghosts>>
       \/ removal = None /\ slot["canonical"] = None /\ Return
       \/ /\ removal = None /\ slot["canonical"] # None
          /\ prior' = slot["canonical"]
          /\ Goto("tombSeal")
          /\ UNCHANGED <<call, staged, labels, ready, after, loop, ghosts>>
    /\ UNCHANGED <<trees, records, machine, crashes>>

Entomb ==
    /\ pc = "entomb"
    /\ \/ /\ removal' = prior
          /\ NoFault
          /\ IF failed THEN Return ELSE Goto("regate") /\ UNCHANGED <<locals, loop, ghosts>>
       \/ UNCHANGED removal /\ Fault /\ Return
    /\ UNCHANGED <<trees, swap, seal, services, machine>>

\* Every generation but the canonical one.
Discards == {"prior", "candidate", "removed", "stages"}

\* The bundle goes from whole to absent in one rename, into an empty slot and
\* only if it is the generation the tombstone names.
RemoveBundle ==
    /\ pc = "remove"
    /\ IF slot["canonical"] # None /\ (slot["removed"] # None \/ slot["canonical"] # prior)
       THEN Return /\ UNCHANGED slot
       ELSE /\ slot' = IF slot["canonical"] = None THEN slot
                       ELSE [slot EXCEPT !["removed"] = slot["canonical"], !["canonical"] = None]
            /\ todo' = Discards
            /\ Goto("discard")
            /\ UNCHANGED <<failed, locals, ghosts>>
    /\ UNCHANGED <<stages, records, machine, crashes>>

\* discardGenerations: an error does not keep the others.
Discard ==
    /\ pc = "discard"
    /\ \E x \in todo :
          /\ todo' = todo \ {x}
          /\ \/ /\ slot' = IF x \in Slots THEN [slot EXCEPT ![x] = None] ELSE slot
                /\ stages' = IF x = "stages" THEN {} ELSE stages
                /\ JoinOk
             \/ UNCHANGED trees /\ JoinFails
    /\ UNCHANGED <<records, machine, pc, locals, ghosts>>

Discarded ==
    /\ pc = "discard"
    /\ todo = {}
    /\ Return
    /\ UNCHANGED <<trees, records, machine, crashes>>

\* Reset discards the records, then the generations.
WipeSwap ==
    /\ pc = "wipeSwap"
    /\ Goto("wipeServices")
    /\ \/ swap' = None /\ JoinOk
       \/ UNCHANGED swap /\ JoinFails
    /\ UNCHANGED <<trees, seal, removal, services, machine, locals, todo, ghosts>>

WipeServices ==
    /\ pc = "wipeServices"
    /\ Goto("discard")
    /\ todo' = Discards
    /\ \/ services' = {} /\ JoinOk
       \/ UNCHANGED services /\ JoinFails
    /\ UNCHANGED <<trees, swap, seal, removal, machine, locals, ghosts>>

-----------------------------------------------------------------------------
(***************************************************************************)
(* InstallFresh: nothing of the deployment may be there, before the stage  *)
(* and, but for the bundle it landed, again before launchd is asked.       *)
(***************************************************************************)

FreshOnDisk ==
    /\ \A s \in Slots \ {"canonical"} : slot[s] = None
    /\ stages = {}
    /\ swap = None /\ seal = None /\ removal = None /\ services = {}
    /\ ~owned

IsFresh(landed) ==
    /\ landed \/ slot["canonical"] = None
    /\ FreshOnDisk
    /\ loaded \cap call.agents = {}
    /\ Survivors = {}

Fresh ==
    /\ pc = "fresh"
    /\ IF IsFresh(FALSE) THEN Goto("copy") /\ UNCHANGED <<locals, loop, ghosts>> ELSE Return
    /\ UNCHANGED <<trees, records, machine, crashes>>

FreshLanded ==
    /\ pc = "landed"
    /\ IF slot["canonical"] = staged /\ IsFresh(TRUE)
       THEN /\ prior' = staged
            /\ todo' = call.agents
            /\ Goto("bootstrap")
            /\ UNCHANGED <<call, staged, labels, ready, after, failed, ghosts>>
       ELSE Return
    /\ UNCHANGED <<trees, records, machine, crashes>>

\* Each label is recorded before launchd is asked to bootstrap it.
BootRecord ==
    /\ pc = "bootstrap"
    /\ todo \cap services = {}
    /\ \E l \in todo : services' = services \cup {l}
    /\ UNCHANGED <<trees, swap, seal, removal, machine, pc, locals, loop, ghosts, crashes>>

\* ApplyFresh answers; a bootstrap that succeeded keeps its label recorded
\* even when the kickstart after it failed.
BootAgent ==
    /\ pc = "bootstrap"
    /\ \E l \in todo \cap services :
          \/ /\ loaded' = loaded \cup {l}
             /\ \/ todo' = todo \ {l} /\ NoFault /\ UNCHANGED <<pc, failed, locals, ghosts>>
                \/ Fault /\ Return
          \/ /\ loaded' \in {loaded, loaded \cup {l}}
             /\ Fault
             /\ Goto("rollback")
             /\ UNCHANGED <<loop, locals, ghosts>>
    /\ UNCHANGED <<trees, records, daemon, starts, owned, helper, launches>>

\* A bootstrap that answered a failure takes its label off the record.
RollBack ==
    /\ pc = "rollback"
    /\ services' = services \ todo
    /\ Return
    /\ UNCHANGED <<trees, swap, seal, removal, machine, crashes>>

Bootstrapped ==
    /\ pc = "bootstrap"
    /\ todo = {}
    /\ Goto("prove")
    /\ UNCHANGED <<trees, records, machine, locals, loop, ghosts, crashes>>

-----------------------------------------------------------------------------
Step ==
    \/ Recover \/ Dispatch
    \/ StopDaemon \/ TerminateSurvivors \/ Gate
    \/ RecordUnion \/ ApplyAgent \/ AppliedAll \/ DropAgent \/ RecordDrop \/ Converged
    \/ Regate
    \/ Stage \/ DiscardCandidate \/ Copy \/ Publish \/ Staged \/ Commit
    \/ SettleSwap \/ ClearPrior \/ SetAside \/ Land
    \/ RemoveSeal \/ RemoveRemoval \/ RetirePrior \/ RetireSwap
    \/ Restore \/ Rerecord \/ Reapply
    \/ Prove \/ Seal
    \/ Tombstone \/ Entomb \/ RemoveBundle \/ Discard \/ Discarded
    \/ WipeSwap \/ WipeServices
    \/ Fresh \/ FreshLanded \/ BootRecord \/ BootAgent \/ RollBack \/ Bootstrapped

Environment == StartDaemon \/ Launch \/ Quit

Next == Begin \/ Step \/ Crash \/ Environment

Spec == Init /\ [][Next]_vars

\* A verb that is not killed takes its next step, and callers go on calling
\* verbs other than the installation on a fresh machine.
FairSpec == Spec /\ WF_vars(Step) /\ SF_vars(Begin /\ call'.verb # "fresh")

-----------------------------------------------------------------------------
(***************************************************************************)
(* Safety.                                                                 *)
(***************************************************************************)

\* A swap record can always be driven to its end: the candidate it names is
\* whole, at the canonical path or in its slot, and until it has landed the
\* prior it names is whole too.  A crash or a failure at any step of the
\* rename pair, of its retirement or of another verb's resume loses neither.
SwapResumable ==
    swap # None =>
        \/ slot["canonical"] = swap.candidate
        \/ /\ slot["candidate"] = swap.candidate
           /\ swap.prior # None => swap.prior \in {slot["canonical"], slot["prior"]}

\* A sealed activation describes the generation at the canonical path unless the
\* swap that invalidates it is outstanding: no crash and no failure leaves the
\* seal of a replaced generation standing for the one that replaced it.
SealDescribesInstalled ==
    seal # None /\ swap = None /\ slot["canonical"] # None => slot["canonical"] = seal.tree

\* A seal ends with the installation it describes: when nothing is installed
\* and no swap is outstanding there is none.
SealEndsWithInstallation ==
    slot["canonical"] = None /\ swap = None => seal = None

\* The services record is never a subset of what is applied: launchd comes to
\* hold a label of this deployment that its record does not name only where
\* InstallFresh takes back a label whose bootstrap answered a failure.
RecordedServices ==
    [][loaded \subseteq services => loaded' \subseteq services' \/ pc = "rollback"]_vars

\* A verb destroys only a tree that its own inventory found no process on, after
\* its last launchctl call; and none that a daemon runs from, as long as the
\* services record names every label launchd holds.  A resume that destroys is
\* gated like the first pass, and scans only once, before its converge: that is
\* enough because no swap is recorded while a label is.
DestroysOnlyProved ==
    [][\A t \in OnDisk \ OnDisk' :
          /\ t \in proved
          /\ gate # "stale"
          /\ daemon # None /\ loaded \subseteq services => daemon.tree # t]_vars

\* A swap record goes only over the very tree it recorded: retireSwap never
\* closes a swap whose candidate has not landed, one with the bytes of its prior
\* included.
SwapLands == [][swap # None /\ swap' = None => slot["canonical"] = swap.candidate]_vars

\* An outstanding swap is driven to its end by whatever verbs are called next:
\* no crash and no slot a crash left occupied wedges the resume.
SwapSettles == swap # None ~> swap = None

\* A candidate slot no record names does not refuse every later landing.
CandidateReclaimed ==
    LET torn == slot["candidate"] # None /\ slot["candidate"].build = Torn
    IN torn ~> ~torn

=============================================================================
