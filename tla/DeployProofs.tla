---------------------------- MODULE DeployProofs ----------------------------
(***************************************************************************)
(* Proofs about a deployment (Deploy.tla), for any bundles, inodes, labels *)
(* and calls, and any number of crashes, failures, restarts and helpers: a *)
(* swap record can be resumed (SwapResumable) and goes only over what it   *)
(* recorded (SwapLands), a seal describes what is installed                *)
(* (SealDescribesInstalled), the services record names what launchd holds  *)
(* (RecordedServices), and a verb destroys only what it proved idle        *)
(* (DestroysOnlyProved).                                                   *)
(***************************************************************************)
EXTENDS Deploy, TLAPS

USE Zenon

-----------------------------------------------------------------------------
(***************************************************************************)
(* What holds wherever the verb is, so also after a crash.                 *)
(***************************************************************************)

TreeType == slot \in [Slots -> Trees \cup {None}]

LocalType ==
    /\ prior \in Trees \cup {None}
    /\ staged \in Trees \cup {None}
    /\ removal \in Trees \cup {None}
    /\ pc = "idle" \/ call \in Calls

\* Only a swap that names a prior puts one aside.
PriorRecorded == swap = None \/ swap.prior = None => slot["prior"] = None

CandidateNamed == swap # None => swap.candidate # None

\* The candidate is a copy, never the installed tree under another name.
CandidateApart ==
    slot["canonical"] # None /\ slot["candidate"] # None =>
        slot["canonical"].id # slot["candidate"].id

\* No label is recorded while a swap is, or while nothing is installed.
ServicesInstalled == swap # None \/ slot["canonical"] = None => services = {}

Global ==
    /\ TreeType /\ LocalType
    /\ SwapResumable /\ PriorRecorded /\ CandidateNamed /\ CandidateApart
    /\ SealDescribesInstalled
    /\ ServicesInstalled

-----------------------------------------------------------------------------
(***************************************************************************)
(* The proof outline: what the verb knows at each of its steps.            *)
(***************************************************************************)

Incumbent == prior # None /\ slot["canonical"] = prior
Candidate == staged # None /\ slot["candidate"] = staged

\* An inventory that is still good: every tree on disk was found idle, and no
\* daemon starts unless launchd holds a label.
Inventoried == OnDisk \subseteq proved /\ (loaded = {} => daemon = None)

Idling ==
    /\ pc \in {"idle", "recover", "fresh"}
    /\ prior = None
    /\ gate = "none"
    /\ pc = "fresh" => call.verb = "fresh"

Dispatching == pc = "dispatch" /\ swap = None /\ gate # "stale"

\* A supersede between its quiesce and its swap record.
Superseding == call.verb = "supersede" /\ Incumbent /\ Candidate /\ services \subseteq labels

ConvergeLoop ==
    /\ pc = "apply" => todo \subseteq services /\ todo \subseteq Target
    /\ pc = "drop" => services \ Target \subseteq todo /\ todo \subseteq services

ToSettle ==
    /\ after = "settle"
    /\ swap # None
    /\ gate # "stale"
    /\ pc \in {"union", "apply", "drop"} => Inventoried
ToProve == after = "prove" /\ swap = None /\ Incumbent
ToTombstone == after = "tombstone" /\ swap = None /\ call.verb = "uninstall"
ToRegate == after = "regate" /\ swap = None /\ (call.verb = "reset" \/ Superseding)

Converging ==
    /\ pc \in {"stop", "survivors", "gate", "union", "apply", "drop"}
    /\ ConvergeLoop
    /\ ToSettle \/ ToProve \/ ToTombstone \/ ToRegate

Regating ==
    /\ pc = "regate"
    /\ swap = None
    /\ services = {}
    /\ call.verb \in {"uninstall", "reset"} \/ Superseding

Staging ==
    /\ pc \in {"stage", "discardCandidate", "copy", "publish", "staged"}
    /\ swap = None
    /\ gate # "stale"
    /\ slot["canonical"] = prior
    /\ call.verb = "supersede" <=> prior # None
    /\ pc = "discardCandidate" =>
          /\ slot["candidate"] # None /\ slot["candidate"] \in proved
          /\ daemon # None => daemon.tree # slot["candidate"]
    /\ pc \in {"copy", "publish"} => slot["candidate"] = None
    /\ pc = "publish" => staged # None /\ (slot["canonical"] # None => slot["canonical"].id # staged.id)
    /\ pc = "staged" => Candidate

Committing ==
    /\ pc = "commit"
    /\ swap = None
    /\ gate # "stale"
    /\ services = {}
    /\ slot["canonical"] = prior
    /\ Candidate
    /\ call.verb = "supersede" => prior # None
    /\ prior # None => Inventoried

\* A resume that destroys nothing any more needs no inventory.
LandingProved ==
    swap.prior # None =>
        Inventoried \/ (slot["prior"] = None /\ slot["canonical"] = swap.candidate)

Landing ==
    /\ swap # None
    /\ gate # "stale"
    /\ LandingProved
    /\ \/ pc = "settle"
       \/ /\ pc \in {"clearPrior", "setAside"}
          /\ slot["canonical"] = swap.prior
          /\ slot["canonical"] \notin {None, swap.candidate}
          /\ pc = "setAside" => slot["prior"] = None
       \/ pc = "land" /\ slot["canonical"] = None

Retiring ==
    /\ pc \in {"retireSeal", "retireRemoval", "retirePrior", "retireSwap"}
    /\ swap # None
    /\ gate # "stale"
    /\ LandingProved
    /\ slot["canonical"] = swap.candidate
    /\ pc # "retireSeal" /\ ~failed => seal = None
    /\ pc = "retireSwap" /\ ~failed => slot["prior"] = None

Restoring ==
    /\ services \subseteq labels
    /\ \/ pc = "restore" /\ prior # None
       \/ /\ swap = None /\ slot["canonical"] # None
          /\ \/ pc = "rerecord" /\ todo \subseteq labels
             \/ pc = "reapply" /\ todo \subseteq services

Activating == pc \in {"prove", "unbury", "seal"} /\ swap = None /\ Incumbent

Tombing ==
    /\ pc \in {"tombstone", "tombSeal", "entomb"}
    /\ swap = None
    /\ services = {}
    /\ call.verb = "uninstall"

Ending ==
    /\ pc \in {"remove", "discard", "wipeSeal", "wipeRemoval", "wipeSwap", "wipeServices"}
    /\ swap = None
    /\ services = {}
    /\ gate # "stale"
    /\ Inventoried
    /\ pc = "discard" => todo \subseteq Discards

Booting ==
    /\ swap = None
    /\ \/ pc = "landed" /\ staged # None
       \/ pc \in {"bootstrap", "rollback"} /\ Incumbent

Outline ==
    \/ Idling \/ Dispatching \/ Converging \/ Regating \/ Staging \/ Committing
    \/ Landing \/ Retiring \/ Restoring \/ Activating \/ Tombing \/ Ending \/ Booting

Inv == Global /\ Outline

-----------------------------------------------------------------------------
(***************************************************************************)
(* What a step may do, the bodies of the action properties.                *)
(***************************************************************************)

RecordsFirst == loaded \subseteq services => loaded' \subseteq services' \/ pc = "rollback"

DestroysProved ==
    \A t \in OnDisk \ OnDisk' :
        /\ t \in proved
        /\ gate # "stale"
        /\ daemon # None /\ loaded \subseteq services => daemon.tree # t

LandsFirst == swap # None /\ swap' = None => slot["canonical"] = swap.candidate

Sound == RecordsFirst /\ DestroysProved /\ LandsFirst

\* A step that leaves the trees, the records and launchd alone.
LEMMA QuietSound ==
    ASSUME UNCHANGED <<slot, stages, swap, loaded, services>>
    PROVE  Sound
<1>1. OnDisk' = OnDisk
  BY DEF OnDisk
<1> QED
  BY <1>1 DEF Sound, RecordsFirst, DestroysProved, LandsFirst

LEMMA QuietGlobal ==
    ASSUME Global, LocalType', UNCHANGED <<slot, swap, seal, services>>
    PROVE  Global'
BY DEF Global, TreeType, SwapResumable, PriorRecorded, CandidateNamed, CandidateApart,
       SealDescribesInstalled, ServicesInstalled

\* A verb that returns has nothing left but what holds everywhere.
LEMMA Returns ==
    ASSUME Return, removal' \in Trees \cup {None}
    PROVE  Idling' /\ LocalType'
<1>1. Idling'
  BY DEF Return, Goto, Idling
<1>2. LocalType'
  BY DEF Return, Goto, LocalType
<1> QED BY <1>1, <1>2

LEMMA QuietReturn ==
    ASSUME Inv, Return, UNCHANGED <<slot, swap, seal, removal, services>>
    PROVE  Inv'
<1>1. LocalType' /\ Idling'
  BY Returns DEF Inv, Global, LocalType
<1> QED
  BY <1>1, QuietGlobal DEF Inv, Outline

-----------------------------------------------------------------------------
(***************************************************************************)
(* Where the verb is decides what it knows.                                *)
(***************************************************************************)

LEMMA AtIdling ==
    ASSUME Inv, pc \in {"idle", "recover", "fresh"}
    PROVE  Idling /\ Global
BY DEF Inv, Outline, Dispatching, Converging, Regating, Staging, Committing, Landing,
       Retiring, Restoring, Activating, Tombing, Ending, Booting

LEMMA AtDispatching ==
    ASSUME Inv, pc = "dispatch"
    PROVE  Dispatching /\ Global
BY DEF Inv, Outline, Idling, Converging, Regating, Staging, Committing, Landing,
       Retiring, Restoring, Activating, Tombing, Ending, Booting

LEMMA AtConverging ==
    ASSUME Inv, pc \in {"stop", "survivors", "gate", "union", "apply", "drop"}
    PROVE  Converging /\ Global
BY DEF Inv, Outline, Idling, Dispatching, Regating, Staging, Committing, Landing,
       Retiring, Restoring, Activating, Tombing, Ending, Booting

LEMMA AtRegating ==
    ASSUME Inv, pc = "regate"
    PROVE  Regating /\ Global
BY DEF Inv, Outline, Idling, Dispatching, Converging, Staging, Committing, Landing,
       Retiring, Restoring, Activating, Tombing, Ending, Booting

LEMMA AtStaging ==
    ASSUME Inv, pc \in {"stage", "discardCandidate", "copy", "publish", "staged"}
    PROVE  Staging /\ Global
BY DEF Inv, Outline, Idling, Dispatching, Converging, Regating, Committing, Landing,
       Retiring, Restoring, Activating, Tombing, Ending, Booting

LEMMA AtCommitting ==
    ASSUME Inv, pc = "commit"
    PROVE  Committing /\ Global
BY DEF Inv, Outline, Idling, Dispatching, Converging, Regating, Staging, Landing,
       Retiring, Restoring, Activating, Tombing, Ending, Booting

LEMMA AtLanding ==
    ASSUME Inv, pc \in {"settle", "clearPrior", "setAside", "land"}
    PROVE  Landing /\ Global
BY DEF Inv, Outline, Idling, Dispatching, Converging, Regating, Staging, Committing,
       Retiring, Restoring, Activating, Tombing, Ending, Booting

LEMMA AtRetiring ==
    ASSUME Inv, pc \in {"retireSeal", "retireRemoval", "retirePrior", "retireSwap"}
    PROVE  Retiring /\ Global
BY DEF Inv, Outline, Idling, Dispatching, Converging, Regating, Staging, Committing,
       Landing, Restoring, Activating, Tombing, Ending, Booting

LEMMA AtRestoring ==
    ASSUME Inv, pc \in {"restore", "rerecord", "reapply"}
    PROVE  Restoring /\ Global
BY DEF Inv, Outline, Idling, Dispatching, Converging, Regating, Staging, Committing,
       Landing, Retiring, Activating, Tombing, Ending, Booting

LEMMA AtActivating ==
    ASSUME Inv, pc \in {"prove", "unbury", "seal"}
    PROVE  Activating /\ Global
BY DEF Inv, Outline, Idling, Dispatching, Converging, Regating, Staging, Committing,
       Landing, Retiring, Restoring, Tombing, Ending, Booting

LEMMA AtTombing ==
    ASSUME Inv, pc \in {"tombstone", "tombSeal", "entomb"}
    PROVE  Tombing /\ Global
BY DEF Inv, Outline, Idling, Dispatching, Converging, Regating, Staging, Committing,
       Landing, Retiring, Restoring, Activating, Ending, Booting

LEMMA AtEnding ==
    ASSUME Inv, pc \in {"remove", "discard", "wipeSeal", "wipeRemoval", "wipeSwap", "wipeServices"}
    PROVE  Ending /\ Global
BY DEF Inv, Outline, Idling, Dispatching, Converging, Regating, Staging, Committing,
       Landing, Retiring, Restoring, Activating, Tombing, Booting

LEMMA AtBooting ==
    ASSUME Inv, pc \in {"landed", "bootstrap", "rollback"}
    PROVE  Booting /\ Global
BY DEF Inv, Outline, Idling, Dispatching, Converging, Regating, Staging, Committing,
       Landing, Retiring, Restoring, Activating, Tombing, Ending

-----------------------------------------------------------------------------
(***************************************************************************)
(* The trees, slot by slot.                                                *)
(***************************************************************************)

LEMMA InOnDisk ==
    ASSUME NEW t
    PROVE  t \in OnDisk <=>
             \/ t # None /\ t \in {slot["canonical"], slot["prior"], slot["candidate"], slot["removed"]}
             \/ t \in stages
BY DEF OnDisk, Slots

LEMMA InOnDiskPrime ==
    ASSUME NEW t
    PROVE  t \in OnDisk' <=>
             \/ t # None /\ t \in {slot'["canonical"], slot'["prior"], slot'["candidate"], slot'["removed"]}
             \/ t \in stages'
BY DEF OnDisk, Slots

\* One slot changes.
LEMMA SlotChange ==
    ASSUME TreeType, NEW s \in Slots, NEW t \in Trees \cup {None}, slot' = [slot EXCEPT ![s] = t]
    PROVE  TreeType' /\ slot'[s] = t /\ \A r \in Slots : r # s => slot'[r] = slot[r]
BY SMT DEF TreeType

\* A rename from one slot to another.
LEMMA SlotRename ==
    ASSUME TreeType, NEW s \in Slots, NEW r \in Slots, s # r,
           slot' = [slot EXCEPT ![s] = slot[r], ![r] = None]
    PROVE  /\ TreeType'
           /\ slot'[s] = slot[r] /\ slot'[r] = None
           /\ \A x \in Slots : x # s /\ x # r => slot'[x] = slot[x]
BY SMT DEF TreeType

-----------------------------------------------------------------------------
(***************************************************************************)
(* Landing.                                                                *)
(***************************************************************************)

LEMMA SettleSwapInv ==
    ASSUME Inv, SettleSwap
    PROVE  Inv' /\ Sound
<1>1. Landing /\ Global /\ pc = "settle"
  BY AtLanding DEF SettleSwap
<1>2. UNCHANGED <<slot, stages, swap, seal, removal, services, loaded, daemon>>
  BY DEF SettleSwap, trees, records, machine
<1>3. CASE Return
  BY <1>2, <1>3, QuietReturn, QuietSound
<1>4. CASE ~Return
  <2>0. UNCHANGED <<locals, loop, ghosts>>
    BY <1>4 DEF SettleSwap
  <2>1. Global'
    BY <1>1, <1>2, <2>0, QuietGlobal DEF Global, LocalType, locals, SettleSwap, Goto
  <2>2. LandingProved' /\ swap' # None /\ gate' # "stale"
    BY <1>1, <1>2, <2>0 DEF Landing, LandingProved, Inventoried, OnDisk, ghosts
  <2>3. Landing' \/ Retiring'
    <3>1. CASE slot["canonical"] = None /\ Goto("land")
      BY <1>2, <2>2, <3>1 DEF Landing, Goto
    <3>2. CASE slot["canonical"] = swap.candidate /\ Goto("retireSeal")
      BY <1>2, <2>2, <3>2 DEF Retiring, Goto
    <3>3. CASE /\ slot["canonical"] \notin {None, swap.candidate}
               /\ slot["canonical"] = swap.prior
               /\ Goto("clearPrior")
      BY <1>2, <2>2, <3>3 DEF Landing, Goto
    <3> QED
      BY <1>4, <3>1, <3>2, <3>3 DEF SettleSwap
  <2> QED
    BY <1>2, <2>1, <2>3, QuietSound DEF Inv, Outline
<1> QED
  BY <1>3, <1>4 DEF SettleSwap

\* A step that only removes trees keeps an inventory good.
LEMMA StillInventoried ==
    ASSUME Inventoried, OnDisk' \subseteq OnDisk, UNCHANGED <<proved, loaded, daemon>>
    PROVE  Inventoried'
BY DEF Inventoried

\* A tree of an inventory may go when no label is recorded.
LEMMA DestroysInventoried ==
    ASSUME Inventoried, services = {}, gate # "stale"
    PROVE  DestroysProved
BY DEF Inventoried, DestroysProved

LEMMA ClearPriorInv ==
    ASSUME Inv, ClearPrior
    PROVE  Inv' /\ Sound
<1>1. Landing /\ Global /\ pc = "clearPrior" /\ pc' = "setAside"
  BY AtLanding DEF ClearPrior, Goto
<1>2. UNCHANGED <<stages, swap, seal, removal, services, loaded, daemon, call, prior, staged, proved, gate>>
  BY DEF ClearPrior, records, machine, locals, ghosts
<1>3. /\ TreeType' /\ slot'["prior"] = None
      /\ slot'["canonical"] = slot["canonical"]
      /\ slot'["candidate"] = slot["candidate"]
      /\ slot'["removed"] = slot["removed"]
  BY <1>1, SlotChange DEF ClearPrior, Global, Slots
<1>4. OnDisk' \subseteq OnDisk
  BY <1>2, <1>3, InOnDisk, InOnDiskPrime
<1>5. swap # None /\ swap.prior # None /\ slot["canonical"] = swap.prior /\ Inventoried /\ services = {}
  BY <1>1 DEF Landing, LandingProved, Global, ServicesInstalled
<1>6. Global'
  BY <1>1, <1>2, <1>3, <1>5 DEF Global, LocalType, SwapResumable, PriorRecorded, CandidateNamed,
     CandidateApart, SealDescribesInstalled, ServicesInstalled
<1>7. Landing'
  BY <1>1, <1>2, <1>3, <1>4, <1>5, StillInventoried DEF Landing, LandingProved
<1>8. Sound
  BY <1>1, <1>2, <1>5, DestroysInventoried DEF Sound, RecordsFirst, LandsFirst, Landing
<1> QED
  BY <1>6, <1>7, <1>8 DEF Inv, Outline

LEMMA SetAsideInv ==
    ASSUME Inv, SetAside
    PROVE  Inv' /\ Sound
<1>1. Landing /\ Global /\ pc = "setAside" /\ pc' = "land"
  BY AtLanding DEF SetAside, Goto
<1>2. UNCHANGED <<stages, swap, seal, removal, services, loaded, daemon, call, prior, staged, proved, gate>>
  BY DEF SetAside, records, machine, locals, ghosts
<1>3. /\ TreeType'
      /\ slot'["prior"] = slot["canonical"] /\ slot'["canonical"] = None
      /\ slot'["candidate"] = slot["candidate"]
      /\ slot'["removed"] = slot["removed"]
  BY <1>1, SlotRename DEF SetAside, Global, Slots
<1>4. slot["prior"] = None /\ slot["canonical"] \notin {None, swap.candidate}
  BY <1>1 DEF Landing
<1>5. OnDisk' = OnDisk
  BY <1>2, <1>3, <1>4, InOnDisk, InOnDiskPrime
<1>6. swap # None /\ swap.prior # None /\ slot["canonical"] = swap.prior /\ Inventoried /\ services = {}
  BY <1>1 DEF Landing, LandingProved, Global, ServicesInstalled
<1>7. Global'
  BY <1>1, <1>2, <1>3, <1>4, <1>6 DEF Global, LocalType, SwapResumable, PriorRecorded, CandidateNamed,
     CandidateApart, SealDescribesInstalled, ServicesInstalled
<1>8. Landing'
  BY <1>1, <1>2, <1>3, <1>5, <1>6, StillInventoried DEF Landing, LandingProved
<1>9. Sound
  BY <1>1, <1>2, <1>6, DestroysInventoried DEF Sound, RecordsFirst, LandsFirst, Landing
<1> QED
  BY <1>7, <1>8, <1>9 DEF Inv, Outline

LEMMA LandInv ==
    ASSUME Inv, Land
    PROVE  Inv' /\ Sound
<1>1. Landing /\ Global /\ pc = "land" /\ slot["canonical"] = None
  BY AtLanding DEF Land, Landing
<1>2. UNCHANGED <<stages, swap, seal, removal, services, loaded, daemon>>
  BY DEF Land, records, machine
<1>3. CASE Return /\ UNCHANGED slot
  BY <1>2, <1>3, QuietReturn, QuietSound
<1>4. CASE /\ slot["candidate"] = swap.candidate
           /\ slot' = [slot EXCEPT !["canonical"] = slot["candidate"], !["candidate"] = None]
           /\ Goto("retireSeal")
           /\ UNCHANGED <<locals, loop, ghosts>>
  <2>1. UNCHANGED <<call, prior, staged, proved, gate>> /\ pc' = "retireSeal"
    BY <1>4 DEF locals, ghosts, Goto
  <2>2. /\ TreeType'
        /\ slot'["canonical"] = slot["candidate"] /\ slot'["candidate"] = None
        /\ slot'["prior"] = slot["prior"]
        /\ slot'["removed"] = slot["removed"]
    BY <1>1, <1>4, SlotRename DEF Global, Slots
  <2>3. OnDisk' = OnDisk
    BY <1>1, <1>2, <2>2, InOnDisk, InOnDiskPrime
  <2>4. /\ swap # None /\ swap.candidate # None /\ services = {}
        /\ swap.prior # None => Inventoried
        /\ swap.prior = None => slot["prior"] = None
    BY <1>1 DEF Landing, LandingProved, Global, ServicesInstalled, CandidateNamed, PriorRecorded
  <2>5. Global'
    BY <1>1, <1>2, <1>4, <2>1, <2>2, <2>4 DEF Global, LocalType, SwapResumable, PriorRecorded,
       CandidateNamed, CandidateApart, SealDescribesInstalled, ServicesInstalled
  <2>6. LandingProved'
    BY <1>2, <2>1, <2>3, <2>4, StillInventoried DEF LandingProved
  <2>7. Retiring'
    BY <1>1, <1>2, <1>4, <2>1, <2>2, <2>6 DEF Landing, Retiring
  <2>8. Sound
    BY <1>2, <2>3, <2>4 DEF Sound, RecordsFirst, LandsFirst, DestroysProved
  <2> QED
    BY <2>5, <2>7, <2>8 DEF Inv, Outline
<1> QED
  BY <1>3, <1>4 DEF Land

LEMMA RetirePriorInv ==
    ASSUME Inv, RetirePrior
    PROVE  Inv' /\ Sound
<1>1. Retiring /\ Global /\ pc = "retirePrior" /\ pc' = "retireSwap"
  BY AtRetiring DEF RetirePrior, Goto
<1>2. UNCHANGED <<stages, swap, seal, removal, services, loaded, daemon, call, prior, staged, proved, gate>>
  BY DEF RetirePrior, records, machine, locals, ghosts
<1>3. /\ swap # None /\ gate # "stale" /\ services = {} /\ LandingProved
      /\ slot["canonical"] = swap.candidate
      /\ swap.prior = None => slot["prior"] = None
  BY <1>1 DEF Retiring, Global, ServicesInstalled, PriorRecorded
<1>4. /\ TreeType'
      /\ slot'["canonical"] = slot["canonical"]
      /\ slot'["candidate"] = slot["candidate"]
      /\ slot'["removed"] = slot["removed"]
      /\ slot'["prior"] \in {None, slot["prior"]}
      /\ slot'["prior"] = None \/ failed'
  <2>1. CASE swap.prior # None /\ slot' = [slot EXCEPT !["prior"] = None]
    BY <1>1, <2>1, SlotChange DEF Global, Slots
  <2>2. CASE slot' = slot /\ (swap.prior = None \/ failed' = TRUE)
    BY <1>1, <1>3, <2>2 DEF Global, TreeType
  <2> QED
    BY <2>1, <2>2 DEF RetirePrior, JoinFails
<1>5. OnDisk' \subseteq OnDisk
  BY <1>2, <1>4, InOnDisk, InOnDiskPrime
<1>6. LandingProved'
  BY <1>2, <1>3, <1>4, <1>5, StillInventoried DEF LandingProved
<1>7. failed' \/ failed' = failed
  BY DEF RetirePrior, JoinOk, JoinFails
<1>8. Global'
  BY <1>1, <1>2, <1>3, <1>4 DEF Global, LocalType, SwapResumable, PriorRecorded, CandidateNamed,
     CandidateApart, SealDescribesInstalled, ServicesInstalled
<1>9. Retiring'
  BY <1>1, <1>2, <1>3, <1>4, <1>6, <1>7 DEF Retiring
<1>10. DestroysProved
  <2>1. CASE swap.prior # None /\ Inventoried
    BY <1>3, <2>1, DestroysInventoried
  <2>2. CASE slot["prior"] = None
    <3>1. OnDisk' = OnDisk
      BY <1>2, <1>4, <2>2, InOnDisk, InOnDiskPrime
    <3> QED
      BY <3>1 DEF DestroysProved
  <2> QED
    BY <1>3, <2>1, <2>2 DEF LandingProved
<1> QED
  BY <1>2, <1>3, <1>8, <1>9, <1>10 DEF Inv, Outline, Sound, RecordsFirst, LandsFirst

LEMMA RetireSwapInv ==
    ASSUME Inv, RetireSwap
    PROVE  Inv' /\ Sound
<1>1. Retiring /\ Global /\ pc = "retireSwap"
  BY AtRetiring DEF RetireSwap
<1>2. UNCHANGED <<slot, stages, seal, removal, services, loaded>>
  BY DEF RetireSwap, trees, machine
<1>3. CASE Return /\ UNCHANGED swap
  BY <1>2, <1>3, QuietReturn, QuietSound
<1>4. CASE ~failed /\ swap' = None
  <2>1. slot["canonical"] = swap.candidate /\ seal = None /\ slot["prior"] = None /\ gate # "stale"
    BY <1>1, <1>4 DEF Retiring
  <2>2. ASSUME LocalType' PROVE Global'
    BY <1>1, <1>2, <1>4, <2>1, <2>2 DEF Global, TreeType, SwapResumable, PriorRecorded, CandidateNamed,
       CandidateApart, SealDescribesInstalled, ServicesInstalled, Retiring
  <2>3. OnDisk' = OnDisk
    BY <1>2 DEF OnDisk
  <2>4. Sound
    BY <1>2, <2>1, <2>3 DEF Sound, RecordsFirst, DestroysProved, LandsFirst
  <2>5. CASE Return
    BY <1>1, <1>2, <2>2, <2>4, <2>5, Returns DEF Inv, Outline, Global, LocalType
  <2>6. CASE /\ UNCHANGED <<locals, loop, ghosts>>
             /\ Goto(IF staged = None THEN "dispatch" ELSE "landed")
    <3>1. UNCHANGED <<call, prior, staged, gate>> /\ pc' = IF staged = None THEN "dispatch" ELSE "landed"
      BY <2>6 DEF locals, ghosts, Goto
    <3>2. LocalType'
      BY <1>1, <1>2, <3>1 DEF Global, LocalType
    <3>3. Dispatching' \/ Booting'
      BY <1>4, <2>1, <3>1 DEF Dispatching, Booting
    <3> QED
      BY <2>2, <2>4, <3>2, <3>3 DEF Inv, Outline
  <2> QED
    BY <1>4, <2>5, <2>6 DEF RetireSwap
<1> QED
  BY <1>3, <1>4 DEF RetireSwap

-----------------------------------------------------------------------------
(***************************************************************************)
(* Staging.                                                                *)
(***************************************************************************)

LEMMA StageInv ==
    ASSUME Inv, Stage
    PROVE  Inv' /\ Sound
<1>1. Staging /\ Global /\ pc = "stage"
  BY AtStaging DEF Stage
<1>2. UNCHANGED <<slot, stages, swap, seal, removal, services, loaded, daemon>>
  BY DEF Stage, trees, records, machine
<1>3. CASE Return
  BY <1>2, <1>3, QuietReturn, QuietSound
<1>4. CASE ~Return
  <2>1. UNCHANGED <<call, prior, gate>>
    BY <1>4 DEF Stage, locals, ghosts
  <2>2. staged' = staged \/ staged' = slot["candidate"]
    BY <1>4 DEF Stage, locals
  <2>3. LocalType'
    <3>1. staged' \in Trees \cup {None}
      BY <1>1, <2>2 DEF Global, LocalType, TreeType, Slots
    <3> QED
      BY <1>1, <1>2, <2>1, <3>1 DEF Global, LocalType
  <2>4. Staging'
    <3>1. CASE slot["candidate"] = None /\ Goto("copy")
      BY <1>1, <1>2, <2>1, <3>1 DEF Staging, Goto
    <3>2. CASE slot["candidate"] # None /\ staged' = slot["candidate"] /\ Goto("staged")
      BY <1>1, <1>2, <2>1, <3>2 DEF Staging, Candidate, Goto
    <3>3. CASE /\ slot["candidate"] # None /\ slot["candidate"] \notin Survivors
               /\ proved' = proved \cup {slot["candidate"]}
               /\ Goto("discardCandidate")
      BY <1>1, <1>2, <2>1, <3>3 DEF Staging, Goto, Survivors
    <3> QED
      BY <1>4, <3>1, <3>2, <3>3 DEF Stage
  <2> QED
    BY <1>1, <1>2, <2>3, <2>4, QuietGlobal, QuietSound DEF Inv, Outline
<1> QED
  BY <1>3, <1>4

LEMMA DiscardCandidateInv ==
    ASSUME Inv, DiscardCandidate
    PROVE  Inv' /\ Sound
<1>1. Staging /\ Global /\ pc = "discardCandidate" /\ pc' = "copy"
  BY AtStaging DEF DiscardCandidate, Goto
<1>2. UNCHANGED <<stages, swap, seal, removal, services, loaded, daemon, call, prior, staged, proved, gate>>
  BY DEF DiscardCandidate, records, machine, locals, ghosts
<1>3. /\ TreeType' /\ slot'["candidate"] = None
      /\ slot'["canonical"] = slot["canonical"]
      /\ slot'["prior"] = slot["prior"]
      /\ slot'["removed"] = slot["removed"]
  BY <1>1, SlotChange DEF DiscardCandidate, Global, Slots
<1>4. Global'
  BY <1>1, <1>2, <1>3 DEF Global, LocalType, SwapResumable, PriorRecorded, CandidateNamed,
     CandidateApart, SealDescribesInstalled, ServicesInstalled, Staging
<1>5. Staging'
  BY <1>1, <1>2, <1>3 DEF Staging
<1>6. \A t \in OnDisk \ OnDisk' : t = slot["candidate"]
  BY <1>2, <1>3, InOnDisk, InOnDiskPrime
<1>7. Sound
  BY <1>1, <1>2, <1>6 DEF Sound, RecordsFirst, DestroysProved, LandsFirst, Staging
<1> QED
  BY <1>4, <1>5, <1>7 DEF Inv, Outline

LEMMA CopyInv ==
    ASSUME Inv, Copy
    PROVE  Inv' /\ Sound
<1>1. Staging /\ Global /\ pc = "copy"
  BY AtStaging DEF Copy
<1>2. UNCHANGED <<slot, swap, seal, removal, services, loaded, daemon>>
  BY DEF Copy, records, machine
<1>3. CASE Return /\ UNCHANGED stages
  BY <1>2, <1>3, QuietReturn, QuietSound
<1>4. ASSUME NEW i \in Ids \ InUse,
             staged' = [id |-> i, build |-> call.build],
             stages' = stages \cup {staged'},
             Goto("publish"),
             UNCHANGED <<call, prior, labels, ready, after, loop, ghosts>>
      PROVE  Inv' /\ Sound
  <2>1. UNCHANGED <<call, prior, gate>> /\ pc' = "publish"
    BY <1>4 DEF ghosts, Goto
  <2>2. staged' \in Trees /\ staged'.id = i
    <3>1. call.build \in Builds
      BY <1>1, DeployAssumption DEF Global, LocalType
    <3> QED
      BY SMT, <1>4, <3>1 DEF Trees
  <2>3. staged' # None
    BY <2>2, DeployAssumption
  <2>4. slot["canonical"] # None => slot["canonical"].id # staged'.id
    <3>1. slot["canonical"] # None => slot["canonical"].id \in InUse
      BY InOnDisk DEF InUse
    <3> QED
      BY <1>4, <2>2, <3>1
  <2>5. LocalType'
    BY <1>1, <1>2, <2>1, <2>2 DEF Global, LocalType
  <2>6. Staging'
    BY <1>1, <1>2, <2>1, <2>3, <2>4 DEF Staging
  <2>7. OnDisk \subseteq OnDisk'
    BY <1>2, <1>4, InOnDisk, InOnDiskPrime
  <2>8. Sound
    BY <1>2, <2>7 DEF Sound, RecordsFirst, DestroysProved, LandsFirst
  <2> QED
    BY <1>1, <1>2, <2>5, <2>6, <2>8, QuietGlobal DEF Inv, Outline
<1> QED
  BY <1>3, <1>4 DEF Copy

LEMMA PublishInv ==
    ASSUME Inv, Publish
    PROVE  Inv' /\ Sound
<1>1. Staging /\ Global /\ pc = "publish" /\ pc' = "staged"
  BY AtStaging DEF Publish, Goto
<1>2. UNCHANGED <<swap, seal, removal, services, loaded, daemon, call, prior, staged, proved, gate>>
  BY DEF Publish, records, machine, locals, ghosts
<1>3. staged \in Trees \cup {None} /\ TreeType
  BY <1>1 DEF Global, LocalType
<1>4. /\ TreeType' /\ slot'["candidate"] = staged
      /\ slot'["canonical"] = slot["canonical"]
      /\ slot'["prior"] = slot["prior"]
      /\ slot'["removed"] = slot["removed"]
  BY <1>3, SlotChange DEF Publish, Slots
<1>5. Global'
  BY <1>1, <1>2, <1>4 DEF Global, LocalType, SwapResumable, PriorRecorded, CandidateNamed,
     CandidateApart, SealDescribesInstalled, ServicesInstalled, Staging
<1>6. Staging'
  BY <1>1, <1>2, <1>4 DEF Staging, Candidate
<1>7. stages' = stages \ {staged} /\ staged # None /\ slot["candidate"] = None
  BY <1>1 DEF Publish, Staging
<1>8. OnDisk \subseteq OnDisk'
  BY <1>4, <1>7, InOnDisk, InOnDiskPrime
<1>9. Sound
  BY <1>2, <1>8 DEF Sound, RecordsFirst, DestroysProved, LandsFirst
<1> QED
  BY <1>5, <1>6, <1>9 DEF Inv, Outline

LEMMA StagedInv ==
    ASSUME Inv, Staged
    PROVE  Inv' /\ Sound
<1>1. Staging /\ Global /\ pc = "staged"
  BY AtStaging DEF Staged
<1>2. UNCHANGED <<slot, stages, swap, seal, removal, services, loaded, daemon, call, prior, staged, gate>>
  BY DEF Staged, trees, records, machine, ghosts
<1>3. Candidate' /\ swap' = None /\ slot'["canonical"] = prior' /\ gate' # "stale"
  BY <1>1, <1>2 DEF Staging, Candidate
<1>4. LocalType'
  BY <1>1, <1>2 DEF Global, LocalType
<1>5. CASE prior = None /\ Goto("commit")
  <2>1. services = {}
    <3>1. slot["canonical"] = None
      BY <1>1, <1>5 DEF Staging
    <3> QED
      BY <1>1, <3>1 DEF Global, ServicesInstalled
  <2>2. Committing'
    BY <1>1, <1>2, <1>3, <1>5, <2>1 DEF Committing, Staging, Goto
  <2> QED
    BY <1>1, <1>2, <1>4, <2>2, QuietGlobal, QuietSound DEF Inv, Outline
<1>6. CASE prior # None /\ labels' = services /\ Quiesce("regate")
  <2>1. pc' = "stop" /\ after' = "regate"
    BY <1>6 DEF Quiesce, Goto
  <2>2. Superseding'
    BY <1>1, <1>2, <1>3, <1>6 DEF Superseding, Incumbent, Staging
  <2>3. Converging'
    BY <1>3, <2>1, <2>2 DEF Converging, ConvergeLoop, ToRegate
  <2> QED
    BY <1>1, <1>2, <1>4, <2>3, QuietGlobal, QuietSound DEF Inv, Outline
<1> QED
  BY <1>5, <1>6 DEF Staged

-----------------------------------------------------------------------------
(***************************************************************************)
(* Quiesce and converge.                                                   *)
(***************************************************************************)

\* An abort goes to the restore only where there is an incumbent to restore.
LEMMA AbortInv ==
    ASSUME Inv, Abort, pc # "idle",
           UNCHANGED <<slot, swap, seal, removal, services>>,
           call.verb = "supersede" /\ after = "regate" => prior # None /\ services \subseteq labels
    PROVE  Inv'
<1>1. CASE Return
  BY <1>1, QuietReturn
<1>2. CASE /\ call.verb = "supersede" /\ after = "regate"
           /\ Goto("restore") /\ UNCHANGED <<locals, loop, ghosts>>
  <2>1. pc' = "restore" /\ UNCHANGED <<call, prior, staged, labels>>
    BY <1>2 DEF Goto, locals
  <2>2. LocalType'
    BY <2>1 DEF Inv, Global, LocalType
  <2>3. Restoring'
    BY <1>2, <2>1 DEF Restoring
  <2> QED
    BY <2>2, <2>3, QuietGlobal DEF Inv, Outline
<1> QED
  BY <1>1, <1>2 DEF Abort

LEMMA AbortConverge ==
    ASSUME Inv, Converging, Abort, UNCHANGED <<slot, swap, seal, removal, services>>
    PROVE  Inv'
<1>1. pc # "idle"
  BY DEF Converging
<1>2. call.verb = "supersede" /\ after = "regate" => prior # None /\ services \subseteq labels
  BY DEF Converging, ToSettle, ToProve, ToTombstone, ToRegate, Superseding, Incumbent
<1> QED
  BY <1>1, <1>2, AbortInv

\* What a step of the quiesce or of the converge leaves alone keeps its
\* purpose; a resume needs its inventory still good.
LEMMA SamePurpose ==
    ASSUME ToSettle \/ ToProve \/ ToTombstone \/ ToRegate,
           UNCHANGED <<slot, swap, call, prior, staged, labels, after>>,
           services' \subseteq services \/ after # "regate",
           after = "settle" => gate' # "stale" /\ (pc' \in {"union", "apply", "drop"} => Inventoried')
    PROVE  (ToSettle \/ ToProve \/ ToTombstone \/ ToRegate)'
<1>1. CASE ToSettle
  BY <1>1 DEF ToSettle
<1>2. CASE ToProve
  BY <1>2 DEF ToProve, Incumbent
<1>3. CASE ToTombstone
  BY <1>3 DEF ToTombstone
<1>4. CASE ToRegate
  BY <1>4 DEF ToRegate, Superseding, Incumbent, Candidate
<1> QED
  BY <1>1, <1>2, <1>3, <1>4

\* A quiesce says by where it returns what it is for.
LEMMA Purposes ==
    ASSUME Converging
    PROVE  /\ after = "settle" => ToSettle
           /\ after = "prove" => ToProve
           /\ after = "tombstone" => ToTombstone
           /\ after = "regate" => ToRegate
           /\ after \in {"settle", "prove", "tombstone", "regate"}
BY DEF Converging, ToSettle, ToProve, ToTombstone, ToRegate

LEMMA StopDaemonInv ==
    ASSUME Inv, StopDaemon
    PROVE  Inv' /\ Sound
<1>1. Converging /\ Global /\ pc = "stop"
  BY AtConverging DEF StopDaemon
<1>2. UNCHANGED <<slot, stages, swap, seal, removal, services, loaded>>
  BY DEF StopDaemon, trees, records
<1>3. CASE Abort
  BY <1>1, <1>2, <1>3, AbortConverge, QuietSound
<1>4. CASE Goto("survivors") /\ UNCHANGED <<locals, loop, ghosts>>
  <2>1. pc' = "survivors" /\ UNCHANGED <<call, prior, staged, labels, after, gate>>
    BY <1>4 DEF Goto, locals, ghosts
  <2>2. LocalType'
    BY <1>1, <1>2, <2>1 DEF Global, LocalType
  <2>3. Converging'
    <3>1. after = "settle" => gate # "stale"
      BY <1>1, Purposes DEF ToSettle
    <3> QED
      BY <1>1, <1>2, <2>1, <3>1, SamePurpose DEF Converging, ConvergeLoop
  <2> QED
    BY <1>1, <1>2, <2>2, <2>3, QuietGlobal, QuietSound DEF Inv, Outline
<1> QED
  BY <1>3, <1>4 DEF StopDaemon

LEMMA TerminateSurvivorsInv ==
    ASSUME Inv, TerminateSurvivors
    PROVE  Inv' /\ Sound
<1>1. Converging /\ Global /\ pc = "survivors"
  BY AtConverging DEF TerminateSurvivors
<1>2. UNCHANGED <<slot, stages, swap, seal, removal, services, loaded>>
  BY DEF TerminateSurvivors, trees, records
<1>3. CASE Abort
  BY <1>1, <1>2, <1>3, AbortConverge, QuietSound
<1>4. CASE Goto("gate") /\ UNCHANGED <<locals, loop, ghosts>>
  <2>1. pc' = "gate" /\ UNCHANGED <<call, prior, staged, labels, after, gate>>
    BY <1>4 DEF Goto, locals, ghosts
  <2>2. LocalType'
    BY <1>1, <1>2, <2>1 DEF Global, LocalType
  <2>3. Converging'
    <3>1. after = "settle" => gate # "stale"
      BY <1>1, Purposes DEF ToSettle
    <3> QED
      BY <1>1, <1>2, <2>1, <3>1, SamePurpose DEF Converging, ConvergeLoop
  <2> QED
    BY <1>1, <1>2, <2>2, <2>3, QuietGlobal, QuietSound DEF Inv, Outline
<1> QED
  BY <1>3, <1>4 DEF TerminateSurvivors

\* The inventory over every slot, where it finds nothing running.
LEMMA Inventory ==
    ASSUME Survivors = {}, proved' = OnDisk, UNCHANGED <<slot, stages, daemon, loaded>>
    PROVE  Inventoried'
<1>1. OnDisk' = OnDisk
  BY DEF OnDisk
<1>2. daemon = None
  BY DEF Survivors
<1> QED
  BY <1>1, <1>2 DEF Inventoried

LEMMA GateInv ==
    ASSUME Inv, Gate
    PROVE  Inv' /\ Sound
<1>1. Converging /\ Global /\ pc = "gate"
  BY AtConverging DEF Gate
<1>2. UNCHANGED <<slot, stages, swap, seal, removal, services, loaded, daemon>>
  BY DEF Gate, trees, records, machine
<1>3. CASE Abort
  BY <1>1, <1>2, <1>3, AbortConverge, QuietSound
<1>4. CASE /\ Survivors = {} /\ Goto("union") /\ proved' = OnDisk
           /\ gate' = "fresh" /\ UNCHANGED <<locals, loop>>
  <2>1. pc' = "union" /\ UNCHANGED <<call, prior, staged, labels, after>> /\ gate' # "stale"
    BY <1>4 DEF Goto, locals
  <2>2. LocalType'
    BY <1>1, <1>2, <2>1 DEF Global, LocalType
  <2>3. Inventoried'
    BY <1>2, <1>4, Inventory
  <2>4. Converging'
    BY <1>1, <1>2, <2>1, <2>3, SamePurpose DEF Converging, ConvergeLoop
  <2> QED
    BY <1>1, <1>2, <2>2, <2>4, QuietGlobal, QuietSound DEF Inv, Outline
<1> QED
  BY <1>3, <1>4 DEF Gate, RequireEmpty

\* A converge that is not an activation's takes every label away.
LEMMA TargetEmpty ==
    ASSUME Converging, after # "prove"
    PROVE  Target = {}
BY DEF Target

\* Only an activation, with a generation installed and no swap, records labels.
LEMMA UnionInstalled ==
    ASSUME Global, Converging, UNCHANGED <<slot, swap>>, services' \subseteq services \cup Target
    PROVE  ServicesInstalled'
<1>1. CASE after = "prove"
  <2>1. swap = None /\ slot["canonical"] # None
    BY <1>1 DEF Converging, ToSettle, ToProve, ToTombstone, ToRegate, Incumbent
  <2> QED
    BY <2>1 DEF ServicesInstalled
<1>2. CASE after # "prove"
  BY <1>2, TargetEmpty DEF Global, ServicesInstalled
<1> QED
  BY <1>1, <1>2

LEMMA ServicesGlobal ==
    ASSUME Global, LocalType', ServicesInstalled', UNCHANGED <<slot, swap, seal>>
    PROVE  Global'
BY DEF Global, TreeType, SwapResumable, PriorRecorded, CandidateNamed, CandidateApart,
       SealDescribesInstalled

LEMMA RecordUnionInv ==
    ASSUME Inv, RecordUnion
    PROVE  Inv' /\ Sound
<1>1. Converging /\ Global /\ pc = "union"
  BY AtConverging DEF RecordUnion
<1>2. UNCHANGED <<slot, stages, swap, seal, removal, loaded, daemon>>
  BY DEF RecordUnion, trees, machine
<1>3. CASE Abort /\ UNCHANGED services
  BY <1>1, <1>2, <1>3, AbortConverge, QuietSound
<1>4. CASE /\ services' = services \cup Target /\ todo' = Target
           /\ Goto("apply") /\ UNCHANGED <<failed, locals, ghosts>>
  <2>1. pc' = "apply" /\ UNCHANGED <<call, prior, staged, labels, after, gate, proved>>
    BY <1>4 DEF Goto, locals, ghosts
  <2>2. LocalType'
    BY <1>1, <1>2, <2>1 DEF Global, LocalType
  <2>3. Target' = Target
    BY <2>1 DEF Target
  <2>4. services' \subseteq services \/ after # "regate"
    BY <1>1, <1>4, TargetEmpty
  <2>5. after = "settle" => gate' # "stale" /\ Inventoried'
    BY <1>1, <1>2, <2>1 DEF Converging, ToSettle, ToProve, ToTombstone, ToRegate, Inventoried, OnDisk
  <2>6. Converging'
    BY <1>1, <1>2, <1>4, <2>1, <2>3, <2>4, <2>5, SamePurpose DEF Converging, ConvergeLoop
  <2>7. Global'
    BY <1>1, <1>2, <1>4, <2>2, UnionInstalled, ServicesGlobal
  <2>8. OnDisk' = OnDisk
    BY <1>2 DEF OnDisk
  <2>9. Sound
    BY <1>2, <1>4, <2>8 DEF Sound, RecordsFirst, DestroysProved, LandsFirst
  <2> QED
    BY <2>6, <2>7, <2>9 DEF Inv, Outline
<1> QED
  BY <1>3, <1>4 DEF RecordUnion

LEMMA ApplyAgentInv ==
    ASSUME Inv, ApplyAgent
    PROVE  Inv' /\ Sound
<1>1. Converging /\ Global /\ pc = "apply" /\ todo \subseteq services /\ todo \subseteq Target
  BY AtConverging DEF ApplyAgent, Converging, ConvergeLoop
<1>2. UNCHANGED <<slot, stages, swap, seal, removal, services>>
  BY DEF ApplyAgent, trees, records
<1>3. PICK l \in todo :
        \/ /\ loaded' = loaded \cup {l} /\ todo' = todo \ {l}
           /\ UNCHANGED <<pc, failed, locals, proved>>
        \/ loaded' \in {loaded, loaded \cup {l}, loaded \ {l}} /\ Abort
  BY DEF ApplyAgent
<1>4. after = "prove"
  BY <1>1, <1>3, TargetEmpty
<1>5. Sound
  <2>1. OnDisk' = OnDisk
    BY <1>2 DEF OnDisk
  <2>2. loaded' \subseteq loaded \cup {l} /\ l \in services
    BY <1>1, <1>3
  <2> QED
    BY <1>2, <2>1, <2>2 DEF Sound, RecordsFirst, DestroysProved, LandsFirst
<1>6. CASE Abort
  BY <1>1, <1>2, <1>5, <1>6, AbortConverge
<1>7. CASE todo' = todo \ {l} /\ UNCHANGED <<pc, failed, locals, proved>>
  <2>1. UNCHANGED <<pc, call, prior, staged, labels, after>>
    BY <1>7 DEF locals
  <2>2. Target' = Target
    BY <2>1 DEF Target
  <2>3. LocalType'
    BY <1>1, <1>2, <2>1 DEF Global, LocalType
  <2>4. (ToSettle \/ ToProve \/ ToTombstone \/ ToRegate)'
    BY <1>1, <1>2, <1>4, <2>1, SamePurpose DEF Converging
  <2>5. Converging'
    BY <1>1, <1>2, <1>7, <2>1, <2>2, <2>4 DEF Converging, ConvergeLoop
  <2> QED
    BY <1>1, <1>2, <1>5, <2>3, <2>5, QuietGlobal DEF Inv, Outline
<1> QED
  BY <1>3, <1>6, <1>7

LEMMA AppliedAllInv ==
    ASSUME Inv, AppliedAll
    PROVE  Inv' /\ Sound
<1>1. Converging /\ Global /\ pc = "apply" /\ pc' = "drop" /\ todo' = services \ Target
  BY AtConverging DEF AppliedAll, Goto
<1>2. UNCHANGED <<slot, stages, swap, seal, removal, services, loaded, daemon,
                  call, prior, staged, labels, after, proved, gate>>
  BY DEF AppliedAll, trees, records, machine, locals, ghosts
<1>3. Target' = Target
  BY <1>2 DEF Target
<1>4. LocalType'
  BY <1>1, <1>2 DEF Global, LocalType
<1>5. after = "settle" => gate' # "stale" /\ Inventoried'
  BY <1>1, <1>2, Purposes DEF ToSettle, Inventoried, OnDisk
<1>6. (ToSettle \/ ToProve \/ ToTombstone \/ ToRegate)'
  BY <1>1, <1>2, <1>5, SamePurpose DEF Converging
<1>7. Converging'
  BY <1>1, <1>2, <1>3, <1>6 DEF Converging, ConvergeLoop
<1> QED
  BY <1>1, <1>2, <1>4, <1>7, QuietGlobal, QuietSound DEF Inv, Outline

\* A resume has no label to take away.
LEMMA ResumeDropsNothing ==
    ASSUME Global, Converging, pc = "drop", NEW l \in todo
    PROVE  after # "settle"
<1>1. l \in services
  BY DEF Converging, ConvergeLoop
<1> QED
  BY <1>1, Purposes DEF ToSettle, Global, ServicesInstalled

LEMMA DropAgentInv ==
    ASSUME Inv, DropAgent
    PROVE  Inv' /\ Sound
<1>1. Converging /\ Global /\ pc = "drop"
  BY AtConverging DEF DropAgent
<1>2. UNCHANGED <<slot, stages, swap, seal, removal, services>>
  BY DEF DropAgent, trees, records
<1>3. PICK l \in todo :
        /\ loaded' = loaded \ {l}
        /\ UNCHANGED <<pc, loop, locals, proved>> \/ Abort
  BY DEF DropAgent
<1>4. after # "settle"
  BY <1>1, ResumeDropsNothing
<1>5. Sound
  <2>1. OnDisk' = OnDisk
    BY <1>2 DEF OnDisk
  <2> QED
    BY <1>2, <1>3, <2>1 DEF Sound, RecordsFirst, DestroysProved, LandsFirst
<1>6. CASE Abort
  BY <1>1, <1>2, <1>5, <1>6, AbortConverge
<1>7. CASE UNCHANGED <<pc, loop, locals, proved>>
  <2>1. UNCHANGED <<pc, todo, call, prior, staged, labels, after>>
    BY <1>7 DEF locals, loop
  <2>2. Target' = Target
    BY <2>1 DEF Target
  <2>3. LocalType'
    BY <1>1, <1>2, <2>1 DEF Global, LocalType
  <2>4. (ToSettle \/ ToProve \/ ToTombstone \/ ToRegate)'
    BY <1>1, <1>2, <1>4, <2>1, SamePurpose DEF Converging
  <2>5. Converging'
    BY <1>1, <1>2, <2>1, <2>2, <2>4 DEF Converging, ConvergeLoop
  <2> QED
    BY <1>1, <1>2, <1>5, <2>3, <2>5, QuietGlobal DEF Inv, Outline
<1> QED
  BY <1>3, <1>6, <1>7

LEMMA RecordDropInv ==
    ASSUME Inv, RecordDrop
    PROVE  Inv' /\ Sound
<1>1. /\ Converging /\ Global /\ pc = "drop"
      /\ services \ Target \subseteq todo /\ todo \subseteq services
  BY AtConverging DEF RecordDrop, Converging, ConvergeLoop
<1>2. UNCHANGED <<slot, stages, swap, seal, removal, loaded, daemon, pc,
                  call, prior, staged, labels, after, proved, gate>>
  BY DEF RecordDrop, trees, machine, locals, ghosts
<1>3. PICK l \in todo \ loaded : services' = services \ {l} /\ todo' = todo \ {l}
  BY DEF RecordDrop
<1>4. Target' = Target
  BY <1>2 DEF Target
<1>5. LocalType'
  BY <1>1, <1>2 DEF Global, LocalType
<1>6. after # "settle"
  BY <1>1, <1>3, ResumeDropsNothing
<1>7. (ToSettle \/ ToProve \/ ToTombstone \/ ToRegate)'
  BY <1>1, <1>2, <1>3, <1>6, SamePurpose DEF Converging
<1>8. ConvergeLoop'
  BY <1>1, <1>2, <1>3, <1>4 DEF ConvergeLoop
<1>9. Converging'
  BY <1>1, <1>2, <1>7, <1>8 DEF Converging
<1>10. Global'
  BY <1>1, <1>2, <1>3, <1>5, UnionInstalled, ServicesGlobal
<1>11. Sound
  <2>1. OnDisk' = OnDisk
    BY <1>2 DEF OnDisk
  <2> QED
    BY <1>2, <1>3, <2>1 DEF Sound, RecordsFirst, DestroysProved, LandsFirst
<1> QED
  BY <1>9, <1>10, <1>11 DEF Inv, Outline

LEMMA ConvergedInv ==
    ASSUME Inv, Converged
    PROVE  Inv' /\ Sound
<1>1. /\ Converging /\ Global /\ pc = "drop" /\ pc' = after
      /\ services \subseteq Target /\ services' = Target
  BY AtConverging DEF Converged, Converging, ConvergeLoop, Goto
<1>2. UNCHANGED <<slot, stages, swap, seal, removal, loaded, daemon,
                  call, prior, staged, labels, after, proved, gate>>
  BY DEF Converged, trees, machine, locals, ghosts
<1>3. LocalType'
  BY <1>1, <1>2, Purposes DEF Global, LocalType
<1>4. Global'
  BY <1>1, <1>2, <1>3, UnionInstalled, ServicesGlobal
<1>5. Sound
  <2>1. OnDisk' = OnDisk
    BY <1>2 DEF OnDisk
  <2> QED
    BY <1>1, <1>2, <2>1 DEF Sound, RecordsFirst, DestroysProved, LandsFirst
<1>6. Outline'
  <2>1. CASE ToSettle
    <3>1. Landing'
      BY <1>1, <1>2, <2>1 DEF ToSettle, Landing, LandingProved, Inventoried, OnDisk
    <3> QED
      BY <3>1 DEF Outline
  <2>2. CASE ToProve
    <3>1. Activating'
      BY <1>1, <1>2, <2>2 DEF ToProve, Activating, Incumbent
    <3> QED
      BY <3>1 DEF Outline
  <2>3. CASE ToTombstone
    <3>1. Tombing'
      BY <1>1, <1>2, <2>3, TargetEmpty DEF ToTombstone, Tombing
    <3> QED
      BY <3>1 DEF Outline
  <2>4. CASE ToRegate
    <3>1. services' = {}
      BY <1>1, <2>4, TargetEmpty DEF ToRegate
    <3>2. Superseding => Superseding'
      BY <1>2, <3>1 DEF Superseding, Incumbent, Candidate
    <3>3. Regating'
      BY <1>1, <1>2, <2>4, <3>1, <3>2 DEF ToRegate, Regating
    <3> QED
      BY <3>3 DEF Outline
  <2> QED
    BY <1>1, <2>1, <2>2, <2>3, <2>4 DEF Converging
<1> QED
  BY <1>4, <1>5, <1>6 DEF Inv

LEMMA RegateInv ==
    ASSUME Inv, Regate
    PROVE  Inv' /\ Sound
<1> DEFINE next == CASE call.verb = "supersede" -> "commit"
                     [] call.verb = "uninstall" -> "remove"
                     [] call.verb = "reset" -> "wipeSeal"
<1>1. Regating /\ Global /\ pc = "regate"
  BY AtRegating DEF Regate
<1>2. UNCHANGED <<slot, stages, swap, seal, removal, services, loaded, daemon>>
  BY DEF Regate, trees, records, machine
<1>3. CASE Abort
  <2>1. pc # "idle"
    BY <1>1
  <2>2. call.verb = "supersede" => prior # None /\ services \subseteq labels
    BY <1>1 DEF Regating, Superseding, Incumbent
  <2> QED
    BY <1>2, <1>3, <2>1, <2>2, AbortInv, QuietSound
<1>4. CASE /\ Survivors = {} /\ Goto(next) /\ proved' = OnDisk
           /\ gate' = "fresh" /\ UNCHANGED <<locals, loop>>
  <2>1. UNCHANGED <<call, prior, staged>> /\ gate' # "stale" /\ pc' = next
    BY <1>4 DEF locals, Goto
  <2>2. Inventoried'
    BY <1>2, <1>4, Inventory
  <2>3. LocalType'
    BY <1>1, <1>2, <2>1 DEF Global, LocalType
  <2>4. swap = None /\ services = {}
    BY <1>1 DEF Regating
  <2>5. CASE call.verb \in {"uninstall", "reset"}
    <3>1. pc' \in {"remove", "wipeSeal"}
      BY <2>1, <2>5
    <3>2. Ending'
      BY <1>2, <2>1, <2>2, <2>4, <3>1 DEF Ending
    <3> QED
      BY <1>1, <1>2, <2>3, <3>2, QuietGlobal, QuietSound DEF Inv, Outline
  <2>6. CASE Superseding
    <3>1. pc' = "commit"
      BY <2>1, <2>6 DEF Superseding
    <3>2. Committing'
      BY <1>2, <2>1, <2>2, <2>4, <2>6, <3>1 DEF Committing, Superseding, Incumbent, Candidate
    <3> QED
      BY <1>1, <1>2, <2>3, <3>2, QuietGlobal, QuietSound DEF Inv, Outline
  <2> QED
    BY <1>1, <2>5, <2>6 DEF Regating
<1> QED
  BY <1>3, <1>4 DEF Regate, RequireEmpty

LEMMA CommitInv ==
    ASSUME Inv, Commit
    PROVE  Inv' /\ Sound
<1> DEFINE record == [prior |-> prior, candidate |-> staged]
<1>1. Committing /\ Global /\ pc = "commit"
  BY AtCommitting DEF Commit
<1>2. UNCHANGED <<slot, stages, seal, removal, services, loaded, daemon>>
  BY DEF Commit, trees, machine
<1>3. record # None /\ record.prior = prior /\ record.candidate = staged
  <2>1. prior \in Trees \cup {None} /\ staged \in Trees
    BY <1>1 DEF Global, LocalType, Committing, Candidate
  <2> QED
    BY SMT, <2>1, DeployAssumption
<1>4. Sound
  <2>1. OnDisk' = OnDisk
    BY <1>2 DEF OnDisk
  <2> QED
    BY <1>1, <1>2, <2>1 DEF Sound, RecordsFirst, DestroysProved, LandsFirst, Committing
<1>5. ASSUME swap' = record, LocalType' PROVE Global'
  <2>1. /\ services = {} /\ slot["canonical"] = prior /\ slot["candidate"] = staged
        /\ staged # None /\ swap = None
    BY <1>1 DEF Committing, Candidate
  <2>2. swap' # None /\ swap'.prior = prior /\ swap'.candidate = staged
    BY <1>3, <1>5
  <2>3. slot["prior"] = None
    BY <1>1, <2>1 DEF Global, PriorRecorded
  <2>4. SwapResumable'
    BY <1>2, <2>1, <2>2 DEF SwapResumable
  <2> QED
    BY <1>1, <1>2, <1>5, <2>1, <2>2, <2>3, <2>4 DEF Global, TreeType, PriorRecorded, CandidateNamed,
       CandidateApart, SealDescribesInstalled, ServicesInstalled
<1>6. CASE swap' = record /\ Goto("settle") /\ UNCHANGED <<locals, loop, ghosts>>
  <2>1. UNCHANGED <<call, prior, staged, gate, proved>> /\ pc' = "settle"
    BY <1>6 DEF locals, ghosts, Goto
  <2>2. LocalType'
    BY <1>1, <1>2, <2>1 DEF Global, LocalType
  <2>3. Landing'
    BY <1>1, <1>2, <1>3, <1>6, <2>1 DEF Landing, LandingProved, Committing, Inventoried, OnDisk
  <2> QED
    BY <1>4, <1>5, <1>6, <2>2, <2>3 DEF Inv, Outline
<1>7. CASE swap' \in {swap, record} /\ Abort
  <2>1. CASE swap' = swap
    <3>1. call.verb = "supersede" /\ after = "regate" => prior # None /\ services \subseteq labels
      BY <1>1 DEF Committing
    <3> QED
      BY <1>1, <1>2, <1>4, <1>7, <2>1, <3>1, AbortInv
  <2>2. CASE swap' = record /\ Return
    BY <1>1, <1>2, <1>4, <1>5, <2>2, Returns DEF Inv, Outline, Global, LocalType
  <2>3. CASE /\ swap' = record /\ call.verb = "supersede"
             /\ Goto("restore") /\ UNCHANGED <<locals, loop, ghosts>>
    <3>1. UNCHANGED <<call, prior, staged, labels>> /\ pc' = "restore"
      BY <2>3 DEF locals, Goto
    <3>2. LocalType'
      BY <1>1, <1>2, <3>1 DEF Global, LocalType
    <3>3. Restoring'
      BY <1>1, <1>2, <2>3, <3>1 DEF Committing, Restoring
    <3> QED
      BY <1>4, <1>5, <2>3, <3>2, <3>3 DEF Inv, Outline
  <2> QED
    BY <1>7, <2>1, <2>2, <2>3 DEF Abort
<1> QED
  BY <1>6, <1>7 DEF Commit

-----------------------------------------------------------------------------
(***************************************************************************)
(* The restore.                                                            *)
(***************************************************************************)

\* A seal that goes, or stays.
LEMMA SealGone ==
    ASSUME Global, LocalType', seal' \in {seal, None}, UNCHANGED <<slot, swap, services>>
    PROVE  Global'
BY DEF Global, TreeType, SwapResumable, PriorRecorded, CandidateNamed, CandidateApart,
       SealDescribesInstalled, ServicesInstalled

LEMMA RestoreInv ==
    ASSUME Inv, Restore
    PROVE  Inv' /\ Sound
<1>1. Global /\ pc = "restore" /\ prior # None /\ services \subseteq labels
  BY AtRestoring DEF Restore, Restoring
<1>2. UNCHANGED <<slot, stages, swap, removal, services, loaded>>
  BY DEF Restore, trees, machine
<1>3. CASE Return /\ UNCHANGED seal
  BY <1>2, <1>3, QuietReturn, QuietSound
<1>4. CASE ~(Return /\ UNCHANGED seal)
  <2>1. PICK answers \in {daemon # None, FALSE} :
          /\ swap = None /\ slot["canonical"] = prior
          /\ seal' = IF answers THEN seal ELSE None
          /\ todo' = IF answers THEN labels \ services ELSE labels
          /\ Goto("rerecord")
          /\ UNCHANGED <<failed, locals, ghosts>>
    BY <1>4 DEF Restore
  <2>2. UNCHANGED <<call, prior, staged, labels>> /\ pc' = "rerecord"
    BY <2>1 DEF locals, Goto
  <2>3. LocalType'
    BY <1>1, <1>2, <2>2 DEF Global, LocalType
  <2>4. seal' \in {seal, None} /\ todo' \subseteq labels
    BY <2>1
  <2>5. Restoring'
    BY <1>1, <1>2, <2>1, <2>2, <2>4 DEF Restoring
  <2> QED
    BY <1>1, <1>2, <2>3, <2>4, <2>5, SealGone, QuietSound DEF Inv, Outline
<1> QED
  BY <1>3, <1>4

LEMMA RerecordInv ==
    ASSUME Inv, Rerecord
    PROVE  Inv' /\ Sound
<1>1. /\ Global /\ pc = "rerecord" /\ pc' = "reapply" /\ services' = labels
      /\ swap = None /\ slot["canonical"] # None
      /\ services \subseteq labels /\ todo \subseteq labels
  BY AtRestoring DEF Rerecord, Restoring, Goto
<1>2. UNCHANGED <<slot, stages, swap, seal, removal, loaded, call, prior, staged, labels, todo>>
  BY DEF Rerecord, trees, machine, locals, loop
<1>3. LocalType' /\ ServicesInstalled'
  BY <1>1, <1>2 DEF Global, LocalType, ServicesInstalled
<1>4. Restoring'
  BY <1>1, <1>2 DEF Restoring
<1>5. OnDisk' = OnDisk
  BY <1>2 DEF OnDisk
<1>6. Sound
  BY <1>1, <1>2, <1>5 DEF Sound, RecordsFirst, DestroysProved, LandsFirst
<1> QED
  BY <1>1, <1>2, <1>3, <1>4, <1>6, ServicesGlobal DEF Inv, Outline

LEMMA ReapplyInv ==
    ASSUME Inv, Reapply
    PROVE  Inv' /\ Sound
<1>1. /\ Global /\ pc = "reapply" /\ swap = None /\ slot["canonical"] # None
      /\ services \subseteq labels /\ todo \subseteq services
  BY AtRestoring DEF Reapply, Restoring
<1>2. UNCHANGED <<slot, stages, swap, seal, removal, services>>
  BY DEF Reapply, trees, records
<1>3. CASE Return /\ UNCHANGED loaded
  BY <1>2, <1>3, QuietReturn, QuietSound
<1>4. ASSUME NEW l \in todo, loaded' = loaded \cup {l}, todo' = todo \ {l},
             UNCHANGED <<pc, failed, locals, ghosts>>
      PROVE  Inv' /\ Sound
  <2>1. UNCHANGED <<pc, call, prior, staged, labels>>
    BY <1>4 DEF locals
  <2>2. LocalType'
    BY <1>1, <1>2, <2>1 DEF Global, LocalType
  <2>3. Restoring'
    BY <1>1, <1>2, <1>4, <2>1 DEF Restoring
  <2>4. OnDisk' = OnDisk
    BY <1>2 DEF OnDisk
  <2>5. Sound
    BY <1>1, <1>2, <1>4, <2>4 DEF Sound, RecordsFirst, DestroysProved, LandsFirst
  <2> QED
    BY <1>1, <1>2, <2>2, <2>3, <2>5, QuietGlobal DEF Inv, Outline
<1> QED
  BY <1>3, <1>4 DEF Reapply

-----------------------------------------------------------------------------
(***************************************************************************)
(* Activate, Uninstall and Reset after their converge, and the retirements *)
(* they share with a landing.                                              *)
(***************************************************************************)

LEMMA ProveInv ==
    ASSUME Inv, Prove
    PROVE  Inv' /\ Sound
<1>1. Activating /\ Global /\ pc = "prove"
  BY AtActivating DEF Prove
<1>2. UNCHANGED <<slot, stages, swap, seal, removal, services, loaded>>
  BY DEF Prove, trees, records, machine
<1>3. CASE Return
  BY <1>2, <1>3, QuietReturn, QuietSound
<1>4. CASE /\ Goto(IF call.verb = "fresh" THEN "seal" ELSE "unbury")
           /\ UNCHANGED <<call, prior, staged>>
  <2>1. pc' \in {"seal", "unbury"}
    BY <1>4 DEF Goto
  <2>2. LocalType'
    BY <1>1, <1>2, <1>4, <2>1 DEF Global, LocalType
  <2>3. Activating'
    BY <1>1, <1>2, <1>4, <2>1 DEF Activating, Incumbent
  <2> QED
    BY <1>1, <1>2, <2>2, <2>3, QuietGlobal, QuietSound DEF Inv, Outline
<1> QED
  BY <1>3, <1>4 DEF Prove

LEMMA SealInv ==
    ASSUME Inv, Seal
    PROVE  Inv' /\ Sound
<1>1. Activating /\ Global /\ pc = "seal" /\ Return
  BY AtActivating DEF Seal
<1>2. UNCHANGED <<slot, stages, swap, removal, services, loaded>>
  BY DEF Seal, trees, machine
<1>3. CASE UNCHANGED seal
  BY <1>1, <1>2, <1>3, QuietReturn, QuietSound
<1>4. CASE seal' = Sealing
  <2>1. seal'.tree = slot["canonical"]
    BY <1>1, <1>4 DEF Sealing, Activating, Incumbent
  <2>2. LocalType' /\ Idling'
    BY <1>1, <1>2, Returns DEF Global, LocalType
  <2>3. Global'
    BY <1>1, <1>2, <2>1, <2>2 DEF Global, TreeType, SwapResumable, PriorRecorded, CandidateNamed,
       CandidateApart, SealDescribesInstalled, ServicesInstalled
  <2> QED
    BY <1>2, <2>2, <2>3, QuietSound DEF Inv, Outline
<1> QED
  BY <1>3, <1>4 DEF Seal

LEMMA RemoveSealInv ==
    ASSUME Inv, RemoveSeal
    PROVE  Inv' /\ Sound
<1>1. UNCHANGED <<slot, stages, swap, removal, services, loaded, daemon, call, prior, staged, todo, proved, gate>>
  BY DEF RemoveSeal, trees, machine, locals, ghosts
<1>2. \/ pc = "retireSeal" /\ pc' = "retireRemoval"
      \/ pc = "tombSeal" /\ pc' = "entomb"
      \/ pc = "wipeSeal" /\ pc' = "wipeRemoval"
  BY SMT DEF RemoveSeal, RemovesSeal, Goto
<1>3. (seal' = None /\ failed' = failed) \/ (seal' = seal /\ failed' = TRUE)
  BY DEF RemoveSeal, JoinOk, JoinFails
<1>4. Global /\ LocalType'
  BY <1>1, <1>2 DEF Inv, Global, LocalType
<1>5. Global' /\ Sound
  BY <1>1, <1>3, <1>4, SealGone, QuietSound
<1>6. CASE pc = "retireSeal" /\ pc' = "retireRemoval"
  <2>1. Retiring
    BY <1>6, AtRetiring
  <2>2. LandingProved'
    BY <1>1, <2>1 DEF Retiring, LandingProved, Inventoried, OnDisk
  <2>3. Retiring'
    BY <1>1, <1>3, <1>6, <2>1, <2>2 DEF Retiring
  <2> QED
    BY <1>5, <2>3 DEF Inv, Outline
<1>7. CASE pc = "tombSeal" /\ pc' = "entomb"
  <2>1. Tombing'
    BY <1>1, <1>7, AtTombing DEF Tombing
  <2> QED
    BY <1>5, <2>1 DEF Inv, Outline
<1>8. CASE pc = "wipeSeal" /\ pc' = "wipeRemoval"
  <2>1. Ending'
    BY <1>1, <1>8, AtEnding DEF Ending, Inventoried, OnDisk
  <2> QED
    BY <1>5, <2>1 DEF Inv, Outline
<1> QED
  BY <1>2, <1>6, <1>7, <1>8

LEMMA RemoveRemovalInv ==
    ASSUME Inv, RemoveRemoval
    PROVE  Inv' /\ Sound
<1>1. UNCHANGED <<slot, stages, swap, seal, services, loaded, daemon, call, prior, staged, todo, proved, gate>>
  BY DEF RemoveRemoval, trees, machine, locals, ghosts
<1>2. \/ pc = "retireRemoval" /\ pc' = "retirePrior"
      \/ pc = "wipeRemoval" /\ pc' = "wipeSwap"
      \/ pc = "unbury" /\ pc' = "seal"
  BY SMT DEF RemoveRemoval, RemovesRemoval, Goto
<1>3. removal' \in {removal, None} /\ (failed' = failed \/ failed' = TRUE)
  BY DEF RemoveRemoval, JoinOk, JoinFails
<1>4. Global /\ LocalType'
  BY <1>1, <1>2, <1>3 DEF Inv, Global, LocalType
<1>5. Global' /\ Sound
  BY <1>1, <1>4, QuietGlobal, QuietSound
<1>6. CASE pc = "retireRemoval" /\ pc' = "retirePrior"
  <2>1. Retiring
    BY <1>6, AtRetiring
  <2>2. LandingProved'
    BY <1>1, <2>1 DEF Retiring, LandingProved, Inventoried, OnDisk
  <2>3. Retiring'
    BY <1>1, <1>3, <1>6, <2>1, <2>2 DEF Retiring
  <2> QED
    BY <1>5, <2>3 DEF Inv, Outline
<1>7. CASE pc = "wipeRemoval" /\ pc' = "wipeSwap"
  <2>1. Ending'
    BY <1>1, <1>7, AtEnding DEF Ending, Inventoried, OnDisk
  <2> QED
    BY <1>5, <2>1 DEF Inv, Outline
<1>8. CASE pc = "unbury" /\ pc' = "seal"
  <2>1. Activating'
    BY <1>1, <1>8, AtActivating DEF Activating, Incumbent
  <2> QED
    BY <1>5, <2>1 DEF Inv, Outline
<1> QED
  BY <1>2, <1>6, <1>7, <1>8

LEMMA TombstoneInv ==
    ASSUME Inv, Tombstone
    PROVE  Inv' /\ Sound
<1>1. Tombing /\ Global /\ pc = "tombstone"
  BY AtTombing DEF Tombstone
<1>2. UNCHANGED <<slot, stages, swap, seal, removal, services, loaded>>
  BY DEF Tombstone, trees, records, machine
<1>3. CASE Return
  BY <1>2, <1>3, QuietReturn, QuietSound
<1>4. CASE /\ prior' \in {removal, slot["canonical"]}
           /\ Goto("regate") \/ Goto("tombSeal")
           /\ UNCHANGED <<call, staged>>
  <2>1. pc' \in {"regate", "tombSeal"}
    BY <1>4 DEF Goto
  <2>2. prior' \in Trees \cup {None}
    BY <1>1, <1>4 DEF Global, LocalType, TreeType, Slots
  <2>3. LocalType'
    BY <1>1, <1>2, <1>4, <2>1, <2>2 DEF Global, LocalType
  <2>4. Regating' \/ Tombing'
    BY <1>1, <1>2, <1>4, <2>1 DEF Tombing, Regating
  <2> QED
    BY <1>1, <1>2, <2>3, <2>4, QuietGlobal, QuietSound DEF Inv, Outline
<1> QED
  BY <1>3, <1>4 DEF Tombstone

LEMMA EntombInv ==
    ASSUME Inv, Entomb
    PROVE  Inv' /\ Sound
<1>1. Tombing /\ Global /\ pc = "entomb"
  BY AtTombing DEF Entomb
<1>2. UNCHANGED <<slot, stages, swap, seal, services, loaded>>
  BY DEF Entomb, trees, machine
<1>3. removal' \in {prior, removal}
  BY DEF Entomb
<1>4. removal' \in Trees \cup {None}
  BY <1>1, <1>3 DEF Global, LocalType
<1>5. CASE Return
  BY <1>1, <1>2, <1>4, <1>5, Returns, QuietGlobal, QuietSound DEF Inv, Outline
<1>6. CASE Goto("regate") /\ UNCHANGED <<locals, loop, ghosts>>
  <2>1. pc' = "regate" /\ UNCHANGED <<call, prior, staged>>
    BY <1>6 DEF Goto, locals
  <2>2. LocalType'
    BY <1>1, <1>4, <2>1 DEF Global, LocalType
  <2>3. Regating'
    BY <1>1, <1>2, <2>1 DEF Tombing, Regating
  <2> QED
    BY <1>1, <1>2, <2>2, <2>3, QuietGlobal, QuietSound DEF Inv, Outline
<1> QED
  BY <1>5, <1>6 DEF Entomb

LEMMA RemoveBundleInv ==
    ASSUME Inv, RemoveBundle
    PROVE  Inv' /\ Sound
<1>1. Ending /\ Global /\ pc = "remove"
  BY AtEnding DEF RemoveBundle
<1>2. UNCHANGED <<stages, swap, seal, removal, services, loaded, daemon>>
  BY DEF RemoveBundle, records, machine
<1>3. CASE Return /\ UNCHANGED slot
  BY <1>2, <1>3, QuietReturn, QuietSound
<1>4. CASE ~(Return /\ UNCHANGED slot)
  <2>1. /\ slot["canonical"] = None \/ slot["removed"] = None
        /\ slot' = IF slot["canonical"] = None THEN slot
                   ELSE [slot EXCEPT !["removed"] = slot["canonical"], !["canonical"] = None]
        /\ todo' = Discards
        /\ Goto("discard")
        /\ UNCHANGED <<failed, locals, ghosts>>
    BY <1>4 DEF RemoveBundle
  <2>2. pc' = "discard" /\ UNCHANGED <<call, prior, staged, proved, gate>>
    BY <2>1 DEF Goto, locals, ghosts
  <2>3. /\ TreeType' /\ slot'["canonical"] = None
        /\ slot'["prior"] = slot["prior"]
        /\ slot'["candidate"] = slot["candidate"]
        /\ slot'["removed"] \in {slot["canonical"], slot["removed"]}
        /\ slot'["removed"] = slot["removed"] \/ slot["removed"] = None
    <3>1. CASE slot["canonical"] = None
      BY <1>1, <2>1, <3>1 DEF Global, TreeType
    <3>2. CASE slot["canonical"] # None
      <4>1. slot' = [slot EXCEPT !["removed"] = slot["canonical"], !["canonical"] = None]
        BY <2>1, <3>2
      <4> QED
        BY <1>1, <2>1, <3>2, <4>1, SlotRename DEF Global, Slots
    <3> QED
      BY <3>1, <3>2
  <2>4. OnDisk' \subseteq OnDisk
    BY <1>2, <2>3, InOnDisk, InOnDiskPrime
  <2>5. Global'
    BY <1>1, <1>2, <2>2, <2>3 DEF Global, LocalType, SwapResumable, PriorRecorded, CandidateNamed,
       CandidateApart, SealDescribesInstalled, ServicesInstalled, Ending
  <2>6. Inventoried'
    BY <1>1, <1>2, <2>2, <2>4, StillInventoried DEF Ending
  <2>7. Ending'
    BY <1>1, <1>2, <2>1, <2>2, <2>6 DEF Ending, Discards
  <2>8. Sound
    BY <1>1, <1>2, DestroysInventoried DEF Sound, RecordsFirst, LandsFirst, Ending
  <2> QED
    BY <2>5, <2>7, <2>8 DEF Inv, Outline
<1> QED
  BY <1>3, <1>4

LEMMA DiscardInv ==
    ASSUME Inv, Discard
    PROVE  Inv' /\ Sound
<1>1. Ending /\ Global /\ pc = "discard" /\ todo \subseteq Discards
  BY AtEnding DEF Discard, Ending
<1>2. UNCHANGED <<swap, seal, removal, services, loaded, daemon, pc, call, prior, staged, proved, gate>>
  BY DEF Discard, records, machine, locals, ghosts
<1>3. PICK x \in todo :
        /\ todo' = todo \ {x}
        /\ \/ /\ slot' = IF x \in Slots THEN [slot EXCEPT ![x] = None] ELSE slot
              /\ stages' = IF x = "stages" THEN {} ELSE stages
           \/ UNCHANGED trees
  BY DEF Discard
<1>4. stages' \subseteq stages
  BY <1>3 DEF trees
<1>5. /\ TreeType' /\ slot'["canonical"] = slot["canonical"]
      /\ slot'["prior"] \in {slot["prior"], None}
      /\ slot'["candidate"] \in {slot["candidate"], None}
      /\ slot'["removed"] \in {slot["removed"], None}
  <2>1. CASE slot' = slot
    BY <1>1, <2>1 DEF Global, TreeType
  <2>2. CASE x \in Slots /\ slot' = [slot EXCEPT ![x] = None]
    <3>1. x # "canonical"
      BY <1>1, <1>3 DEF Discards
    <3>2. TreeType' /\ slot'[x] = None /\ \A r \in Slots : r # x => slot'[r] = slot[r]
      BY <1>1, <2>2, SlotChange DEF Global
    <3> QED
      BY <3>1, <3>2 DEF Slots
  <2> QED
    BY <1>3, <2>1, <2>2 DEF trees
<1>6. OnDisk' \subseteq OnDisk
  BY <1>4, <1>5, InOnDisk, InOnDiskPrime
<1>7. Global'
  BY <1>1, <1>2, <1>5 DEF Global, LocalType, SwapResumable, PriorRecorded, CandidateNamed,
     CandidateApart, SealDescribesInstalled, ServicesInstalled, Ending
<1>8. Inventoried'
  BY <1>1, <1>2, <1>6, StillInventoried DEF Ending
<1>9. Ending'
  BY <1>1, <1>2, <1>3, <1>8 DEF Ending
<1>10. Sound
  BY <1>1, <1>2, DestroysInventoried DEF Sound, RecordsFirst, LandsFirst, Ending
<1> QED
  BY <1>7, <1>9, <1>10 DEF Inv, Outline

LEMMA DiscardedInv ==
    ASSUME Inv, Discarded
    PROVE  Inv' /\ Sound
<1>1. UNCHANGED <<slot, stages, swap, seal, removal, services, loaded>> /\ Return
  BY DEF Discarded, trees, records, machine
<1> QED
  BY <1>1, QuietReturn, QuietSound

LEMMA WipeSwapInv ==
    ASSUME Inv, WipeSwap
    PROVE  Inv' /\ Sound
<1>1. Ending /\ Global /\ pc = "wipeSwap" /\ pc' = "wipeServices"
  BY AtEnding DEF WipeSwap, Goto
<1>2. UNCHANGED <<slot, stages, seal, removal, services, loaded, daemon, call, prior, staged, proved, gate>>
  BY DEF WipeSwap, trees, machine, locals, ghosts
<1>3. UNCHANGED swap
  BY <1>1 DEF WipeSwap, Ending
<1>4. LocalType'
  BY <1>1, <1>2 DEF Global, LocalType
<1>5. Ending'
  BY <1>1, <1>2, <1>3 DEF Ending, Inventoried, OnDisk
<1> QED
  BY <1>1, <1>2, <1>3, <1>4, <1>5, QuietGlobal, QuietSound DEF Inv, Outline

LEMMA WipeServicesInv ==
    ASSUME Inv, WipeServices
    PROVE  Inv' /\ Sound
<1>1. Ending /\ Global /\ pc = "wipeServices" /\ pc' = "discard" /\ todo' = Discards
  BY AtEnding DEF WipeServices, Goto
<1>2. UNCHANGED <<slot, stages, swap, seal, removal, loaded, daemon, call, prior, staged, proved, gate>>
  BY DEF WipeServices, trees, machine, locals, ghosts
<1>3. UNCHANGED services
  BY <1>1 DEF WipeServices, Ending
<1>4. LocalType'
  BY <1>1, <1>2 DEF Global, LocalType
<1>5. Ending'
  BY <1>1, <1>2, <1>3 DEF Ending, Inventoried, OnDisk, Discards
<1> QED
  BY <1>1, <1>2, <1>3, <1>4, <1>5, QuietGlobal, QuietSound DEF Inv, Outline

-----------------------------------------------------------------------------
(***************************************************************************)
(* InstallFresh.                                                           *)
(***************************************************************************)

LEMMA FreshInv ==
    ASSUME Inv, Fresh
    PROVE  Inv' /\ Sound
<1>1. Idling /\ Global /\ pc = "fresh"
  BY AtIdling DEF Fresh
<1>2. UNCHANGED <<slot, stages, swap, seal, removal, services, loaded, daemon>>
  BY DEF Fresh, trees, records, machine
<1>3. CASE Return
  BY <1>2, <1>3, QuietReturn, QuietSound
<1>4. CASE IsFresh(FALSE) /\ Goto("copy") /\ UNCHANGED <<locals, loop, ghosts>>
  <2>1. pc' = "copy" /\ UNCHANGED <<call, prior, staged, gate>>
    BY <1>4 DEF Goto, locals, ghosts
  <2>2. slot["canonical"] = None /\ slot["candidate"] = None /\ swap = None
    BY <1>4 DEF IsFresh, FreshOnDisk, Slots
  <2>3. LocalType'
    BY <1>1, <1>2, <2>1 DEF Global, LocalType
  <2>4. Staging'
    BY <1>1, <1>2, <2>1, <2>2 DEF Idling, Staging
  <2> QED
    BY <1>1, <1>2, <2>3, <2>4, QuietGlobal, QuietSound DEF Inv, Outline
<1> QED
  BY <1>3, <1>4 DEF Fresh

LEMMA FreshLandedInv ==
    ASSUME Inv, FreshLanded
    PROVE  Inv' /\ Sound
<1>1. Global /\ pc = "landed" /\ swap = None /\ staged # None
  BY AtBooting DEF FreshLanded, Booting
<1>2. UNCHANGED <<slot, stages, swap, seal, removal, services, loaded>>
  BY DEF FreshLanded, trees, records, machine
<1>3. CASE Return
  BY <1>2, <1>3, QuietReturn, QuietSound
<1>4. CASE slot["canonical"] = staged /\ prior' = staged /\ Goto("bootstrap") /\ UNCHANGED <<call, staged>>
  <2>1. LocalType'
    BY <1>1, <1>2, <1>4 DEF Global, LocalType, Goto
  <2>2. Booting'
    BY <1>1, <1>2, <1>4 DEF Booting, Incumbent, Goto
  <2> QED
    BY <1>1, <1>2, <2>1, <2>2, QuietGlobal, QuietSound DEF Inv, Outline
<1> QED
  BY <1>3, <1>4 DEF FreshLanded

LEMMA BootRecordInv ==
    ASSUME Inv, BootRecord
    PROVE  Inv' /\ Sound
<1>1. Booting /\ Incumbent /\ Global /\ pc = "bootstrap" /\ swap = None
  BY AtBooting DEF BootRecord, Booting
<1>2. UNCHANGED <<slot, stages, swap, seal, removal, loaded, pc, call, prior, staged>>
  BY DEF BootRecord, trees, machine, locals
<1>3. services \subseteq services'
  BY DEF BootRecord
<1>4. LocalType' /\ ServicesInstalled' /\ Booting'
  BY <1>1, <1>2 DEF Global, LocalType, ServicesInstalled, Booting, Incumbent
<1>5. OnDisk' = OnDisk
  BY <1>2 DEF OnDisk
<1>6. Sound
  BY <1>2, <1>3, <1>5 DEF Sound, RecordsFirst, DestroysProved, LandsFirst
<1> QED
  BY <1>1, <1>2, <1>4, <1>6, ServicesGlobal DEF Inv, Outline

LEMMA BootAgentInv ==
    ASSUME Inv, BootAgent
    PROVE  Inv' /\ Sound
<1>1. Booting /\ Incumbent /\ Global /\ pc = "bootstrap" /\ swap = None
  BY AtBooting DEF BootAgent, Booting
<1>2. UNCHANGED <<slot, stages, swap, seal, removal, services>>
  BY DEF BootAgent, trees, records
<1>3. PICK l \in todo \cap services :
        /\ loaded' \in {loaded, loaded \cup {l}}
        /\ \/ UNCHANGED <<pc, failed, locals, ghosts>>
           \/ Return
           \/ Goto("rollback") /\ UNCHANGED <<loop, locals, ghosts>>
  BY DEF BootAgent
<1>4. Sound
  <2>1. OnDisk' = OnDisk
    BY <1>2 DEF OnDisk
  <2> QED
    BY <1>2, <1>3, <2>1 DEF Sound, RecordsFirst, DestroysProved, LandsFirst
<1>5. CASE Return
  BY <1>2, <1>4, <1>5, QuietReturn
<1>6. CASE pc' \in {"bootstrap", "rollback"} /\ UNCHANGED locals
  <2>1. LocalType'
    BY <1>1, <1>2, <1>6 DEF Global, LocalType, locals
  <2>2. Booting'
    BY <1>1, <1>2, <1>6 DEF Booting, Incumbent, locals
  <2> QED
    BY <1>1, <1>2, <1>4, <2>1, <2>2, QuietGlobal DEF Inv, Outline
<1> QED
  BY <1>1, <1>3, <1>5, <1>6 DEF Goto

LEMMA RollBackInv ==
    ASSUME Inv, RollBack
    PROVE  Inv' /\ Sound
<1>1. Booting /\ Incumbent /\ Global /\ pc = "rollback" /\ swap = None /\ Return
  BY AtBooting DEF RollBack, Booting
<1>2. UNCHANGED <<slot, stages, swap, seal, removal>>
  BY DEF RollBack, trees
<1>3. LocalType' /\ Idling'
  BY <1>1, <1>2, Returns DEF Global, LocalType
<1>4. ServicesInstalled'
  BY <1>1, <1>2 DEF ServicesInstalled, Incumbent
<1>5. OnDisk' = OnDisk
  BY <1>2 DEF OnDisk
<1>6. Sound
  BY <1>1, <1>2, <1>5 DEF Sound, RecordsFirst, DestroysProved, LandsFirst
<1> QED
  BY <1>1, <1>2, <1>3, <1>4, <1>6, ServicesGlobal DEF Inv, Outline

LEMMA BootstrappedInv ==
    ASSUME Inv, Bootstrapped
    PROVE  Inv' /\ Sound
<1>1. Incumbent /\ Global /\ pc' = "prove" /\ swap = None /\ pc = "bootstrap"
  BY AtBooting DEF Bootstrapped, Booting, Goto
<1>2. UNCHANGED <<slot, stages, swap, seal, removal, services, loaded, call, prior, staged>>
  BY DEF Bootstrapped, trees, records, machine, locals
<1>3. LocalType' /\ Activating'
  BY <1>1, <1>2 DEF Global, LocalType, Activating, Incumbent
<1> QED
  BY <1>1, <1>2, <1>3, QuietGlobal, QuietSound DEF Inv, Outline

-----------------------------------------------------------------------------
(***************************************************************************)
(* Entering a verb, and its end at any step.                               *)
(***************************************************************************)

LEMMA BeginInv ==
    ASSUME Inv, Begin
    PROVE  Inv' /\ Sound
<1>1. Idling /\ Global
  BY AtIdling DEF Begin
<1>2. UNCHANGED <<slot, stages, swap, seal, removal, services, loaded, prior, staged, gate>>
  BY DEF Begin, trees, records, machine, ghosts
<1>3. /\ call' \in Calls
      /\ pc' = "recover" \/ (pc' = "fresh" /\ call'.verb = "fresh")
  BY DEF Begin, Goto
<1>4. LocalType'
  BY <1>1, <1>2, <1>3 DEF Global, LocalType
<1>5. Idling'
  BY <1>1, <1>2, <1>3 DEF Idling
<1> QED
  BY <1>1, <1>2, <1>4, <1>5, QuietGlobal, QuietSound DEF Inv, Outline

LEMMA RecoverInv ==
    ASSUME Inv, Recover
    PROVE  Inv' /\ Sound
<1>1. Idling /\ Global /\ pc = "recover"
  BY AtIdling DEF Recover
<1>2. UNCHANGED <<slot, stages, swap, seal, removal, services, loaded, daemon, call, prior, staged, gate, proved>>
  BY DEF Recover, trees, records, machine, ghosts
<1>3. gate' # "stale"
  BY <1>1, <1>2 DEF Idling
<1>4. CASE swap = None /\ Goto("dispatch")
  <2>1. Dispatching' /\ LocalType'
    BY <1>1, <1>2, <1>3, <1>4 DEF Dispatching, Goto, Global, LocalType
  <2> QED
    BY <1>1, <1>2, <2>1, QuietGlobal, QuietSound DEF Inv, Outline
<1>5. CASE swap # None /\ Quiesce("settle")
  <2>1. pc' = "stop" /\ after' = "settle"
    BY <1>5 DEF Quiesce, Goto
  <2>2. Converging'
    BY <1>2, <1>3, <1>5, <2>1 DEF Converging, ConvergeLoop, ToSettle
  <2>3. LocalType'
    BY <1>1, <1>2, <2>1 DEF Global, LocalType
  <2> QED
    BY <1>1, <1>2, <2>2, <2>3, QuietGlobal, QuietSound DEF Inv, Outline
<1>6. CASE swap # None /\ ~ResumeDestroys /\ Goto("settle")
  <2>1. LandingProved'
    BY <1>2, <1>6 DEF LandingProved, ResumeDestroys
  <2>2. Landing' /\ LocalType'
    BY <1>1, <1>2, <1>3, <1>6, <2>1 DEF Landing, Goto, Global, LocalType
  <2> QED
    BY <1>1, <1>2, <2>2, QuietGlobal, QuietSound DEF Inv, Outline
<1> QED
  BY <1>4, <1>5, <1>6 DEF Recover

LEMMA DispatchInv ==
    ASSUME Inv, Dispatch
    PROVE  Inv' /\ Sound
<1>1. Dispatching /\ Global /\ pc = "dispatch" /\ swap = None /\ gate # "stale"
  BY AtDispatching DEF Dispatch, Dispatching
<1>2. UNCHANGED <<slot, stages, swap, seal, removal, services, loaded, daemon>>
  BY DEF Dispatch, trees, records, machine
<1>3. CASE Return
  BY <1>2, <1>3, QuietReturn, QuietSound
<1>4. CASE /\ \/ call.verb = "install" /\ slot["canonical"] = None
              \/ call.verb = "supersede" /\ slot["canonical"] # None
           /\ prior' = slot["canonical"] /\ Goto("stage")
           /\ UNCHANGED <<call, staged, labels, ready, after, loop, ghosts>>
  <2>1. UNCHANGED <<call, staged, gate>> /\ pc' = "stage"
    BY <1>4 DEF ghosts, Goto
  <2>2. LocalType'
    BY <1>1, <1>2, <1>4, <2>1 DEF Global, LocalType, TreeType, Slots
  <2>3. Staging'
    BY <1>1, <1>2, <1>4, <2>1 DEF Staging
  <2> QED
    BY <1>1, <1>2, <2>2, <2>3, QuietGlobal, QuietSound DEF Inv, Outline
<1>5. CASE /\ slot["canonical"] # None /\ prior' = slot["canonical"]
           /\ \/ Goto("union") /\ after' = "prove"
              \/ Quiesce("prove")
           /\ UNCHANGED <<call, staged>>
  <2>1. pc' \in {"union", "stop"} /\ after' = "prove"
    BY <1>5 DEF Quiesce, Goto
  <2>2. LocalType'
    BY <1>1, <1>2, <1>5, <2>1 DEF Global, LocalType, TreeType, Slots
  <2>3. ToProve'
    BY <1>1, <1>2, <1>5, <2>1 DEF ToProve, Incumbent
  <2>4. Converging'
    BY <2>1, <2>3 DEF Converging, ConvergeLoop
  <2> QED
    BY <1>1, <1>2, <2>2, <2>4, QuietGlobal, QuietSound DEF Inv, Outline
<1>6. CASE /\ call.verb \in {"uninstall", "reset"}
           /\ Quiesce(IF call.verb = "reset" THEN "regate" ELSE "tombstone")
           /\ UNCHANGED <<call, prior, staged>>
  <2>1. pc' = "stop" /\ after' = IF call.verb = "reset" THEN "regate" ELSE "tombstone"
    BY <1>6 DEF Quiesce, Goto
  <2>2. LocalType'
    BY <1>1, <1>2, <1>6, <2>1 DEF Global, LocalType
  <2>3. ToRegate' \/ ToTombstone'
    BY <1>1, <1>2, <1>6, <2>1 DEF ToRegate, ToTombstone
  <2>4. Converging'
    BY <2>1, <2>3 DEF Converging, ConvergeLoop
  <2> QED
    BY <1>1, <1>2, <2>2, <2>4, QuietGlobal, QuietSound DEF Inv, Outline
<1> QED
  BY <1>3, <1>4, <1>5, <1>6 DEF Dispatch

\* A removal cut short leaves a tree under the same inode.
LEMMA Torned ==
    ASSUME TreeType, NEW s \in Slots, slot[s] # None, Tear(s)
    PROVE  /\ TreeType' /\ slot'[s] # None /\ slot'[s].id = slot[s].id
           /\ \A r \in Slots : r # s => slot'[r] = slot[r]
<1> DEFINE torn == [id |-> slot[s].id, build |-> Torn]
<1>1. slot[s] \in Trees
  BY DEF TreeType
<1>2. torn \in Trees /\ torn.id = slot[s].id
  BY SMT, <1>1 DEF Trees
<1>3. torn # None
  BY <1>2, DeployAssumption
<1>4. slot' = [slot EXCEPT ![s] = torn]
  BY DEF Tear
<1> HIDE DEF torn
<1> QED
  BY <1>2, <1>3, <1>4, SlotChange

\* Whatever a removal was cut short on, the swap can still be resumed.
LEMMA TornGlobal ==
    ASSUME Global, LocalType', NEW s \in Slots, s # "canonical", slot[s] # None, Tear(s),
           swap = None \/ (s = "prior" /\ slot["canonical"] \in {swap.prior, swap.candidate}),
           UNCHANGED <<swap, seal, services>>
    PROVE  Global'
<1>1. /\ TreeType' /\ slot'[s] # None /\ slot'[s].id = slot[s].id
      /\ \A r \in Slots : r # s => slot'[r] = slot[r]
  BY Torned DEF Global
<1>2. slot'["canonical"] = slot["canonical"]
  BY <1>1 DEF Slots
<1>3. SwapResumable'
  <2>1. CASE swap = None
    BY <2>1 DEF SwapResumable
  <2>2. CASE s = "prior" /\ slot["canonical"] \in {swap.prior, swap.candidate}
    <3>1. slot'["candidate"] = slot["candidate"]
      BY <1>1, <2>2 DEF Slots
    <3> QED
      BY <1>2, <2>2, <3>1 DEF Global, SwapResumable
  <2> QED
    BY <2>1, <2>2
<1>4. PriorRecorded'
  <2>1. CASE s = "prior"
    BY <2>1 DEF Global, PriorRecorded
  <2>2. CASE s # "prior"
    BY <1>1, <2>2 DEF Global, PriorRecorded, Slots
  <2> QED
    BY <2>1, <2>2
<1>5. CandidateApart'
  <2>1. CASE s = "candidate"
    BY <1>1, <1>2, <2>1 DEF Global, CandidateApart
  <2>2. CASE s # "candidate"
    BY <1>1, <1>2, <2>2 DEF Global, CandidateApart, Slots
  <2> QED
    BY <2>1, <2>2
<1> QED
  BY <1>1, <1>2, <1>3, <1>4, <1>5 DEF Global, CandidateNamed, SealDescribesInstalled, ServicesInstalled

LEMMA CrashInv ==
    ASSUME Inv, Crash
    PROVE  Inv' /\ Sound
<1>1. Return /\ UNCHANGED <<stages, swap, seal, removal, services, loaded>>
  BY DEF Crash, records, machine
<1>2. CASE UNCHANGED slot
  BY <1>1, <1>2, QuietReturn, QuietSound
<1>3. ASSUME NEW s \in Removing, slot[s] # None, Tear(s)
      PROVE  Inv' /\ Sound
  <2>1. LocalType' /\ Idling'
    BY <1>1, Returns DEF Inv, Global, LocalType
  <2>2. ASSUME s \in Slots, s # "canonical", DestroysProved,
               swap = None \/ (s = "prior" /\ slot["canonical"] \in {swap.prior, swap.candidate})
        PROVE  Inv' /\ Sound
    BY <1>1, <1>3, <2>1, <2>2, TornGlobal DEF Inv, Outline, Sound, RecordsFirst, LandsFirst
  <2>3. CASE pc = "discardCandidate"
    <3>1. Staging /\ Global /\ s = "candidate" /\ s \in Slots
      BY <1>3, <2>3, AtStaging DEF Removing, Slots
    <3>2. \A r \in Slots : r # "candidate" => slot'[r] = slot[r]
      BY <1>3, <3>1, Torned DEF Global
    <3>3. \A t \in OnDisk \ OnDisk' : t = slot["candidate"]
      BY <1>1, <3>2, InOnDisk, InOnDiskPrime DEF Slots
    <3>4. DestroysProved
      BY <2>3, <3>1, <3>3 DEF DestroysProved, Staging
    <3> QED
      BY <2>2, <3>1, <3>4 DEF Staging
  <2>4. CASE pc = "clearPrior"
    <3>1. Landing /\ Global /\ s = "prior" /\ s \in Slots
      BY <1>3, <2>4, AtLanding DEF Removing, Slots
    <3>2. slot["canonical"] = swap.prior /\ Inventoried /\ services = {} /\ gate # "stale"
      BY <2>4, <3>1 DEF Landing, LandingProved, Global, ServicesInstalled
    <3> QED
      BY <2>2, <3>1, <3>2, DestroysInventoried
  <2>5. CASE pc = "retirePrior"
    <3>1. Retiring /\ Global /\ s = "prior" /\ s \in Slots
      BY <1>3, <2>5, AtRetiring DEF Removing, Slots
    <3>2. slot["canonical"] = swap.candidate /\ Inventoried /\ services = {} /\ gate # "stale"
      BY <1>3, <3>1 DEF Retiring, LandingProved, Global, ServicesInstalled, PriorRecorded
    <3> QED
      BY <2>2, <3>1, <3>2, DestroysInventoried
  <2>6. CASE pc = "discard"
    <3>1. Ending /\ Global /\ s \in Slots /\ s # "canonical"
      BY <1>3, <2>6, AtEnding DEF Removing, Ending, Discards
    <3> QED
      BY <2>2, <3>1, DestroysInventoried DEF Ending
  <2> QED
    BY <1>3, <2>3, <2>4, <2>5, <2>6 DEF Removing
<1> QED
  BY <1>2, <1>3 DEF Crash

-----------------------------------------------------------------------------
(***************************************************************************)
(* The machine around the verb.                                            *)
(***************************************************************************)

\* A process that starts or ends changes nothing the verb knows, but for the
\* inventory, and the tree of the candidate it found idle.
LEMMA AroundInv ==
    ASSUME Inv,
           UNCHANGED <<slot, stages, swap, seal, removal, services, loaded, pc, locals, loop, ghosts>>,
           Inventoried => Inventoried',
           pc = "discardCandidate" => (daemon' # None => daemon'.tree # slot["candidate"])
    PROVE  Inv' /\ Sound
<1>1. UNCHANGED <<call, prior, staged, labels, after, todo, failed, gate, proved>>
  BY DEF locals, loop, ghosts
<1>2. LocalType'
  BY <1>1 DEF Inv, Global, LocalType
<1>3. Global' /\ Sound
  BY <1>2, QuietGlobal, QuietSound DEF Inv
<1>4. Target' = Target
  BY <1>1 DEF Target
<1>5. LandingProved => LandingProved'
  BY DEF LandingProved
<1>6. CASE Idling \/ Dispatching \/ Activating \/ Tombing \/ Booting
  BY <1>1, <1>3, <1>6 DEF Inv, Outline, Idling, Dispatching, Activating, Tombing, Booting, Incumbent
<1>7. CASE Converging
  <2>1. (ToSettle \/ ToProve \/ ToTombstone \/ ToRegate)'
    <3>1. after = "settle" => gate' # "stale" /\ (pc' \in {"union", "apply", "drop"} => Inventoried')
      BY <1>1, <1>7, Purposes DEF ToSettle
    <3> QED
      BY <1>1, <1>7, <3>1, SamePurpose DEF Converging
  <2>2. Converging'
    BY <1>1, <1>4, <1>7, <2>1 DEF Converging, ConvergeLoop
  <2> QED
    BY <1>3, <2>2 DEF Inv, Outline
<1>8. CASE Regating \/ Restoring
  BY <1>1, <1>3, <1>8 DEF Inv, Outline, Regating, Restoring, Superseding, Incumbent, Candidate
<1>9. CASE Staging
  <2>1. Staging'
    BY <1>1, <1>9 DEF Staging, Candidate
  <2> QED
    BY <1>3, <2>1 DEF Inv, Outline
<1>10. CASE Committing
  <2>1. Committing'
    BY <1>1, <1>10 DEF Committing, Candidate
  <2> QED
    BY <1>3, <2>1 DEF Inv, Outline
<1>11. CASE Landing
  <2>1. Landing'
    BY <1>1, <1>5, <1>11 DEF Landing
  <2> QED
    BY <1>3, <2>1 DEF Inv, Outline
<1>12. CASE Retiring
  <2>1. Retiring'
    BY <1>1, <1>5, <1>12 DEF Retiring
  <2> QED
    BY <1>3, <2>1 DEF Inv, Outline
<1>13. CASE Ending
  <2>1. Ending'
    BY <1>1, <1>13 DEF Ending
  <2> QED
    BY <1>3, <2>1 DEF Inv, Outline
<1> QED
  BY <1>6, <1>7, <1>8, <1>9, <1>10, <1>11, <1>12, <1>13 DEF Inv, Outline

LEMMA StartDaemonInv ==
    ASSUME Inv, StartDaemon
    PROVE  Inv' /\ Sound
<1>1. UNCHANGED <<slot, stages, swap, seal, removal, services, loaded, pc, locals, loop, ghosts>>
  BY DEF StartDaemon, trees, records
<1>2. Inventoried => Inventoried'
  BY <1>1 DEF StartDaemon, Inventoried, OnDisk, ghosts
<1>3. daemon'.tree = slot["canonical"] /\ slot["canonical"] # None
  BY DEF StartDaemon
<1>4. pc = "discardCandidate" => daemon'.tree # slot["candidate"]
  BY <1>3, AtStaging DEF Staging, Global, CandidateApart
<1> QED
  BY <1>1, <1>2, <1>4, AroundInv

LEMMA LaunchInv ==
    ASSUME Inv, Launch
    PROVE  Inv' /\ Sound
<1>1. UNCHANGED <<slot, stages, swap, seal, removal, services, loaded, daemon, pc, locals, loop, ghosts>>
  BY DEF Launch, trees, records
<1>2. Inventoried => Inventoried'
  BY <1>1 DEF Inventoried, OnDisk, ghosts
<1>3. pc = "discardCandidate" => (daemon' # None => daemon'.tree # slot["candidate"])
  BY <1>1, AtStaging DEF Staging
<1> QED
  BY <1>1, <1>2, <1>3, AroundInv

LEMMA QuitInv ==
    ASSUME Inv, Quit
    PROVE  Inv' /\ Sound
<1>1. UNCHANGED <<slot, stages, swap, seal, removal, services, loaded, pc, locals, loop, ghosts>>
  BY DEF Quit, trees, records
<1>2. daemon' = None \/ daemon' = daemon
  BY DEF Quit
<1>3. Inventoried => Inventoried'
  BY <1>1, <1>2 DEF Inventoried, OnDisk, ghosts
<1>4. pc = "discardCandidate" => (daemon' # None => daemon'.tree # slot["candidate"])
  BY <1>2, AtStaging DEF Staging
<1> QED
  BY <1>1, <1>3, <1>4, AroundInv

-----------------------------------------------------------------------------
(***************************************************************************)
(* Every step.                                                             *)
(***************************************************************************)

LEMMA StepInv ==
    ASSUME Inv, Step
    PROVE  Inv' /\ Sound
BY RecoverInv, DispatchInv, StopDaemonInv, TerminateSurvivorsInv, GateInv, RecordUnionInv,
   ApplyAgentInv, AppliedAllInv, DropAgentInv, RecordDropInv, ConvergedInv, RegateInv,
   StageInv, DiscardCandidateInv, CopyInv, PublishInv, StagedInv, CommitInv, SettleSwapInv,
   ClearPriorInv, SetAsideInv, LandInv, RemoveSealInv, RemoveRemovalInv, RetirePriorInv,
   RetireSwapInv, RestoreInv, RerecordInv, ReapplyInv, ProveInv, SealInv, TombstoneInv,
   EntombInv, RemoveBundleInv, DiscardInv, DiscardedInv, WipeSwapInv, WipeServicesInv,
   FreshInv, FreshLandedInv, BootRecordInv, BootAgentInv, RollBackInv, BootstrappedInv DEF Step

LEMMA NextInv ==
    ASSUME Inv, [Next]_vars
    PROVE  Inv' /\ (Sound \/ UNCHANGED vars)
<1>1. CASE Next
  <2>1. Inv' /\ Sound
    BY <1>1, StepInv, BeginInv, CrashInv, StartDaemonInv, LaunchInv, QuitInv DEF Next, Environment
  <2> QED
    BY <2>1
<1>2. CASE UNCHANGED vars
  <2>1. UNCHANGED <<slot, stages, swap, seal, removal, services, loaded, daemon, pc, locals, loop, ghosts>>
    BY <1>2 DEF vars, trees, records, machine
  <2>2. Inventoried => Inventoried'
    BY <2>1 DEF Inventoried, OnDisk, ghosts
  <2>3. pc = "discardCandidate" => (daemon' # None => daemon'.tree # slot["candidate"])
    BY <2>1, AtStaging DEF Staging
  <2> QED
    BY <1>2, <2>1, <2>2, <2>3, AroundInv
<1> QED
  BY <1>1, <1>2

LEMMA InitInv ==
    ASSUME Init
    PROVE  Inv
<1>1. TreeType /\ \A s \in Slots : slot[s] = None
  BY SMT DEF Init, TreeType
<1>2. \A s \in {"canonical", "prior", "candidate"} : slot[s] = None
  BY <1>1 DEF Slots
<1>3. LocalType /\ Idling
  BY DEF Init, LocalType, Idling
<1>4. Global
  BY <1>1, <1>2, <1>3 DEF Init, Global, SwapResumable, PriorRecorded, CandidateNamed, CandidateApart,
     SealDescribesInstalled, ServicesInstalled
<1> QED
  BY <1>3, <1>4 DEF Inv, Outline

\* What the verb knows at each of its steps, and what holds after a crash at any
\* of them.
THEOREM Invariance == Spec => []Inv
<1>1. Init => Inv
  BY InitInv
<1>2. Inv /\ [Next]_vars => Inv'
  BY NextInv
<1> QED
  BY <1>1, <1>2, PTL DEF Spec

\* A recorded swap can be driven to its end from wherever a crash or a failure
\* left it (retireSwap, settleSwap, recoverSwap).
THEOREM SwapsResume == Spec => []SwapResumable
<1>1. Inv => SwapResumable
  BY DEF Inv, Global
<1> QED
  BY <1>1, Invariance, PTL

\* A seal never stands for a generation other than the one it was written over,
\* once no swap is outstanding.
THEOREM SealsDescribe == Spec => []SealDescribesInstalled
<1>1. Inv => SealDescribesInstalled
  BY DEF Inv, Global
<1> QED
  BY <1>1, Invariance, PTL

\* launchd comes to hold no label the services record does not name, but for the
\* label InstallFresh takes back.
THEOREM ServicesAreRecorded == Spec => RecordedServices
<1>1. Inv /\ [Next]_vars => [loaded \subseteq services => loaded' \subseteq services' \/ pc = "rollback"]_vars
  BY NextInv DEF Sound, RecordsFirst
<1> QED
  BY <1>1, Invariance, PTL DEF Spec, RecordedServices

\* A verb destroys only a tree its own inventory found idle, and none the
\* recorded daemon runs from.
THEOREM DestroysProvedOnly == Spec => DestroysOnlyProved
<1>1. Inv /\ [Next]_vars =>
        [\A t \in OnDisk \ OnDisk' :
            /\ t \in proved
            /\ gate # "stale"
            /\ daemon # None /\ loaded \subseteq services => daemon.tree # t]_vars
  BY NextInv DEF Sound, DestroysProved
<1> QED
  BY <1>1, Invariance, PTL DEF Spec, DestroysOnlyProved

\* A swap record goes only over the very tree it recorded.
THEOREM SwapsLand == Spec => SwapLands
<1>1. Inv /\ [Next]_vars => [swap # None /\ swap' = None => slot["canonical"] = swap.candidate]_vars
  BY NextInv DEF Sound, LandsFirst
<1> QED
  BY <1>1, Invariance, PTL DEF Spec, SwapLands

=============================================================================
