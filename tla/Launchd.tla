------------------------------ MODULE Launchd ------------------------------
(***************************************************************************)
(* One LaunchAgent label (launchd/apply.go, launchd/launchctl.go): Apply,  *)
(* ApplyFresh, Verify, RequireAbsent and Remove over the plist at the      *)
(* label's path and the job launchd holds, one file operation or launchctl *)
(* call per step.  A launchctl call may be in flux, may fail, and may fail *)
(* having done its work; the process may die at any step; another actor    *)
(* may write a plist at the label, take it away or load it at any moment:  *)
(* the label has no lock.                                                  *)
(***************************************************************************)
EXTENDS Naturals

CONSTANTS
    Defs,         \* definitions an agent can have
    Attempts,     \* bootstrapAttempts
    MaxFaults,    \* failed calls and deaths
    MaxForeign,   \* plists another actor writes
    None, Foreign

ASSUME LaunchdAssumption ==
    /\ Attempts \in Nat \ {0}
    /\ {None, Foreign} \cap Defs = {}
    /\ None # Foreign

VARIABLES
    plist,     \* what the file at the label's path says
    job,       \* the definition launchd loaded
    running,   \* whether the job has a process
    aside,     \* foreign plists renamed aside
    foreign,   \* foreign plists written, neither taken away nor overtaken
    pc, call, attempt,
    held,      \* the plist removePublished set aside
    look,      \* ghost: stale once somebody wrote at the label behind the call
    cut,       \* an Apply ended after its write and before its bootout took effect
    answer,    \* how the last call ended
    faults

disk == <<plist, aside, foreign>>
launchd == <<job, running>>
launchdVars == <<disk, launchd, pc, call, attempt, held, look, cut, answer, faults>>

AgentVerbs == {"apply", "fresh", "verify", "absent", "remove"}
Calls == [verb : AgentVerbs, def : Defs]
NoCall == [verb |-> None, def |-> None]

LaunchdTypeOK ==
    /\ plist \in Defs \cup {None, Foreign}
    /\ job \in Defs \cup {None, Foreign}
    /\ running \in BOOLEAN
    /\ running => job # None
    /\ aside \in 0..MaxForeign
    /\ foreign \in 0..MaxForeign
    /\ call \in Calls \cup {NoCall}
    /\ attempt \in 1..Attempts
    /\ held \in Defs \cup {None, Foreign}
    /\ look \in {"fresh", "stale"}
    /\ cut \in BOOLEAN
    /\ answer \in {"none", "ok", "error"}
    /\ faults \in 0..MaxFaults

LaunchdInit ==
    /\ plist = None
    /\ job = None
    /\ running = FALSE
    /\ aside = 0
    /\ foreign = 0
    /\ pc = "idle"
    /\ call = NoCall
    /\ attempt = 1
    /\ held = None
    /\ look = "fresh"
    /\ cut = FALSE
    /\ answer = "none"
    /\ faults = 0

-----------------------------------------------------------------------------
Goto(label) == pc' = label /\ UNCHANGED <<call, attempt, held, look, cut, answer>>

\* A call that ends between its write and a bootout that took effect.
Reloading == pc \in {"bootout", "bootstrap", "loadKick"}

End(how) ==
    /\ pc' = "idle"
    /\ call' = NoCall
    /\ attempt' = 1
    /\ held' = None
    /\ look' = "fresh"
    /\ answer' = how

ReturnAnswer(ok) == End(IF ok THEN "ok" ELSE "error") /\ UNCHANGED cut

\* The job of an Apply that failed is the one it meant to replace.
Fail ==
    /\ End("error")
    /\ cut' = (cut \/ (Reloading /\ job' \notin {None, plist, call.def}))

NoFault == UNCHANGED faults

\* What one launchctl call may answer, and what launchd holds afterwards: it
\* did its work; it is in flux; it failed, with or without having done it.
Outcomes(effect, kind) ==
    {[job |-> effect, kind |-> kind]}
    \cup {[job |-> j, kind |-> "inFlux"] : j \in {job, effect}}
    \cup (IF faults < MaxFaults
          THEN {[job |-> j, kind |-> "failed"] : j \in {job, effect}} ELSE {})

Counted(o) == faults' = IF o.kind = "failed" THEN faults + 1 ELSE faults

\* settle: only an operation in flux is tried again, from its first call, and
\* only so many times.
SettleCall(o, first, next) ==
    \/ o.kind = "loaded" /\ next
    \/ /\ o.kind = "inFlux" /\ attempt < Attempts
       /\ attempt' = attempt + 1
       /\ pc' = first
       /\ UNCHANGED <<call, held, look, cut, answer>>
    \/ (o.kind \in {"failed", "notLoaded"} \/ (o.kind = "inFlux" /\ attempt = Attempts)) /\ Fail

-----------------------------------------------------------------------------
(***************************************************************************)
(* launchd, and the other actors of the label.                             *)
(***************************************************************************)

\* The job exits, or launchd runs it again.
JobTurns ==
    /\ job # None
    /\ running' = ~running
    /\ UNCHANGED <<disk, job, pc, call, attempt, held, look, cut, answer, faults>>

\* The steps at which Apply, Verify and Remove act on a plist they saw, or wrote,
\* earlier.
Looked == {"print", "kick", "write", "bootout", "bootstrap", "loadKick", "removeBootout", "removePlist"}

\* Another actor puts its own plist at the label.
WriteForeign ==
    /\ plist # Foreign
    /\ foreign < MaxForeign
    /\ plist' = Foreign
    /\ foreign' = foreign + 1
    /\ look' = IF pc \in Looked THEN "stale" ELSE look
    /\ UNCHANGED <<aside, launchd, pc, call, attempt, held, cut, answer, faults>>

\* It takes a plist it has not loaded away again.
TakeForeign ==
    /\ plist = Foreign
    /\ job # Foreign
    /\ plist' = None
    /\ foreign' = foreign - 1
    /\ UNCHANGED <<aside, launchd, pc, call, attempt, held, look, cut, answer, faults>>

\* What is lost to a call that acts on an earlier look at the label.
Overtaken == foreign' = IF plist = Foreign /\ look = "stale" THEN foreign - 1 ELSE foreign

LoadForeign ==
    /\ plist = Foreign
    /\ job = None
    /\ job' = Foreign
    /\ running' = TRUE
    /\ UNCHANGED <<disk, pc, call, attempt, held, look, cut, answer, faults>>

\* The process of the call dies; a plist it had set aside stays aside.
Crash ==
    /\ pc # "idle"
    /\ faults < MaxFaults
    /\ faults' = faults + 1
    /\ aside' = IF held = Foreign THEN aside + 1 ELSE aside
    /\ UNCHANGED <<plist, foreign, launchd>>
    /\ Fail

-----------------------------------------------------------------------------
(***************************************************************************)
(* Apply and Verify.                                                       *)
(***************************************************************************)

Begin ==
    /\ pc = "idle"
    /\ \E c \in Calls :
          /\ call' = c
          /\ pc' = CASE c.verb \in {"apply", "verify"} -> "verify"
                     [] c.verb \in {"fresh", "absent"} -> "absent"
                     [] c.verb = "remove" -> "remove"
    /\ answer' = "none"
    /\ UNCHANGED <<disk, launchd, attempt, held, look, cut, faults>>

\* The program is serviceable and the plist byte-exact, or the agent drifted.
Verify ==
    /\ pc = "verify"
    /\ IF plist = call.def THEN Goto("print")
       ELSE IF call.verb = "verify" THEN ReturnAnswer(FALSE)
       ELSE Goto("archive")
    /\ UNCHANGED <<disk, launchd, faults>>

\* Mutant of PrintAgent: what is loaded runs.
PrintAgentLoaded ==
    /\ pc = "print"
    /\ IF job # None \/ call.verb = "verify" THEN ReturnAnswer(job # None) ELSE Goto("archive")
    /\ UNCHANGED <<disk, launchd, faults>>

\* launchctl print: launchd knows the label, whatever definition it loaded.
PrintAgent ==
    /\ pc = "print"
    /\ \/ call.verb = "verify" /\ ReturnAnswer(job # None) /\ NoFault
       \/ call.verb = "apply" /\ Goto(IF job # None THEN "kick" ELSE "archive") /\ NoFault
       \/ faults < MaxFaults /\ faults' = faults + 1 /\ ReturnAnswer(FALSE)
    /\ UNCHANGED <<disk, launchd>>

\* Mutant of ArchiveForeignPlist: what the label held is written over.
ArchiveNothing ==
    /\ pc = "archive"
    /\ Goto("write")
    /\ UNCHANGED <<disk, launchd, faults>>

\* install: a plist without the marker is renamed aside.
ArchiveForeignPlist ==
    /\ pc = "archive"
    /\ IF plist = Foreign
       THEN plist' = None /\ aside' = aside + 1
       ELSE UNCHANGED <<plist, aside>>
    /\ pc' = "write" /\ look' = "fresh"
    /\ UNCHANGED <<foreign, launchd, call, attempt, held, cut, answer, faults>>

WritePlist ==
    /\ pc = "write"
    /\ plist' = call.def
    /\ Overtaken
    /\ pc' = "bootout" /\ look' = "fresh"
    /\ UNCHANGED <<aside, launchd, call, attempt, held, cut, answer, faults>>

\* loadOnce: bootout, then enable and bootstrap, then kickstart.  A label
\* launchd does not know is settled for a bootout and for nothing else.
Bootout ==
    /\ pc = "bootout"
    /\ \E o \in Outcomes(None, IF job = None THEN "notLoaded" ELSE "loaded") :
          /\ job' = o.job
          /\ running' = (running /\ o.job # None)
          /\ Counted(o)
          /\ IF o.kind \in {"loaded", "notLoaded"}
             THEN pc' = "bootstrap" /\ cut' = FALSE /\ UNCHANGED <<call, attempt, held, look, answer>>
             ELSE SettleCall(o, "bootout", FALSE)
    /\ UNCHANGED disk

\* enable changes nothing modelled here: its failure is a bootstrap's without
\* effect.  launchd reads the plist there is; a label it already holds is
\* reported in flux.
Bootstrapping ==
    IF job # None THEN {[job |-> job, kind |-> "inFlux"]}
    ELSE IF plist = None THEN {[job |-> None, kind |-> "notLoaded"]}
    ELSE Outcomes(plist, "loaded")

Bootstrap ==
    /\ pc = "bootstrap"
    /\ \E o \in Bootstrapping :
          /\ job' = o.job
          /\ running' = (running \/ o.job # job)
          /\ Counted(o)
          /\ SettleCall(o, "bootout", Goto("loadKick"))
    /\ UNCHANGED disk

\* kickstart, the last call of loadOnce and all of what an exact agent needs.
Kickstart ==
    /\ pc \in {"kick", "loadKick", "freshKick"}
    /\ \E o \in Outcomes(job, IF job = None THEN "notLoaded" ELSE "loaded") :
          /\ running' = (job # None /\ (running \/ o.kind = "loaded"))
          /\ Counted(o)
          /\ UNCHANGED <<job, disk>>
          /\ SettleCall(o, IF pc = "loadKick" THEN "bootout" ELSE pc, ReturnAnswer(TRUE))

-----------------------------------------------------------------------------
(***************************************************************************)
(* ApplyFresh and RequireAbsent.                                           *)
(***************************************************************************)

RequireAbsent ==
    /\ pc = "absent"
    /\ IF plist # None THEN ReturnAnswer(FALSE) ELSE Goto("absentPrint")
    /\ UNCHANGED <<disk, launchd, faults>>

PrintAbsent ==
    /\ pc = "absentPrint"
    /\ \/ job # None /\ ReturnAnswer(FALSE) /\ NoFault
       \/ job = None /\ call.verb = "absent" /\ ReturnAnswer(TRUE) /\ NoFault
       \/ job = None /\ call.verb = "fresh" /\ Goto("publish") /\ NoFault
       \/ faults < MaxFaults /\ faults' = faults + 1 /\ ReturnAnswer(FALSE)
    /\ UNCHANGED <<disk, launchd>>

\* WriteFileNew never replaces a file; one whose directory could not be synced
\* was published all the same.
Publish ==
    /\ pc = "publish"
    /\ \/ plist # None /\ ReturnAnswer(FALSE) /\ NoFault /\ UNCHANGED plist
       \/ plist = None /\ plist' = call.def /\ Goto("freshBootstrap") /\ NoFault
       \/ /\ plist = None /\ plist' = call.def
          /\ faults < MaxFaults /\ faults' = faults + 1
          /\ Goto("setAside")
    /\ UNCHANGED <<aside, foreign, launchd>>

\* A bootstrap that fails for good is followed by a print, whose verdict only
\* names the error, and by removePublished.
BootstrapFresh ==
    /\ pc = "freshBootstrap"
    /\ \E o \in Bootstrapping :
          /\ job' = o.job
          /\ running' = (running \/ o.job # job)
          /\ Counted(o)
          /\ IF o.kind = "inFlux" /\ attempt < Attempts
             THEN attempt' = attempt + 1 /\ UNCHANGED <<pc, call, held, look, cut, answer>>
             ELSE IF o.kind = "loaded"
             THEN /\ pc' = "freshKick"
                  /\ attempt' = 1
                  /\ UNCHANGED <<call, held, look, cut, answer>>
             ELSE Goto("setAside")
    /\ UNCHANGED disk

\* removePublished: the file at the label is renamed aside, compared there, and
\* removed only when it is the one this call published.
SetAside ==
    /\ pc = "setAside"
    /\ IF plist = None
       THEN ReturnAnswer(FALSE) /\ UNCHANGED plist
       ELSE plist' = None /\ held' = plist /\ pc' = "compare" /\ UNCHANGED <<call, attempt, look, cut, answer>>
    /\ UNCHANGED <<aside, foreign, launchd, faults>>

\* Mutant of RemovePublished: the file set aside is taken for its own.
RemoveHeld ==
    /\ pc = "compare"
    /\ ReturnAnswer(FALSE)
    /\ UNCHANGED <<disk, launchd, faults>>

RemovePublished ==
    /\ pc = "compare"
    /\ \/ held # Foreign /\ UNCHANGED <<plist, aside>>
       \/ held = Foreign /\ plist = None /\ plist' = held /\ UNCHANGED aside
       \/ held = Foreign /\ plist # None /\ aside' = aside + 1 /\ UNCHANGED plist
    /\ ReturnAnswer(FALSE)
    /\ UNCHANGED <<foreign, launchd, faults>>

-----------------------------------------------------------------------------
(***************************************************************************)
(* Remove.                                                                 *)
(***************************************************************************)

\* Ownership is proved by the marker in the plist at the label's path: none is
\* success, another's is refused.
Remove ==
    /\ pc = "remove"
    /\ CASE plist = None -> ReturnAnswer(TRUE)
         [] plist = Foreign -> ReturnAnswer(FALSE)
         [] plist \in Defs -> Goto("removeBootout")
    /\ UNCHANGED <<disk, launchd, faults>>

\* Mutant of RemoveBootout: the plist goes whatever launchd answered.
RemoveBootoutAnyway ==
    /\ pc = "removeBootout"
    /\ \E o \in Outcomes(None, IF job = None THEN "notLoaded" ELSE "loaded") :
          /\ job' = o.job
          /\ running' = (running /\ o.job # None)
          /\ Counted(o)
          /\ Goto("removePlist")
    /\ UNCHANGED disk

RemoveBootout ==
    /\ pc = "removeBootout"
    /\ \E o \in Outcomes(None, IF job = None THEN "notLoaded" ELSE "loaded") :
          /\ job' = o.job
          /\ running' = (running /\ o.job # None)
          /\ Counted(o)
          /\ IF o.kind \in {"loaded", "notLoaded"} THEN Goto("removePlist") ELSE ReturnAnswer(FALSE)
    /\ UNCHANGED disk

RemovePlist ==
    /\ pc = "removePlist"
    /\ plist' = None
    /\ Overtaken
    /\ ReturnAnswer(TRUE)
    /\ UNCHANGED <<aside, launchd, faults>>

-----------------------------------------------------------------------------
Step ==
    \/ Verify \/ PrintAgent \/ ArchiveForeignPlist \/ WritePlist
    \/ Bootout \/ Bootstrap \/ Kickstart
    \/ RequireAbsent \/ PrintAbsent \/ Publish \/ BootstrapFresh \/ SetAside \/ RemovePublished
    \/ Remove \/ RemoveBootout \/ RemovePlist

LaunchdNext == Begin \/ Step \/ Crash \/ JobTurns \/ WriteForeign \/ TakeForeign \/ LoadForeign

LaunchdSpec == LaunchdInit /\ [][LaunchdNext]_launchdVars

-----------------------------------------------------------------------------
Answered(ok) == pc # "idle" /\ pc' = "idle" /\ answer' = IF ok THEN "ok" ELSE "error"

\* An Apply that answered success left the definition it was asked for on disk
\* and loaded, with a running job.
Applied ==
    [][call.verb \in {"apply", "fresh"} /\ Answered(TRUE)
       => plist' = call.def /\ job' = call.def /\ running']_launchdVars

\* What a verb that answered success says is so.  An Apply left a running job and
\* the definition it was asked for on disk, loaded with it too unless an earlier
\* Apply was cut short between its write and its bootout; somebody who wrote at
\* the label after this Apply last looked at the plist or wrote it has what is on
\* disk, and perhaps what was loaded from there.  A Remove that found
\* daemonkit's plist left launchd with no job of its registrations under the
\* label, whatever definition was loaded.
AnswersTrue ==
    [][Answered(TRUE) =>
        /\ call.verb = "apply" => running'
        /\ call.verb = "apply" /\ look = "fresh" => plist' = call.def /\ (job' = call.def \/ cut)
        /\ call.verb = "remove" /\ plist \in Defs => job' \notin Defs]_launchdVars

\* daemonkit takes a label over without losing what sat there: every plist
\* another actor wrote is at the label, set aside, or in the hands of the call
\* that renamed it.  The label has no lock, so two are lost: one put there after
\* archiveForeignPlist looked and before install writes, and one put there after
\* Remove read the plist and before it deletes it.
ForeignKept ==
    foreign = aside + (IF plist = Foreign THEN 1 ELSE 0) + (IF held = Foreign THEN 1 ELSE 0)

=============================================================================
