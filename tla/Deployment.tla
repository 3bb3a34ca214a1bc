----------------------------- MODULE Deployment -----------------------------
(***************************************************************************)
(* The deployment drivers (scripts/deploy_shadow.py,                       *)
(* scripts/deploy_production.py, scripts/cloudflare_release.py) against    *)
(* the provider that runs the Worker. A driver uploads a version, probes   *)
(* it in a preview, activates it, validates what then serves, writes its   *)
(* evidence, and on a failure goes back to the version it found.           *)
(*                                                                         *)
(* No answer of the provider can be relied on: a command that failed or    *)
(* timed out may have been applied, or may be applied later ("late"), and a *)
(* readback may be refused, or get no answer at all ("transport"). When    *)
(* both requests of a snapshot are refused the driver takes the Worker for *)
(* one that does not exist ("blind"). The disk may refuse the last of the  *)
(* evidence files ("disk"), and a driver may be killed ("kill"). One       *)
(* driver runs at a time. troubled remembers what has gone wrong: a        *)
(* property names the troubles it does not survive.                        *)
(***************************************************************************)
EXTENDS Naturals, Sequences

CONSTANTS
    Commit,
    None,
    MaxRuns,        \* drivers started
    Trouble         \* what may go wrong beyond a command or a check that fails

ASSUME DeploymentAssumption ==
    /\ MaxRuns \in Nat
    /\ Trouble \subseteq {"kill", "transport", "late", "blind", "disk"}

Mode == {"SHADOW_ACCEPTANCE", "PRODUCTION"}
Content == [head : Commit, mode : Mode]

VARIABLES
    versions,       \* the provider's versions of the Worker, in the order of their upload
    active,         \* the version that serves all traffic, 0 before the first
    flying,         \* commands given up on that the provider may still apply
    run,            \* the driver under way
    last,           \* how the last driver ended, and the version it had found
    evidence,       \* what worker-deploy.json names, and whether the files that
                    \* cloudflare_session_ok compares are of one session
    previewed,      \* history: versions that a preview probe reached and passed
    runs,           \* drivers started so far
    troubled        \* history: the troubles that have happened

vars == <<versions, active, flying, run, last, evidence, previewed, runs, troubled>>
provider == <<versions, active, flying>>
history == <<runs, troubled>>

IdleRun == [step |-> "idle", aim |-> None, before |-> 0, seen |-> 0, candidate |-> 0,
            found |-> 0]

Init ==
    /\ versions = <<>> /\ active = 0 /\ flying = {}
    /\ run = IdleRun
    /\ last = [outcome |-> "none", before |-> 0]
    /\ evidence = [version |-> 0, whole |-> "no"]
    /\ previewed = {} /\ runs = 0 /\ troubled = {}

At(s) == run.step = s
Go(s) == run' = [run EXCEPT !.step = s]
Production == run.aim.mode = "PRODUCTION"
Meets(t) == t \in Trouble /\ troubled' = troubled \cup {t}

End(outcome) ==
    /\ run' = IdleRun
    /\ last' = [outcome |-> outcome, before |-> run.before]

Versions == 1 .. Len(versions)
Holding(c) == {v \in Versions : versions[v] = c}
-----------------------------------------------------------------------------
(* Commands.                                                               *)

Upload(c) == [kind |-> "upload", content |-> c]
Activation(v) == [kind |-> "activate", version |-> v]

\* wrangler deploy: uploads and activates at once.
Bootstrap(c) == [kind |-> "bootstrap", content |-> c]

Applied(c) ==
    /\ versions' = IF c.kind = "activate" THEN versions ELSE Append(versions, c.content)
    /\ active' = CASE c.kind = "activate" -> c.version
                   [] c.kind = "bootstrap" -> Len(versions) + 1
                   [] OTHER -> active

\* A command is applied or not, whatever its exit code or timeout says, and the
\* driver asks the provider next. It is never sent again.
Issue(c) ==
    \/ Applied(c) /\ UNCHANGED flying
    \/ UNCHANGED provider
    \/ "late" \in Trouble /\ flying' = flying \cup {c} /\ UNCHANGED <<versions, active>>

Land(c) ==
    /\ c \in flying
    /\ Applied(c)
    /\ flying' = flying \ {c}
    /\ troubled' = troubled \cup {"late"}
    /\ UNCHANGED <<run, last, evidence, previewed, runs>>
-----------------------------------------------------------------------------
(* The way forward.                                                        *)

Shadowed(c) == [c EXCEPT !.mode = "SHADOW_ACCEPTANCE"]

\* Fault: a shadow driver does not look at the mode it finds.
AnyShadowPrestate(c) ==
    \/ /\ c.mode = "PRODUCTION" /\ active # 0 /\ versions[active] = Shadowed(c)
       /\ evidence.whole = "yes" /\ versions[evidence.version] = Shadowed(c)
    \/ c.mode = "SHADOW_ACCEPTANCE"

\* The prestate a driver accepts. A production driver wants the very head it is
\* to release in shadow, both served and on record; a shadow driver takes over
\* from a shadow version, or from nothing.
Acceptable(c) ==
    \/ /\ c.mode = "PRODUCTION" /\ active # 0 /\ versions[active] = Shadowed(c)
       /\ evidence.whole = "yes" /\ versions[evidence.version] = Shadowed(c)
    \/ /\ c.mode = "SHADOW_ACCEPTANCE"
       /\ active # 0 => versions[active].mode = "SHADOW_ACCEPTANCE"

\* worker_snapshot, and the way it opens. A driver that its prestate turns away
\* changes nothing, and is left out.
Enter(c, found) ==
    /\ At("idle") /\ runs < MaxRuns
    /\ run' = [IdleRun EXCEPT !.step = IF found = 0 THEN "bootstrap" ELSE "list",
                              !.aim = c, !.before = found]
    /\ runs' = runs + 1
    /\ UNCHANGED <<provider, last, evidence, previewed>>

Start(c) == Acceptable(c) /\ Enter(c, active) /\ UNCHANGED troubled

\* Both requests of the snapshot are refused: to a shadow driver there is no
\* Worker, whatever serves. A production driver is turned away.
StartBlind(c) ==
    /\ c.mode = "SHADOW_ACCEPTANCE" /\ active # 0
    /\ Enter(c, 0) /\ Meets("blind")

\* wrangler deploy, uploading and activating at once.
DeployFirst ==
    /\ At("bootstrap")
    /\ Issue(Bootstrap(run.aim))
    /\ Go("validate")
    /\ UNCHANGED <<last, evidence, previewed, history>>

ListVersions ==
    /\ At("list")
    /\ run' = [run EXCEPT !.step = "upload", !.seen = Len(versions)]
    /\ UNCHANGED <<provider, last, evidence, previewed, history>>

UploadCandidate ==
    /\ At("upload")
    /\ Issue(Upload(run.aim))
    /\ Go("discover")
    /\ UNCHANGED <<last, evidence, previewed, history>>

\* Fault: takes the newest version for its own.
AnyNewest == Len(versions) > 0
SingleNew == Len(versions) = run.seen + 1

\* Up to five looks a second apart for the one version that was not there before.
Discover ==
    /\ At("discover")
    /\ SingleNew
    /\ run' = [run EXCEPT !.step = "preview", !.candidate = Len(versions)]
    /\ UNCHANGED <<provider, last, evidence, previewed, history>>

\* The probes go to the alias, which is made of mode and head and leads to the
\* version uploaded last under it.
Preview ==
    /\ At("preview")
    /\ \E v \in Holding(run.aim) :
          /\ \A w \in Holding(run.aim) : w <= v
          /\ previewed' = previewed \cup {v}
    /\ Go("read")
    /\ UNCHANGED <<provider, last, evidence, history>>

\* No single new version, a readback refused, a probe that fails.
GiveUp ==
    /\ run.step \in {"list", "discover", "preview"}
    /\ End("failed")
    /\ UNCHANGED <<provider, evidence, previewed, history>>

\* Neither readback distrusts an answer; one that is refused sends the driver back.
ReadActive ==
    /\ At("read")
    /\ \/ active = run.candidate /\ Go("validate")
       \/ active # run.candidate /\ Go("activate")
       \/ Go("back")
    /\ UNCHANGED <<provider, last, evidence, previewed, history>>

Activate ==
    /\ At("activate")
    /\ Issue(Activation(run.candidate))
    /\ Go("readback")
    /\ UNCHANGED <<last, evidence, previewed, history>>

\* Fault: a command that is known not to have been applied needs no rollback.
ForwardOrOut ==
    \/ active = run.candidate /\ Go("validate") /\ UNCHANGED last
    \/ End("failed")
ForwardOrBack ==
    \/ active = run.candidate /\ Go("validate") /\ UNCHANGED last
    \/ Go("back") /\ UNCHANGED last

Readback ==
    /\ At("readback")
    /\ ForwardOrBack
    /\ UNCHANGED <<provider, evidence, previewed, history>>

\* Provider readback and live probes: what serves is what was aimed at.
ServesAim == active # 0 /\ versions[active] = run.aim

Validate ==
    /\ At("validate") /\ ServesAim
    /\ run' = [run EXCEPT !.step = IF Production THEN "evidence" ELSE "record",
                          !.found = active]
    /\ UNCHANGED <<provider, last, evidence, previewed, history>>

\* The evidence files are written one by one. A production driver starts with
\* cloudflare-auth.json and d1-readback.json, of a session of their own.
WriteAccount ==
    /\ At("evidence")
    /\ evidence' = [evidence EXCEPT !.whole = "no"]
    /\ Go("record")
    /\ UNCHANGED <<provider, last, previewed, history>>

\* Faults: names the commit where the version is meant; as if it were the last.
WrittenHead == [version |-> run.aim.head, whole |-> "no"]
WrittenWhole == [version |-> run.found, whole |-> "yes"]
Written == [version |-> run.found, whole |-> "no"]

\* worker-deploy.json.
WriteDeploy ==
    /\ At("record")
    /\ evidence' = Written
    /\ Go(IF Production THEN "session" ELSE "finish")
    /\ UNCHANGED <<provider, last, previewed, history>>

\* production-secrets.json is the last of those that make a session.
WriteSecrets ==
    /\ At("session")
    /\ evidence' = [evidence EXCEPT !.whole = "yes"]
    /\ Go("finish")
    /\ UNCHANGED <<provider, last, previewed, history>>

\* cloudflare-readback.json, or cloudflare-shadow-bootstrap.json.
Finish ==
    /\ At("finish")
    /\ End("ok")
    /\ UNCHANGED <<provider, evidence, previewed, history>>

\* What fails from the readback to the last file sends the driver back. When it
\* is the last of a production session, the session is on file already.
Fail ==
    /\ run.step \in {"validate", "evidence", "record", "session", "finish"}
    /\ run.before # 0 /\ Go("back")
    /\ IF At("finish") /\ Production THEN Meets("disk") ELSE UNCHANGED troubled
    /\ UNCHANGED <<provider, last, evidence, previewed, runs>>

\* Where no version was found there is none to go back to. A first deployment
\* whose readback fails looks once more, and may again be refused; a probe or a
\* file that fails after the readback is caught by nothing.
FailFirst ==
    /\ run.before = 0
    /\ \/ /\ At("validate") /\ UNCHANGED troubled
          /\ End(IF active = 0 THEN "failed" ELSE "unrestored")
       \/ At("validate") /\ active # 0 /\ Meets("blind") /\ End("failed")
       \/ /\ run.step \in {"record", "finish"} \/ (At("validate") /\ ServesAim)
          /\ UNCHANGED troubled /\ End("crashed")
    /\ UNCHANGED <<provider, evidence, previewed, runs>>
-----------------------------------------------------------------------------
(* The way back.                                                           *)

\* A refused readback does not keep the driver from trying.
ReadBefore ==
    /\ At("back")
    /\ \/ active = run.before /\ Go("verify")
       \/ Go("revert")
    /\ UNCHANGED <<provider, last, evidence, previewed, history>>

Revert ==
    /\ At("revert")
    /\ Issue(Activation(run.before))
    /\ Go("reback")
    /\ UNCHANGED <<last, evidence, previewed, history>>

ReadReverted ==
    /\ At("reback")
    /\ \/ active = run.before /\ Go("verify") /\ UNCHANGED last
       \/ End("unrestored")
    /\ UNCHANGED <<provider, evidence, previewed, history>>

Verify ==
    /\ At("verify")
    /\ \/ versions[active] = versions[run.before] /\ End("restored")
       \/ End("unrestored")
    /\ UNCHANGED <<provider, evidence, previewed, history>>
-----------------------------------------------------------------------------
(* What else happens.                                                      *)

\* The steps that ask the provider outside of a try that expects no answer.
Asking == {"list", "discover", "preview", "read", "readback", "back", "reback"}

\* A readback without an answer ends the driver, except that a shadow driver on
\* its way back reports it. So does the second look of a first deployment.
Unanswered ==
    /\ run.step \in Asking \/ (At("validate") /\ run.before = 0)
    /\ Meets("transport")
    /\ End(IF run.step \in {"back", "reback"} /\ ~Production THEN "unrestored" ELSE "crashed")
    /\ UNCHANGED <<provider, evidence, previewed, runs>>

Kill ==
    /\ ~At("idle") /\ Meets("kill")
    /\ End("killed")
    /\ UNCHANGED <<provider, evidence, previewed, runs>>

\* npm run readback:cloudflare, between drivers: the evidence of what serves,
\* whole, or cut off before or after worker-deploy.json.
CollectEvidence ==
    /\ At("idle") /\ active # 0
    /\ evidence' \in {[version |-> active, whole |-> "yes"], [version |-> active, whole |-> "no"],
                     [evidence EXCEPT !.whole = "no"]}
    /\ UNCHANGED <<provider, run, last, previewed, history>>

Next ==
    \/ \E c \in Content : Start(c) \/ StartBlind(c)
    \/ DeployFirst \/ ListVersions \/ UploadCandidate \/ Discover \/ Preview \/ GiveUp
    \/ ReadActive \/ Activate \/ Readback \/ Validate
    \/ WriteAccount \/ WriteDeploy \/ WriteSecrets \/ Finish \/ Fail \/ FailFirst
    \/ ReadBefore \/ Revert \/ ReadReverted \/ Verify
    \/ Unanswered \/ Kill \/ CollectEvidence
    \/ \E c \in flying : Land(c)

Spec == Init /\ [][Next]_vars
-----------------------------------------------------------------------------
(* Properties.                                                             *)

Step == {"idle", "bootstrap", "list", "upload", "discover", "preview", "read", "activate",
         "readback", "validate", "evidence", "record", "session", "finish", "back",
         "revert", "reback", "verify"}
Command == [kind : {"upload", "bootstrap"}, content : Content]
              \cup [kind : {"activate"}, version : Nat \ {0}]

TypeOK ==
    /\ versions \in Seq(Content)
    /\ active \in Versions \cup {0}
    /\ flying \subseteq Command
    /\ run \in [step : Step, aim : Content \cup {None}, before : Nat, seen : Nat,
                candidate : Nat, found : Nat]
    /\ run.before \in Versions \cup {0} /\ run.candidate \in Versions \cup {0}
    /\ last \in [outcome : {"none", "ok", "failed", "restored", "unrestored", "crashed",
                            "killed"}, before : Nat]
    /\ evidence \in [version : Nat, whole : {"yes", "no"}]
    /\ previewed \subseteq Versions
    /\ runs \in 0 .. MaxRuns /\ troubled \subseteq Trouble

Undisturbed(by) == troubled \cap by = {}

\* A release that fails, and says so or just ends, leaves the version serving
\* that served before it; only a rollback that itself fails, and is reported to
\* have, may leave another. A first deployment has nothing to go back to: it is
\* undone when it says that it was not applied.
FailedReleaseIsUndone ==
    At("idle") =>
        /\ last.outcome \in {"failed", "restored"} => active = last.before
        /\ last.outcome = "crashed" /\ last.before # 0 => active = last.before

\* The same, as long as every readback gets some answer, no command that was
\* given up is applied after all, and, of a driver that found no version, as
\* long as no snapshot was refused.
FailureRestores ==
    Undisturbed({"transport", "late"}) /\ (last.before = 0 => Undisturbed({"blind"}))
    => FailedReleaseIsUndone

\* Whatever is killed, fails or is left behind by earlier drivers, what serves
\* has passed the probes in its preview, except for the very first version; as
\* long as no command is applied late and no snapshot is refused.
ServedIsPreviewed == Undisturbed({"late", "blind"}) => active \in previewed \cup {0, 1}

\* Production evidence whose files are of one session is evidence of what
\* serves, as long as no command is applied late, no snapshot is refused and the
\* disk takes the last file.
EvidenceIsTrue ==
    /\ Undisturbed({"late", "blind", "disk"}) /\ evidence.whole = "yes"
    /\ versions[evidence.version].mode = "PRODUCTION"
    => active = evidence.version

\* A production version takes over from shadow of the same commit and gives way
\* to nothing else, as long as no command is applied late and no snapshot is
\* refused.
ProductionFollowsShadow ==
    [][active' # active /\ (Undisturbed({"late", "blind"}))' =>
          /\ versions'[active'].mode = "PRODUCTION" =>
                active # 0 /\ versions[active] = Shadowed(versions'[active'])
          /\ active # 0 /\ versions[active].mode = "PRODUCTION" =>
                versions'[active'] = Shadowed(versions[active])]_vars

\* "Existing Production or partial/ambiguous Worker state: fail closed; Shadow
\* deployment will not overwrite it" (docs/RUNBOOK.md): no driver comes to
\* wrangler deploy while a production version serves.
ProductionIsNotOverwritten ==
    At("bootstrap") /\ active # 0 => versions[active].mode # "PRODUCTION"
=============================================================================
