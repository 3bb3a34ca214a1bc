--------------------------- MODULE Deployment_proofs ---------------------------
(***************************************************************************)
(* Proofs about Deployment: however many drivers run one after the other,  *)
(* and whatever they meet short of the troubles that a property names, a   *)
(* failed release is undone, what serves has passed its preview,           *)
(* production follows shadow, and its evidence is true.                    *)
(***************************************************************************)
EXTENDS Deployment, TLAPS

Forward == {"list", "upload", "discover", "preview", "read", "activate"}
Updating == Forward \cup {"readback", "back", "revert", "reback", "verify"}
Probed == {"preview", "read", "activate", "readback"}
First == {"bootstrap", "validate", "record", "finish"}
USE DEF Forward, Updating, Probed, First

\* What the driver has found and made is there.
Sound ==
    /\ run.step # "idle" => run.aim \in Content
    /\ run.step \in Probed => run.candidate # 0
    /\ run.step \in Updating => run.before # 0
    /\ run.step # "idle" /\ run.before = 0 =>
          run.step \in First /\ run.aim.mode = "SHADOW_ACCEPTANCE"
    /\ flying # {} => "late" \in Trouble
    /\ \A c \in flying : c.kind = "activate" => c.version \in Versions

\* A driver that found a version knows that it serves until it activates
\* another, and again when it is back.
Known ==
    /\ run.step \in Forward => active = run.before
    /\ At("verify") => active = run.before
USE DEF Known

Calm == Undisturbed({"late", "blind"})
Checking == {"validate", "evidence", "record", "session", "finish"}
Tested == Checking \cup {"read", "activate", "readback", "back", "revert", "reback", "verify"}
Late == Tested \ Forward
USE DEF Checking

\* What is uploaded is the driver's own, and is known to be.
OwnVersion ==
    /\ At("upload") => Len(versions) = run.seen
    /\ At("discover") =>
          \/ Len(versions) = run.seen
          \/ Len(versions) = run.seen + 1 /\ versions[Len(versions)] = run.aim
    /\ At("preview") => run.candidate = Len(versions) /\ run.candidate # 0
    /\ run.before # 0 /\ run.step \in Tested \cup {"preview"} =>
          run.candidate # 0 /\ versions[run.candidate] = run.aim
    /\ run.before # 0 /\ run.step \in Tested => run.candidate \in previewed

\* The driver knows what serves.
KnownActive ==
    /\ active = 0 => versions = <<>>
    /\ At("bootstrap") => active = 0
    /\ Known
    /\ run.step \in Late /\ run.before # 0 => active \in {run.before, run.candidate}
    /\ run.step \in Checking \ {"validate"} =>
          active = run.found /\ active # 0 /\ versions[active] = run.aim
    /\ At("session") => Production

\* It started from a version it may replace.
RightStart ==
    ~At("idle") /\ run.before # 0 =>
        /\ run.before \in previewed \cup {1}
        /\ versions[run.before].mode = "SHADOW_ACCEPTANCE"
        /\ Production => versions[run.before] = Shadowed(run.aim)

\* While a driver is under way no whole session on file speaks of production,
\* but for its own at the very end.
Closing == At("finish") /\ Production
NoStaleEvidence ==
    /\ evidence.version \in Versions \cup {0}
    /\ evidence.whole = "yes" => evidence.version # 0
    /\ run.step \in {"session", "finish"} => evidence.version = run.found
    /\ Undisturbed({"disk"}) /\ evidence.whole = "yes" /\ ~At("idle") /\ ~Closing =>
           versions[evidence.version].mode = "SHADOW_ACCEPTANCE"

CalmInv == OwnVersion /\ KnownActive /\ RightStart /\ NoStaleEvidence
              /\ ServedIsPreviewed /\ EvidenceIsTrue

IInv == TypeOK /\ Sound /\ (Undisturbed({"late"}) => Known) /\ (Calm => CalmInv)
           /\ FailureRestores

-----------------------------------------------------------------------------
\* One more version leaves those before it as they are.
LEMMA OneMore ==
    ASSUME NEW s \in Seq(Content), NEW c \in Content
    PROVE  /\ Append(s, c) \in Seq(Content)
           /\ Len(s) \in Nat /\ Len(Append(s, c)) = Len(s) + 1
           /\ \A v \in 1 .. Len(s) : Append(s, c)[v] = s[v]
           /\ Append(s, c)[Len(s) + 1] = c
  OBVIOUS

\* What a step that sends the driver on leaves of it.
RunType == [step : Step, aim : Content \cup {None}, before : Nat, seen : Nat,
            candidate : Nat, found : Nat]

LEMMA Goes ==
    ASSUME run \in RunType, NEW s \in Step, Go(s)
    PROVE  /\ run' \in RunType /\ run'.step = s /\ run'.aim = run.aim
           /\ run'.before = run.before /\ run'.seen = run.seen
           /\ run'.candidate = run.candidate /\ run'.found = run.found
  BY DEF Go, RunType

LEMMA Ends ==
    ASSUME NEW o, End(o)
    PROVE  run' = IdleRun /\ run' \in RunType /\ run'.step = "idle" /\ run'.before = 0
           /\ run'.candidate = 0 /\ last'.outcome = o /\ last'.before = run.before
           /\ last' = [outcome |-> o, before |-> run.before]
  BY DEF End, IdleRun, RunType, Step

\* A command of this driver, issued: what it may have changed.
LEMMA IssuedUpload ==
    ASSUME TypeOK, Sound, run.aim \in Content, Issue(Upload(run.aim))
    PROVE  /\ versions' = versions \/ versions' = Append(versions, run.aim)
           /\ active' = active
           /\ versions' \in Seq(Content) /\ active' \in 1 .. Len(versions') \cup {0}
           /\ flying' \subseteq Command /\ (flying' # {} => "late" \in Trouble)
           /\ \A c \in flying' : c.kind = "activate" => c.version \in 1 .. Len(versions')
           /\ \A v \in Versions : v \in 1 .. Len(versions') /\ versions'[v] = versions[v]
<1>1. versions \in Seq(Content) /\ Upload(run.aim) \in Command
      /\ Upload(run.aim).kind = "upload" /\ Upload(run.aim).content = run.aim
  BY DEF TypeOK, Upload, Command
<1>2. /\ versions' = versions \/ versions' = Append(versions, run.aim)
      /\ active' = active /\ flying' \subseteq flying \cup {Upload(run.aim)}
      /\ flying' = flying \/ "late" \in Trouble
  BY <1>1 DEF Issue, Applied, provider
<1>3. flying' \subseteq Command
  BY <1>1, <1>2 DEF TypeOK
<1>4. /\ versions' \in Seq(Content)
      /\ \A v \in Versions : v \in 1 .. Len(versions') /\ versions'[v] = versions[v]
  BY <1>1, <1>2, OneMore DEF Versions
<1> QED
  BY <1>1, <1>2, <1>3, <1>4 DEF TypeOK, Sound

LEMMA IssuedActivation ==
    ASSUME TypeOK, Sound, NEW v \in Versions, Issue(Activation(v))
    PROVE  /\ versions' = versions /\ active' \in {active, v}
           /\ flying' \subseteq Command /\ (flying' # {} => "late" \in Trouble)
           /\ \A c \in flying' : c.kind = "activate" => c.version \in Versions
<1>1. /\ v \in Nat \ {0} /\ Activation(v) \in Command
      /\ Activation(v).kind = "activate" /\ Activation(v).version = v
  BY DEF TypeOK, Activation, Command, Versions
<1>2. /\ versions' = versions /\ active' \in {active, v}
      /\ flying' \subseteq flying \cup {Activation(v)}
      /\ flying' = flying \/ "late" \in Trouble
  BY <1>1 DEF Issue, Applied, provider
<1> QED
  BY <1>1, <1>2 DEF TypeOK, Sound

LEMMA IssuedBootstrap ==
    ASSUME TypeOK, Sound, run.aim \in Content, Issue(Bootstrap(run.aim))
    PROVE  /\ \/ versions' = versions /\ active' = active
              \/ versions' = Append(versions, run.aim) /\ active' = Len(versions) + 1
           /\ versions' \in Seq(Content) /\ active' \in 1 .. Len(versions') \cup {0}
           /\ flying' \subseteq Command /\ (flying' # {} => "late" \in Trouble)
           /\ \A c \in flying' : c.kind = "activate" => c.version \in 1 .. Len(versions')
           /\ \A v \in Versions : v \in 1 .. Len(versions') /\ versions'[v] = versions[v]
<1>1. versions \in Seq(Content) /\ Bootstrap(run.aim) \in Command
      /\ Bootstrap(run.aim).kind = "bootstrap" /\ Bootstrap(run.aim).content = run.aim
  BY DEF TypeOK, Bootstrap, Command
<1>2. /\ \/ versions' = versions /\ active' = active
         \/ versions' = Append(versions, run.aim) /\ active' = Len(versions) + 1
      /\ flying' \subseteq flying \cup {Bootstrap(run.aim)}
      /\ flying' = flying \/ "late" \in Trouble
  BY <1>1 DEF Issue, Applied, provider
<1>3. flying' \subseteq Command
  BY <1>1, <1>2 DEF TypeOK
<1>4. /\ versions' \in Seq(Content)
      /\ \A v \in Versions : v \in 1 .. Len(versions') /\ versions'[v] = versions[v]
  BY <1>1, <1>2, OneMore DEF Versions
<1>5. active' \in 1 .. Len(versions') \cup {0}
  BY <1>1, <1>2, OneMore DEF TypeOK, Versions
<1> QED
  BY <1>1, <1>2, <1>3, <1>4, <1>5 DEF TypeOK, Sound

\* What was given up on is applied after all.
LEMMA Landed ==
    ASSUME TypeOK, Sound, NEW c \in flying, Land(c)
    PROVE  /\ versions' \in Seq(Content) /\ active' \in 1 .. Len(versions') \cup {0}
           /\ \A v \in Versions : v \in 1 .. Len(versions')
           /\ \A f \in flying' : f \in flying
           /\ "late" \in troubled'
<1>1. versions \in Seq(Content) /\ c \in Command /\ active \in Versions \cup {0}
  BY DEF TypeOK
<1>2. CASE c.kind = "activate"
  <2>1. versions' = versions /\ active' = c.version /\ c.version \in Versions
    BY <1>2 DEF Land, Applied, Sound
  <2> QED
    BY <1>1, <2>1 DEF Land, Versions
<1>3. CASE c.kind # "activate"
  <2>1. c.content \in Content /\ c.kind \in {"upload", "bootstrap"}
    BY <1>1, <1>3 DEF Command
  <2>2. /\ versions' = Append(versions, c.content)
        /\ active' \in {active, Len(versions) + 1}
    BY <1>3, <2>1 DEF Land, Applied
  <2> QED
    BY <1>1, <2>1, <2>2, OneMore DEF Land, Versions
<1> QED
  BY <1>2, <1>3
-----------------------------------------------------------------------------
(* Types.                                                                  *)

LEMMA InitIInv == Init => IInv
<1> SUFFICES ASSUME Init PROVE IInv
  OBVIOUS
<1>1. /\ run \in RunType /\ run.step = "idle" /\ run.before = 0 /\ run.candidate = 0
      /\ Len(versions) = 0 /\ versions \in Seq(Content)
  BY DEF Init, IdleRun, RunType, Step
<1>2. TypeOK
  BY <1>1, DeploymentAssumption DEF Init, TypeOK, RunType, Versions
<1>3. Sound
  BY <1>1 DEF Init, Sound
<1>4. CalmInv
  <2>1. OwnVersion /\ KnownActive
    BY <1>1 DEF Init, OwnVersion, KnownActive, At, Tested, Late
  <2>2. RightStart /\ NoStaleEvidence
    BY <1>1 DEF Init, RightStart, NoStaleEvidence, At
  <2>3. ServedIsPreviewed /\ EvidenceIsTrue
    BY DEF Init, ServedIsPreviewed, EvidenceIsTrue
  <2> QED
    BY <2>1, <2>2, <2>3 DEF CalmInv
<1>5. FailureRestores
  BY DEF Init, FailureRestores, FailedReleaseIsUndone
<1>6. Known
  BY <1>1 DEF At
<1> QED
  BY <1>2, <1>3, <1>4, <1>5, <1>6 DEF IInv

\* A step that only moves the driver keeps the types.
LEMMA MovesOn ==
    ASSUME TypeOK, Sound, UNCHANGED <<provider, last, runs>>, troubled' \subseteq Trouble,
           run' \in RunType, run'.before \in Versions \cup {0},
           run'.candidate \in Versions \cup {0},
           evidence' \in [version : Nat, whole : {"yes", "no"}], previewed' \subseteq Versions,
           run'.step # "idle" => run'.aim \in Content,
           run'.step \in Probed => run'.candidate # 0,
           run'.step \in Updating => run'.before # 0,
           run'.step # "idle" /\ run'.before = 0 =>
              run'.step \in First /\ run'.aim.mode = "SHADOW_ACCEPTANCE"
    PROVE  TypeOK' /\ Sound'
  BY DEF TypeOK, Sound, provider, Versions, RunType

LEMMA Ended ==
    ASSUME TypeOK, Sound, UNCHANGED <<provider, runs, previewed>>, NEW o, End(o),
           o \in {"ok", "failed", "restored", "unrestored", "crashed", "killed"},
           evidence' \in [version : Nat, whole : {"yes", "no"}],
           troubled' \subseteq Trouble
    PROVE  TypeOK' /\ Sound'
<1>1. run' = IdleRun /\ last' = [outcome |-> o, before |-> run.before] /\ run.before \in Nat
  BY Ends DEF TypeOK
<1>2. /\ IdleRun \in RunType /\ IdleRun.step = "idle"
      /\ IdleRun.before = 0 /\ IdleRun.candidate = 0
  BY DEF IdleRun, RunType, Step
<1> QED
  BY <1>1, <1>2 DEF TypeOK, Sound, provider, Versions, RunType

LEMMA TypesForward ==
    ASSUME TypeOK, Sound,
           \/ \E c \in Content : Start(c) \/ StartBlind(c)
           \/ DeployFirst \/ ListVersions \/ UploadCandidate \/ Discover \/ Preview \/ GiveUp
           \/ ReadActive \/ Activate \/ Readback \/ Validate
           \/ WriteAccount \/ WriteDeploy \/ WriteSecrets \/ Finish \/ Fail \/ FailFirst
    PROVE  TypeOK' /\ Sound'
<1>0. /\ run \in RunType /\ {run.before, run.candidate} \subseteq Versions \cup {0}
      /\ evidence \in [version : Nat, whole : {"yes", "no"}] /\ previewed \subseteq Versions
      /\ troubled \subseteq Trouble /\ versions \in Seq(Content) /\ Len(versions) \in Nat
      /\ active \in Versions \cup {0} /\ active \in Nat
  BY DEF TypeOK, RunType, Versions
<1>1. ASSUME NEW c \in Content, Start(c) \/ StartBlind(c) PROVE TypeOK' /\ Sound'
  <2>1. PICK found \in {active, 0} :
           /\ Enter(c, found) /\ troubled' \subseteq Trouble
           /\ found = 0 => c.mode = "SHADOW_ACCEPTANCE"
    BY <1>0, <1>1 DEF Start, StartBlind, Acceptable, Meets
  <2>2. /\ run'.step = (IF found = 0 THEN "bootstrap" ELSE "list") /\ run'.aim = c
        /\ run'.before = found /\ run'.candidate = 0 /\ run' \in RunType
        /\ UNCHANGED <<provider, last, evidence, previewed>>
    <3>1. /\ run' = [step |-> IF found = 0 THEN "bootstrap" ELSE "list", aim |-> c,
                     before |-> found, seen |-> 0, candidate |-> 0, found |-> 0]
          /\ UNCHANGED <<provider, last, evidence, previewed>>
      BY <2>1 DEF Enter, IdleRun
    <3>2. found \in Nat /\ c \in Content
      BY <1>0, <1>1, <2>1
    <3> QED
      BY <3>1, <3>2 DEF RunType, Step
  <2>3. runs' \in 0 .. MaxRuns
    <3>1. runs < MaxRuns /\ runs' = runs + 1 /\ runs \in 0 .. MaxRuns
      BY <2>1 DEF Enter, TypeOK
    <3> QED
      BY <3>1, DeploymentAssumption
  <2> QED
    BY <1>0, <2>1, <2>2, <2>3 DEF TypeOK, Sound, provider, Versions, RunType
<1>2. CASE DeployFirst
  <2>1. run.aim \in Content /\ Issue(Bootstrap(run.aim)) /\ Go("validate")
    BY <1>2 DEF DeployFirst, At, Sound
  <2>2. UNCHANGED <<last, evidence, previewed, history>>
    BY <1>2 DEF DeployFirst
  <2>3. /\ run' \in RunType /\ run'.step = "validate" /\ run'.aim = run.aim
        /\ run'.before = run.before /\ run'.candidate = run.candidate
    BY <1>0, <2>1, Goes DEF Step
  <2>4. TypeOK'
    BY <1>0, <2>1, <2>2, <2>3, IssuedBootstrap DEF TypeOK, Versions, RunType, history
  <2>5. run.before = 0 => run.aim.mode = "SHADOW_ACCEPTANCE"
    BY <1>2 DEF DeployFirst, At, Sound
  <2>6. Sound'
    BY <2>1, <2>3, <2>5, IssuedBootstrap DEF Sound, Versions
  <2> QED
    BY <2>4, <2>6
<1>3. CASE ListVersions
  <2>1. /\ run' \in RunType /\ run'.step = "upload" /\ run'.aim = run.aim
        /\ run'.before = run.before /\ run'.candidate = run.candidate
    BY <1>0, <1>3 DEF ListVersions, RunType, Step
  <2> QED
    BY <1>0, <1>3, <2>1, MovesOn DEF ListVersions, At, Sound, history
<1>4. CASE UploadCandidate
  <2>1. /\ run.step = "upload" /\ run.aim \in Content
        /\ Issue(Upload(run.aim)) /\ Go("discover")
    BY <1>4 DEF UploadCandidate, At, Sound
  <2>2. UNCHANGED <<last, evidence, previewed, history>>
    BY <1>4 DEF UploadCandidate
  <2> QED
    BY <1>0, <2>1, <2>2, IssuedUpload, Goes DEF TypeOK, Sound, Versions, RunType, Step, history
<1>5. CASE Discover
  <2>1. /\ run' \in RunType /\ run'.step = "preview" /\ run'.aim = run.aim
        /\ run'.before = run.before /\ run'.candidate = Len(versions)
    BY <1>0, <1>5 DEF Discover, RunType, Step
  <2>2. Len(versions) # 0 /\ run'.candidate \in Versions
    BY <1>0, <1>5, <2>1 DEF Discover, SingleNew, RunType, Versions
  <2>3. run.step = "discover"
        /\ UNCHANGED <<provider, last, evidence, previewed, runs, troubled>>
    BY <1>5 DEF Discover, At, history
  <2> QED
    BY <1>0, <2>1, <2>2, <2>3, MovesOn DEF Sound
<1>6. CASE Preview
  <2>1. previewed' \subseteq Versions
    BY <1>0, <1>6 DEF Preview, Holding
  <2> QED
    BY <1>0, <1>6, <2>1, Goes, MovesOn DEF Preview, At, Sound, history, Step
<1>7. CASE GiveUp
  BY <1>0, <1>7, Ended DEF GiveUp, history
<1>8. CASE ReadActive
  BY <1>0, <1>8, Goes, MovesOn DEF ReadActive, At, Sound, history, Step
<1>9. CASE Activate
  BY <1>0, <1>9, Goes, IssuedActivation
     DEF Activate, At, TypeOK, Sound, Versions, RunType, Step, history
<1>10. CASE Readback
  BY <1>0, <1>10, Goes, MovesOn DEF Readback, ForwardOrBack, At, Sound, history, Step
<1>11. CASE Validate
  <2>1. /\ run' \in RunType /\ run'.step = (IF Production THEN "evidence" ELSE "record")
        /\ run'.aim = run.aim /\ run'.before = run.before /\ run'.candidate = run.candidate
    BY <1>0, <1>11 DEF Validate, RunType, Step
  <2> QED
    BY <1>0, <1>11, <2>1, MovesOn DEF Validate, At, Sound, history, Production
<1>12. CASE WriteAccount
  <2>1. evidence' \in [version : Nat, whole : {"yes", "no"}]
    BY <1>0, <1>12 DEF WriteAccount
  <2> QED
    BY <1>0, <1>12, <2>1, Goes, MovesOn DEF WriteAccount, At, Sound, history, Step
<1>13. CASE WriteDeploy
  <2>1. evidence' \in [version : Nat, whole : {"yes", "no"}]
    BY <1>0, <1>13 DEF WriteDeploy, Written, RunType
  <2> QED
    BY <1>0, <1>13, <2>1, Goes, MovesOn
       DEF WriteDeploy, At, Sound, history, Step, Production
<1>14. CASE WriteSecrets
  <2>1. evidence' \in [version : Nat, whole : {"yes", "no"}]
    BY <1>0, <1>14 DEF WriteSecrets
  <2> QED
    BY <1>0, <1>14, <2>1, Goes, MovesOn DEF WriteSecrets, At, Sound, history, Step
<1>15. CASE Finish
  BY <1>0, <1>15, Ended DEF Finish, history
<1>16. CASE Fail
  <2>1. troubled' \subseteq Trouble
    BY <1>0, <1>16 DEF Fail, Meets
  <2> QED
    BY <1>0, <1>16, <2>1, Goes, MovesOn DEF Fail, Sound, Step
<1>17. CASE FailFirst
  <2>1. PICK o \in {"failed", "unrestored", "crashed"} : End(o)
    BY <1>17 DEF FailFirst
  <2>2. troubled' \subseteq Trouble
    BY <1>0, <1>17 DEF FailFirst, Meets
  <2> QED
    BY <1>0, <1>17, <2>1, <2>2, Ended DEF FailFirst
<1> QED
  BY <1>1, <1>2, <1>3, <1>4, <1>5, <1>6, <1>7, <1>8, <1>9, <1>10, <1>11, <1>12, <1>13, <1>14,
     <1>15, <1>16, <1>17

LEMMA TypesElsewhere ==
    ASSUME TypeOK, Sound,
           \/ ReadBefore \/ Revert \/ ReadReverted \/ Verify
           \/ Unanswered \/ Kill \/ CollectEvidence
           \/ \E c \in flying : Land(c)
           \/ UNCHANGED vars
    PROVE  TypeOK' /\ Sound'
<1>0. /\ run \in RunType /\ {run.before, run.candidate} \subseteq Versions \cup {0}
      /\ evidence \in [version : Nat, whole : {"yes", "no"}] /\ previewed \subseteq Versions
      /\ troubled \subseteq Trouble /\ versions \in Seq(Content) /\ Len(versions) \in Nat
      /\ active \in Versions \cup {0} /\ active \in Nat
  BY DEF TypeOK, RunType, Versions
<1>1. CASE ReadBefore
  BY <1>0, <1>1, Goes, MovesOn DEF ReadBefore, At, Sound, history, Step
<1>2. CASE Revert
  BY <1>0, <1>2, Goes, IssuedActivation
     DEF Revert, At, TypeOK, Sound, Versions, RunType, Step, history
<1>3. CASE ReadReverted
  <2>1. CASE Go("verify") /\ UNCHANGED last
    BY <1>0, <1>3, <2>1, Goes, MovesOn DEF ReadReverted, At, Sound, history, Step
  <2>2. CASE End("unrestored")
    BY <1>0, <1>3, <2>2, Ended DEF ReadReverted, history
  <2> QED
    BY <1>3, <2>1, <2>2 DEF ReadReverted
<1>4. CASE Verify
  BY <1>0, <1>4, Ended DEF Verify, history
<1>5. CASE Unanswered
  <2> DEFINE o == IF run.step \in {"back", "reback"} /\ ~Production THEN "unrestored"
                  ELSE "crashed"
  <2>1. End(o) /\ o \in {"unrestored", "crashed"}
    BY <1>5 DEF Unanswered
  <2>2. troubled' \subseteq Trouble
    BY <1>0, <1>5 DEF Unanswered, Meets
  <2> HIDE DEF o
  <2> QED
    BY <1>0, <1>5, <2>1, <2>2, Ended DEF Unanswered
<1>6. CASE Kill
  <2>1. troubled' \subseteq Trouble
    BY <1>0, <1>6 DEF Kill, Meets
  <2> QED
    BY <1>0, <1>6, <2>1, Ended DEF Kill
<1>7. CASE CollectEvidence
  <2>1. evidence' \in [version : Nat, whole : {"yes", "no"}]
    BY <1>0, <1>7 DEF CollectEvidence
  <2> QED
    BY <1>0, <1>7, <2>1, MovesOn DEF CollectEvidence, At, Sound, history
<1>8. ASSUME NEW c \in flying, Land(c) PROVE TypeOK' /\ Sound'
  <2>1. troubled' \subseteq Trouble
    BY <1>0, <1>8 DEF Land, Sound
  <2> QED
    BY <1>0, <1>8, <2>1, Landed DEF Land, TypeOK, Sound, Versions
<1>9. CASE UNCHANGED vars
  BY <1>9 DEF vars, TypeOK, Sound, Versions
<1> QED
  BY <1>1, <1>2, <1>3, <1>4, <1>5, <1>6, <1>7, <1>8, <1>9

-----------------------------------------------------------------------------
(* What holds as long as no command is applied late and no snapshot is     *)
(* refused.                                                                *)

\* The facts of the types that the steps below need.
Basics ==
    /\ run \in RunType /\ {run.before, run.candidate} \subseteq Versions \cup {0}
    /\ versions \in Seq(Content) /\ Len(versions) \in Nat
    /\ active \in Versions \cup {0} /\ active \in Nat /\ previewed \subseteq Versions
    /\ Versions = 1 .. Len(versions) /\ \A v \in Versions : versions[v] \in Content
    /\ run.step # "idle" => run.aim \in Content
    /\ run.step \in Updating => run.before # 0
    /\ run.step # "idle" /\ run.before = 0 =>
          run.step \in First /\ run.aim.mode = "SHADOW_ACCEPTANCE"

LEMMA Typed == TypeOK /\ Sound => Basics
  BY DEF TypeOK, Sound, RunType, Versions, Basics

LEMMA Modes ==
    ASSUME NEW c \in Content
    PROVE  /\ c.mode \in {"SHADOW_ACCEPTANCE", "PRODUCTION"}
           /\ Shadowed(c).mode = "SHADOW_ACCEPTANCE"
  BY DEF Content, Mode, Shadowed

LEMMA CalmStart ==
    ASSUME TypeOK, Sound, CalmInv, Calm, NEW c \in Content, Start(c)
    PROVE  CalmInv'
<1>0. /\ versions \in Seq(Content) /\ Len(versions) \in Nat /\ active \in Versions \cup {0}
      /\ \A v \in Versions : versions[v].mode \in {"SHADOW_ACCEPTANCE", "PRODUCTION"}
      /\ previewed \subseteq Versions
  BY Typed DEF Basics, Content, Mode
<1>1. /\ run'.step = (IF active = 0 THEN "bootstrap" ELSE "list") /\ run'.aim = c
      /\ run'.before = active /\ run.step = "idle"
  BY DEF Start, Enter, IdleRun, At
<1>2. UNCHANGED <<versions, active, evidence, previewed, troubled>>
  BY DEF Start, Enter, provider
<1>3. Acceptable(c) /\ c.mode \in {"SHADOW_ACCEPTANCE", "PRODUCTION"}
  BY DEF Start, Content, Mode
<1>4. OwnVersion'
  BY <1>1 DEF OwnVersion, At, Tested
<1>5. KnownActive'
  BY <1>1, <1>2, <1>3 DEF KnownActive, CalmInv, At, Late, Tested, Acceptable
<1>6. ServedIsPreviewed'
  BY <1>2 DEF CalmInv, ServedIsPreviewed, Undisturbed
<1>7. RightStart'
  <2>1. active \in previewed \cup {0, 1}
    BY DEF CalmInv, ServedIsPreviewed, Calm
  <2> QED
    BY <1>1, <1>2, <1>3, <2>1, Modes DEF RightStart, At, Acceptable, Production
<1>8. EvidenceIsTrue'
  BY <1>2 DEF CalmInv, EvidenceIsTrue, Undisturbed
<1>9. NoStaleEvidence'
  <2>1. Undisturbed({"disk"}) /\ evidence.whole = "yes" =>
           versions[evidence.version].mode = "SHADOW_ACCEPTANCE"
    <3> SUFFICES ASSUME Undisturbed({"disk"}), evidence.whole = "yes"
                 PROVE  versions[evidence.version].mode = "SHADOW_ACCEPTANCE"
      OBVIOUS
    <3>1. Undisturbed({"late", "blind", "disk"})
      BY DEF Calm, Undisturbed
    <3> QED
      BY <1>0, <1>3, <3>1, Modes
         DEF CalmInv, NoStaleEvidence, EvidenceIsTrue, KnownActive, Acceptable, Versions
  <2> QED
    BY <1>1, <1>2, <2>1 DEF CalmInv, NoStaleEvidence, At, Versions, Undisturbed
<1> QED
  BY <1>4, <1>5, <1>6, <1>7, <1>8, <1>9 DEF CalmInv

\* A step that changes neither what serves nor the evidence, and leaves the
\* driver its aim and its start.
Keeps == /\ UNCHANGED <<versions, active, evidence, previewed, troubled>>
         /\ run'.aim = run.aim /\ run'.before = run.before

LEMMA Quiet ==
    ASSUME CalmInv, Keeps, ~At("idle"), ~Closing, run'.step \notin {"session", "finish"}
    PROVE  RightStart' /\ ServedIsPreviewed' /\ EvidenceIsTrue' /\ NoStaleEvidence'
  BY DEF CalmInv, Keeps, At, RightStart, Production, ServedIsPreviewed, EvidenceIsTrue,
         NoStaleEvidence, Closing, Undisturbed, Versions

LEMMA CalmMoves ==
    ASSUME TypeOK, Sound, CalmInv, Calm,
           ListVersions \/ Discover \/ ReadActive \/ Readback \/ Validate \/ ReadBefore
    PROVE  CalmInv'
<1>0. Basics
  BY Typed DEF Basics
<1> USE DEF Basics
<1>1. CASE ListVersions
  <2>1. Keeps
    BY <1>0, <1>1 DEF Keeps, ListVersions, Go, RunType, Step, provider, history
  <2>2. OwnVersion'
    BY <1>0, <1>1, <2>1
       DEF Keeps, ListVersions, Go, RunType, At, CalmInv, OwnVersion,
           KnownActive, Tested
  <2>3. KnownActive'
    BY <1>0, <1>1, <2>1
       DEF Keeps, ListVersions, Go, RunType, At, CalmInv, OwnVersion,
           KnownActive, Tested, Late
  <2>4. RightStart' /\ ServedIsPreviewed' /\ EvidenceIsTrue' /\ NoStaleEvidence'
    BY <1>0, <1>1, <2>1, Quiet DEF ListVersions, Go, RunType, At, Closing
  <2> QED
    BY <2>1, <2>2, <2>3, <2>4 DEF CalmInv
<1>2. CASE Discover
  <2>1. Keeps
    BY <1>0, <1>2 DEF Keeps, Discover, SingleNew, Go, RunType, Step, provider, history
  <2>2. OwnVersion'
    BY <1>0, <1>2, <2>1
       DEF Keeps, Discover, SingleNew, Go, RunType, At, CalmInv, OwnVersion,
           KnownActive, Tested
  <2>3. KnownActive'
    BY <1>0, <1>2, <2>1
       DEF Keeps, Discover, SingleNew, Go, RunType, At, CalmInv, OwnVersion,
           KnownActive, Tested, Late
  <2>4. RightStart' /\ ServedIsPreviewed' /\ EvidenceIsTrue' /\ NoStaleEvidence'
    BY <1>0, <1>2, <2>1, Quiet DEF Discover, SingleNew, Go, RunType, At, Closing
  <2> QED
    BY <2>1, <2>2, <2>3, <2>4 DEF CalmInv
<1>3. CASE ReadActive
  <2>1. Keeps
    BY <1>0, <1>3 DEF Keeps, ReadActive, Go, RunType, Step, provider, history
  <2>2. OwnVersion'
    BY <1>0, <1>3, <2>1
       DEF Keeps, ReadActive, Go, RunType, At, CalmInv, OwnVersion,
           KnownActive, Tested
  <2>3. KnownActive'
    BY <1>0, <1>3, <2>1
       DEF Keeps, ReadActive, Go, RunType, At, CalmInv, OwnVersion,
           KnownActive, Tested, Late
  <2>4. RightStart' /\ ServedIsPreviewed' /\ EvidenceIsTrue' /\ NoStaleEvidence'
    BY <1>0, <1>3, <2>1, Quiet DEF ReadActive, Go, RunType, At, Closing
  <2> QED
    BY <2>1, <2>2, <2>3, <2>4 DEF CalmInv
<1>4. CASE Readback
  <2>1. Keeps
    BY <1>0, <1>4 DEF Keeps, Readback, ForwardOrBack, Go, RunType, Step, provider, history
  <2>2. OwnVersion'
    BY <1>0, <1>4, <2>1
       DEF Keeps, Readback, ForwardOrBack, Go, RunType, At, CalmInv, OwnVersion,
           KnownActive, Tested
  <2>3. KnownActive'
    BY <1>0, <1>4, <2>1
       DEF Keeps, Readback, ForwardOrBack, Go, RunType, At, CalmInv, OwnVersion,
           KnownActive, Tested, Late
  <2>4. RightStart' /\ ServedIsPreviewed' /\ EvidenceIsTrue' /\ NoStaleEvidence'
    BY <1>0, <1>4, <2>1, Quiet DEF Readback, ForwardOrBack, Go, RunType, At, Closing
  <2> QED
    BY <2>1, <2>2, <2>3, <2>4 DEF CalmInv
<1>5. CASE Validate
  <2>1. Keeps
    BY <1>0, <1>5 DEF Keeps, Validate, Go, RunType, Step, provider, history
  <2>2. OwnVersion'
    BY <1>0, <1>5, <2>1
       DEF Keeps, Validate, ServesAim, Go, RunType, At, CalmInv, OwnVersion,
           KnownActive, Tested
  <2>3. KnownActive'
    BY <1>0, <1>5, <2>1
       DEF Keeps, Validate, ServesAim, Go, RunType, At, CalmInv, OwnVersion,
           KnownActive, Tested, Late
  <2>4. RightStart' /\ ServedIsPreviewed' /\ EvidenceIsTrue' /\ NoStaleEvidence'
    BY <1>0, <1>5, <2>1, Quiet DEF Validate, Go, RunType, At, Closing
  <2> QED
    BY <2>1, <2>2, <2>3, <2>4 DEF CalmInv
<1>6. CASE ReadBefore
  <2>1. Keeps
    BY <1>0, <1>6 DEF Keeps, ReadBefore, Go, RunType, Step, provider, history
  <2>2. OwnVersion'
    BY <1>0, <1>6, <2>1
       DEF Keeps, ReadBefore, Go, RunType, At, CalmInv, OwnVersion,
           KnownActive, Tested
  <2>3. KnownActive'
    BY <1>0, <1>6, <2>1
       DEF Keeps, ReadBefore, Go, RunType, At, CalmInv, OwnVersion,
           KnownActive, Tested, Late
  <2>4. RightStart' /\ ServedIsPreviewed' /\ EvidenceIsTrue' /\ NoStaleEvidence'
    BY <1>0, <1>6, <2>1, Quiet DEF ReadBefore, Go, RunType, At, Closing
  <2> QED
    BY <2>1, <2>2, <2>3, <2>4 DEF CalmInv
<1> QED
  BY <1>1, <1>2, <1>3, <1>4, <1>5, <1>6

LEMMA CalmEnds ==
    ASSUME TypeOK, Sound, CalmInv, Calm, NEW o, End(o), ~At("idle"),
           UNCHANGED <<versions, active, evidence, previewed>>, troubled \subseteq troubled'
    PROVE  CalmInv'
<1>1. run'.step = "idle" /\ run'.before = 0
  BY Ends
<1>2. OwnVersion' /\ KnownActive' /\ RightStart'
  BY <1>1 DEF CalmInv, OwnVersion, KnownActive, RightStart, At, Tested, Late
<1>3. NoStaleEvidence'
  BY <1>1 DEF CalmInv, NoStaleEvidence, At, Versions
<1>4. ServedIsPreviewed' /\ EvidenceIsTrue'
  BY DEF CalmInv, ServedIsPreviewed, EvidenceIsTrue, Undisturbed
<1> QED
  BY <1>2, <1>3, <1>4 DEF CalmInv

\* The version a driver uploads is the only one that appears.
LEMMA CalmUpload ==
    ASSUME TypeOK, Sound, CalmInv, Calm, UploadCandidate PROVE CalmInv'
<1>0. Basics
  BY Typed
<1>1. /\ run.step = "upload" /\ run.aim \in Content /\ run.before # 0
      /\ Issue(Upload(run.aim)) /\ Go("discover")
      /\ UNCHANGED <<evidence, previewed, troubled>>
  BY <1>0 DEF UploadCandidate, At, Basics, history
<1>2. /\ run'.step = "discover" /\ run'.aim = run.aim /\ run'.before = run.before
      /\ run'.seen = run.seen /\ run'.candidate = run.candidate
  BY <1>0, <1>1, Goes DEF Basics, Step
<1>3. /\ versions' = versions \/ versions' = Append(versions, run.aim)
      /\ active' = active
      /\ \A v \in Versions : v \in Versions' /\ versions'[v] = versions[v]
  BY <1>1, IssuedUpload DEF Versions
<1>4. OwnVersion'
  <2>1. Len(versions) = run.seen
    BY <1>1 DEF CalmInv, OwnVersion, At
  <2>2. \/ versions' = versions
        \/ Len(versions') = Len(versions) + 1 /\ versions'[Len(versions) + 1] = run.aim
    BY <1>0, <1>1, <1>3, OneMore DEF Basics
  <2> QED
    BY <1>0, <1>2, <2>1, <2>2 DEF OwnVersion, At, Tested, Basics
<1>5. KnownActive'
  BY <1>0, <1>1, <1>2, <1>3 DEF CalmInv, KnownActive, At, Late, Tested
<1>6. RightStart'
  BY <1>0, <1>1, <1>2, <1>3 DEF CalmInv, RightStart, At, Production, Basics
<1>7. NoStaleEvidence' /\ EvidenceIsTrue'
  BY <1>0, <1>1, <1>2, <1>3
     DEF CalmInv, NoStaleEvidence, EvidenceIsTrue, At, Closing, Undisturbed
<1>8. ServedIsPreviewed'
  BY <1>1, <1>3 DEF CalmInv, ServedIsPreviewed, Undisturbed
<1> QED
  BY <1>4, <1>5, <1>6, <1>7, <1>8 DEF CalmInv

LEMMA CalmDeployFirst ==
    ASSUME TypeOK, Sound, CalmInv, Calm, DeployFirst PROVE CalmInv'
<1>0. Basics
  BY Typed
<1>1. /\ run.step = "bootstrap" /\ run.aim \in Content
      /\ Issue(Bootstrap(run.aim)) /\ Go("validate")
      /\ UNCHANGED <<evidence, previewed, troubled>>
  BY <1>0 DEF DeployFirst, At, Basics, history
<1>2. /\ run'.step = "validate" /\ run'.aim = run.aim /\ run'.before = run.before
      /\ run.before = 0 /\ active = 0 /\ versions = <<>> /\ Len(versions) = 0
      /\ run.aim.mode = "SHADOW_ACCEPTANCE"
  <2>1. active = 0 /\ versions = <<>>
    BY <1>1 DEF CalmInv, KnownActive, At
  <2>2. run.before = 0 /\ run.aim.mode = "SHADOW_ACCEPTANCE"
    BY <1>0, <1>1, <2>1 DEF CalmInv, KnownActive, At, RightStart, Basics
  <2> QED
    BY <1>0, <1>1, <2>1, <2>2, Goes DEF Basics, Step
<1>3. \/ versions' = versions /\ active' = 0
      \/ versions' = Append(versions, run.aim) /\ active' = 1
  BY <1>1, <1>2, IssuedBootstrap
<1>4. OwnVersion' /\ RightStart'
  BY <1>2 DEF OwnVersion, RightStart, At, Tested
<1>5. KnownActive'
  BY <1>2, <1>3 DEF KnownActive, At, Late, Tested
<1>6. ServedIsPreviewed'
  BY <1>3 DEF ServedIsPreviewed
<1>7. NoStaleEvidence' /\ EvidenceIsTrue'
  <2>1. evidence.version = 0 /\ evidence.whole # "yes"
    BY <1>2 DEF CalmInv, NoStaleEvidence, Versions
  <2> QED
    BY <1>1, <1>2, <2>1 DEF NoStaleEvidence, EvidenceIsTrue, At
<1> QED
  BY <1>4, <1>5, <1>6, <1>7 DEF CalmInv

LEMMA CalmPreview ==
    ASSUME TypeOK, Sound, CalmInv, Calm, Preview PROVE CalmInv'
<1>0. Basics
  BY Typed
<1>1. PICK v \in Holding(run.aim) :
         /\ \A w \in Holding(run.aim) : w <= v
         /\ previewed' = previewed \cup {v}
  BY DEF Preview
<1>2. /\ run.step = "preview" /\ Go("read") /\ run.before # 0
      /\ UNCHANGED <<versions, active, evidence, troubled>>
  BY <1>0 DEF Preview, At, provider, history, Basics
<1>3. /\ run'.step = "read" /\ run'.aim = run.aim /\ run'.before = run.before
      /\ run'.candidate = run.candidate
  BY <1>0, <1>2, Goes DEF Basics, Step
<1>4. v = run.candidate
  <2>1. /\ run.candidate = Len(versions) /\ run.candidate # 0
        /\ versions[run.candidate] = run.aim
    BY <1>2 DEF CalmInv, OwnVersion, At
  <2>2. run.candidate \in Holding(run.aim)
    BY <1>0, <2>1 DEF Holding, Basics
  <2> QED
    BY <1>0, <1>1, <2>1, <2>2 DEF Holding, Basics
<1>5. OwnVersion'
  BY <1>1, <1>2, <1>3, <1>4 DEF CalmInv, OwnVersion, At, Tested
<1>6. KnownActive' /\ RightStart'
  BY <1>1, <1>2, <1>3 DEF CalmInv, KnownActive, RightStart, At, Late, Tested, Production
<1>7. NoStaleEvidence' /\ EvidenceIsTrue' /\ ServedIsPreviewed'
  BY <1>1, <1>2, <1>3
     DEF CalmInv, NoStaleEvidence, EvidenceIsTrue, ServedIsPreviewed, At, Closing,
         Undisturbed, Versions
<1> QED
  BY <1>5, <1>6, <1>7 DEF CalmInv

\* Forward to the candidate, or back to what served before: both have passed
\* their preview, or are the first version.
LEMMA CalmActivation ==
    ASSUME TypeOK, Sound, CalmInv, Calm, Activate \/ Revert PROVE CalmInv'
<1>0. Basics
  BY Typed
<1> DEFINE v == IF At("activate") THEN run.candidate ELSE run.before
           s == IF At("activate") THEN "readback" ELSE "reback"
<1>1. /\ run.step \in {"activate", "revert"} /\ run.before # 0 /\ Go(s)
      /\ Issue(Activation(v)) /\ UNCHANGED <<evidence, previewed, troubled>>
  BY <1>0 DEF Activate, Revert, At, history, Basics
<1>2. /\ run'.step = s /\ run'.aim = run.aim /\ run'.before = run.before
      /\ run'.candidate = run.candidate
  BY <1>0, <1>1, Goes DEF Basics, Step
<1>3. /\ run.candidate # 0 /\ versions[run.candidate] = run.aim
      /\ run.candidate \in previewed /\ run.before \in previewed \cup {1}
  BY <1>0, <1>1 DEF CalmInv, OwnVersion, RightStart, At, Tested, Basics
<1>4. v \in Versions /\ v \in {run.before, run.candidate}
  BY <1>0, <1>1, <1>3 DEF Basics
<1>5. versions' = versions /\ active' \in {active, v}
  BY <1>1, <1>4, IssuedActivation
<1>6. active \in {run.before, run.candidate} /\ active # 0
  BY <1>1, <1>3 DEF CalmInv, KnownActive, Late, Tested
<1>7. OwnVersion'
  BY <1>1, <1>2, <1>3, <1>5 DEF OwnVersion, At, Tested
<1>8. KnownActive'
  BY <1>1, <1>2, <1>3, <1>4, <1>5, <1>6 DEF KnownActive, At, Late, Tested
<1>9. RightStart'
  BY <1>1, <1>2, <1>5 DEF CalmInv, RightStart, At, Production
<1>10. ServedIsPreviewed'
  BY <1>1, <1>3, <1>4, <1>5, <1>6 DEF ServedIsPreviewed
<1>11. NoStaleEvidence' /\ EvidenceIsTrue'
  <2>1. ~Closing /\ ~At("idle")
    BY <1>1 DEF Closing, At
  <2>2. evidence.whole = "yes" /\ Undisturbed({"disk"}) =>
           versions[evidence.version].mode = "SHADOW_ACCEPTANCE"
    BY <2>1 DEF CalmInv, NoStaleEvidence
  <2> QED
    BY <1>1, <1>2, <1>5, <2>1, <2>2
       DEF CalmInv, NoStaleEvidence, EvidenceIsTrue, At, Undisturbed, Versions
<1> QED
  BY <1>7, <1>8, <1>9, <1>10, <1>11 DEF CalmInv

\* What is recorded is what was found, and is whole only when it is all written.
LEMMA CalmEvidence ==
    ASSUME TypeOK, Sound, CalmInv, Calm,
           WriteAccount \/ WriteDeploy \/ WriteSecrets \/ Finish \/ CollectEvidence
    PROVE  CalmInv'
<1>0. Basics
  BY Typed
<1>1. UNCHANGED <<versions, active, previewed, troubled>>
  BY DEF WriteAccount, WriteDeploy, WriteSecrets, Finish, CollectEvidence, provider, history
<1>2. ServedIsPreviewed'
  BY <1>1 DEF CalmInv, ServedIsPreviewed, Undisturbed
<1>3. ASSUME NEW s \in {"record", "session", "finish"}, Go(s),
             run.step \in {"evidence", "record", "session"}, s = "session" => Production
      PROVE  /\ OwnVersion' /\ KnownActive' /\ RightStart' /\ ~At("idle")'
             /\ run'.step = s /\ run'.aim = run.aim /\ run'.found = run.found
             /\ active = run.found /\ active # 0
  <2>1. /\ run'.step = s /\ run'.aim = run.aim /\ run'.before = run.before
        /\ run'.candidate = run.candidate /\ run'.found = run.found
    BY <1>0, <1>3, Goes DEF Basics, Step
  <2>2. active = run.found /\ active # 0
    BY <1>3 DEF CalmInv, KnownActive
  <2> QED
    BY <1>1, <1>3, <2>1, <2>2
       DEF CalmInv, OwnVersion, KnownActive, RightStart, At, Late, Tested, Production
<1>4. CASE WriteAccount
  <2>1. /\ run.step = "evidence" /\ Go("record")
        /\ evidence' = [evidence EXCEPT !.whole = "no"]
    BY <1>4 DEF WriteAccount, At
  <2>2. /\ evidence'.version = evidence.version /\ evidence'.whole = "no"
    BY <2>1 DEF TypeOK
  <2>3. NoStaleEvidence' /\ EvidenceIsTrue'
    BY <1>1, <1>3, <2>1, <2>2 DEF CalmInv, NoStaleEvidence, EvidenceIsTrue, Versions
  <2> QED
    BY <1>2, <1>3, <2>1, <2>3 DEF CalmInv
<1>5. CASE WriteDeploy
  <2> DEFINE s == IF Production THEN "session" ELSE "finish"
  <2>1. /\ run.step = "record" /\ Go(s) /\ s \in {"record", "session", "finish"}
        /\ evidence' = [version |-> run.found, whole |-> "no"]
        /\ s = "session" => Production
    BY <1>5 DEF WriteDeploy, At, Written
  <2> HIDE DEF s
  <2>2. NoStaleEvidence' /\ EvidenceIsTrue'
    BY <1>0, <1>1, <1>3, <2>1 DEF NoStaleEvidence, EvidenceIsTrue, Versions, Basics
  <2> QED
    BY <1>2, <1>3, <2>1, <2>2 DEF CalmInv
<1>6. CASE WriteSecrets
  <2>1. /\ run.step = "session" /\ Go("finish")
        /\ evidence' = [evidence EXCEPT !.whole = "yes"]
    BY <1>6 DEF WriteSecrets, At
  <2>2. evidence.version = run.found
    BY <2>1 DEF CalmInv, NoStaleEvidence
  <2>3. evidence'.version = active /\ evidence'.version = run'.found
    BY <1>3, <2>1, <2>2 DEF TypeOK
  <2>4. Closing'
    BY <1>3, <2>1 DEF CalmInv, KnownActive, Closing, At, Production
  <2>5. NoStaleEvidence' /\ EvidenceIsTrue'
    BY <1>0, <1>1, <1>3, <2>1, <2>3, <2>4 DEF NoStaleEvidence, EvidenceIsTrue, Basics, Versions
  <2> QED
    BY <1>2, <1>3, <2>1, <2>5 DEF CalmInv
<1>7. CASE Finish
  BY <1>1, <1>7, CalmEnds DEF Finish, At
<1>8. CASE CollectEvidence
  <2>1. run.step = "idle" /\ run' = run /\ active # 0
    BY <1>8 DEF CollectEvidence, At
  <2>2. \/ evidence' = [version |-> active, whole |-> "yes"]
        \/ evidence'.version \in {active, evidence.version} /\ evidence'.whole = "no"
    BY <1>8 DEF CollectEvidence, TypeOK
  <2>3. OwnVersion' /\ KnownActive' /\ RightStart'
    BY <1>1, <2>1
       DEF CalmInv, OwnVersion, KnownActive, RightStart, At, Late, Tested, Production
  <2>4. NoStaleEvidence' /\ EvidenceIsTrue'
    BY <1>0, <1>1, <2>1, <2>2
       DEF CalmInv, NoStaleEvidence, EvidenceIsTrue, At, Closing, Versions, Basics
  <2> QED
    BY <1>2, <2>3, <2>4 DEF CalmInv
<1> QED
  BY <1>4, <1>5, <1>6, <1>7, <1>8

LEMMA CalmBack ==
    ASSUME TypeOK, Sound, CalmInv, Calm, Calm', Fail \/ ReadReverted PROVE CalmInv'
<1>0. Basics
  BY Typed
<1>1. /\ run.step \in Checking \cup {"reback"} /\ run.before # 0
      /\ UNCHANGED <<versions, active, evidence, previewed>>
      /\ \/ UNCHANGED troubled /\ ~Closing
         \/ "disk" \in troubled' /\ troubled \subseteq troubled'
  BY <1>0 DEF Fail, ReadReverted, At, Meets, Closing, provider, history, Basics
<1>2. CASE End("unrestored")
  BY <1>1, <1>2, CalmEnds DEF At
<1>3. ASSUME NEW s \in {"back", "verify"}, Go(s), s = "verify" => active = run.before
      PROVE  CalmInv'
  <2>1. /\ run'.step = s /\ run'.aim = run.aim /\ run'.before = run.before
        /\ run'.candidate = run.candidate
    BY <1>0, <1>3, Goes DEF Basics, Step
  <2>2. OwnVersion' /\ KnownActive'
    BY <1>1, <1>3, <2>1 DEF CalmInv, OwnVersion, KnownActive, At, Late, Tested
  <2>3. CASE ~Closing /\ UNCHANGED troubled
    BY <1>1, <1>3, <2>1, <2>2, <2>3, Quiet DEF CalmInv, Keeps, At
  <2>4. CASE "disk" \in troubled'
    <3>1. RightStart' /\ ServedIsPreviewed'
      BY <1>1, <1>3, <2>1
         DEF CalmInv, RightStart, ServedIsPreviewed, At, Production, Calm, Undisturbed
    <3>2. NoStaleEvidence' /\ EvidenceIsTrue'
      BY <1>1, <1>3, <2>1, <2>4
         DEF CalmInv, NoStaleEvidence, EvidenceIsTrue, Undisturbed, Versions
    <3> QED
      BY <2>2, <3>1, <3>2 DEF CalmInv
  <2> QED
    BY <1>1, <2>3, <2>4
<1> QED
  BY <1>2, <1>3 DEF Fail, ReadReverted, At

LEMMA Monotone == [Next]_vars => troubled \subseteq troubled'
  BY DEF Next, Start, StartBlind, Enter, DeployFirst, ListVersions, UploadCandidate, Discover,
         Preview, GiveUp, ReadActive, Activate, Readback, Validate, WriteAccount, WriteDeploy,
         WriteSecrets, Finish, Fail, FailFirst, ReadBefore, Revert, ReadReverted, Verify,
         Unanswered, Kill, CollectEvidence, Land, Meets, history, vars

LEMMA CalmStep ==
    ASSUME TypeOK, Sound, Calm => CalmInv, Calm', [Next]_vars PROVE CalmInv'
<1>1. Calm
  BY Monotone DEF Calm, Undisturbed
<1>2. ASSUME NEW c \in Content, Start(c) \/ StartBlind(c) PROVE CalmInv'
  <2>1. ~StartBlind(c)
    BY DEF StartBlind, Meets, Calm, Undisturbed
  <2> QED
    BY <1>1, <1>2, <2>1, CalmStart
<1>3. CASE DeployFirst
  BY <1>1, <1>3, CalmDeployFirst
<1>4. CASE UploadCandidate
  BY <1>1, <1>4, CalmUpload
<1>5. CASE Preview
  BY <1>1, <1>5, CalmPreview
<1>6. CASE \/ ListVersions \/ Discover \/ ReadActive \/ Readback \/ Validate \/ ReadBefore
  BY <1>1, <1>6, CalmMoves
<1>7. CASE Activate \/ Revert
  BY <1>1, <1>7, CalmActivation
<1>8. CASE WriteAccount \/ WriteDeploy \/ WriteSecrets \/ Finish \/ CollectEvidence
  BY <1>1, <1>8, CalmEvidence
<1>9. CASE Fail \/ ReadReverted
  BY <1>1, <1>9, CalmBack
<1>10. CASE GiveUp \/ Verify \/ FailFirst \/ Unanswered \/ Kill
  <2>1. PICK o : End(o) /\ ~At("idle") /\ UNCHANGED <<versions, active, evidence, previewed>>
    <3>1. CASE GiveUp \/ Verify
      BY <3>1 DEF GiveUp, Verify, At, provider
    <3>2. CASE FailFirst
      BY <3>2 DEF FailFirst, At, provider
    <3>3. CASE Unanswered
      BY <3>3 DEF Unanswered, Asking, At, provider
    <3>4. CASE Kill
      BY <3>4 DEF Kill, At, provider
    <3> QED
      BY <1>10, <3>1, <3>2, <3>3, <3>4
  <2> QED
    BY <1>1, <2>1, Monotone, CalmEnds
<1>11. CASE \E c \in flying : Land(c)
  <2>1. "late" \in troubled'
    BY <1>11 DEF Land
  <2> QED
    BY <2>1 DEF Calm, Undisturbed
<1>12. CASE UNCHANGED vars
  BY <1>1, <1>12
     DEF vars, CalmInv, OwnVersion, KnownActive, RightStart, NoStaleEvidence,
         ServedIsPreviewed, EvidenceIsTrue, At, Production, Closing, Undisturbed, Versions
<1> QED
  BY <1>2, <1>3, <1>4, <1>5, <1>6, <1>7, <1>8, <1>9, <1>10, <1>11, <1>12 DEF Next

-----------------------------------------------------------------------------
\* What a driver that found a version knows of it depends on no snapshot.
LEMMA KnownStep ==
    ASSUME TypeOK, Sound, Undisturbed({"late"}) => Known, Undisturbed({"late"})', [Next]_vars
    PROVE  Known'
<1>0. Basics /\ Known
  BY Typed, Monotone DEF Undisturbed
<1>1. CASE run'.step = "idle"
  BY <1>1 DEF At
<1>2. ASSUME NEW c \in Content, Start(c) \/ StartBlind(c) PROVE Known'
  BY <1>2 DEF Start, StartBlind, Enter, IdleRun, At, provider
<1>3. CASE \/ DeployFirst \/ Activate \/ Readback \/ Validate \/ WriteAccount \/ WriteDeploy
           \/ WriteSecrets \/ Fail \/ Revert
  <2>1. run'.step \in Checking \cup {"readback", "back", "reback"}
    BY <1>0, <1>3
       DEF Basics, RunType, DeployFirst, Activate, Readback, ForwardOrBack, Validate,
           WriteAccount, WriteDeploy, WriteSecrets, Fail, Revert, Go
  <2> QED
    BY <2>1 DEF At
<1>4. CASE \/ ListVersions \/ Discover \/ Preview \/ ReadActive \/ ReadBefore
  <2>1. UNCHANGED active /\ run'.before = run.before
    BY <1>0, <1>4
       DEF Basics, RunType, ListVersions, Discover, Preview, ReadActive, ReadBefore, Go,
           provider
  <2>2. \/ run.step \in Forward /\ run'.step # "verify"
        \/ run'.step = "verify" /\ active = run.before
        \/ run'.step = "revert"
    BY <1>0, <1>4
       DEF Basics, RunType, ListVersions, Discover, Preview, ReadActive, ReadBefore, Go, At
  <2> QED
    BY <1>0, <2>1, <2>2 DEF At
<1>5. CASE UploadCandidate
  <2>1. run.step = "upload" /\ Go("discover") /\ Issue(Upload(run.aim)) /\ run.aim \in Content
    BY <1>0, <1>5 DEF UploadCandidate, At, Basics
  <2>2. active' = active /\ run'.before = run.before /\ run'.step = "discover"
    BY <1>0, <2>1, IssuedUpload, Goes DEF Basics, Step
  <2> QED
    BY <1>0, <2>1, <2>2 DEF At
<1>6. CASE ReadReverted
  <2>1. CASE Go("verify") /\ active = run.before
    BY <1>0, <1>6, <2>1, Goes DEF ReadReverted, At, provider, Basics, Step
  <2>2. CASE End("unrestored")
    BY <1>1, <2>2, Ends
  <2> QED
    BY <1>6, <2>1, <2>2 DEF ReadReverted
<1>7. CASE GiveUp \/ Finish \/ FailFirst \/ Verify \/ Unanswered \/ Kill
  BY <1>1, <1>7, Ends DEF GiveUp, Finish, FailFirst, Verify, Unanswered, Kill
<1>8. CASE CollectEvidence \/ UNCHANGED vars
  BY <1>0, <1>8 DEF CollectEvidence, vars, At, provider
<1>9. CASE \E c \in flying : Land(c)
  BY <1>9 DEF Land, Undisturbed
<1> QED
  BY <1>2, <1>3, <1>4, <1>5, <1>6, <1>7, <1>8, <1>9 DEF Next

\* A driver that ends and says that it failed, or that it is back, knows so.
LEMMA RestoresStep ==
    ASSUME TypeOK, Sound, Undisturbed({"late"}) => Known, FailureRestores, [Next]_vars
    PROVE  FailureRestores'
<1> SUFFICES ASSUME Undisturbed({"transport", "late"})', run'.step = "idle",
                    last'.before = 0 => Undisturbed({"blind"})'
             PROVE  FailedReleaseIsUndone'
  BY DEF FailureRestores, FailedReleaseIsUndone, At
<1>0. Undisturbed({"transport", "late"}) /\ Known
  BY Monotone DEF Undisturbed
<1>1. CASE GiveUp \/ Verify
  <2>1. UNCHANGED active /\ active = run.before
    BY <1>0, <1>1 DEF GiveUp, Verify, At, provider
  <2>2. last'.before = run.before
    BY <1>1, Ends DEF GiveUp, Verify
  <2> QED
    BY <2>1, <2>2 DEF FailedReleaseIsUndone
<1>2. CASE FailFirst
  <2>1. UNCHANGED active /\ run.before = 0
    BY <1>2 DEF FailFirst, provider
  <2>2. CASE End("failed") /\ active = 0
    BY <2>1, <2>2, Ends DEF FailedReleaseIsUndone
  <2>3. CASE End("unrestored") \/ End("crashed")
    BY <2>1, <2>3, Ends DEF FailedReleaseIsUndone
  <2>4. CASE Meets("blind") /\ End("failed")
    BY <2>1, <2>4, Ends DEF Meets, Undisturbed
  <2> QED
    BY <1>2, <2>2, <2>3, <2>4 DEF FailFirst
<1>3. CASE Finish \/ Fail \/ ReadReverted \/ Kill
  <2>1. /\ Basics /\ run.step # "idle"
        /\ \/ End("ok") \/ End("unrestored") \/ End("killed") \/ Go("back") \/ Go("verify")
    BY <1>3, Typed DEF Finish, Fail, ReadReverted, Kill, At
  <2>2. CASE End("ok") \/ End("unrestored") \/ End("killed")
    BY <2>2, Ends DEF FailedReleaseIsUndone
  <2>3. CASE Go("back") \/ Go("verify")
    BY <2>1, <2>3, Goes DEF Basics, Step
  <2> QED
    BY <2>1, <2>2, <2>3
<1>4. CASE Unanswered
  BY <1>4 DEF Unanswered, Meets, Undisturbed
<1>5. CASE \E c \in flying : Land(c)
  BY <1>5 DEF Land, Undisturbed
<1>6. CASE CollectEvidence \/ UNCHANGED vars
  BY <1>6
     DEF CollectEvidence, vars, provider, history, FailureRestores, FailedReleaseIsUndone,
         Undisturbed, At
<1>7. CASE \E c \in Content : Start(c) \/ StartBlind(c)
  <2>1. run'.step \in {"bootstrap", "list"}
    BY <1>7 DEF Start, StartBlind, Enter, IdleRun
  <2> QED
    BY <2>1
<1>8. CASE \/ DeployFirst \/ ListVersions \/ UploadCandidate \/ Discover \/ Preview
           \/ ReadActive \/ Activate \/ Readback \/ Validate
           \/ WriteAccount \/ WriteDeploy \/ WriteSecrets \/ ReadBefore \/ Revert
  <2>1. run'.step # "idle"
    BY <1>8, Typed
       DEF Basics, RunType, DeployFirst, ListVersions, UploadCandidate, Discover, Preview,
           ReadActive, Activate, Readback, ForwardOrBack, Validate, WriteAccount,
           WriteDeploy, WriteSecrets, ReadBefore, Revert, Go
  <2> QED
    BY <2>1
<1> QED
  BY <1>1, <1>2, <1>3, <1>4, <1>5, <1>6, <1>7, <1>8 DEF Next

LEMMA IInvStep == IInv /\ [Next]_vars => IInv'
<1> SUFFICES ASSUME IInv, [Next]_vars PROVE IInv'
  OBVIOUS
<1>1. TypeOK' /\ Sound'
  BY TypesForward, TypesElsewhere DEF IInv, Next
<1>2. (Calm => CalmInv)'
  BY CalmStep DEF IInv
<1>3. (Undisturbed({"late"}) => Known)'
  BY KnownStep DEF IInv
<1>4. FailureRestores'
  BY RestoresStep DEF IInv
<1> QED
  BY <1>1, <1>2, <1>3, <1>4 DEF IInv

LEMMA Invariance == Spec => []IInv
  BY InitIInv, IInvStep, PTL DEF Spec

\* The versions, the driver under way, its evidence and its record stay within
\* their types, whatever is applied late, lost or killed.
THEOREM TypeCorrect == Spec => []TypeOK
<1>1. IInv => TypeOK
  BY DEF IInv
<1> QED
  BY <1>1, Invariance, PTL

\* As long as every readback gets some answer and nothing is applied late, a
\* driver that ends without a release, other than by a rollback that failed,
\* leaves the version serving that it found, whatever snapshots other drivers
\* were refused (deploy_version_100 and rollback_to_version decide by readback
\* alone). One that found none tells the truth about it as long as no snapshot
\* is refused.
THEOREM FailuresRestore == Spec => []FailureRestores
<1>1. IInv => FailureRestores
  BY DEF IInv
<1> QED
  BY <1>1, Invariance, PTL

\* However many drivers are killed, fail or go back, what serves is the first
\* version or one that a driver has probed in its preview, as long as nothing is
\* applied late and no snapshot is refused (worker_snapshot).
THEOREM ServedWasPreviewed == Spec => []ServedIsPreviewed
<1>1. IInv => ServedIsPreviewed
  BY DEF IInv, CalmInv, Calm, ServedIsPreviewed
<1> QED
  BY <1>1, Invariance, PTL

\* Evidence of a production version whose files are of one session names what
\* serves: it is written file by file, and no driver starts where it would
\* contradict it; as long as nothing is applied late, no snapshot is refused and
\* the last file of a session can be written.
THEOREM EvidenceStaysTrue == Spec => []EvidenceIsTrue
<1>1. IInv => EvidenceIsTrue
  <2>1. Undisturbed({"late", "blind", "disk"}) => Calm
    BY DEF Undisturbed, Calm
  <2> QED
    BY <2>1 DEF IInv, CalmInv, EvidenceIsTrue
<1> QED
  BY <1>1, Invariance, PTL

\* One step may not put production anywhere but after shadow of the same commit,
\* nor anything but that shadow after production.
LEMMA ProductionStep ==
    ASSUME IInv, [Next]_vars, active' # active, Undisturbed({"late", "blind"})'
    PROVE  /\ versions'[active'].mode = "PRODUCTION" =>
                active # 0 /\ versions[active] = Shadowed(versions'[active'])
           /\ active # 0 /\ versions[active].mode = "PRODUCTION" =>
                versions'[active'] = Shadowed(versions[active])
<1>0. Basics /\ TypeOK /\ Sound
  BY Typed DEF IInv
<1>1. DeployFirst \/ Activate \/ Revert
  BY IssuedUpload, <1>0
     DEF Basics, At, Next, Start, StartBlind, Enter, ListVersions, UploadCandidate, Discover,
         Preview, GiveUp, ReadActive, Readback, Validate, WriteAccount, WriteDeploy,
         WriteSecrets, Finish, Fail, FailFirst, ReadBefore, ReadReverted, Verify, Unanswered,
         Kill, CollectEvidence, Land, vars, provider, Undisturbed
<1>2. CalmInv
  BY <1>1 DEF DeployFirst, Activate, Revert, history, Calm, Undisturbed, IInv
<1>3. CASE DeployFirst
  <2>1. /\ run.step = "bootstrap" /\ run.aim \in Content /\ Issue(Bootstrap(run.aim))
    BY <1>0, <1>3 DEF DeployFirst, At, Basics
  <2>2. /\ active = 0 /\ versions = <<>> /\ run.aim.mode = "SHADOW_ACCEPTANCE"
    <3>1. active = 0 /\ versions = <<>>
      BY <1>2, <2>1 DEF CalmInv, KnownActive, At
    <3> QED
      BY <1>0, <1>2, <2>1, <3>1 DEF CalmInv, KnownActive, At, Basics
  <2>3. versions' = Append(versions, run.aim) /\ active' = Len(versions) + 1
    BY <1>0, <2>1, IssuedBootstrap
  <2>4. versions'[active'] = run.aim
    BY <1>0, <2>1, <2>3, OneMore DEF Basics
  <2> QED
    BY <2>2, <2>4
<1>4. CASE Activate \/ Revert
  <2> DEFINE v == IF At("activate") THEN run.candidate ELSE run.before
  <2>1. /\ run.step \in {"activate", "revert"} /\ run.before # 0 /\ run.aim \in Content
        /\ Issue(Activation(v))
    BY <1>0, <1>4 DEF Activate, Revert, At, Basics
  <2>2. /\ run.candidate # 0 /\ versions[run.candidate] = run.aim
        /\ versions[run.before].mode = "SHADOW_ACCEPTANCE"
        /\ Production => versions[run.before] = Shadowed(run.aim)
    BY <1>2, <2>1 DEF CalmInv, OwnVersion, RightStart, At, Tested
  <2>3. v \in Versions
    BY <1>0, <2>1, <2>2 DEF Basics
  <2>4. versions' = versions /\ active' = v
    BY <1>0, <2>1, <2>3, IssuedActivation
  <2>5. CASE run.step = "activate"
    <3>1. active = run.before /\ active' = run.candidate
      BY <1>2, <2>4, <2>5 DEF CalmInv, KnownActive, At
    <3> QED
      BY <2>1, <2>2, <2>4, <3>1 DEF Production
  <2>6. CASE run.step = "revert"
    <3>1. active = run.candidate /\ active' = run.before
      BY <1>2, <2>1, <2>4, <2>6 DEF CalmInv, KnownActive, Late, Tested, At
    <3> QED
      BY <2>1, <2>2, <2>4, <3>1 DEF Production
  <2> QED
    BY <2>1, <2>5, <2>6
<1> QED
  BY <1>1, <1>3, <1>4

\* Over every failure, rollback and kill: production takes over from shadow of
\* the same commit, and gives way to nothing but that, as long as nothing is
\* applied late and no snapshot is refused.
THEOREM ProductionOnlyFollows == Spec => ProductionFollowsShadow
<1>1. IInv /\ [Next]_vars =>
        [active' # active /\ (Undisturbed({"late", "blind"}))' =>
          /\ versions'[active'].mode = "PRODUCTION" =>
                active # 0 /\ versions[active] = Shadowed(versions'[active'])
          /\ active # 0 /\ versions[active].mode = "PRODUCTION" =>
                versions'[active'] = Shadowed(versions[active])]_vars
  BY ProductionStep
<1> QED
  BY <1>1, Invariance, PTL DEF Spec, ProductionFollowsShadow
=============================================================================
