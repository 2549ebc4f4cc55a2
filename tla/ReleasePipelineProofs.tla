------------------------ MODULE ReleasePipelineProofs ------------------------
(***************************************************************************)
(* The safety properties of ReleasePipeline, for any targets, commits,     *)
(* builds and re-runs.                                                     *)
(***************************************************************************)
EXTENDS ReleasePipeline, TLAPS

Statuses == {"waiting", "running", "succeeded", "failed"}

(* A job has only begun while everything it needs has succeeded, also      *)
(* after re-runs.                                                          *)
Chain ==
  \A j \in Jobs : job[j] # "waiting" => \A n \in Needs(j) : job[n] = "succeeded"
(* What succeeded jobs have established stays so until they run again.     *)
Built ==
  \A p \in Packages :
    job[p] = "succeeded" => artifact[p] \in Digests /\ artifact[p][1] = commit
TestsPassed ==
  job["test-tarballs"] = "succeeded" => \A p \in Packages : artifact[p] \in tested
GatePassed == job["ci-gate"] = "succeeded" => ci[commit]
LoopsWithin == \A j \in Loops : job[j] = "running" => left \subseteq PackagesOf(j)
AllVerified ==
  \A j \in {"publish-prebuilts", "publish-public"} : \A p \in PackagesOf(j) :
    job[j] = "succeeded" \/ (job[j] = "running" /\ p \notin left) => Verified(p)

ReleaseInv ==
  /\ TypeOK /\ Chain /\ Built /\ TestsPassed /\ GatePassed /\ LoopsWithin /\ AllVerified
  /\ PublishedIsTested /\ PublicIsInstallable /\ ReleaseMatchesRegistry

-----------------------------------------------------------------------------
(* The dependencies of a job are jobs, and the loops are jobs.             *)
LEMMA NeedsAreJobs ==
  /\ Loops \subseteq Jobs /\ Packages \subseteq Jobs
  /\ \A j \in Jobs : Needs(j) \subseteq Jobs
BY DEF Needs, Jobs, Loops, Packages

(* What the jobs of the pipeline need.                                     *)
LEMMA NeedsOf ==
  /\ Needs("test-tarballs") = Packages
  /\ Needs("ci-gate") = {"test-tarballs"}
  /\ Needs("publish-prebuilts") = {"ci-gate"}
  /\ Needs("verify-prebuilts") = {"publish-prebuilts"}
  /\ Needs("publish-public") = {"verify-prebuilts"}
  /\ Needs("verify-install") = {"publish-public"}
  /\ Needs("github-release") = {"verify-install"}
BY TargetsAssumption DEF Needs, Packages

(* Neither None nor Foreign is a tarball of ours.                          *)
LEMMA DigestsAreOurs ==
  /\ None \notin Digests /\ Foreign \notin Digests /\ None # Foreign
  /\ \A d \in Digests : d[1] \in Commits
BY CommitsAssumption DEF None, Foreign, Digests

(* A job that has begun may end without breaking the chain of jobs.        *)
LEMMA BecomesChain ==
  ASSUME job \in [Jobs -> Statuses], Chain, NEW j \in Jobs, NEW status \in Statuses,
         Ready(j) \/ job[j] = "running", Becomes(j, status), status # "waiting"
  PROVE  Chain'
<1> SUFFICES ASSUME NEW k \in Jobs, job'[k] # "waiting", NEW n \in Needs(k)
             PROVE  job'[n] = "succeeded"
  BY DEF Chain
<1>2. n \in Jobs
  BY NeedsAreJobs
<1>3. job[n] = "succeeded"
  BY DEF Chain, Ready, Becomes
<1>4. n # j
  BY <1>3 DEF Ready
<1> QED
  BY <1>2, <1>3, <1>4 DEF Becomes

(* What a loop finds when it runs, or has run.                             *)
LEMMA Upstream ==
  ASSUME job \in [Jobs -> Statuses], Chain, NEW j \in Loops, job[j] # "waiting"
  PROVE  /\ job["ci-gate"] = "succeeded" /\ job["test-tarballs"] = "succeeded"
         /\ \A p \in Packages : job[p] = "succeeded"
         /\ j # "publish-prebuilts" => job["publish-prebuilts"] = "succeeded"
         /\ j \in {"publish-public", "github-release"} => job["verify-prebuilts"] = "succeeded"
         /\ j = "github-release" => job["publish-public"] = "succeeded"
<1> USE NeedsAreJobs, NeedsOf DEF Chain
<1>1. {"ci-gate", "test-tarballs", "verify-install"} \subseteq Jobs
  BY DEF Jobs
<1>2. j = "github-release" => job["publish-public"] = "succeeded"
  BY <1>1 DEF Loops
<1>3. j \in {"publish-public", "github-release"} => job["verify-prebuilts"] = "succeeded"
  BY <1>2 DEF Loops
<1>4. j # "publish-prebuilts" => job["publish-prebuilts"] = "succeeded"
  BY <1>3 DEF Loops
<1>5. job["ci-gate"] = "succeeded"
  BY <1>4 DEF Loops
<1>6. job["test-tarballs"] = "succeeded"
  BY <1>1, <1>5
<1>7. \A p \in Packages : job[p] = "succeeded"
  BY <1>1, <1>6
<1> QED
  BY <1>2, <1>3, <1>4, <1>5, <1>6, <1>7

(* At most one loop runs.                                                  *)
LEMMA OneLoop ==
  ASSUME job \in [Jobs -> Statuses], Chain, NEW j \in Loops, NEW k \in Loops,
         job[j] = "running" \/ Ready(j), job[k] = "running"
  PROVE  j = k
<1> SUFFICES ASSUME j # k PROVE FALSE
  OBVIOUS
<1>1. CASE job[j] = "running"
  BY <1>1, Upstream DEF Loops
<1>2. CASE Ready(j)
  <2>1. job[j] = "waiting" /\ \A n \in Needs(j) : job[n] = "succeeded"
    BY <1>2 DEF Ready
  <2> QED
    BY <2>1, Upstream, NeedsAreJobs, NeedsOf DEF Loops, Chain
<1> QED
  BY <1>1, <1>2

-----------------------------------------------------------------------------
(* Type correctness, and the chain of jobs.                                *)

(* The initial states are well-typed.                                      *)
LEMMA InitTyped == Init => TypeOK
BY ReleaseBoundsAssumption DEF Init, TypeOK, Digests

(* Every step keeps the types; that what is tested is a tarball needs that *)
(* every package has been built by then.                                   *)
LEMMA StepTyped == TypeOK /\ Built /\ [Next]_vars => TypeOK'
<1> SUFFICES ASSUME TypeOK, Built, [Next]_vars PROVE TypeOK'
  OBVIOUS
<1> USE DEF TypeOK, vars, runVars, buildVars, gateVars, loopVars, registryVars, Becomes
<1>1. {"version", "test-tarballs", "ci-gate", "verify-install"} \subseteq Jobs
  BY DEF Jobs
<1>2. ASSUME NEW j \in Jobs, Fails(j) PROVE TypeOK'
  BY <1>2 DEF Fails
<1>3. CASE Validate
  BY <1>3 DEF Validate
<1>4. ASSUME NEW p \in Packages, Build(p) PROVE TypeOK'
  <2>1. builds' \in 1 .. MaxBuilds /\ builds' \in 0 .. MaxBuilds
    BY <1>4, ReleaseBoundsAssumption DEF Build
  <2>2. <<commit, builds'>> \in Digests
    BY <2>1 DEF Digests
  <2> QED
    BY <1>4, <2>1, <2>2 DEF Build
<1>5. CASE TestTarballs
  <2>1. \A p \in Packages : artifact[p] \in Digests
    BY <1>5, NeedsOf DEF TestTarballs, Ready, Built
  <2> QED
    BY <1>5, <2>1 DEF TestTarballs
<1>6. CASE WaitForCI
  BY <1>6 DEF WaitForCI
<1>7. ASSUME NEW j \in Jobs, LoopBegins(j) PROVE TypeOK'
  <2>1. PackagesOf(j) \subseteq Packages
    BY DEF PackagesOf, Packages
  <2> QED
    BY <1>7, <2>1 DEF LoopBegins
<1>8. ASSUME NEW j \in Jobs, LoopEnds(j) PROVE TypeOK'
  BY <1>8 DEF LoopEnds
<1>9. ASSUME NEW j \in Loops, NEW p \in Packages, QueryRegistry(j, p) PROVE TypeOK'
  BY <1>9 DEF QueryRegistry
<1>10. ASSUME NEW j \in Loops, NEW p \in Packages, Publish(j, p) PROVE TypeOK'
  BY <1>10 DEF Publish
<1>11. ASSUME NEW j \in Loops, NEW p \in Packages, Verify(j, p) PROVE TypeOK'
  BY <1>11 DEF Verify
<1>12. CASE VerifyInstall
  BY <1>12 DEF VerifyInstall
<1>13. ASSUME NEW p \in Packages, Upload(p) PROVE TypeOK'
  BY <1>13 DEF Upload
<1>14. CASE Rerun
  BY <1>14, ReleaseBoundsAssumption DEF Rerun
<1>15. CASE MoveTag
  BY <1>15 DEF MoveTag
<1>16. CASE NewRun
  BY <1>16, ReleaseBoundsAssumption DEF NewRun
<1>17. CASE CISucceeds
  BY <1>17 DEF CISucceeds
<1>18. CASE OthersPublish
  BY <1>18 DEF OthersPublish
<1>19. CASE BecomesVisible
  BY <1>19 DEF BecomesVisible
<1>20. CASE UNCHANGED vars
  BY <1>20
<1> QED
  BY <1>2, <1>3, <1>4, <1>5, <1>6, <1>7, <1>8, <1>9, <1>10, <1>11, <1>12, <1>13,
     <1>14, <1>15, <1>16, <1>17, <1>18, <1>19, <1>20 DEF Next, Workflow, World

(* Every step keeps the chain of jobs.                                     *)
LEMMA StepChain == TypeOK /\ Chain /\ [Next]_vars => Chain'
<1> SUFFICES ASSUME TypeOK, Chain, [Next]_vars PROVE Chain'
  OBVIOUS
<1> USE NeedsAreJobs DEF vars
<1>1. job \in [Jobs -> Statuses]
  BY DEF TypeOK, Statuses
<1>2. {"version", "test-tarballs", "ci-gate", "verify-install"} \subseteq Jobs
  BY DEF Jobs
<1>3. ASSUME NEW j \in Jobs, NEW status \in Statuses \ {"waiting"},
             Ready(j) \/ job[j] = "running", Becomes(j, status)
      PROVE  Chain'
  BY <1>1, <1>3, BecomesChain
<1>4. ASSUME UNCHANGED job PROVE Chain'
  BY <1>4 DEF Chain
<1>5. CASE Validate \/ TestTarballs \/ WaitForCI \/ VerifyInstall
  BY <1>2, <1>3, <1>5 DEF Validate, TestTarballs, WaitForCI, VerifyInstall, Statuses
<1>6. ASSUME NEW j \in Jobs, Fails(j) \/ LoopBegins(j) \/ LoopEnds(j) PROVE Chain'
  BY <1>3, <1>6 DEF Fails, LoopBegins, LoopEnds, Statuses
<1>7. ASSUME NEW p \in Packages, Build(p) PROVE Chain'
  BY <1>3, <1>7 DEF Build, Statuses
<1>8. ASSUME NEW p \in Packages, Upload(p) PROVE Chain'
  BY <1>4, <1>8 DEF Upload
<1>9. ASSUME NEW p \in Packages, NEW j \in Loops,
             QueryRegistry(j, p) \/ Publish(j, p) \/ Verify(j, p)
      PROVE  Chain'
  BY <1>4, <1>9 DEF QueryRegistry, Publish, Verify
<1>10. CASE Rerun
  <2>1. PICK again \in SUBSET {j \in Jobs : job[j] # "waiting"} :
          /\ \A j \in Jobs : Needs(j) \cap again # {} /\ job[j] # "waiting" => j \in again
          /\ job' = [j \in Jobs |-> IF j \in again THEN "waiting" ELSE job[j]]
    BY <1>10 DEF Rerun
  <2>2. SUFFICES ASSUME NEW j \in Jobs, job'[j] # "waiting", NEW n \in Needs(j)
                 PROVE  job'[n] = "succeeded"
    BY DEF Chain
  <2>3. j \notin again /\ job[j] # "waiting" /\ n \in Jobs
    BY <2>1, <2>2
  <2>4. n \notin again /\ job[n] = "succeeded"
    BY <2>1, <2>2, <2>3 DEF Chain
  <2> QED
    BY <2>1, <2>3, <2>4
<1>11. CASE NewRun
  BY <1>11 DEF NewRun, Chain
<1>12. CASE MoveTag \/ CISucceeds \/ OthersPublish \/ BecomesVisible \/ UNCHANGED vars
  BY <1>4, <1>12 DEF MoveTag, CISucceeds, OthersPublish, BecomesVisible
<1> QED
  BY <1>5, <1>6, <1>7, <1>8, <1>9, <1>10, <1>11, <1>12 DEF Next, Workflow, World

-----------------------------------------------------------------------------
(* What the builds, the tests and the gate have established stays so until *)
(* they run again.                                                         *)
Gates == Built /\ TestsPassed /\ GatePassed

LEMMA StepGates == TypeOK /\ Chain /\ Gates /\ [Next]_vars => Gates'
<1> SUFFICES ASSUME TypeOK, Chain, Gates, [Next]_vars PROVE Gates'
  OBVIOUS
<1> USE NeedsAreJobs DEF vars, runVars, buildVars, gateVars
<1>1. job \in [Jobs -> Statuses]
  BY DEF TypeOK, Statuses
<1>2. {"version", "test-tarballs", "ci-gate", "verify-install"} \subseteq Jobs
  BY DEF Jobs
<1>3. Loops \cap (Packages \cup {"test-tarballs", "ci-gate"}) = {}
      /\ {"version", "test-tarballs", "ci-gate", "verify-install"} \cap Packages = {}
  BY TargetsAssumption DEF Loops, Packages
<1>4. ASSUME UNCHANGED <<artifact, commit, tested, ci>>,
             \A j \in Packages \cup {"test-tarballs", "ci-gate"} :
               job'[j] = "succeeded" => job[j] = "succeeded"
      PROVE  Gates'
  BY <1>4 DEF Gates, Built, TestsPassed, GatePassed
<1>5. ASSUME NEW j \in Jobs, Fails(j) PROVE Gates'
  BY <1>1, <1>2, <1>4, <1>5 DEF Fails, Becomes
<1>6. CASE Validate \/ VerifyInstall
  BY <1>1, <1>2, <1>3, <1>4, <1>6 DEF Validate, VerifyInstall, Becomes
<1>7. ASSUME NEW j \in Jobs, LoopBegins(j) \/ LoopEnds(j) PROVE Gates'
  BY <1>1, <1>2, <1>3, <1>4, <1>7 DEF LoopBegins, LoopEnds, Becomes
<1>8. ASSUME NEW p \in Packages, Build(p) PROVE Gates'
  <2>1. <<commit, builds'>> \in Digests
    BY <1>8, ReleaseBoundsAssumption DEF Build, TypeOK, Digests
  <2>2. job["test-tarballs"] # "succeeded"
    BY <1>2, <1>8, NeedsOf DEF Build, Ready, Chain
  <2>3. \A j \in {"test-tarballs", "ci-gate"} : job'[j] = job[j]
    BY <1>1, <1>2, <1>3, <1>8 DEF Build, Becomes
  <2>4. Built'
    BY <1>1, <1>8, <2>1 DEF Build, Becomes, Gates, Built, TypeOK
  <2> QED
    BY <1>8, <2>2, <2>3, <2>4 DEF Build, Gates, TestsPassed, GatePassed
<1>9. CASE TestTarballs
  BY <1>1, <1>2, <1>3, <1>9 DEF TestTarballs, Becomes, Gates, Built, TestsPassed, GatePassed
<1>10. CASE WaitForCI
  BY <1>1, <1>2, <1>3, <1>10 DEF WaitForCI, Becomes, Gates, Built, TestsPassed, GatePassed
<1>11. ASSUME NEW p \in Packages, Upload(p) PROVE Gates'
  BY <1>4, <1>11 DEF Upload
<1>12. ASSUME NEW p \in Packages, NEW j \in Loops,
              QueryRegistry(j, p) \/ Publish(j, p) \/ Verify(j, p)
       PROVE  Gates'
  BY <1>4, <1>12 DEF QueryRegistry, Publish, Verify
<1>13. CASE Rerun
  BY <1>1, <1>2, <1>4, <1>13 DEF Rerun
<1>14. CASE NewRun
  BY <1>2, <1>14 DEF NewRun, Gates, Built, TestsPassed, GatePassed
<1>15. CASE CISucceeds
  BY <1>15 DEF CISucceeds, TypeOK, Gates, Built, TestsPassed, GatePassed
<1>16. CASE MoveTag \/ OthersPublish \/ BecomesVisible \/ UNCHANGED vars
  BY <1>4, <1>16 DEF MoveTag, OthersPublish, BecomesVisible
<1> QED
  BY <1>5, <1>6, <1>7, <1>8, <1>9, <1>10, <1>11, <1>12, <1>13, <1>14, <1>15, <1>16
     DEF Next, Workflow, World

-----------------------------------------------------------------------------
(* The loops that publish and verify.                                      *)

(* While a loop runs, no other job does or could.                          *)
LEMMA OneJob ==
  ASSUME job \in [Jobs -> Statuses], Chain, NEW j \in Loops, job[j] = "running",
         NEW k \in Jobs, job[k] = "running" \/ Ready(k)
  PROVE  k = j
<1> USE NeedsAreJobs, NeedsOf
<1>1. CASE k \in Packages \cup {"test-tarballs", "ci-gate"}
  BY <1>1, Upstream DEF Ready
<1>2. CASE k = "version"
  <2>1. "public" \in Packages /\ "version" \in Needs("public")
    BY DEF Packages, Needs
  <2> QED
    BY <1>2, <2>1, Upstream DEF Ready, Chain
<1>3. CASE k = "verify-install"
  <2>1. job["publish-public"] = "succeeded"
    BY <1>3 DEF Ready, Chain
  <2>2. j = "github-release"
    BY <2>1, Upstream DEF Loops
  <2> QED
    BY <1>3, <2>2 DEF Ready, Chain
<1>4. CASE k \in Loops
  BY <1>4, OneLoop
<1> QED
  BY <1>1, <1>2, <1>3, <1>4 DEF Jobs, Loops

(* The registry takes every version once, and does not withdraw it.        *)
Immutable ==
  /\ \A p \in Packages : registry[p] # None => registry'[p] = registry[p]
  /\ visible \subseteq visible'

LEMMA StepImmutable == TypeOK /\ [Next]_vars => Immutable
<1> SUFFICES ASSUME TypeOK, [Next]_vars PROVE Immutable
  OBVIOUS
<1> USE DEF vars, registryVars, Immutable, TypeOK
<1>1. ASSUME NEW p \in Packages, NEW j \in Loops, Publish(j, p) PROVE Immutable
  BY <1>1 DEF Publish
<1>2. CASE OthersPublish
  BY <1>2 DEF OthersPublish
<1>3. CASE BecomesVisible
  BY <1>3 DEF BecomesVisible
<1>4. ASSUME UNCHANGED registryVars PROVE Immutable
  BY <1>4
<1> QED
  BY <1>1, <1>2, <1>3, <1>4
  DEF Next, Workflow, World, Validate, TestTarballs, WaitForCI, VerifyInstall, Fails,
      LoopBegins, LoopEnds, Build, Upload, QueryRegistry, Verify, Rerun, MoveTag,
      NewRun, CISucceeds

(* So what was verified stays verified while its tarball and commit do.    *)
LEMMA StaysVerified ==
  ASSUME Immutable, NEW p \in Packages, Verified(p), commit \in Commits,
         UNCHANGED <<commit, artifact>>
  PROVE  Verified(p)'
BY CommitsAssumption DEF Immutable, Verified, None

(* Every step keeps what the loops have verified.                          *)
LEMMA StepLoops ==
  TypeOK /\ Chain /\ LoopsWithin /\ AllVerified /\ [Next]_vars
    => LoopsWithin' /\ AllVerified'
<1> SUFFICES ASSUME TypeOK, Chain, LoopsWithin, AllVerified, [Next]_vars
             PROVE  LoopsWithin' /\ AllVerified'
  OBVIOUS
<1> DEFINE Publishing == {"publish-prebuilts", "publish-public"}
<1> USE NeedsAreJobs DEF vars, runVars, buildVars, loopVars
<1>1. job \in [Jobs -> Statuses] /\ commit \in Commits
  BY DEF TypeOK, Statuses
<1>2. {"version", "test-tarballs", "ci-gate", "verify-install"} \subseteq Jobs
      /\ Loops \cap (Packages \cup {"version", "test-tarballs", "ci-gate", "verify-install"}) = {}
      /\ Publishing \subseteq Loops
  BY TargetsAssumption DEF Jobs, Loops, Packages
<1>3. \A j \in Publishing : PackagesOf(j) \subseteq Packages
  BY DEF PackagesOf, Packages
<1>4. Immutable
  BY StepImmutable
<1>5. ASSUME UNCHANGED <<commit, artifact>>, NEW j \in Publishing, NEW p \in PackagesOf(j),
             job[j] = "succeeded" \/ (job[j] = "running" /\ p \notin left)
      PROVE  Verified(p)'
  BY <1>1, <1>3, <1>4, <1>5, StaysVerified DEF AllVerified
<1>6. ASSUME UNCHANGED <<commit, artifact, left>>,
             \A j \in Loops : job'[j] \in {"running", "succeeded"} => job'[j] = job[j]
      PROVE  LoopsWithin' /\ AllVerified'
  BY <1>2, <1>5, <1>6 DEF LoopsWithin, AllVerified, PackagesOf
<1>7. CASE Validate \/ TestTarballs \/ WaitForCI \/ VerifyInstall
  BY <1>1, <1>2, <1>6, <1>7 DEF Validate, TestTarballs, WaitForCI, VerifyInstall, Becomes
<1>8. ASSUME NEW k \in Jobs, Fails(k) PROVE LoopsWithin' /\ AllVerified'
  <2>1. \A j \in Loops : job'[j] # "running" /\ (job'[j] = "succeeded" => job[j] = "succeeded")
    BY <1>1, <1>8, OneJob DEF Fails, Becomes
  <2> QED
    BY <1>2, <1>5, <1>8, <2>1 DEF Fails, LoopsWithin, AllVerified, PackagesOf
<1>9. ASSUME NEW p \in Packages, Build(p) PROVE LoopsWithin' /\ AllVerified'
  <2>1. \A j \in Loops : job[j] = "waiting"
    BY <1>1, <1>9, Upstream DEF Build, Ready
  <2>2. \A j \in Loops : job'[j] = "waiting"
    BY <1>1, <1>2, <1>9, <2>1 DEF Build, Becomes
  <2> QED
    BY <1>2, <2>2 DEF LoopsWithin, AllVerified
<1>10. ASSUME NEW k \in Jobs, LoopBegins(k) PROVE LoopsWithin' /\ AllVerified'
  <2>1. \A j \in Loops : job[j] # "running"
    BY <1>1, <1>10, OneLoop DEF LoopBegins, Ready
  <2>2. \A j \in Loops : j # k => job'[j] = job[j]
    BY <1>1, <1>10 DEF LoopBegins, Becomes
  <2>3. job'[k] = "running" /\ left' = PackagesOf(k) /\ UNCHANGED <<commit, artifact>>
    BY <1>1, <1>10 DEF LoopBegins, Becomes
  <2>4. LoopsWithin'
    BY <2>1, <2>2, <2>3 DEF LoopsWithin, PackagesOf
  <2> QED
    BY <1>2, <1>5, <2>1, <2>2, <2>3, <2>4 DEF AllVerified, PackagesOf
<1>11. ASSUME NEW k \in Jobs, LoopEnds(k) PROVE LoopsWithin' /\ AllVerified'
  <2>1. /\ job[k] = "running" /\ job'[k] = "succeeded" /\ left = {}
        /\ \A j \in Loops : j # k => job'[j] = job[j]
        /\ UNCHANGED <<commit, artifact, left>>
    BY <1>1, <1>11 DEF LoopEnds, Becomes
  <2> QED
    BY <1>2, <1>5, <2>1 DEF LoopsWithin, AllVerified, PackagesOf
<1>12. ASSUME NEW p \in Packages, NEW j \in Loops, QueryRegistry(j, p) \/ Publish(j, p)
       PROVE  LoopsWithin' /\ AllVerified'
  BY <1>6, <1>12 DEF QueryRegistry, Publish
<1>13. ASSUME NEW p \in Packages, NEW j \in Loops, Verify(j, p)
       PROVE  LoopsWithin' /\ AllVerified'
  <2>1. Verified(p)'
    BY <1>1, <1>4, <1>13, StaysVerified DEF Verify
  <2>2. left' = left \ {p} /\ UNCHANGED <<commit, artifact, job>>
    BY <1>13 DEF Verify
  <2> QED
    BY <1>2, <1>5, <2>1, <2>2 DEF LoopsWithin, AllVerified, PackagesOf
<1>14. ASSUME NEW p \in Packages, Upload(p) PROVE LoopsWithin' /\ AllVerified'
  <2>1. \A j \in Publishing : job[j] # "running"
    BY <1>1, <1>2, <1>14, OneLoop DEF Upload, Running, Loops
  <2>2. left' \subseteq left /\ UNCHANGED <<commit, artifact, job>>
    BY <1>14 DEF Upload
  <2> QED
    BY <1>2, <1>5, <2>1, <2>2 DEF LoopsWithin, AllVerified, PackagesOf
<1>15. CASE Rerun
  BY <1>2, <1>6, <1>15 DEF Rerun
<1>16. CASE NewRun
  BY <1>2, <1>16 DEF NewRun, LoopsWithin, AllVerified
<1>17. CASE MoveTag \/ CISucceeds \/ OthersPublish \/ BecomesVisible \/ UNCHANGED vars
  BY <1>6, <1>17 DEF MoveTag, CISucceeds, OthersPublish, BecomesVisible
<1> QED
  BY <1>7, <1>8, <1>9, <1>10, <1>11, <1>12, <1>13, <1>14, <1>15, <1>16, <1>17
     DEF Next, Workflow, World

-----------------------------------------------------------------------------
(* The properties.                                                         *)

(* What a running loop that publishes or uploads knows.                    *)
LEMMA LoopKnows ==
  ASSUME ReleaseInv, NEW j \in Loops, NEW p \in Packages, Running(j, p)
  PROVE  /\ ci[commit] /\ artifact[p] \in tested
         /\ \A q \in Packages : artifact[q] \in Digests /\ artifact[q][1] = commit
         /\ p = "public" \/ j = "github-release" => \A q \in Targets : Verified(q)
         /\ j = "github-release" => Verified(p)
<1> USE DEF ReleaseInv
<1>1. job \in [Jobs -> Statuses] /\ job[j] = "running" /\ p \in PackagesOf(j)
  BY NeedsAreJobs DEF TypeOK, Statuses, Running, LoopsWithin
<1>2. /\ job["ci-gate"] = "succeeded" /\ job["test-tarballs"] = "succeeded"
      /\ \A q \in Packages : job[q] = "succeeded"
  BY <1>1, Upstream
<1>3. ASSUME p = "public" \/ j = "github-release" PROVE \A q \in Targets : Verified(q)
  <2>1. j # "publish-prebuilts" /\ j # "verify-prebuilts"
    BY <1>1, <1>3, TargetsAssumption DEF PackagesOf
  <2>2. job["publish-prebuilts"] = "succeeded"
    BY <1>1, <2>1, Upstream
  <2> QED
    BY <2>2 DEF AllVerified, PackagesOf
<1>4. ASSUME j = "github-release" PROVE Verified(p)
  <2>1. job["publish-public"] = "succeeded"
    BY <1>1, <1>4, Upstream
  <2> QED
    BY <1>3, <1>4, <2>1 DEF AllVerified, PackagesOf, Packages
<1> QED
  BY <1>2, <1>3, <1>4 DEF Built, TestsPassed, GatePassed

(* Every step keeps the properties.                                        *)
LEMMA StepProperties ==
  ReleaseInv /\ [Next]_vars =>
    PublishedIsTested' /\ PublicIsInstallable' /\ ReleaseMatchesRegistry'
<1> DEFINE Properties == PublishedIsTested /\ PublicIsInstallable /\ ReleaseMatchesRegistry
<1> SUFFICES ASSUME ReleaseInv, [Next]_vars PROVE Properties'
  OBVIOUS
<1> USE DEF vars, registryVars, gateVars, PublishedIsTested, PublicIsInstallable,
            ReleaseMatchesRegistry
<1>1. TypeOK /\ Properties /\ Targets \subseteq Packages /\ "public" \notin Targets
      /\ "public" \in Packages
  BY TargetsAssumption DEF ReleaseInv, Packages
<1>2. ASSUME UNCHANGED <<registry, release>>, tested \subseteq tested', visible \subseteq visible',
             \A c \in Commits : ci[c] => ci'[c]
      PROVE  Properties'
  BY <1>1, <1>2, DigestsAreOurs
<1>3. ASSUME NEW p \in Packages, NEW j \in Loops, Publish(j, p) PROVE Properties'
  <2>1. CASE UNCHANGED registry
    BY <1>2, <1>3, <2>1 DEF Publish
  <2>2. CASE registry[p] = None /\ registry' = [registry EXCEPT ![p] = artifact[p]]
    <3>1. Running(j, p) /\ UNCHANGED <<tested, ci, visible, release>>
      BY <1>3 DEF Publish
    <3>2. /\ registry'[p] = artifact[p] /\ artifact[p] \in Digests
          /\ \A q \in Packages \ {p} : registry'[q] = registry[q]
      BY <1>1, <2>2, <3>1, LoopKnows DEF TypeOK
    <3>3. PublishedIsTested'
      BY <1>1, <3>1, <3>2, LoopKnows
    <3>4. PublicIsInstallable'
      <4>1. CASE p = "public"
        BY <1>1, <3>1, <3>2, <4>1, LoopKnows DEF Verified
      <4>2. CASE p # "public"
        BY <1>1, <2>2, <3>1, <3>2, <4>2, DigestsAreOurs DEF Packages
      <4> QED
        BY <4>1, <4>2
    <3>5. ReleaseMatchesRegistry'
      BY <1>1, <2>2, <3>1, <3>2
    <3> QED
      BY <3>3, <3>4, <3>5
  <2> QED
    BY <1>3, <2>1, <2>2 DEF Publish
<1>4. CASE OthersPublish
  <2>1. PICK p \in Packages : registry[p] = None /\ registry' = [registry EXCEPT ![p] = Foreign]
    BY <1>4 DEF OthersPublish
  <2>2. registry'[p] = Foreign /\ \A q \in Packages \ {p} : registry'[q] = registry[q]
    BY <1>1, <2>1 DEF TypeOK
  <2> QED
    BY <1>1, <1>4, <2>1, <2>2, DigestsAreOurs DEF OthersPublish
<1>5. ASSUME NEW p \in Packages, Upload(p) PROVE Properties'
  <2>1. Verified(p)
    BY <1>5, LoopKnows DEF Upload, Loops
  <2> QED
    BY <1>1, <1>5, <2>1 DEF Upload, Verified, TypeOK
<1>6. CASE TestTarballs
  BY <1>2, <1>6 DEF TestTarballs
<1>7. CASE CISucceeds
  BY <1>1, <1>2, <1>7 DEF CISucceeds, TypeOK
<1>8. CASE BecomesVisible
  BY <1>2, <1>8 DEF BecomesVisible
<1>9. ASSUME UNCHANGED <<gateVars, registryVars, release>> PROVE Properties'
  BY <1>2, <1>9
<1> QED
  BY <1>3, <1>4, <1>5, <1>6, <1>7, <1>8, <1>9
  DEF Next, Workflow, World, Validate, WaitForCI, VerifyInstall, Fails, LoopBegins,
      LoopEnds, Build, QueryRegistry, Verify, Rerun, MoveTag, NewRun

(* The invariant holds at first.                                           *)
LEMMA InitReleaseInv == Init => ReleaseInv
<1> SUFFICES ASSUME Init PROVE ReleaseInv
  OBVIOUS
<1>1. {"test-tarballs", "ci-gate"} \subseteq Jobs
  BY DEF Jobs
<1>2. Chain /\ Built /\ TestsPassed /\ GatePassed /\ LoopsWithin /\ AllVerified
  BY <1>1, NeedsAreJobs
  DEF Init, Chain, Built, TestsPassed, GatePassed, LoopsWithin, AllVerified, Loops
<1>3. PublishedIsTested /\ PublicIsInstallable /\ ReleaseMatchesRegistry
  BY DigestsAreOurs DEF Init, PublishedIsTested, PublicIsInstallable,
                        ReleaseMatchesRegistry, Packages
<1> QED
  BY <1>2, <1>3, InitTyped DEF ReleaseInv

(* The invariant holds in every reachable state.                           *)
LEMMA ReleaseInvariant == Spec => []ReleaseInv
<1>1. ReleaseInv /\ [Next]_vars => ReleaseInv'
  BY StepTyped, StepChain, StepGates, StepLoops, StepProperties DEF ReleaseInv, Gates
<1> QED
  BY InitReleaseInv, <1>1, PTL DEF Spec

(* The variables keep their types; what was tested always was a tarball.   *)
THEOREM ReleaseTyped == Spec => []TypeOK
<1>1. ReleaseInv => TypeOK
  BY DEF ReleaseInv
<1> QED
  BY ReleaseInvariant, <1>1, PTL

(* Only tarballs that were tested, of a commit whose CI succeeded, reach   *)
(* the registry from the pipeline, whichever jobs fail and run again       *)
(* (publish-npmjs.yml: the needs of the jobs).                             *)
THEOREM PublishedTested == Spec => []PublishedIsTested
<1>1. ReleaseInv => PublishedIsTested
  BY DEF ReleaseInv
<1> QED
  BY ReleaseInvariant, <1>1, PTL

(* The public package is never published without the prebuilt packages of  *)
(* the same commit (npm-release.mjs verifies each before the next job).    *)
THEOREM PublicInstallable == Spec => []PublicIsInstallable
<1>1. ReleaseInv => PublicIsInstallable
  BY DEF ReleaseInv
<1> QED
  BY ReleaseInvariant, <1>1, PTL

(* The GitHub release never has a tarball that is not the registry's.      *)
THEOREM ReleaseMatches == Spec => []ReleaseMatchesRegistry
<1>1. ReleaseInv => ReleaseMatchesRegistry
  BY DEF ReleaseInv
<1> QED
  BY ReleaseInvariant, <1>1, PTL

-----------------------------------------------------------------------------
(* The tag of another commit keeps this one out.                           *)
KeptOut(c) == ~Releasing(c)

(* Every step that does not find the tag on a commit keeps it out.         *)
LEMMA StepKeptOut ==
  ASSUME NEW c \in Commits, ReleaseInv, KeptOut(c), tag # c, [Next]_vars
  PROVE  KeptOut(c)'
<1> USE DEF vars, runVars, buildVars, loopVars, Released, Releasing
<1>1. job \in [Jobs -> Statuses] /\ release \in [Packages -> Digests \cup {None}]
  BY DEF ReleaseInv, TypeOK, Statuses
<1>2. "github-release" \in Loops /\ "github-release" \in Jobs
      /\ "github-release" \notin Packages
      /\ "github-release" \notin {"version", "test-tarballs", "ci-gate", "verify-install"}
  BY TargetsAssumption DEF Loops, Jobs, Packages
<1>3. ASSUME UNCHANGED <<release, commit>>,
             job'["github-release"] = "running" => job["github-release"] = "running"
      PROVE  KeptOut(c)'
  BY <1>3 DEF KeptOut
<1>4. CASE Validate \/ TestTarballs \/ WaitForCI \/ VerifyInstall
  BY <1>1, <1>2, <1>3, <1>4 DEF Validate, TestTarballs, WaitForCI, VerifyInstall, Becomes
<1>5. ASSUME NEW j \in Jobs, Fails(j) \/ LoopEnds(j) PROVE KeptOut(c)'
  BY <1>1, <1>2, <1>3, <1>5 DEF Fails, LoopEnds, Becomes
<1>6. ASSUME NEW j \in Jobs, LoopBegins(j) PROVE KeptOut(c)'
  <2>1. CASE j = "github-release"
    BY <1>6, <2>1 DEF LoopBegins, KeptOut
  <2>2. CASE j # "github-release"
    BY <1>1, <1>2, <1>3, <1>6, <2>2 DEF LoopBegins, Becomes
  <2> QED
    BY <2>1, <2>2
<1>7. ASSUME NEW p \in Packages, Build(p) PROVE KeptOut(c)'
  BY <1>1, <1>2, <1>3, <1>7 DEF Build, Becomes
<1>8. ASSUME NEW p \in Packages, Upload(p) PROVE KeptOut(c)'
  <2>1. artifact[p][1] = commit /\ job["github-release"] = "running"
    BY <1>2, <1>8, LoopKnows DEF Upload, Running
  <2>2. \A q \in Packages : release'[q] = IF q = p THEN artifact[p] ELSE release[q]
    BY <1>1, <1>8 DEF Upload
  <2> QED
    BY <1>8, <2>1, <2>2 DEF Upload, KeptOut
<1>9. ASSUME NEW p \in Packages, NEW j \in Loops,
             QueryRegistry(j, p) \/ Publish(j, p) \/ Verify(j, p)
      PROVE  KeptOut(c)'
  BY <1>3, <1>9 DEF QueryRegistry, Publish, Verify
<1>10. CASE Rerun
  BY <1>2, <1>3, <1>10 DEF Rerun
<1>11. CASE NewRun
  BY <1>2, <1>11 DEF NewRun, KeptOut
<1>12. CASE MoveTag \/ CISucceeds \/ OthersPublish \/ BecomesVisible \/ UNCHANGED vars
  BY <1>3, <1>12 DEF MoveTag, CISucceeds, OthersPublish, BecomesVisible
<1> QED
  BY <1>4, <1>5, <1>6, <1>7, <1>8, <1>9, <1>10, <1>11, <1>12 DEF Next, Workflow, World

(* A commit the tag is not on does not come into the GitHub release        *)
(* (validate-github-release-state.mjs, line 24).                           *)
THEOREM ReleaseTagged == Spec => ReleaseIsTagged
<1>1. ReleaseInv /\ [Next]_vars => [\A c \in Commits : tag # c /\ ~Releasing(c) => ~Releasing(c)']_vars
  BY StepKeptOut DEF KeptOut
<1> QED
  BY ReleaseInvariant, <1>1, PTL DEF Spec, ReleaseIsTagged

(* So one that has lost the tag for good gets no tarball into the release  *)
(* any more, however long the workflow is repeated.                        *)
THEOREM ReleaseStaysTagged ==
  ASSUME NEW c \in Commits
  PROVE  Spec => [](~Releasing(c) /\ [](tag # c) => []~Released(c))
<1>1. ReleaseInv /\ KeptOut(c) /\ tag # c /\ [Next]_vars => KeptOut(c)'
  BY StepKeptOut
<1>2. ~Releasing(c) => KeptOut(c)
  BY DEF KeptOut
<1>3. KeptOut(c) => ~Released(c)
  BY DEF KeptOut, Releasing
<1> QED
  BY ReleaseInvariant, <1>1, <1>2, <1>3, PTL DEF Spec
=============================================================================
