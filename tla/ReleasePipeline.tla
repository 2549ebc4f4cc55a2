--------------------------- MODULE ReleasePipeline ---------------------------
(***************************************************************************)
(* The release of a version (publish-npmjs.yml with npm-release.mjs,       *)
(* wait-for-ci.mjs, validate-release-context.mjs, prepare-release-assets   *)
(* and validate-github-release-state.mjs): tarballs are built and tested,  *)
(* published to the registry, the prebuilt packages before the public one  *)
(* that depends on them, verified, and attached to a GitHub release.       *)
(* Jobs fail anywhere and are run again, also the builds, whose tarballs   *)
(* then differ; npm publish fails before or after the registry accepted;   *)
(* the registry shows a package late, or has one published by others; the  *)
(* tag may be moved.                                                       *)
(***************************************************************************)
EXTENDS Naturals, FiniteSets

CONSTANTS
  Targets,   \* RELEASE_TARGETS: one prebuilt package each
  Commits,   \* the commits the tag may be put on
  MaxBuilds, \* bound: how many tarballs are built
  MaxReruns  \* bound: how often jobs are run again

ASSUME TargetsAssumption ==
  Targets # {} /\ Targets \cap {"public", "version", "test-tarballs", "ci-gate",
    "publish-prebuilts", "verify-prebuilts", "publish-public", "verify-install",
    "github-release"} = {}
ASSUME CommitsAssumption == Commits # {} /\ {"none", "foreign"} \cap Commits = {}
ASSUME ReleaseBoundsAssumption == MaxBuilds \in Nat /\ MaxReruns \in Nat

Packages == Targets \cup {"public"}
(* A tarball is known by its digest: what it was built from, and when.     *)
Digests == Commits \X (1 .. MaxBuilds)
None == <<"none", 0>>
Foreign == <<"foreign", 0>>

(* The jobs; a build has the name of its package.                          *)
Jobs == Packages \cup {"version", "test-tarballs", "ci-gate", "publish-prebuilts",
  "verify-prebuilts", "publish-public", "verify-install", "github-release"}
PublishesUngated(job) == \* defect: the tests wait for no build, publishing not for them
  CASE job \in Packages \cup {"test-tarballs"} -> {"version"}
    [] job = "ci-gate" -> {"test-tarballs"}
    [] job = "publish-prebuilts" -> Packages
    [] job = "verify-prebuilts" -> {"publish-prebuilts"}
    [] job = "publish-public" -> {"verify-prebuilts"}
    [] job = "verify-install" -> {"publish-public"}
    [] job = "github-release" -> {"verify-install"}
    [] OTHER -> {}
PublishesPublicFirst(job) == \* defect: publish-public does not wait for the prebuilts
  CASE job \in Packages -> {"version"}
    [] job = "test-tarballs" -> Packages
    [] job \in {"publish-prebuilts", "publish-public"} -> {"ci-gate"}
    [] job = "ci-gate" -> {"test-tarballs"}
    [] job = "verify-prebuilts" -> {"publish-prebuilts"}
    [] job = "verify-install" -> {"publish-public", "verify-prebuilts"}
    [] job = "github-release" -> {"verify-install"}
    [] OTHER -> {}
Needs(job) ==
  CASE job \in Packages -> {"version"}
    [] job = "test-tarballs" -> Packages
    [] job = "ci-gate" -> {"test-tarballs"}
    [] job = "publish-prebuilts" -> {"ci-gate"}
    [] job = "verify-prebuilts" -> {"publish-prebuilts"}
    [] job = "publish-public" -> {"verify-prebuilts"}
    [] job = "verify-install" -> {"publish-public"}
    [] job = "github-release" -> {"verify-install"}
    [] OTHER -> {}

VARIABLES
  tag,      \* the commit the tag is on
  commit,   \* the commit of the workflow run
  job,      \* the status of each job
  artifact, \* the uploaded tarball of each package
  builds, reruns,
  ci,       \* whether ci.yml succeeded for a commit
  tested,   \* the tarballs test-tarballs has passed
  left,     \* packages the running job still has to publish, verify or upload
  step,     \* what it does for the next one
  registry, \* the published tarball of each package
  visible,  \* the packages whose metadata the registry returns
  release   \* the tarballs attached to the GitHub release

runVars == <<tag, commit, reruns>>
buildVars == <<artifact, builds>>
gateVars == <<ci, tested>>
loopVars == <<left, step>>
registryVars == <<registry, visible>>
vars == <<runVars, job, buildVars, gateVars, loopVars, registryVars, release>>

Init ==
  /\ tag \in Commits /\ commit = tag /\ reruns = 0
  /\ job = [j \in Jobs |-> "waiting"]
  /\ artifact = [p \in Packages |-> None] /\ builds = 0
  /\ ci = [c \in Commits |-> FALSE] /\ tested = {}
  /\ left = {} /\ step = "query"
  /\ registry = [p \in Packages |-> None] /\ visible = {}
  /\ release = [p \in Packages |-> None]

-----------------------------------------------------------------------------
Ready(j) == job[j] = "waiting" /\ \A n \in Needs(j) : job[n] = "succeeded"
Becomes(j, status) == job' = [job EXCEPT ![j] = status]
Finished == \A j \in Jobs : job[j] # "running" /\ ~Ready(j)

(* Any job may fail: a request, a runner or a limit of attempts.           *)
Fails(j) ==
  /\ Ready(j) \/ job[j] = "running"
  /\ Becomes(j, "failed") /\ left' = {} /\ step' = "query"
  /\ UNCHANGED <<runVars, buildVars, gateVars, registryVars, release>>

(* validate-release-context.mjs.                                           *)
Validate ==
  /\ Ready("version") /\ tag = commit
  /\ Becomes("version", "succeeded")
  /\ UNCHANGED <<runVars, buildVars, gateVars, loopVars, registryVars, release>>

(* Build and pack; no two tarballs are alike.                              *)
Build(p) ==
  /\ Ready(p) /\ builds < MaxBuilds
  /\ builds' = builds + 1
  /\ artifact' = [artifact EXCEPT ![p] = <<commit, builds'>>]
  /\ Becomes(p, "succeeded")
  /\ UNCHANGED <<runVars, gateVars, loopVars, registryVars, release>>

TestTarballs ==
  /\ Ready("test-tarballs")
  /\ tested' = tested \cup {artifact[p] : p \in Packages}
  /\ Becomes("test-tarballs", "succeeded")
  /\ UNCHANGED <<runVars, buildVars, ci, loopVars, registryVars, release>>

(* wait-for-ci.mjs: a run of ci.yml for this commit has succeeded.         *)
WaitForCI ==
  /\ Ready("ci-gate") /\ ci[commit]
  /\ Becomes("ci-gate", "succeeded")
  /\ UNCHANGED <<runVars, buildVars, gateVars, loopVars, registryVars, release>>

-----------------------------------------------------------------------------
(* npm-release.mjs, and the upload of the release, package by package.     *)

Loops == {"publish-prebuilts", "verify-prebuilts", "publish-public", "github-release"}
PackagesOf(j) ==
  CASE j = "publish-public" -> {"public"} [] j = "github-release" -> Packages
    [] OTHER -> Targets

LoopBeginsUnchecked(j) == \* defect: the release is made wherever the tag is by then
  /\ j \in Loops /\ Ready(j)
  /\ Becomes(j, "running") /\ left' = PackagesOf(j) /\ step' = "query"
  /\ UNCHANGED <<runVars, buildVars, gateVars, registryVars, release>>
(* The release is only touched while the tag still is on the commit.       *)
LoopBegins(j) ==
  /\ j \in Loops /\ Ready(j)
  /\ j = "github-release" => tag = commit
  /\ Becomes(j, "running") /\ left' = PackagesOf(j) /\ step' = "query"
  /\ UNCHANGED <<runVars, buildVars, gateVars, registryVars, release>>

Running(j, p) == job[j] = "running" /\ p \in left
LoopEnds(j) ==
  /\ j \in Loops /\ job[j] = "running" /\ left = {}
  /\ Becomes(j, "succeeded")
  /\ UNCHANGED <<runVars, buildVars, gateVars, loopVars, registryVars, release>>

(* registryMetadata: what is there is not published again.                 *)
QueryRegistry(j, p) ==
  /\ j \in Loops \ {"github-release"} /\ Running(j, p) /\ step = "query"
  /\ step' = IF j = "verify-prebuilts" \/ p \in visible THEN "verify" ELSE "publish"
  /\ UNCHANGED <<runVars, job, buildVars, gateVars, left, registryVars, release>>

(* npm publish reports success or failure; either way the registry, which  *)
(* takes a version once, may have it now; verification tells.              *)
Publish(j, p) ==
  /\ j \in Loops /\ Running(j, p) /\ step = "publish"
  /\ \/ registry[p] = None /\ registry' = [registry EXCEPT ![p] = artifact[p]]
     \/ UNCHANGED registry
  /\ step' = "verify"
  /\ UNCHANGED <<runVars, job, buildVars, gateVars, left, visible, release>>

(* verifyRegistryPackage: digest and provenance are those of our tarball.  *)
PublishedIsEnough(p) == p \in visible \* defect: what is published is taken for ours
Verified(p) == p \in visible /\ registry[p] = artifact[p] /\ artifact[p][1] = commit
Verify(j, p) ==
  /\ j \in Loops /\ Running(j, p) /\ step = "verify"
  /\ Verified(p)
  /\ left' = left \ {p} /\ step' = "query"
  /\ UNCHANGED <<runVars, job, buildVars, gateVars, registryVars, release>>

(* verify-registry-install.mjs installs the public package, and with it    *)
(* the prebuilt one, from the registry.                                    *)
VerifyInstall ==
  /\ Ready("verify-install") /\ visible = Packages
  /\ Becomes("verify-install", "succeeded")
  /\ UNCHANGED <<runVars, buildVars, gateVars, loopVars, registryVars, release>>

(* gh release upload --clobber.                                            *)
Upload(p) ==
  /\ Running("github-release", p)
  /\ release' = [release EXCEPT ![p] = artifact[p]]
  /\ left' = left \ {p}
  /\ UNCHANGED <<runVars, job, buildVars, gateVars, step, registryVars>>

-----------------------------------------------------------------------------
(* GitHub, the registry and people.                                        *)

(* Running a job again runs again what needs it; once a run has ended.     *)
Rerun ==
  /\ Finished /\ reruns < MaxReruns /\ reruns' = reruns + 1
  /\ \E again \in SUBSET {j \in Jobs : job[j] # "waiting"} :
       /\ again # {}
       /\ \A j \in Jobs : Needs(j) \cap again # {} /\ job[j] # "waiting" => j \in again
       /\ job' = [j \in Jobs |-> IF j \in again THEN "waiting" ELSE job[j]]
  /\ UNCHANGED <<tag, commit, buildVars, gateVars, loopVars, registryVars, release>>

(* The tag is put on another commit. Every push of the tag has a run of its *)
(* own, one after the other (concurrency); an older one may run again.     *)
MoveTag ==
  /\ tag' \in Commits \ {tag}
  /\ UNCHANGED <<commit, reruns, job, buildVars, gateVars, loopVars, registryVars, release>>
NewRun ==
  /\ Finished /\ reruns < MaxReruns /\ reruns' = reruns + 1
  /\ commit' \in Commits
  /\ job' = [j \in Jobs |-> "waiting"] /\ artifact' = [p \in Packages |-> None]
  /\ UNCHANGED <<tag, builds, gateVars, loopVars, registryVars, release>>

CISucceeds ==
  /\ \E c \in Commits : ~ci[c] /\ ci' = [ci EXCEPT ![c] = TRUE]
  /\ UNCHANGED <<runVars, job, buildVars, tested, loopVars, registryVars, release>>

OthersPublish ==
  /\ \E p \in Packages :
       registry[p] = None /\ registry' = [registry EXCEPT ![p] = Foreign]
  /\ UNCHANGED <<runVars, job, buildVars, gateVars, loopVars, visible, release>>

BecomesVisible ==
  /\ \E p \in Packages \ visible : registry[p] # None /\ visible' = visible \cup {p}
  /\ UNCHANGED <<runVars, job, buildVars, gateVars, loopVars, registry, release>>

Workflow ==
  \/ Validate \/ TestTarballs \/ WaitForCI \/ VerifyInstall
  \/ \E j \in Jobs : Fails(j) \/ LoopBegins(j) \/ LoopEnds(j)
  \/ \E p \in Packages :
       \/ Build(p) \/ Upload(p)
       \/ \E j \in Loops : QueryRegistry(j, p) \/ Publish(j, p) \/ Verify(j, p)
World == Rerun \/ MoveTag \/ NewRun \/ CISucceeds \/ OthersPublish \/ BecomesVisible

Next == Workflow \/ World

Spec == Init /\ [][Next]_vars

-----------------------------------------------------------------------------
TypeOK ==
  /\ tag \in Commits /\ commit \in Commits /\ reruns \in 0 .. MaxReruns
  /\ job \in [Jobs -> {"waiting", "running", "succeeded", "failed"}]
  /\ artifact \in [Packages -> Digests \cup {None}] /\ builds \in 0 .. MaxBuilds
  /\ ci \in [Commits -> BOOLEAN] /\ tested \subseteq Digests
  /\ left \subseteq Packages /\ step \in {"query", "publish", "verify"}
  /\ registry \in [Packages -> Digests \cup {None, Foreign}]
  /\ visible \subseteq Packages
  /\ release \in [Packages -> Digests \cup {None}]

(* What the pipeline publishes has been tested, byte for byte, and built   *)
(* from a commit whose CI succeeded, in whatever attempt of whatever run.  *)
PublishedIsTested ==
  \A p \in Packages : registry[p] \in Digests =>
    registry[p] \in tested /\ ci[registry[p][1]]

(* The public package is only there once every prebuilt package it depends *)
(* on can be installed and was built from the same commit.                 *)
PublicIsInstallable ==
  registry["public"] \in Digests =>
    \A p \in Targets : p \in visible /\ registry[p] \in Digests
                       /\ registry[p][1] = registry["public"][1]

(* The tarballs of the GitHub release are the ones on the registry, after  *)
(* rebuilt artifacts, moved tags and partial uploads as well.              *)
ReleaseMatchesRegistry ==
  \A p \in Packages : release[p] # None => release[p] = registry[p]

(* A commit the tag is not on does not come into the GitHub release: no    *)
(* tarball of it, rebuilt or of an older run, is uploaded, and no upload   *)
(* begins, whichever job is repeated.  Only the upload that was under way  *)
(* when the tag was moved goes on.                                         *)
Released(c) == \E p \in Packages : release[p] # None /\ release[p][1] = c
Releasing(c) == Released(c) \/ (job["github-release"] = "running" /\ commit = c)
ReleaseIsTagged ==
  [][\A c \in Commits : tag # c /\ ~Releasing(c) => ~Releasing(c)']_vars
=============================================================================
