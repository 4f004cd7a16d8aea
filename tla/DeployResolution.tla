---------------------------- MODULE DeployResolution ----------------------------
(***************************************************************************)
(* Which version and image a deploy request means.  A git service asks its *)
(* provider for the latest commit; a registry service looks for a build,   *)
(* in the environment and then anywhere, and falls back to its own image;  *)
(* a promotion reuses the image of a release of another environment.  The  *)
(* lookups are separate reads, while workers add builds and deploys end.   *)
(*                                                                         *)
(* An image is a repository and a tag; "" is a field that is empty, and    *)
(* NoTag the tag of a build that has none at all.                          *)
(***************************************************************************)
EXTENDS Integers, Sequences, FiniteSets, FiniteSetsExt

CONSTANTS Word,         \* the names that occur: environments, tags, commits, versions
          BuildDoc,     \* builds that workers may record
          ReleaseDoc,   \* deploys that may end well
          Ask,          \* requests
          ReferenceOf,  \* the image that a word, used as a version, refers to
          MaxRecords    \* bound on the builds and releases

ImageRef == [repo : Word, tag : Word]
NoTag == "no tag"

ASSUME RecordAssumption ==
    /\ MaxRecords \in Nat /\ {"", "latest"} \subseteq Word /\ NoTag \notin Word
    /\ ReferenceOf \in [Word -> ImageRef]
    /\ BuildDoc \subseteq [environment : Word, tag : Word \cup {NoTag}, sha : Word, commit : Word,
                           image : ImageRef]
    /\ ReleaseDoc \subseteq [environment : Word, commit : Word, image : ImageRef]
    /\ Ask \subseteq [kind : {"deploy", "promote"}, source : {"git", "registry"},
                      environment : Word, from : Word, version : Word, image : ImageRef]

VARIABLES
    builds,     \* the builds collection, in order of createdAt
    releases,   \* the successful deploys, in order of startedAt
    asked,      \* the request being resolved
    before      \* history: the builds and releases when it began

resolutionVars == <<builds, releases, asked, before>>
-----------------------------------------------------------------------------
NoImage == [repo |-> "", tag |-> ""]

\* The versions that stand for the newest one; an image reference to :latest is one too.
Aliases == {w \in Word : w \in {"", "latest", "head"} \/ ReferenceOf[w].tag = "latest"}

\* The versions that are an image of their own.
IsReference(version) == version \notin Aliases /\ ReferenceOf[version] # NoImage

\* withImageTag
Tagged(image, tag) == IF image.repo = "" \/ tag = "" THEN NoImage ELSE [image EXCEPT !.tag = tag]

Text(tag) == IF tag = NoTag THEN "" ELSE tag

\* Mutated form: builds of other versions.
Names_Any(build, version) == build.tag # version

\* The build a version names: by tag, short or full commit.
Names(build, version) == version \in {build.tag, build.sha, build.commit}

\* findLatestBuild: in the environment, or anywhere when the environment is "".  For an
\* alias, tags that say nothing are excluded, but not builds without a tag.
LatestBuild(environment, version) ==
    LET matching == {i \in DOMAIN builds :
           /\ environment \in {"", builds[i].environment}
           /\ IF version \in Aliases THEN builds[i].tag \notin {"", "latest"}
              ELSE Names(builds[i], version)}
    IN  IF matching = {} THEN 0 ELSE Max(matching)

Result(status, version, image) == [status |-> status, version |-> version, image |-> image]
Failed == Result("failed", "", NoImage)

\* The version and image of a build; a build without image has that of the service, retagged.
BuildTarget(build, version, serviceImage) ==
    LET v == IF Text(build.tag) # "" THEN build.tag
             ELSE IF version \notin Aliases THEN version
             ELSE IF build.sha # "" THEN build.sha ELSE build.commit
        image == IF build.image # NoImage THEN build.image ELSE Tagged(serviceImage, v)
    IN  IF v = "" \/ image = NoImage THEN Failed ELSE Result("ok", v, image)

\* Without a build: the image of the service, with the version as tag unless it is an alias.
FallbackTarget(version, serviceImage) ==
    IF serviceImage = NoImage THEN Failed
    ELSE IF version \in Aliases
    THEN Result("ok", IF serviceImage.tag = "" THEN "latest" ELSE serviceImage.tag, serviceImage)
    ELSE IF Tagged(serviceImage, version) = NoImage THEN Failed
    ELSE Result("ok", version, Tagged(serviceImage, version))
-----------------------------------------------------------------------------
(* Promotion *)

\* The builds a release may be reproduced from.
BuildsOf(release) ==
    {i \in DOMAIN builds :
        IF release.commit # "" THEN builds[i].commit = release.commit
        ELSE builds[i].environment = release.environment}

\* selectPromotedRelease: the newest of the builds that has an image.
ReleaseTarget(release) ==
    LET usable == {i \in BuildsOf(release) : builds[i].image # NoImage}
        b == builds[Max(usable)]
    IN  IF release.image # NoImage
        THEN Result("ok", IF release.commit # "" THEN release.commit ELSE release.image.tag,
                    release.image)
        ELSE IF usable = {} THEN Failed
        ELSE Result("ok", IF b.commit # "" THEN b.commit ELSE b.image.tag, b.image)
-----------------------------------------------------------------------------
NoAsk == [pc |-> "idle", todo |-> {}, result |-> Failed,
          request |-> [kind |-> "none", source |-> "", environment |-> "", from |-> "",
                       version |-> "", image |-> NoImage]]

ResolutionInit ==
    /\ builds = <<>> /\ releases = <<>>
    /\ asked = NoAsk
    /\ before = [builds |-> <<>>, releases |-> <<>>]

\* External: workers and pipelines record builds; no handler of the API writes them.
RecordBuild(b) ==
    /\ Len(builds) + Len(releases) < MaxRecords
    /\ builds' = Append(builds, b)
    /\ UNCHANGED <<releases, asked, before>>

\* A deploy ends well, with the commit and the image its worker reported.
RecordRelease(d) ==
    /\ Len(builds) + Len(releases) < MaxRecords
    /\ releases' = Append(releases, d)
    /\ UNCHANGED <<builds, asked, before>>

Resolving(pc) == asked.pc = pc /\ UNCHANGED <<builds, releases, before>>
Resolved(result) == asked' = [asked EXCEPT !.pc = "done", !.result = result]

\* What the request names for itself; a promotion goes on to replace it.
Targeted(result) ==
    IF asked.request.kind = "promote" /\ result # Failed
    THEN asked' = [asked EXCEPT !.pc = "releases"] ELSE Resolved(result)

\* parseCreateDeployRequest, resolveServiceDeployContextOrRespond
BeginAsk(request) ==
    /\ asked.pc = "idle"
    /\ asked' = [NoAsk EXCEPT !.request = request,
                 !.pc = IF request.source = "registry" THEN "environment" ELSE "commit"]
    /\ before' = [builds |-> builds, releases |-> releases]
    /\ UNCHANGED <<builds, releases>>

\* The latest commit of the branch; when the provider fails the version stays empty.
ResolveCommit(commit) ==
    /\ Resolving("commit")
    /\ LET version == asked.request.version
       IN  Targeted(Result("ok", IF version \in Aliases THEN commit ELSE version, NoImage))

\* A version that is an image needs no build.
ResolveImageReference ==
    /\ Resolving("environment")
    /\ IsReference(asked.request.version)
    /\ LET version == asked.request.version
           image == ReferenceOf[version]
       IN  Targeted(Result("ok", IF image.tag = "" THEN version ELSE image.tag, image))

\* First the builds of the environment, then, in another read, all builds.
FindBuild(pc, environment, otherwise) ==
    /\ Resolving(pc)
    /\ ~IsReference(asked.request.version)
    /\ LET request == asked.request
           i == LatestBuild(environment, request.version)
           target == BuildTarget(builds[i], request.version, request.image)
       IN  IF i = 0 THEN asked' = [asked EXCEPT !.pc = otherwise]
           ELSE IF target = Failed /\ request.version \in Aliases
           THEN asked' = [asked EXCEPT !.pc = "fallback"]
           ELSE Targeted(target)

FindBuildOfEnvironment == FindBuild("environment", asked.request.environment, "anywhere")
FindBuildAnywhere == FindBuild("anywhere", "", "fallback")

Fallback ==
    /\ Resolving("fallback")
    /\ Targeted(FallbackTarget(asked.request.version, asked.request.image))

\* resolvePromotedRelease reads the releases of the source environment.
FindReleases ==
    /\ Resolving("releases")
    /\ LET request == asked.request
           found == {i \in DOMAIN releases : releases[i].environment = request.from}
       IN  IF request.from = request.environment \/ found = {} THEN Resolved(Failed)
           ELSE asked' = [asked EXCEPT !.pc = "release", !.todo = found]

\* selectFirstPromotedRelease, the newest release first: the builds are read for each
\* release that has no image.
TryRelease ==
    /\ Resolving("release")
    /\ LET newest == Max(asked.todo)
           target == ReleaseTarget(releases[newest])
       IN  IF target # Failed THEN Resolved(target)
           ELSE IF asked.todo = {newest} THEN Resolved(Failed)
           ELSE asked' = [asked EXCEPT !.todo = @ \ {newest}]

\* A read fails, but the lookups of an alias fall back to the image of the service.
LookupFails ==
    /\ asked.pc \in {"environment", "anywhere", "releases", "release"}
    /\ asked.pc = "environment" => ~IsReference(asked.request.version)
    /\ asked.pc = "release" => releases[Max(asked.todo)].image = NoImage
    /\ UNCHANGED <<builds, releases, before>>
    /\ IF asked.pc \in {"environment", "anywhere"} /\ asked.request.version \in Aliases
       THEN asked' = [asked EXCEPT !.pc = "fallback"] ELSE Resolved(Failed)

NextAsk ==
    /\ asked.pc = "done"
    /\ asked' = NoAsk
    /\ before' = [builds |-> <<>>, releases |-> <<>>]
    /\ UNCHANGED <<builds, releases>>

ResolutionNext ==
    \/ \E b \in BuildDoc : RecordBuild(b)
    \/ \E d \in ReleaseDoc : RecordRelease(d)
    \/ \E request \in Ask : BeginAsk(request)
    \/ \E commit \in {b.commit : b \in BuildDoc} \cup {""} : ResolveCommit(commit)
    \/ ResolveImageReference \/ FindBuildOfEnvironment \/ FindBuildAnywhere \/ Fallback
    \/ FindReleases \/ TryRelease \/ LookupFails \/ NextAsk

ResolutionSpec == ResolutionInit /\ [][ResolutionNext]_resolutionVars
-----------------------------------------------------------------------------
ResolutionTypeOK ==
    /\ builds \in Seq(BuildDoc) /\ releases \in Seq(ReleaseDoc)
    /\ Len(builds) + Len(releases) <= MaxRecords
    /\ asked \in [pc : {"idle", "commit", "environment", "anywhere", "fallback", "releases",
                       "release", "done"},
                  todo : SUBSET DOMAIN releases, request : Ask \cup {NoAsk.request},
                  result : [status : {"ok", "failed"}, version : Word, image : ImageRef]]

\* Reference: the images that are a version of a service.
ImagesOf(version, serviceImage) ==
    LET named == {b \in Range(builds) : version \in {b.tag, b.sha, b.commit}}
    IN  {b.image : b \in named}
        \cup {Tagged(serviceImage, t) : t \in {version} \cup {Text(b.tag) : b \in named}}
        \cup {ReferenceOf[version]}

\* Reference: the images that reproduce a release, given these builds.
ImagesOfRelease(d, known) ==
    IF d.image # NoImage THEN {d.image}
    ELSE {b.image : b \in {x \in Range(known) :
             IF d.commit # "" THEN x.commit = d.commit ELSE x.environment = d.environment}}
         \ {NoImage}

\* Whatever builds and releases appear between the reads, a request gets what
\* it names.  An explicit version gets an image of that version, the image of
\* the service under a tag or the image it refers to; a promotion gets an image of
\* a release of the source environment that is not older than the newest one that could be
\* reproduced when the request began.
ResolutionIsAsNamed ==
    asked.pc = "done" /\ asked.result.status = "ok" =>
        LET r == asked.request
            image == asked.result.image
            mine == {i \in DOMAIN releases : releases[i].environment = r.from}
        IN  /\ r.kind = "deploy" /\ r.source = "registry" /\ r.version \notin Aliases =>
                 /\ image # NoImage
                 /\ image \in ImagesOf(r.version, r.image)
            /\ r.kind = "promote" =>
                 \E i \in mine :
                    /\ image \in ImagesOfRelease(releases[i], builds)
                    /\ \A j \in mine \cap DOMAIN before.releases :
                          j > i => ImagesOfRelease(before.releases[j], before.builds) = {}
=============================================================================
