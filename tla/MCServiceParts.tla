-------------------------- MODULE MCServiceParts --------------------------
(* DeployResolution, ServiceSettings, TrafficSwitch and AccountSessions for    *)
(* TLC.  They share no state, so a behaviour is one of a single part, chosen   *)
(* when it begins; TLC checks the behaviours of all.                           *)
(* Two of the properties speak of calm or orderly behaviours only: a behaviour *)
(* is followed until it stops being one.                                       *)
EXTENDS DeployResolution, ServiceSettings, TrafficSwitch, AccountSessions, TLC

VARIABLE part

(* Resolution: builds with a tag and an image, or neither; releases with and without. *)
SomeWords ==
    {"", "dev", "prod", "r", "h/r", "v1", "v2", "v9", "latest", "c1", "c2", "c1s", "c2s", "h/r:v9",
     "h/r:latest"}

SomeReferences ==
    [w \in SomeWords |->
        CASE w = "h/r:v9"     -> [repo |-> "h/r", tag |-> "v9"]
          [] w = "h/r:latest" -> [repo |-> "h/r", tag |-> "latest"]
          [] OTHER            -> NoImage]

Image(tag) == [repo |-> "r", tag |-> tag]
BuildOf(environment, tag, commit, image) ==
    [environment |-> environment, tag |-> tag, sha |-> commit \o "s", commit |-> commit,
     image |-> image]

SomeBuilds ==
    {BuildOf("dev", "v1", "c1", Image("v1")), BuildOf("prod", NoTag, "c2", NoImage),
     BuildOf("prod", "latest", "c1", Image("latest"))}

SomeReleases ==
    {[environment |-> "dev", commit |-> "c1", image |-> NoImage],
     [environment |-> "dev", commit |-> "", image |-> NoImage],
     [environment |-> "dev", commit |-> "c2", image |-> Image("v2")]}

LatestImage ==
    [kind |-> "deploy", source |-> "registry", environment |-> "prod", from |-> "",
     version |-> "latest", image |-> Image("")]

SomeAsks ==
    {LatestImage,
     [LatestImage EXCEPT !.version = "v1"],
     [LatestImage EXCEPT !.version = "c2s"],
     [LatestImage EXCEPT !.version = "c2s", !.image = NoImage],
     [LatestImage EXCEPT !.version = "h/r:v9"],
     [LatestImage EXCEPT !.version = "h/r:latest"],
     [LatestImage EXCEPT !.source = "git"],
     [LatestImage EXCEPT !.kind = "promote", !.from = "dev"],
     [LatestImage EXCEPT !.kind = "promote", !.from = "prod"]}

(* Settings: a stop and a start, several fields at once, observation and back, bounds. *)
Only(f, value) == [x \in {f} |-> value]

SomeService ==
    [mode |-> "managed", source |-> "git", size |-> "s", port |-> 80, minReplicas |-> 0,
     maxReplicas |-> 0, replicas |-> 2, schedule |-> "daily", strategy |-> "rolling",
     active |-> TRUE, autoDeploy |-> TRUE, status |-> "running"]

SomeUpdates ==
    {Only("active", FALSE), Only("active", TRUE), Only("mode", "observed"),
     [active |-> FALSE, size |-> "m", schedule |-> "weekly", port |-> 90],
     [minReplicas |-> 3, maxReplicas |-> 1, source |-> "docker"],
     [mode |-> "observed", source |-> "docker", autoDeploy |-> TRUE],
     [mode |-> "observed", minReplicas |-> 2, maxReplicas |-> 3, port |-> 0, strategy |-> "canary"]}
-----------------------------------------------------------------------------
\* A part that is not checked starts in one of its initial states and stays there.
MCInit ==
    /\ ResolutionInit /\ SettingsInit /\ SwitchInit /\ AuthInit
    /\ part \in {"resolution", "settings", "switch", "auth"}
    /\ part # "switch" => strategy.type = "canary"
    /\ part # "auth" => account.user = 0

MCNext ==
    /\ UNCHANGED part
    /\ \/ /\ part = "resolution" /\ ResolutionNext
          /\ UNCHANGED <<settingsVars, switchVars, authVars>>
       \/ /\ part = "settings" /\ calm /\ SettingsNext
          /\ UNCHANGED <<resolutionVars, switchVars, authVars>>
       \/ /\ part = "switch" /\ orderly /\ SwitchNext
          /\ UNCHANGED <<resolutionVars, settingsVars, authVars>>
       \/ /\ part = "auth" /\ AuthNext
          /\ UNCHANGED <<resolutionVars, settingsVars, switchVars>>

MCSpec ==
    MCInit /\ [][MCNext]_<<part, resolutionVars, settingsVars, switchVars, authVars>>

\* The requests of an account are alike.
MCSymmetry == Permutations(AuthReq)

\* The documents, requests and operations of every part keep their types.
PartsTypeOK == ResolutionTypeOK /\ SettingsTypeOK /\ SwitchTypeOK /\ AuthTypeOK
=============================================================================
