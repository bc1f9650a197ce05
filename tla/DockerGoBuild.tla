--------------------------- MODULE DockerGoBuild ---------------------------
(***************************************************************************)
(* Concurrent builds by the docker:go builder: setting up the Go proxy     *)
(* (network, volume and container, under the builder's lock), using and    *)
(* updating the build cache image, and the image itself; with the calls of *)
(* pkg/docker that they go through.                                        *)
(*                                                                         *)
(* The Docker daemon is a store of networks, which may share a name, a     *)
(* volume, a container and the cache tag.  Each call of it is a step, and  *)
(* any of them may fail.                                                   *)
(***************************************************************************)
EXTENDS Naturals, FiniteSets

CONSTANTS Builds,
          CallsFail,   \* whether calls of the Docker daemon fail
          CacheEnabled, \* EnableGoBuildCache
          Purges       \* whether the cache is purged, or all images are removed

VARIABLES
  networks,  \* the number of networks named testground-build
  volume,    \* whether the proxy's volume exists
  container, \* the proxy's container: absent, exited, created or running
  cacheTag,  \* whether an image is tagged as the plan's build cache
  lock,      \* who holds proxyLk
  at,        \* where each build is
  proxyURL,  \* the GOPROXY of each build
  base,      \* its base image: default or cache
  warned     \* whether setupGoProxy returned a warning

dockerVars == <<networks, volume, container, cacheTag>>
buildVars == <<at, proxyURL, base, warned>>
goVars == <<dockerVars, lock, buildVars>>

NoBuild == "no_build"
ASSUME BuildsAssumption == NoBuild \notin Builds

Go(b, to) == at' = [at EXCEPT ![b] = to]
At(b, from, to) == at[b] = from /\ Go(b, to)

\* An error anywhere outside of setupGoProxy fails the build.
FailBuild(b) == Go(b, "failed") /\ UNCHANGED <<dockerVars, lock, proxyURL, base, warned>>

\* setupGoProxy: an error is reduced to a warning, and the lock is released.
Proxy(b, url, warn) ==
  /\ proxyURL' = [proxyURL EXCEPT ![b] = url] /\ warned' = [warned EXCEPT ![b] = warn]
  /\ Go(b, "prepare") /\ lock' = NoBuild /\ UNCHANGED base

Warn(b) == CallsFail /\ Proxy(b, "direct", TRUE) /\ UNCHANGED dockerVars

-----------------------------------------------------------------------------
\* Mutant: there is no lock.
EnterUnlocked(b) ==
  /\ at[b] = "start" /\ Go(b, "findNetwork")
  /\ UNCHANGED <<dockerVars, lock, proxyURL, base, warned>>

\* The proxy mode of the build's configuration is direct, remote or local.
Enter(b) ==
  /\ at[b] = "start" /\ lock = NoBuild
  /\ \/ Proxy(b, "direct", FALSE)
     \/ Proxy(b, "direct", TRUE)      \* remote without an URL
     \/ Proxy(b, "remote", FALSE)
     \/ lock' = b /\ Go(b, "findNetwork") /\ UNCHANGED <<proxyURL, base, warned>>
  /\ UNCHANGED dockerVars

\* EnsureBridgeNetwork: list, then create what was not there.  The error of either
\* leaves GoProxyURL, which the local mode does not use, as the proxy.
FindNetwork(b) ==
  \/ /\ At(b, "findNetwork", IF networks > 0 THEN "findVolume" ELSE "createNetwork")
     /\ UNCHANGED <<dockerVars, lock, proxyURL, base, warned>>
  \/ at[b] = "findNetwork" /\ CallsFail /\ Proxy(b, "GoProxyURL", TRUE) /\ UNCHANGED dockerVars

CreateNetwork(b) ==
  \/ /\ At(b, "createNetwork", "findVolume") /\ networks' = networks + 1
     /\ UNCHANGED <<volume, container, cacheTag, lock, proxyURL, base, warned>>
  \/ at[b] = "createNetwork" /\ CallsFail /\ Proxy(b, "GoProxyURL", TRUE) /\ UNCHANGED dockerVars

\* EnsureVolume.
FindVolume(b) ==
  \/ /\ At(b, "findVolume", IF volume THEN "check" ELSE "createVolume")
     /\ UNCHANGED <<dockerVars, lock, proxyURL, base, warned>>
  \/ at[b] = "findVolume" /\ Warn(b)

CreateVolume(b) ==
  \/ /\ At(b, "createVolume", "check") /\ volume' = TRUE
     /\ UNCHANGED <<networks, container, cacheTag, lock, proxyURL, base, warned>>
  \/ at[b] = "createVolume" /\ Warn(b)

\* EnsureContainerStarted: CheckContainer lists and inspects.
CheckContainer(b) ==
  \/ /\ at[b] = "check" /\ container = "running"
     /\ Proxy(b, "local", FALSE) /\ UNCHANGED dockerVars
  \/ /\ At(b, "check", IF container = "absent" THEN "pull" ELSE "startContainer")
     /\ container # "running"
     /\ UNCHANGED <<dockerVars, lock, proxyURL, base, warned>>
  \/ at[b] = "check" /\ Warn(b)

\* ImagePull.
Pull(b) ==
  \/ At(b, "pull", "createContainer") /\ UNCHANGED <<dockerVars, lock, proxyURL, base, warned>>
  \/ at[b] = "pull" /\ Warn(b)

\* A name that is taken is refused.
CreateContainer(b) ==
  \/ /\ At(b, "createContainer", "startContainer") /\ container = "absent"
     /\ container' = "created"
     /\ UNCHANGED <<networks, volume, cacheTag, lock, proxyURL, base, warned>>
  \/ at[b] = "createContainer" /\ Warn(b)

\* Mutant: a container that is there is taken to be running.
StartContainerSkipped(b) ==
  /\ At(b, "startContainer", "inspect")
  /\ UNCHANGED <<dockerVars, lock, proxyURL, base, warned>>

StartContainer(b) ==
  \/ /\ At(b, "startContainer", "inspect") /\ container' = "running"
     /\ UNCHANGED <<networks, volume, cacheTag, lock, proxyURL, base, warned>>
  \/ at[b] = "startContainer" /\ Warn(b)

Inspect(b) ==
  \/ at[b] = "inspect" /\ Proxy(b, "local", FALSE) /\ UNCHANGED dockerVars
  \/ at[b] = "inspect" /\ Warn(b)

-----------------------------------------------------------------------------
\* The Dockerfile, go.mod and the replace directives; a custom base image excludes
\* the cache.
Prepare(b) ==
  \/ At(b, "prepare", IF CacheEnabled THEN "findCache" ELSE "build")
     /\ UNCHANGED <<dockerVars, lock, proxyURL, base, warned>>
  \/ at[b] = "prepare" /\ FailBuild(b)

FindCache(b) ==
  \/ /\ At(b, "findCache", "build")
     /\ base' = [base EXCEPT ![b] = IF cacheTag THEN "cache" ELSE "default"]
     /\ UNCHANGED <<dockerVars, lock, proxyURL, warned>>
  \/ at[b] = "findCache" /\ CallsFail /\ FailBuild(b)

\* docker.BuildImage: Docker resolves the base image now.
BuildImage(b) ==
  \/ /\ at[b] = "build" /\ (base[b] = "cache" => cacheTag)
     /\ Go(b, IF CacheEnabled /\ base[b] = "default" THEN "untag" ELSE "finish")
     /\ UNCHANGED <<dockerVars, lock, proxyURL, base, warned>>
  \/ /\ at[b] = "build" /\ base[b] = "cache" /\ ~cacheTag /\ Go(b, "noBase")
     /\ UNCHANGED <<dockerVars, lock, proxyURL, base, warned>>
  \/ at[b] = "build" /\ FailBuild(b)

\* updateBuildCacheImage: release the old tag, then tag.  Errors are warnings, and
\* so is an output without the image's ID.
Untag(b) ==
  \/ /\ At(b, "untag", "tag") /\ cacheTag' = FALSE
     /\ UNCHANGED <<networks, volume, container, lock, proxyURL, base, warned>>
  \/ At(b, "untag", "finish") /\ CallsFail
     /\ UNCHANGED <<dockerVars, lock, proxyURL, base, warned>>

Tag(b) ==
  \/ /\ At(b, "tag", "finish") /\ cacheTag' = TRUE
     /\ UNCHANGED <<networks, volume, container, lock, proxyURL, base, warned>>
  \/ At(b, "tag", "finish") /\ CallsFail
     /\ UNCHANGED <<dockerVars, lock, proxyURL, base, warned>>

\* GetImageID, the dependencies and the plan's tag.
Finish(b) ==
  \/ At(b, "finish", "done") /\ UNCHANGED <<dockerVars, lock, proxyURL, base, warned>>
  \/ at[b] = "finish" /\ CallsFail /\ FailBuild(b)

\* Purge and TerminateAll remove the cache image.
Purge ==
  /\ Purges /\ cacheTag /\ cacheTag' = FALSE
  /\ UNCHANGED <<networks, volume, container, lock, buildVars>>

-----------------------------------------------------------------------------
GoInit ==
  /\ networks \in {0, 1} /\ volume \in BOOLEAN
  /\ container \in {"absent", "exited", "running"} /\ cacheTag \in {FALSE, CacheEnabled}
  /\ lock = NoBuild /\ at = [b \in Builds |-> "start"]
  /\ proxyURL = [b \in Builds |-> "unset"] /\ base = [b \in Builds |-> "default"]
  /\ warned = [b \in Builds |-> FALSE]

SetUpProxy(b) ==
  \/ Enter(b) \/ FindNetwork(b) \/ CreateNetwork(b) \/ FindVolume(b) \/ CreateVolume(b)
  \/ CheckContainer(b) \/ Pull(b) \/ CreateContainer(b) \/ StartContainer(b) \/ Inspect(b)

BuildStep(b) ==
  Prepare(b) \/ FindCache(b) \/ BuildImage(b) \/ Untag(b) \/ Tag(b) \/ Finish(b)

GoNext == Purge \/ \E b \in Builds : SetUpProxy(b) \/ BuildStep(b)

GoSpec == GoInit /\ [][GoNext]_goVars

\* Every build is a goroutine, and its calls of the Docker daemon return.
GoFairSpec == GoSpec /\ \A b \in Builds : WF_goVars(SetUpProxy(b) \/ BuildStep(b))

-----------------------------------------------------------------------------
\* There is never a second network for builds, although Docker allows several of one
\* name, and a build that was told to use the local proxy finds its container running,
\* its volume, and the network (setupGoProxy, under the builder's lock).
ProxyIsUp ==
  /\ networks <= 1
  /\ \A b \in Builds : proxyURL[b] = "local" => container = "running" /\ networks > 0 /\ volume

\* Once all builds are over, a build that made a new cache image has left one tagged,
\* however the updates interleaved.
CacheKept ==
  CacheEnabled /\ ~CallsFail /\ ~Purges /\ (\A b \in Builds : at[b] \in {"done", "failed", "noBase"}) =>
    cacheTag \/ \A b \in Builds : at[b] # "done"

\* Every build ends: no path leaves the builder locked.
BuildsEnd == \A b \in Builds : <>(at[b] \in {"done", "failed", "noBase"})

\* "If an error occurs, it is reduced to a warning, and we fall back to direct mode
\* (i.e. no proxy, not even Google's default one)".
FallsBackToDirect == \A b \in Builds : warned[b] => proxyURL[b] = "direct"

\* "If this flag is true, the builder will the last cached image": a build that found
\* the cache image can use it.
CacheUsable == \A b \in Builds : at[b] # "noBase"
-----------------------------------------------------------------------------
(* The invariant that makes ProxyIsUp inductive. *)

WithNetwork == {"findVolume", "createVolume", "check", "pull", "createContainer", "startContainer", "inspect"}
WithVolume == {"check", "pull", "createContainer", "startContainer", "inspect"}
Holding == {"findNetwork", "createNetwork"} \union WithNetwork

\* The builds between Lock and Unlock are the one that holds the lock, and what it has
\* found or created so far is there.
ProxyInv ==
  /\ networks \in Nat
  /\ DOMAIN at = Builds /\ DOMAIN proxyURL = Builds
  /\ \A b \in Builds :
       /\ at[b] \in Holding => lock = b
       /\ at[b] = "createNetwork" => networks = 0
       /\ at[b] \in WithNetwork => networks > 0
       /\ at[b] \in WithVolume => volume
       /\ at[b] = "inspect" => container = "running"
  /\ ProxyIsUp

=============================================================================
