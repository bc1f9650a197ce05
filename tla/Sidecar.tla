------------------------------ MODULE Sidecar ------------------------------
(***************************************************************************)
(* The sidecar's handler: for every test instance a loop that connects its *)
(* data network, waits until all of them are connected and then applies    *)
(* the network configurations the instance publishes, signalling each one. *)
(* ConfigureNetwork is that of DockerNetwork or of K8sNetwork.             *)
(*                                                                         *)
(* The sync service (a counted state, a topic and callback states), the    *)
(* network plugins and the kernel's routes are external; each call to them *)
(* may fail.  An instance waits for the networks before it publishes.      *)
(***************************************************************************)
EXTENDS Naturals, Sequences, FiniteSets

CONSTANTS Instances,
          Configs,        \* the configurations an instance may ask for
          MaxRequests,    \* bound: the configurations an instance publishes
          CallsFail       \* whether calls may fail

ASSUME ConfigsAssumption == \A c \in Configs : c.enable \in BOOLEAN

VARIABLES
  kind,        \* the kind of the network: docker or k8s
  handler,     \* where the handler of each instance is
  topic,       \* the configurations each instance published
  current,     \* the number of the configuration being applied, 0 at the start
  link,        \* activeLinks: the address of the data network's link, or none
  real,        \* the address the instance really has on the data network, or none
  shaped,      \* the configuration by which the real link is shaped, or Unshaped
  enabled,     \* the flag of the external routes
  routes,      \* the external routes in the kernel: present, partial or absent
  ready,       \* the instances counted in the state network-initialized
  signalled,   \* the callbacks each instance's handler signalled, in order
  late,        \* a CNI call that goes on after its timeout
  ended        \* whether the context of the handler is done

netVars == <<link, real, shaped, enabled, routes>>
sidecarVars == <<kind, handler, topic, current, netVars, ready, signalled, late, ended>>

None == "none"
Automatic == "auto"
Unshaped == MaxRequests + 1
Default == [enable |-> TRUE, ip |-> None, policy |-> "deny"]
Cfg(i) == IF current[i] = 0 THEN Default ELSE topic[i][current[i]]
Proceed(i, label) == handler' = [handler EXCEPT ![i] = label]

\* local:docker attaches a container to its network before it starts; the link
\* of a pod is not tracked, and InitializeNetwork looks for it.
SidecarInit ==
  /\ kind \in {"docker", "k8s"}
  /\ handler = [i \in Instances |-> "start"] /\ topic = [i \in Instances |-> <<>>]
  /\ current = [i \in Instances |-> 0]
  /\ real = [i \in Instances |-> Automatic]
  /\ link = [i \in Instances |-> IF kind = "docker" THEN Automatic ELSE None]
  /\ shaped = [i \in Instances |-> Unshaped]
  /\ enabled = [i \in Instances |-> TRUE] /\ routes = [i \in Instances |-> "present"]
  /\ ready = {} /\ signalled = [i \in Instances |-> <<>>]
  /\ late = [i \in Instances |-> FALSE] /\ ended = [i \in Instances |-> FALSE]

-----------------------------------------------------------------------------
(* The test instance.                                                       *)

\* The SDK waits for network-initialized before it configures the network.
Publish(i) ==
  /\ ready = Instances /\ Len(topic[i]) < MaxRequests
  /\ \E c \in Configs : topic' = [topic EXCEPT ![i] = Append(@, c)]
  /\ UNCHANGED <<handler, current, netVars, ready, signalled, late, ended>>

\* The container stops, and Watch cancels its worker.
Stop(i) ==
  /\ ~ended[i] /\ ended' = [ended EXCEPT ![i] = TRUE]
  /\ UNCHANGED <<handler, topic, current, netVars, ready, signalled, late>>

-----------------------------------------------------------------------------
(* ConfigureNetwork.                                                        *)

\* A call fails: the error ends the handler.
Fail(i) == (CallsFail \/ ended[i]) /\ Proceed(i, "closed")

\* The routes through a link of CNI come and go with it; those of local:docker are of
\* the control network.
RoutesWith(i, state) == IF kind = "k8s" THEN [routes EXCEPT ![i] = state] ELSE routes

\* InitializeNetwork removes what the cluster's plugin connected, if it finds an address of
\* its range; otherwise the link stays, untracked.
Initialize(i) ==
  /\ handler[i] = "start"
  /\ \/ /\ kind = "docker" /\ Proceed(i, "routing") /\ UNCHANGED <<real, routes>>
     \/ /\ kind = "k8s" /\ Proceed(i, "links")
        /\ \/ real' = [real EXCEPT ![i] = None] /\ routes' = RoutesWith(i, "absent")
           \/ UNCHANGED <<real, routes>>
     \/ Fail(i) /\ UNCHANGED <<real, routes>>
  /\ UNCHANGED <<topic, current, link, shaped, enabled, ready, signalled, late, ended>>

\* handleRoutingPolicy: enable or disable, unless the flag says it is done.
Routing(i) ==
  /\ handler[i] = "routing"
  /\ LET want == Cfg(i).policy = "allow" IN
     \/ /\ enabled' = [enabled EXCEPT ![i] = want]
        /\ routes' = IF enabled[i] = want THEN routes
                     ELSE [routes EXCEPT ![i] = IF want THEN "present" ELSE "absent"]
        /\ Proceed(i, IF kind = "docker" THEN "links" ELSE "signal")
     \/ /\ enabled[i] # want /\ Fail(i)
        /\ routes' = [routes EXCEPT ![i] = "partial"] /\ UNCHANGED enabled
  /\ UNCHANGED <<topic, current, link, real, shaped, ready, signalled, late, ended>>

\* Mutant: the link stays among the active ones when it is disconnected.
LinksForgetful(i) ==
  /\ handler[i] = "links"
  /\ IF link[i] # None /\ (~Cfg(i).enable \/ (Cfg(i).ip # None /\ Cfg(i).ip # link[i]))
     THEN \/ /\ real' = [real EXCEPT ![i] = None]
             /\ shaped' = [shaped EXCEPT ![i] = Unshaped] /\ routes' = RoutesWith(i, "absent")
             /\ Proceed(i, IF Cfg(i).enable THEN "connect" ELSE "signal") /\ UNCHANGED link
          \/ Fail(i) /\ UNCHANGED <<link, real, shaped, routes>>
     ELSE /\ Proceed(i, IF ~Cfg(i).enable THEN "signal" ELSE IF link[i] # None THEN "shape" ELSE "connect")
          /\ UNCHANGED <<link, real, shaped, routes>>
  /\ UNCHANGED <<topic, current, enabled, ready, signalled, late, ended>>

\* Disconnect a link that is disabled or changes its address.
Links(i) ==
  /\ handler[i] = "links"
  /\ IF link[i] # None /\ (~Cfg(i).enable \/ (Cfg(i).ip # None /\ Cfg(i).ip # link[i]))
     THEN \/ /\ link' = [link EXCEPT ![i] = None] /\ real' = [real EXCEPT ![i] = None]
             /\ shaped' = [shaped EXCEPT ![i] = Unshaped] /\ routes' = RoutesWith(i, "absent")
             /\ Proceed(i, IF Cfg(i).enable THEN "connect" ELSE "signal")
          \/ Fail(i) /\ UNCHANGED <<link, real, shaped, routes>>
     ELSE /\ Proceed(i, IF ~Cfg(i).enable THEN "signal" ELSE IF link[i] # None THEN "shape" ELSE "connect")
          /\ UNCHANGED <<link, real, shaped, routes>>
  /\ UNCHANGED <<topic, current, enabled, ready, signalled, late, ended>>

Address(i) == IF Cfg(i).ip = None THEN Automatic ELSE Cfg(i).ip

\* A call that failed, or that nobody waits for, may have connected the instance.
MaybeConnected(i) ==
  \/ UNCHANGED <<real, routes>>
  \/ real' = [real EXCEPT ![i] = Address(i)] /\ routes' = RoutesWith(i, "present")

\* NetworkConnect, or AddNetworkList with its retries; then the new link is
\* looked up and registered.  A link of CNI brings routes of its own.
Connect(i) ==
  /\ handler[i] = "connect"
  /\ \/ /\ real' = [real EXCEPT ![i] = Address(i)] /\ link' = [link EXCEPT ![i] = Address(i)]
        /\ enabled' = [enabled EXCEPT ![i] = @ \/ kind = "k8s"]
        /\ routes' = RoutesWith(i, "present") /\ Proceed(i, "shape")
     \/ Fail(i) /\ MaybeConnected(i) /\ UNCHANGED <<link, enabled>>
  /\ UNCHANGED <<topic, current, shaped, ready, signalled, late, ended>>

\* The call to CNI takes longer than 30 seconds: the handler gives up and the
\* goroutine goes on.
ConnectTimesOut(i) ==
  /\ kind = "k8s" /\ handler[i] = "connect" /\ CallsFail
  /\ late' = [late EXCEPT ![i] = TRUE] /\ Proceed(i, "closed")
  /\ UNCHANGED <<topic, current, netVars, ready, signalled, ended>>

LateConnect(i) ==
  /\ late[i] /\ late' = [late EXCEPT ![i] = FALSE] /\ MaybeConnected(i)
  /\ UNCHANGED <<handler, topic, current, link, shaped, enabled, ready, signalled, ended>>

\* Shape and AddRules.
Shape(i) ==
  /\ handler[i] = "shape"
  /\ \/ /\ shaped' = [shaped EXCEPT ![i] = current[i]]
        /\ Proceed(i, IF kind = "docker" THEN "signal" ELSE "routing")
     \/ Fail(i) /\ UNCHANGED shaped
  /\ UNCHANGED <<topic, current, link, real, enabled, routes, ready, signalled, late, ended>>

-----------------------------------------------------------------------------
(* handler.                                                                 *)

\* SignalAndWait: the state is signalled, and waited for.
CountReady(i) ==
  /\ handler[i] = "signal" /\ current[i] = 0
  /\ \/ ready' = ready \cup {i} /\ Proceed(i, "barrier")
     \/ Fail(i) /\ UNCHANGED ready
  /\ UNCHANGED <<topic, current, netVars, signalled, late, ended>>

\* The count is reached, and the handler subscribes.
AllReady(i) ==
  /\ handler[i] = "barrier"
  /\ \/ Cardinality(ready) >= Cardinality(Instances) /\ Proceed(i, "loop")
     \/ Fail(i)
  /\ UNCHANGED <<topic, current, netVars, ready, signalled, late, ended>>

\* Mutant: the callback is signalled when the configuration is taken.
TakeAndSignal(i) ==
  /\ handler[i] = "loop" /\ current[i] < Len(topic[i])
  /\ current' = [current EXCEPT ![i] = @ + 1]
  /\ signalled' = [signalled EXCEPT ![i] = Append(@, current[i] + 1)]
  /\ Proceed(i, IF kind = "docker" THEN "routing" ELSE "links")
  /\ UNCHANGED <<topic, netVars, ready, late, ended>>

Take(i) ==
  /\ handler[i] = "loop" /\ current[i] < Len(topic[i])
  /\ current' = [current EXCEPT ![i] = @ + 1]
  /\ Proceed(i, IF kind = "docker" THEN "routing" ELSE "links")
  /\ UNCHANGED <<topic, netVars, ready, signalled, late, ended>>

\* SignalEntry; every configuration here names a callback state.
Signal(i) ==
  /\ handler[i] = "signal" /\ current[i] > 0
  /\ \/ signalled' = [signalled EXCEPT ![i] = Append(@, current[i])] /\ Proceed(i, "loop")
     \/ Fail(i) /\ UNCHANGED signalled
  /\ UNCHANGED <<topic, current, netVars, ready, late, ended>>

\* The context is done; the subscription, which ends with it, closes the channel.
Leave(i) ==
  /\ handler[i] = "loop" /\ ended[i] /\ Proceed(i, "closed")
  /\ UNCHANGED <<topic, current, netVars, ready, signalled, late, ended>>

-----------------------------------------------------------------------------
Handle(i) ==
  \/ Initialize(i) \/ Routing(i) \/ Links(i) \/ Connect(i) \/ Shape(i)
  \/ CountReady(i) \/ AllReady(i) \/ Take(i) \/ Signal(i) \/ Leave(i)

SidecarNext ==
  /\ UNCHANGED kind
  /\ \E i \in Instances : Handle(i) \/ Publish(i) \/ Stop(i) \/ ConnectTimesOut(i) \/ LateConnect(i)

SidecarSpec == SidecarInit /\ [][SidecarNext]_sidecarVars

\* Handlers are goroutines and the services they call answer.
SidecarFairSpec == SidecarSpec /\ \A i \in Instances : WF_sidecarVars(UNCHANGED kind /\ Handle(i))

-----------------------------------------------------------------------------
Addresses == {None, Automatic} \cup {c.ip : c \in Configs}

(* The state stays in its types.                                            *)
SidecarTypeOK ==
  /\ handler \in [Instances -> {"start", "routing", "links", "connect", "shape", "signal", "barrier", "loop", "closed"}]
  /\ \A i \in Instances : topic[i] \in Seq(Configs) /\ current[i] \in 0..Len(topic[i])
  /\ link \in [Instances -> Addresses] /\ real \in [Instances -> Addresses]
  /\ shaped \in [Instances -> 0..Unshaped]
  /\ enabled \in [Instances -> BOOLEAN] /\ routes \in [Instances -> {"present", "partial", "absent"}]
  /\ ready \subseteq Instances /\ late \in [Instances -> BOOLEAN] /\ ended \in [Instances -> BOOLEAN]

(* While a handler waits for the next configuration, the links it keeps are *)
(* those of its instance, and the external routes are those its flag says:  *)
(* in a pod, as long as the link they go through is there.                  *)
LinksAgree ==
  \A i \in Instances : handler[i] \in {"barrier", "loop"}
    => /\ link[i] = real[i]
       /\ routes[i] = IF enabled[i] /\ (kind = "docker" \/ link[i] # None) THEN "present" ELSE "absent"

(* A callback is signalled when its configuration, and none after it, is in *)
(* force: the link is there with the address and the shape asked for, or it *)
(* is gone, and the routes follow the policy (those of CNI with the link).  *)
InForce(i) ==
  LET c == Cfg(i) IN
    /\ c.enable => real[i] # None /\ shaped[i] = current[i] /\ (c.ip # None => real[i] = c.ip)
    /\ ~c.enable => real[i] = None
    /\ routes[i] = IF c.policy = "allow" /\ (kind = "docker" \/ c.enable) THEN "present" ELSE "absent"

CallbackStep ==
  \A i \in Instances : signalled'[i] # signalled[i]
    => signalled'[i] = Append(signalled[i], Len(signalled[i]) + 1) /\ current[i] = Len(signalled'[i]) /\ InForce(i)
CallbackInForce == [][CallbackStep]_sidecarVars

(* Without faults every configuration that is published is signalled, unless*)
(* the instance stops before.                                               *)
RequestsServed ==
  \A i \in Instances : \A n \in 1..MaxRequests :
    Len(topic[i]) >= n ~> (Len(signalled[i]) >= n \/ ended[i])
=============================================================================
