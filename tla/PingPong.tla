------------------------------ MODULE PingPong ------------------------------
(***************************************************************************)
(* The test case ping-pong of the plan network: two instances let their    *)
(* sidecars shape the network, number themselves, exchange addresses,      *)
(* connect, and measure a round trip, first with a latency of 100ms on     *)
(* each side and then with 10ms (plans/network/pingpong.go).               *)
(*                                                                         *)
(* inst has the local state of an instance; its field wait is the state of *)
(* the sync service at whose barrier it is.  pingCounts has the signals of *)
(* each state and pingTopic the published addresses.  pingPending is the   *)
(* configuration that an instance has published for its sidecar, pingLink  *)
(* the latency and the address in force.  wire[i] are the bytes on the way *)
(* to instance i, and open has the ends of the connection that exist.      *)
(***************************************************************************)
EXTENDS Integers, Sequences, FiniteSets

CONSTANTS
    Pair,        \* the instances of the test case, two by its manifest
    PingFaults   \* a sidecar may fail to configure its network, a dial may fail, and a
                 \* round trip may take more or less time than the shape allows

ASSUME PairAssumption == IsFiniteSet(Pair) /\ Cardinality(Pair) = 2 /\ PingFaults \in BOOLEAN

VARIABLES inst, pingCounts, pingTopic, pingPending, pingLink, wire, open

pingVars == <<inst, pingCounts, pingTopic, pingPending, pingLink, wire, open>>
-----------------------------------------------------------------------------
PingN == Cardinality(Pair)

\* The barriers of the plan, each with the step that follows it.
After ==
    [network_configured |-> "allocate", ip_allocation |-> "readdress", ip_changed |-> "announce",
     listening |-> "publish", got_other_addrs |-> "connect", ping_pong_200 |-> "reduce",
     latency_reduced |-> "ready", ping_pong_10 |-> "returned"]

Latency == <<100, 10>>
RoundState == <<"ping_pong_200", "ping_pong_10">>
NoConfig == [latency |-> 0, addr |-> 0, state |-> "none"]
Peer(i) == CHOOSE j \in Pair : j # i

PingInit ==
    /\ inst = [i \in Pair |-> [pc |-> "start", wait |-> "none", seq |-> 0, buf |-> 0, round |-> 1]]
    /\ pingCounts = [s \in DOMAIN After |-> 0]
    /\ pingTopic = <<>>
    /\ pingPending = [i \in Pair |-> NoConfig]
    /\ pingLink = [i \in Pair |-> [latency |-> 0, addr |-> 0]]
    /\ wire = [i \in Pair |-> <<>>]
    /\ open = {}

At(i, p) == inst[i].pc = p
PingGoto(i, p) == inst' = [inst EXCEPT ![i].pc = p]
-----------------------------------------------------------------------------
(* The sync service and the sidecars, as the plan uses them. *)

\* MustConfigureNetwork publishes a configuration and waits until as many sidecars as
\* there are instances have signalled its callback state.
ConfigureNetwork(i, latency, ip, s) ==
    /\ pingPending' = [pingPending EXCEPT ![i] = [latency |-> latency, addr |-> ip, state |-> s]]
    /\ inst' = [inst EXCEPT ![i].pc = "waiting", ![i].wait = s]

\* A sidecar applies the configuration and signals the callback, unless it fails.
PingConfigures(i) ==
    /\ pingPending[i] # NoConfig
    /\ pingPending' = [pingPending EXCEPT ![i] = NoConfig]
    /\ \/ /\ pingLink' = [pingLink EXCEPT ![i] = [latency |-> pingPending[i].latency, addr |-> pingPending[i].addr]]
          /\ pingCounts' = [pingCounts EXCEPT ![pingPending[i].state] = @ + 1]
       \/ PingFaults /\ UNCHANGED <<pingLink, pingCounts>>
    /\ UNCHANGED <<inst, pingTopic, wire, open>>

\* MustSignalAndWait returns the place of the signal, once the barrier is reached.
SignalAndWait(i, s) ==
    /\ pingCounts' = [pingCounts EXCEPT ![s] = @ + 1]
    /\ inst' = [inst EXCEPT ![i].pc = "waiting", ![i].wait = s,
                            ![i].seq = IF s = "ip_allocation" THEN pingCounts[s] + 1 ELSE @]

\* A barrier is reached, or the context of 300 seconds ends and the call panics.  The
\* case takes that long only if something has failed.
AwaitBarrier(i) ==
    /\ At(i, "waiting")
    /\ \/ pingCounts[inst[i].wait] >= PingN /\ PingGoto(i, After[inst[i].wait])
       \/ PingFaults /\ pingCounts[inst[i].wait] < PingN /\ PingGoto(i, "failed")
    /\ UNCHANGED <<pingCounts, pingTopic, pingPending, pingLink, wire, open>>
-----------------------------------------------------------------------------
(* The test case. *)

Start(i) ==
    /\ At(i, "start")
    /\ ConfigureNetwork(i, 100, pingLink[i].addr, "network_configured")
    /\ UNCHANGED <<pingCounts, pingTopic, pingLink, wire, open>>

\* The first configuration must not have changed the instance's address.
Allocate(i) ==
    /\ At(i, "allocate")
    /\ IF pingLink[i].addr = 0 THEN SignalAndWait(i, "ip_allocation")
                           ELSE PingGoto(i, "failed") /\ UNCHANGED pingCounts
    /\ UNCHANGED <<pingTopic, pingPending, pingLink, wire, open>>

\* The first instance listens before it takes its new address.
Readdress(i) ==
    /\ At(i, "readdress")
    /\ open' = IF inst[i].seq = 1 THEN open \union {"listener"} ELSE open
    /\ ConfigureNetwork(i, 100, inst[i].seq, "ip_changed")
    /\ UNCHANGED <<pingCounts, pingTopic, pingLink, wire>>

\* getPeerAddrs: a barrier, the exchange of all addresses, and another barrier.
GetPeerAddrs(i) ==
    /\ \/ At(i, "announce") /\ SignalAndWait(i, "listening") /\ UNCHANGED pingTopic
       \/ At(i, "publish") /\ pingTopic' = Append(pingTopic, pingLink[i].addr) /\ PingGoto(i, "exchange") /\ UNCHANGED pingCounts
       \/ At(i, "exchange") /\ Len(pingTopic) >= PingN /\ SignalAndWait(i, "got_other_addrs") /\ UNCHANGED pingTopic
    /\ UNCHANGED <<pingPending, pingLink, wire, open>>

PeerAddrs(i) == SelectSeq(pingTopic, LAMBDA a : a # pingLink[i].addr)

\* The second instance dials the first address it was told, and the first accepts.  An
\* accept has no deadline.  A dial finds a listener that is open at the address.
Listens(j, a) == inst[j].seq = 1 /\ "listener" \in open /\ pingLink[j].addr = a /\ ~At(j, "failed")

PingConnect(i) ==
    /\ At(i, "connect")
    /\ \/ inst[i].seq = 1 /\ Peer(i) \in open /\ open' = open \union {i} /\ PingGoto(i, "ready")
       \/ inst[i].seq = 2 /\ Listens(Peer(i), PeerAddrs(i)[1]) /\ open' = open \union {i} /\ PingGoto(i, "ready")
       \/ inst[i].seq = 2 /\ (PingFaults \/ ~Listens(Peer(i), PeerAddrs(i)[1])) /\ PingGoto(i, "failed") /\ UNCHANGED open
    /\ UNCHANGED <<pingCounts, pingTopic, pingPending, pingLink, wire>>

Write(i, from, to, b) ==
    /\ At(i, from)
    /\ wire' = [wire EXCEPT ![Peer(i)] = Append(@, b)]
    /\ PingGoto(i, to)
    /\ UNCHANGED <<pingCounts, pingTopic, pingPending, pingLink, open>>

\* The next byte, or an error when the peer has ended and its connection is closed.
Read(i, from, to) ==
    /\ At(i, from)
    /\ \/ /\ wire[i] # <<>>
          /\ wire' = [wire EXCEPT ![i] = Tail(@)]
          /\ inst' = [inst EXCEPT ![i].pc = to, ![i].buf = Head(wire[i])]
       \/ wire[i] = <<>> /\ At(Peer(i), "failed") /\ PingGoto(i, "failed") /\ UNCHANGED wire
    /\ UNCHANGED <<pingCounts, pingTopic, pingPending, pingLink, open>>

\* The time of the round trip runs from ping to measured.
PingPongRound(i) ==
    \/ Write(i, "ready", "await", 0)
    \/ Read(i, "await", "ping")
    \/ Write(i, "ping", "theirs", inst[i].seq)
    \/ Read(i, "theirs", "pong")
    \/ Write(i, "pong", "mine", inst[i].buf)
    \/ Read(i, "mine", "measured")

\* Mutant: the state of the round is signalled and not waited for.
MeasuredUnawaited(i) ==
    /\ At(i, "measured")
    /\ pingCounts' = [pingCounts EXCEPT ![RoundState[inst[i].round]] = @ + 1]
    /\ PingGoto(i, After[RoundState[inst[i].round]])
    /\ UNCHANGED <<pingTopic, pingPending, pingLink, wire, open>>

\* The byte that came back must be the instance's own number, and the time in the range
\* of the round.  The network stays as it is until every instance has measured.
Measured(i) ==
    /\ At(i, "measured")
    /\ \/ inst[i].buf = inst[i].seq /\ SignalAndWait(i, RoundState[inst[i].round])
       \/ (inst[i].buf # inst[i].seq \/ PingFaults) /\ PingGoto(i, "failed") /\ UNCHANGED pingCounts
    /\ UNCHANGED <<pingTopic, pingPending, pingLink, wire, open>>

Reduce(i) ==
    /\ At(i, "reduce")
    /\ pingPending' = [pingPending EXCEPT ![i] = [latency |-> 10, addr |-> pingLink[i].addr, state |-> "latency_reduced"]]
    /\ inst' = [inst EXCEPT ![i].pc = "waiting", ![i].wait = "latency_reduced", ![i].round = 2]
    /\ UNCHANGED <<pingCounts, pingTopic, pingLink, wire, open>>

PingStep(i) ==
    \/ Start(i) \/ Allocate(i) \/ Readdress(i) \/ GetPeerAddrs(i) \/ PingConnect(i)
    \/ PingPongRound(i) \/ Measured(i) \/ Reduce(i) \/ AwaitBarrier(i)

PingNext == \E i \in Pair : PingStep(i) \/ PingConfigures(i)

\* Instances run, and a sidecar serves what is published for it.  Behaviours are finite,
\* so it is enough that some step is taken while there is one.
PingFairness == WF_pingVars(PingNext)

PingSpec == PingInit /\ [][PingNext]_pingVars /\ PingFairness
-----------------------------------------------------------------------------
Measuring(i) == inst[i].pc \in {"ping", "theirs", "pong", "mine", "measured"}

\* While an instance takes the time of a round trip, the latency of that round is in
\* force on both sides (pingPong: no instance reconfigures until both are done).
\* An instance that measured got its own number back, never a byte of another step or
\* of an earlier round.
MeasuresShape ==
    /\ \A i, j \in Pair : Measuring(i) => pingLink[j].latency = Latency[inst[i].round]
    /\ \A i \in Pair : At(i, "measured") => inst[i].buf = inst[i].seq

PingFinished == ~PingFaults => \A i \in Pair : At(i, "returned")

\* If nothing fails, both instances finish (pingpong).
PingPongEnds == <>PingFinished
=============================================================================
