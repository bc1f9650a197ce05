----------------------------- MODULE PlanProofs -----------------------------
(***************************************************************************)
(* The plans whose networks the sidecars shape, for any instances, timeouts *)
(* and failures.  A barrier of the sync service counts signals.  The        *)
(* argument is about the set of the instances behind a count: the count     *)
(* never exceeds the set, so that the count that opens a barrier is that of *)
(* all, and no instance leaves the set again.                               *)
(***************************************************************************)
EXTENDS PingPong, SplitBrain, FiniteSetTheorems, TLAPS

\* A number of signals is at most the size of the set of those that have signalled.
Counts(n, S) == IsFiniteSet(S) /\ n \in Nat /\ n <= Cardinality(S)

\* A count goes up with the set it counts.
LEMMA CountKept ==
  ASSUME NEW n, NEW A, NEW B, IsFiniteSet(B), A \subseteq B, Counts(n, A) PROVE Counts(n, B)
<1>1. Cardinality(A) <= Cardinality(B) /\ Cardinality(A) \in Nat /\ Cardinality(B) \in Nat
  BY FS_Subset, FS_CardinalityType
<1> QED BY <1>1 DEF Counts

\* A count that goes up by one, for a member that was not counted, stays within the set.
LEMMA CountUp ==
  ASSUME NEW n, NEW A, NEW B, IsFiniteSet(B), A \subseteq B, Counts(n, A), NEW x \in B, x \notin A
  PROVE  Counts(n + 1, B)
<1>1. IsFiniteSet(A) /\ Cardinality(A) \in Nat /\ Cardinality(B) \in Nat
  BY FS_Subset, FS_CardinalityType
<1>2. Cardinality(A \union {x}) = Cardinality(A) + 1
  BY <1>1, FS_AddElement
<1>3. Cardinality(A \union {x}) <= Cardinality(B)
  BY FS_Subset
<1> QED BY <1>1, <1>2, <1>3 DEF Counts

\* A count that reaches the size of the whole has counted all.
LEMMA CountAll ==
  ASSUME NEW n, NEW A, NEW T, IsFiniteSet(T), A \subseteq T, Counts(n, A), n >= Cardinality(T)
  PROVE  A = T
<1>1. /\ Cardinality(A) <= Cardinality(T) /\ (Cardinality(T) = Cardinality(A) => T = A)
      /\ Cardinality(A) \in Nat /\ Cardinality(T) \in Nat
  BY FS_Subset, FS_CardinalityType
<1> QED BY <1>1 DEF Counts

-----------------------------------------------------------------------------
(* SplitBrain. *)

Signalled(i) == splitPc[i] \in {"roundup", "contacting", "complete", "returned", "failed"}
RoundedUp == {i \in SplitInstances : Signalled(i)}
Contacted(i) == splitPc[i] \in {"contacting", "complete", "returned", "failed"}
BOthers(i) == {j \in SplitInstances \ {i} : Region(j) = "B"}
Completed == {i \in SplitInstances : splitPc[i] \in {"complete", "returned", "failed"} /\ spent[i] < Deadline}
Missed(i, j) == i \in unexpected /\ (ServersLate \/ splitPc[j] = "failed")

SplitTypes ==
  /\ splitCase \in {"drop", "reject", "accept"}
  /\ splitPc \in [SplitInstances -> {"start", "finding", "configuring", "roundup", "contacting", "complete",
                                     "returned", "failed"}]
  /\ splitSeq \in [SplitInstances -> Nat] /\ spent \in [SplitInstances -> Nat]
  /\ rules \in [SplitInstances -> SUBSET SplitInstances] /\ todo \in [SplitInstances -> SUBSET SplitInstances]
  /\ nodes = {i \in SplitInstances : splitPc[i] # "start"}

\* What the sidecar of an instance has applied.
RulesInv(i) ==
  /\ splitPc[i] \in {"start", "finding"} => rules[i] = {} /\ i \notin splitPending
  /\ splitPc[i] = "configuring" => Region(i) = "A" /\ (i \notin splitPending => rules[i] = BOthers(i))
  /\ splitPc[i] = "configuring" => (i \in splitPending => rules[i] = {})
  /\ Signalled(i) => i \notin splitPending /\ rules[i] = IF Region(i) = "A" THEN BOthers(i) ELSE {}

\* Which requests an instance has made.
RequestsInv(i) ==
  /\ i \notin todo[i]
  /\ splitPc[i] \in {"configuring", "roundup"} => todo[i] = SplitInstances \ {i}
  /\ splitPc[i] \in {"complete", "returned"} => todo[i] = {}
  /\ Contacted(i) => \A j \in SplitInstances \ {i} :
       j \in todo[i] \/ expectErrors(i, j) \/ <<i, j>> \in reached \/ Missed(i, j)
  /\ \A j \in SplitInstances : <<i, j>> \in reached => Contacted(i) /\ ~expectErrors(i, j)

\* Whom an instance finds, and what it has when it returns.
OthersInv(i) ==
  /\ splitPc[i] \notin {"start", "finding"} => nodes = SplitInstances
  /\ Contacted(i) => /\ RoundedUp = SplitInstances
                     /\ \/ ServersLate
                        \/ \A j \in SplitInstances : j \in up \/ splitPc[j] \in {"returned", "failed"}
  /\ splitPc[i] = "returned" => Completed = SplitInstances /\ i \notin unexpected

SplitInv ==
  /\ SplitTypes
  /\ \A i \in SplitInstances : RulesInv(i) /\ RequestsInv(i) /\ OthersInv(i)
  /\ Counts(roundup, RoundedUp)
  /\ Counts(complete, Completed)

\* The counted sets of splitbrain are finite.
LEMMA SplitFinite == /\ IsFiniteSet(RoundedUp) /\ IsFiniteSet(RoundedUp')
                     /\ IsFiniteSet(Completed) /\ IsFiniteSet(Completed') /\ SplitN \in Nat
<1>1. /\ RoundedUp \in SUBSET SplitInstances /\ RoundedUp' \in SUBSET SplitInstances
      /\ Completed \in SUBSET SplitInstances /\ Completed' \in SUBSET SplitInstances
  BY Zenon DEF RoundedUp, Completed
<1> QED BY <1>1, FS_Subset, FS_CardinalityType, SplitAssumption, Zenon DEF SplitN

\* Once everyone has signalled, the filters are exactly those of the plan.
LEMMA FilteredAsExpected ==
  ASSUME SplitInv, RoundedUp = SplitInstances, NEW i \in SplitInstances, NEW j \in SplitInstances, i # j
  PROVE  Filtered(i, j) <=> expectErrors(i, j)
<1>1. \A k \in SplitInstances : rules[k] = IF Region(k) = "A" THEN BOthers(k) ELSE {}
  BY Zenon DEF SplitInv, RulesInv, RoundedUp
<1>2. /\ j \in rules[i] <=> Region(i) = "A" /\ Region(j) = "B"
      /\ i \in rules[j] <=> Region(j) = "A" /\ Region(i) = "B"
  BY <1>1, Zenon DEF BOthers
<1>3. Regions(i, j) = {"A", "B"} <=> (Region(i) = "A" /\ Region(j) = "B") \/ (Region(j) = "A" /\ Region(i) = "B")
  BY Zenon DEF Regions
<1> QED BY <1>2, <1>3, Zenon DEF Filtered, expectErrors

\* The types hold on, and what was signalled or completed stays so.
LEMMA SplitFrame ==
  ASSUME SplitInv, UNCHANGED splitCase, NEW i \in SplitInstances, SplitStep(i) \/ ServerUp(i) \/ SplitConfigures(i)
  PROVE  /\ SplitTypes' /\ RoundedUp \subseteq RoundedUp' /\ Completed \subseteq Completed'
         /\ \A k \in SplitInstances \ {i} : splitPc'[k] = splitPc[k]
         /\ \A k \in SplitInstances : splitPc[k] # "start" => Region(k)' = Region(k) /\ splitPc'[k] # "start"
<1> DEFINE Seated == Cardinality({j \in SplitInstances : splitSeq[j] # 0})
<1>1. Seated \in Nat
  <2>1. {j \in SplitInstances : splitSeq[j] # 0} \in SUBSET SplitInstances
    BY Zenon
  <2> QED BY <2>1, FS_Subset, FS_CardinalityType, SplitAssumption, Zenon
<1>2. SelectRegion(i) => splitSeq' = [splitSeq EXCEPT ![i] = Seated + 1]
  BY Zenon DEF SelectRegion
<1> HIDE DEF Seated
<1> USE DEF SplitInv, SplitTypes, SplitGoto
<1>3. CASE SelectRegion(i)
  <2>1. SplitTypes'
    <3>1. splitSeq' \in [SplitInstances -> Nat]
      BY <1>1, <1>2, <1>3
    <3>2. nodes' = {k \in SplitInstances : splitPc'[k] # "start"}
      BY <1>3, Zenon DEF SelectRegion
    <3> QED BY <1>3, <3>1, <3>2, Zenon DEF SelectRegion
  <2>2. \A k \in SplitInstances : splitPc[k] # "start" => splitSeq'[k] = splitSeq[k]
    BY <1>1, <1>2, <1>3, Zenon DEF SelectRegion
  <2> QED BY <1>3, <2>1, <2>2 DEF SelectRegion, RoundedUp, Signalled, Completed, Region
<1>4. CASE FoundAll(i) \/ Configured(i)
  BY <1>4 DEF FoundAll, Configured, SignalRoundup, RoundedUp, Signalled, Completed, Region
<1>5. CASE Sleep(i)
  BY <1>5, Zenon DEF Sleep, RoundedUp, Signalled, Completed, Region
<1>6. CASE Contact(i)
  <2>1. PICK j \in todo[i], t \in {0, RequestTimeout} :
              /\ todo' = [todo EXCEPT ![i] = @ \ {j}]
              /\ spent' = spent \/ spent' = [spent EXCEPT ![i] = @ + t]
              /\ UNCHANGED <<splitPc, splitSeq, nodes, rules>> /\ splitPc[i] = "contacting"
    BY <1>6, Zenon DEF Contact, FailsAfter
  <2>2. t \in Nat /\ spent' \in [SplitInstances -> Nat]
    BY <2>1, SplitAssumption
  <2> QED BY <2>1, <2>2, Zenon DEF RoundedUp, Signalled, Completed, Region
<1>7. CASE Complete(i)
  BY <1>7, Zenon DEF Complete, RoundedUp, Signalled, Completed, Region
<1>8. CASE SplitReturn(i)
  BY <1>8, Zenon DEF SplitReturn, RoundedUp, Signalled, Completed, Region
<1>9. CASE CompleteTimesOut(i)
  BY <1>9, Zenon DEF CompleteTimesOut, RoundedUp, Signalled, Completed, Region
<1>10. CASE ServerUp(i) \/ SplitConfigures(i)
  BY <1>10 DEF ServerUp, SplitConfigures, RoundedUp, Signalled, Completed, Region
<1> QED BY <1>3, <1>4, <1>5, <1>6, <1>7, <1>8, <1>9, <1>10, Zenon DEF SplitStep

\* The way of an instance.
LEMMA SplitPath ==
  ASSUME SplitInv, NEW i \in SplitInstances, SplitStep(i) \/ ServerUp(i) \/ SplitConfigures(i), NEW k \in SplitInstances
  PROVE  \/ splitPc'[k] = splitPc[k]
         \/ splitPc[k] = "start" /\ splitPc'[k] = "finding" /\ k = i
         \/ splitPc[k] = "finding" /\ splitPc'[k] \in {"configuring", "roundup"} /\ k = i /\ FoundAll(i)
         \/ splitPc[k] = "configuring" /\ splitPc'[k] = "roundup" /\ k = i /\ Configured(i)
         \/ splitPc[k] = "roundup" /\ splitPc'[k] = "contacting" /\ k = i /\ Sleep(i)
         \/ splitPc[k] = "contacting" /\ splitPc'[k] \in {"complete", "failed"} /\ k = i /\ Complete(i)
         \/ splitPc[k] = "complete" /\ splitPc'[k] \in {"returned", "failed"} /\ k = i /\ SplitReturn(i)
         \/ splitPc[k] = "complete" /\ splitPc'[k] = "failed" /\ k = i /\ CompleteTimesOut(i)
<1> USE DEF SplitInv, SplitTypes, SplitGoto
<1>1. CASE SelectRegion(i)
  BY <1>1, Zenon DEF SelectRegion
<1>2. CASE FoundAll(i) \/ Configured(i)
  BY <1>2, Zenon DEF FoundAll, Configured, SignalRoundup
<1>3. CASE Sleep(i)
  BY <1>3, Zenon DEF Sleep
<1>4. CASE Contact(i) \/ ServerUp(i) \/ SplitConfigures(i)
  BY <1>4, Zenon DEF Contact, ServerUp, SplitConfigures
<1>5. CASE Complete(i)
  BY <1>5, Zenon DEF Complete
<1>6. CASE SplitReturn(i)
  BY <1>6, Zenon DEF SplitReturn
<1>7. CASE CompleteTimesOut(i)
  BY <1>7, Zenon DEF CompleteTimesOut
<1> QED BY <1>1, <1>2, <1>3, <1>4, <1>5, <1>6, <1>7, Zenon DEF SplitStep

\* The filters: they are computed from regions that are all known by then.
LEMMA RulesStep ==
  ASSUME SplitInv, UNCHANGED splitCase, NEW i \in SplitInstances, SplitStep(i) \/ ServerUp(i) \/ SplitConfigures(i),
         NEW k \in SplitInstances
  PROVE  RulesInv(k)'
<1>1. CASE splitPc[k] \in {"start", "finding"}
  <2>0. rules[k] = {} /\ k \notin splitPending
    BY <1>1, Zenon DEF SplitInv, RulesInv
  <2>1. CASE k # i
    <3>1. splitPc'[k] = splitPc[k]
      BY <2>1, SplitFrame, Zenon
    <3>2. rules'[k] = {} /\ k \notin splitPending'
      BY <2>0, <2>1
         DEF SplitInv, SplitTypes, SplitStep, SelectRegion, FoundAll, Configured, Sleep, Contact,
             Complete,
         SplitReturn, CompleteTimesOut, ServerUp, SplitConfigures
    <3> QED BY <1>1, <3>1, <3>2, Zenon DEF RulesInv, Signalled
  <2>2. CASE k = i
    <3>1. SelectRegion(i) \/ FoundAll(i) \/ ServerUp(i)
      BY <1>1, <2>0, <2>2, Zenon
         DEF SplitStep, Configured, Sleep, Contact, Complete, SplitReturn, CompleteTimesOut,
             SplitConfigures
    <3>2. CASE SelectRegion(i) \/ ServerUp(i)
      BY <1>1, <2>0, <2>2, <3>2, Zenon
         DEF SplitInv, SplitTypes, RulesInv, Signalled, SelectRegion, ServerUp, SplitGoto
    <3>3. CASE FoundAll(i)
      <4>1. rules'[i] = {} /\ Region(i)' = Region(i)
        BY <2>0, <2>2, <3>3, Zenon DEF FoundAll, Region
      <4>2. CASE Region(i) = "A"
        BY <2>2, <3>3, <4>1, <4>2, Zenon
           DEF SplitInv, SplitTypes, RulesInv, Signalled, FoundAll, SplitGoto
      <4>3. CASE Region(i) # "A"
        BY <2>0, <2>2, <3>3, <4>1, <4>3, Zenon
           DEF SplitInv, SplitTypes, RulesInv, Signalled, FoundAll, SplitGoto, SignalRoundup
      <4> QED BY <4>2, <4>3, Zenon
    <3> QED BY <3>1, <3>2, <3>3, Zenon
  <2> QED BY <2>1, <2>2, Zenon
<1>2. CASE splitPc[k] \notin {"start", "finding"}
  <2>0. \A j \in SplitInstances : Region(j)' = Region(j)
    <3>1. \A j \in SplitInstances : splitPc[j] # "start"
      BY <1>2, Zenon DEF SplitInv, SplitTypes, OthersInv
    <3> QED BY <3>1, SplitFrame, Zenon
  <2>1. BOthers(k)' = BOthers(k)
    BY <2>0, Zenon DEF BOthers
  <2>2. CASE SplitConfigures(i) /\ k = i
    <3>1. splitPc[k] = "configuring" /\ splitPc' = splitPc
      BY <1>2, <2>2, Zenon DEF SplitInv, SplitTypes, RulesInv, Signalled, SplitConfigures
    <3>2. k \notin splitPending' /\ rules'[k] = BOthers(k)
      BY <2>2, Zenon DEF SplitInv, SplitTypes, SplitConfigures, BOthers
    <3> QED BY <2>0, <2>1, <3>1, <3>2, Zenon DEF SplitInv, RulesInv, Signalled
  <2>3. CASE ~(SplitConfigures(i) /\ k = i)
    <3>1. rules'[k] = rules[k]
      BY <2>3, Zenon
         DEF SplitInv, SplitTypes, SplitStep, SelectRegion, FoundAll, Configured, Sleep, Contact,
             Complete,
         SplitReturn, CompleteTimesOut, ServerUp, SplitConfigures
    <3>2. k \in splitPending' <=> k \in splitPending
      BY <1>2, <2>3, Zenon
         DEF SplitStep, SelectRegion, FoundAll, Configured, Sleep, Contact, Complete,
         SplitReturn, CompleteTimesOut, ServerUp, SplitConfigures
    <3>3. CASE Configured(i) /\ k = i
      <4>1. splitPc[k] = "configuring" /\ k \notin splitPending /\ splitPc'[k] = "roundup"
        BY <3>3, Zenon DEF SplitInv, SplitTypes, Configured, SignalRoundup, SplitGoto
      <4> QED BY <2>0, <2>1, <3>1, <3>2, <4>1, Zenon DEF SplitInv, RulesInv, Signalled
    <3>4. CASE ~(Configured(i) /\ k = i)
      <4>1. splitPc'[k] = splitPc[k] \/ (Signalled(k) /\ Signalled(k)')
        BY <1>2, <3>4, SplitPath, Zenon DEF Signalled
      <4> QED BY <1>2, <2>0, <2>1, <3>1, <3>2, <4>1, Zenon DEF SplitInv, RulesInv, Signalled
    <3> QED BY <3>3, <3>4, Zenon
  <2> QED BY <2>2, <2>3, Zenon
<1> QED BY <1>1, <1>2, Zenon

\* What a request of i finds.
LEMMA ContactFinds ==
  ASSUME SplitInv, NEW i \in SplitInstances, splitPc[i] = "contacting", NEW j \in todo[i]
  PROVE  /\ j \in SplitInstances \ {i} /\ (Filtered(i, j) <=> expectErrors(i, j))
         /\ ~Filtered(i, j) /\ j \notin up => ServersLate \/ splitPc[j] = "failed"
<1>1. j \in SplitInstances \ {i} /\ RoundedUp = SplitInstances
  BY Zenon DEF SplitInv, SplitTypes, RequestsInv, OthersInv, Contacted
<1>2. Filtered(i, j) <=> expectErrors(i, j)
  BY <1>1, FilteredAsExpected, Zenon
<1>3. ASSUME j \notin up, ~ServersLate PROVE splitPc[j] = "failed"
  <2>1. splitPc[j] \in {"returned", "failed"}
    BY <1>1, <1>3, Zenon DEF SplitInv, OthersInv, Contacted
  <2>2. i \notin Completed
    BY Zenon DEF Completed
  <2> QED BY <1>1, <2>1, <2>2, Zenon DEF SplitInv, OthersInv
<1> QED BY <1>1, <1>2, <1>3, Zenon

\* The requests.
LEMMA RequestsStep ==
  ASSUME SplitInv, UNCHANGED splitCase, NEW i \in SplitInstances, SplitStep(i) \/ ServerUp(i) \/ SplitConfigures(i),
         NEW k \in SplitInstances
  PROVE  RequestsInv(k)'
<1>1. ASSUME Contacted(k), NEW j \in SplitInstances PROVE expectErrors(k, j)' <=> expectErrors(k, j)
  <2>1. RoundedUp = SplitInstances
    BY <1>1, Zenon DEF SplitInv, OthersInv
  <2>2. \A x \in SplitInstances : Region(x)' = Region(x)
    <3>1. \A x \in SplitInstances : splitPc[x] # "start"
      BY <2>1, Zenon DEF RoundedUp, Signalled
    <3> QED BY <3>1, SplitFrame, Zenon
  <2> QED BY <2>2, Zenon DEF expectErrors, Regions
<1>2. \A j \in SplitInstances : Missed(k, j) => Missed(k, j)'
  <2>1. \A j \in SplitInstances : splitPc[j] = "failed" => splitPc'[j] = "failed"
    BY SplitPath, Zenon
  <2>2. unexpected \subseteq unexpected'
    BY DEF SplitStep, SelectRegion, FoundAll, Configured, Sleep, Contact, Complete, SplitReturn, CompleteTimesOut,
           ServerUp, SplitConfigures
  <2> QED BY <2>1, <2>2, Zenon DEF Missed
<1>3. CASE Contact(i) /\ k = i
  <2>1. splitPc[k] = "contacting" /\ splitPc' = splitPc
    BY <1>3, Zenon DEF Contact
  <2>2. PICK j \in todo[i] :
               /\ todo' = [todo EXCEPT ![i] = @ \ {j}]
               /\ IF Filtered(i, j) \/ j \notin up THEN reached' = reached ELSE reached' = reached \union {<<i, j>>}
               /\ (Filtered(i, j) \/ j \notin up) /\ ~expectErrors(i, j) => i \in unexpected'
    BY <1>3, Zenon DEF Contact
  <2>3. /\ j \in SplitInstances \ {i} /\ (Filtered(i, j) <=> expectErrors(i, j))
        /\ ~Filtered(i, j) /\ j \notin up => ServersLate \/ splitPc[j] = "failed"
    BY <1>3, <2>1, ContactFinds, Zenon
  <2>4. todo'[k] = todo[k] \ {j} /\ Contacted(k) /\ Contacted(k)'
    BY <1>3, <2>1, <2>2, Zenon DEF SplitInv, SplitTypes, Contacted
  <2>5. ASSUME NEW x \in SplitInstances \ {k}
        PROVE  x \in todo'[k] \/ expectErrors(k, x)' \/ <<k, x>> \in reached' \/ Missed(k, x)'
    <3>1. CASE x = j
      BY <1>1, <1>3, <2>1, <2>2, <2>3, <2>4, <3>1 DEF Missed
    <3>2. CASE x # j
      BY <1>1, <1>2, <1>3, <2>2, <2>4, <3>2 DEF SplitInv, RequestsInv
    <3> QED BY <3>1, <3>2, Zenon
  <2>6. ASSUME NEW x \in SplitInstances, <<k, x>> \in reached' PROVE ~expectErrors(k, x)'
    <3>1. <<k, x>> \in reached \/ (x = j /\ ~Filtered(i, j))
      BY <1>3, <2>2, <2>6
    <3> QED BY <1>1, <1>3, <2>3, <2>4, <3>1, Zenon DEF SplitInv, RequestsInv
  <2> QED BY <2>1, <2>4, <2>5, <2>6, Zenon DEF SplitInv, RequestsInv
<1>4. CASE ~(Contact(i) /\ k = i)
  <2>1. \A x \in SplitInstances : <<k, x>> \in reached' <=> <<k, x>> \in reached
    BY <1>4 DEF SplitStep, SelectRegion, FoundAll, Configured, Sleep, Contact, Complete,
       SplitReturn, CompleteTimesOut, ServerUp, SplitConfigures
  <2>2. CASE FoundAll(i) /\ k = i
    <3>1. todo'[k] = SplitInstances \ {k} /\ splitPc'[k] \in {"configuring", "roundup"} /\ ~Contacted(k)
      BY <2>2, Zenon DEF SplitInv, SplitTypes, FoundAll, SignalRoundup, SplitGoto, Contacted
    <3> QED BY <2>1, <3>1, Zenon DEF SplitInv, RequestsInv, Contacted
  <2>3. CASE ~(FoundAll(i) /\ k = i)
    <3>1. todo'[k] = todo[k]
      BY <1>4, <2>3, Zenon
         DEF SplitInv, SplitTypes, SplitStep, SelectRegion, FoundAll, Configured, Sleep, Contact,
             Complete,
         SplitReturn, CompleteTimesOut, ServerUp, SplitConfigures
    <3>2. \/ splitPc'[k] = splitPc[k]
          \/ splitPc[k] = "start" /\ splitPc'[k] = "finding"
          \/ splitPc[k] = "configuring" /\ splitPc'[k] = "roundup"
          \/ splitPc[k] = "roundup" /\ splitPc'[k] = "contacting"
          \/ splitPc[k] = "contacting" /\ todo[k] = {} /\ splitPc'[k] \in {"complete", "failed"}
          \/ splitPc[k] = "complete" /\ splitPc'[k] \in {"returned", "failed"}
      BY <2>3, SplitPath DEF Complete
    <3> QED BY <1>1, <1>2, <2>1, <3>1, <3>2 DEF SplitInv, RequestsInv, Contacted
  <2> QED BY <2>2, <2>3, Zenon
<1> QED BY <1>3, <1>4, Zenon

\* The others.
LEMMA OthersStep ==
  ASSUME SplitInv, UNCHANGED splitCase, NEW i \in SplitInstances, SplitStep(i) \/ ServerUp(i) \/ SplitConfigures(i),
         NEW k \in SplitInstances
  PROVE  OthersInv(k)'
<1>0. SplitTypes' /\ RoundedUp \subseteq RoundedUp' /\ Completed \subseteq Completed'
  BY SplitFrame, Zenon
<1>1. splitPc'[k] \notin {"start", "finding"} => nodes' = SplitInstances
  <2>1. splitPc[k] \notin {"start", "finding"} => nodes = SplitInstances
    BY Zenon DEF SplitInv, OthersInv
  <2>2. nodes = SplitInstances => nodes' = SplitInstances
    BY <1>0, SplitFrame, Zenon DEF SplitInv, SplitTypes
  <2> QED BY <2>1, <2>2, SplitPath, Zenon DEF FoundAll
<1>2. ASSUME Contacted(k)'
      PROVE  /\ RoundedUp' = SplitInstances
             /\ ServersLate \/ \A j \in SplitInstances : j \in up' \/ splitPc'[j] \in {"returned", "failed"}
  <2>1. /\ RoundedUp = SplitInstances
        /\ ServersLate \/ \A j \in SplitInstances : j \in up \/ splitPc[j] \in {"returned", "failed"}
    <3>1. CASE Sleep(i)
      BY <3>1, CountAll, SplitAssumption, Zenon DEF SplitInv, Sleep, SplitN, RoundedUp
    <3>2. CASE Contacted(k)
      BY <3>2, Zenon DEF SplitInv, OthersInv
    <3> QED BY <1>2, <3>1, <3>2, SplitPath, Zenon DEF Contacted
  <2>2. ASSUME ~ServersLate, NEW j \in SplitInstances PROVE j \in up' \/ splitPc'[j] \in {"returned", "failed"}
    BY <2>1, <2>2, Zenon DEF SplitInv, SplitTypes, SplitStep, SelectRegion, FoundAll, Configured, Sleep,
       Contact, Complete, SplitReturn, CompleteTimesOut, ServerUp, SplitConfigures,
       SignalRoundup, SplitGoto
  <2> QED BY <1>0, <2>1, <2>2, Zenon DEF RoundedUp
<1>3. ASSUME splitPc'[k] = "returned" PROVE Completed' = SplitInstances
  <2>1. CASE SplitReturn(i)
    BY <1>0, <2>1, CountAll, SplitAssumption, Zenon DEF SplitInv, SplitReturn, SplitN, Completed
  <2>2. CASE splitPc[k] = "returned"
    BY <1>0, <2>2, Zenon DEF SplitInv, OthersInv, Completed
  <2> QED BY <1>3, <2>1, <2>2, SplitPath, Zenon
<1>4. ASSUME splitPc'[k] = "returned" PROVE k \notin unexpected'
  <2>1. CASE SplitReturn(i) /\ k = i
    BY <1>4, <2>1, Zenon DEF SplitInv, SplitTypes, SplitReturn, SplitGoto
  <2>2. CASE splitPc[k] = "returned"
    <3>1. k \notin unexpected
      BY <2>2, Zenon DEF SplitInv, OthersInv
    <3> QED BY <2>2, <3>1 DEF SplitStep, SelectRegion, FoundAll, Configured, Sleep, Contact, Complete, SplitReturn,
               CompleteTimesOut, ServerUp, SplitConfigures
  <2> QED BY <1>4, <2>1, <2>2, SplitPath, Zenon
<1> QED BY <1>1, <1>2, <1>3, <1>4, Zenon DEF OthersInv

\* The signals.
LEMMA SplitCounts ==
  ASSUME SplitInv, UNCHANGED splitCase, NEW i \in SplitInstances, SplitStep(i) \/ ServerUp(i) \/ SplitConfigures(i)
  PROVE  Counts(roundup, RoundedUp)' /\ Counts(complete, Completed)'
<1>0. RoundedUp \subseteq RoundedUp' /\ Completed \subseteq Completed'
  BY SplitFrame, Zenon
<1>1. Counts(roundup, RoundedUp)'
  <2>1. CASE roundup' = roundup
    BY <1>0, <2>1, CountKept, SplitFinite, Zenon DEF SplitInv
  <2>2. CASE roundup' = roundup + 1 /\ splitPc'[i] = "roundup" /\ splitPc[i] \in {"finding", "configuring"}
    BY <1>0, <2>2, CountUp, SplitFinite, Zenon DEF SplitInv, RoundedUp, Signalled
  <2> QED BY <2>1, <2>2, Zenon
             DEF SplitInv, SplitTypes, SplitStep, SelectRegion, FoundAll, Configured, Sleep,
                 Contact,
     Complete, SplitReturn, CompleteTimesOut, ServerUp, SplitConfigures, SignalRoundup, SplitGoto
<1>2. Counts(complete, Completed)'
  <2>1. CASE complete' = complete
    BY <1>0, <2>1, CountKept, SplitFinite, Zenon DEF SplitInv
  <2>2. CASE complete' = complete + 1 /\ Complete(i)
    <3>1. i \in Completed' /\ i \notin Completed
      BY <2>2 DEF SplitInv, SplitTypes, Complete, SplitGoto, Completed, Counts
    <3> QED BY <1>0, <2>2, <3>1, CountUp, SplitFinite, Zenon DEF SplitInv
  <2> QED BY <2>1, <2>2, Zenon DEF SplitStep, SelectRegion, FoundAll, Configured, Sleep, Contact,
     Complete, SplitReturn, CompleteTimesOut, ServerUp, SplitConfigures
<1> QED BY <1>1, <1>2, Zenon

\* Every step of splitbrain keeps the invariant.
LEMMA SplitInductive == SplitInv /\ [SplitNext]_splitVars => SplitInv'
<1> SUFFICES ASSUME SplitInv, [SplitNext]_splitVars PROVE SplitInv'
  BY Zenon
<1>1. CASE SplitNext
  BY <1>1, SplitFrame, RulesStep, RequestsStep, OthersStep, SplitCounts, Zenon
     DEF SplitNext, SplitInv
<1>2. CASE UNCHANGED splitVars
  <2> USE <1>2 DEF SplitInv, splitVars
  <2>1. SplitTypes' /\ Counts(roundup, RoundedUp)' /\ Counts(complete, Completed)'
    BY Zenon DEF SplitTypes, Counts, RoundedUp, Signalled, Completed
  <2>2. ASSUME NEW i \in SplitInstances PROVE RulesInv(i)'
    BY Zenon DEF RulesInv, Signalled, BOthers, Region
  <2>3. ASSUME NEW i \in SplitInstances PROVE RequestsInv(i)'
    BY Zenon DEF RequestsInv, Missed, Contacted, expectErrors, Regions, Region
  <2>4. ASSUME NEW i \in SplitInstances PROVE OthersInv(i)'
    BY Zenon DEF OthersInv, Contacted, RoundedUp, Signalled, Completed
  <2> QED BY <2>1, <2>2, <2>3, <2>4, Zenon
<1> QED BY <1>1, <1>2, Zenon

\* No filter and no request exists when splitbrain starts.
LEMMA SplitInitially == SplitInit => SplitInv
<1> SUFFICES ASSUME SplitInit PROVE SplitInv
  BY Zenon
<1>1. Counts(roundup, RoundedUp) /\ Counts(complete, Completed)
  BY SplitFinite, FS_CardinalityType DEF SplitInit, Counts
<1> QED BY <1>1, Zenon
           DEF SplitInit, SplitInv, SplitTypes, RulesInv, RequestsInv, OthersInv, Signalled,
               Contacted

\* Splitbrain (routeFilter) keeps its invariant, for any number of instances and any timeouts.
THEOREM SplitInvariant == SplitSpec => []SplitInv
BY SplitInitially, SplitInductive, PTL DEF SplitSpec

\* What the invariant says of who has reached whom.
LEMMA SplitNetworks == SplitInv => NetworkSplit
<1> SUFFICES ASSUME SplitInv, NEW i \in SplitInstances, splitPc[i] \in {"complete", "returned"},
                    NEW j \in SplitInstances \ {i}
             PROVE  /\ <<i, j>> \in reached => ~expectErrors(i, j)
                    /\ ~expectErrors(i, j) => <<i, j>> \in reached \/ (splitPc[i] # "returned" /\ Missed(i, j))
  BY Zenon DEF NetworkSplit, Missed
<1>1. splitPc[i] = "returned" => ~Missed(i, j)
  BY Zenon DEF SplitInv, OthersInv, Missed
<1> QED BY <1>1, Zenon DEF SplitInv, RequestsInv, Contacted

\* An instance of splitbrain that is done has reached exactly those that its region may
\* reach; one that missed another, which was gone or late, does not return without an
\* error (routeFilter).
THEOREM SplitsAsExpected == SplitSpec => []NetworkSplit
BY SplitInvariant, SplitNetworks, PTL
-----------------------------------------------------------------------------
(* PingPong. *)

PingBarriers == {"network_configured", "ip_allocation", "ip_changed", "listening", "got_other_addrs", "ping_pong_200",
             "latency_reduced", "ping_pong_10"}
InRound == {"ready", "await", "ping", "theirs", "pong", "mine", "measured"}
Places == InRound \union {"start", "allocate", "readdress", "announce", "publish", "exchange", "connect", "reduce",
                          "returned", "failed"}

\* Where an instance is: at a barrier, or at a step between two of them.
Where(i) == IF inst[i].pc = "waiting" THEN inst[i].wait ELSE inst[i].pc
Early(i) == Where(i) \in {"start", "network_configured", "allocate"}
FirstDone(i) == Where(i) \in {"failed", "ping_pong_200", "reduce"} \/ inst[i].round = 2

Shaped == {i \in Pair : pingLink[i].latency # 0}
Reduced == {i \in Pair : pingLink[i].latency = 10}
Numbered == {i \in Pair : ~Early(i)}
MeasuredOnce == {i \in Pair : FirstDone(i)}

InstType == [pc : Places \union {"waiting"}, wait : PingBarriers \union {"none"}, seq : Nat, buf : Nat, round : {1, 2}]

PingTypes ==
  /\ pingCounts \in [PingBarriers -> Nat]
  /\ inst \in [Pair -> InstType]
  /\ \A i \in Pair : inst[i].pc = "waiting" => inst[i].wait \in PingBarriers
  /\ pingPending \in [Pair -> [latency : {0, 10, 100}, addr : Nat, state : PingBarriers \union {"none"}]]
  /\ pingLink \in [Pair -> [latency : {0, 10, 100}, addr : Nat]]
  /\ wire \in [Pair -> Seq(Nat)]

\* Instance i goes on and no other does.
InstMoves(i) ==
  /\ inst' \in [Pair -> InstType]
  /\ \A k \in Pair \ {i} : inst'[k] = inst[k]
  /\ \A k \in Pair : inst'[k].pc = "waiting" => inst'[k].wait \in PingBarriers

\* A configuration that waits for the sidecar changes the latency once.
PendingInv(i) ==
  \/ pingPending[i] = NoConfig
  \/ pingPending[i].state = "network_configured" /\ pingPending[i].latency = 100 /\ pingLink[i].latency = 0
  \/ pingPending[i].state = "ip_changed" /\ pingPending[i].latency = 100 /\ pingLink[i].latency = 100
  \/ /\ pingPending[i].state = "latency_reduced" /\ pingPending[i].latency = 10 /\ pingLink[i].latency = 100
     /\ inst[i].round = 2

\* The place of an instance tells its round, and what all the others have done.
PlaceInv(i) ==
  /\ Where(i) = "start" => pingLink[i].latency = 0 /\ pingPending[i] = NoConfig
  /\ pingLink[i].latency = 10 => inst[i].round = 2
  /\ Where(i) \in {"start", "network_configured", "allocate", "ip_allocation", "readdress", "ip_changed", "announce",
                   "listening", "publish", "exchange", "got_other_addrs", "connect", "ping_pong_200", "reduce"}
       => inst[i].round = 1
  /\ Where(i) \in {"latency_reduced", "ping_pong_10", "returned"} => inst[i].round = 2
  /\ Where(i) \notin {"start", "network_configured", "failed"} => Shaped = Pair
  /\ ~Early(i) /\ Where(i) \notin {"ip_allocation", "failed"} => Numbered = Pair
  /\ inst[i].round = 2 \/ Where(i) = "reduce" => MeasuredOnce = Pair
  /\ inst[i].round = 2 /\ Where(i) \in InRound \union {"ping_pong_10", "returned"} => Reduced = Pair

\* How many bytes an instance has read and written, and what the bytes on its wire are.
Reads(i) ==
  3 * (inst[i].round - 1) +
  (IF Where(i) \in {"ping", "theirs"} THEN 1
   ELSE IF Where(i) \in {"pong", "mine"} THEN 2
   ELSE IF Where(i) \in {"measured", "ping_pong_200", "reduce", "ping_pong_10", "returned"} THEN 3 ELSE 0)
Writings(i) ==
  3 * (inst[i].round - 1) +
  (IF Where(i) \in {"await", "ping"} THEN 1
   ELSE IF Where(i) \in {"theirs", "pong"} THEN 2
   ELSE IF Where(i) \in {"mine", "measured", "ping_pong_200", "reduce", "ping_pong_10", "returned"} THEN 3 ELSE 0)
Byte(i, n) == IF n % 3 = 1 THEN 0 ELSE IF n % 3 = 2 THEN inst[Peer(i)].seq ELSE inst[i].seq

ByteInv(i) ==
  /\ Early(i) => wire[i] = <<>> /\ wire[Peer(i)] = <<>>
  /\ Where(i) # "failed" =>
       /\ \A k \in 1 .. Len(wire[i]) : wire[i][k] = Byte(i, Reads(i) + k)
       /\ Where(i) \in {"ping", "pong", "measured"} => inst[i].buf = Byte(i, Reads(i))
       /\ Where(Peer(i)) # "failed" => Reads(i) + Len(wire[i]) = Writings(Peer(i))

LatencyInv ==
  /\ PingTypes
  /\ \A i \in Pair : PendingInv(i) /\ PlaceInv(i)
  /\ Counts(pingCounts["network_configured"], Shaped)
  /\ Counts(pingCounts["ip_allocation"], Numbered)
  /\ Counts(pingCounts["ping_pong_200"], MeasuredOnce)
  /\ Counts(pingCounts["latency_reduced"], Reduced)

PingInv == LatencyInv /\ \A i \in Pair : ByteInv(i)

\* The barriers of ping-pong and the step after each.
LEMMA Barrier == /\ DOMAIN After = PingBarriers
                 /\ After["network_configured"] = "allocate" /\ After["ip_allocation"] = "readdress"
                 /\ After["ip_changed"] = "announce" /\ After["listening"] = "publish"
                 /\ After["got_other_addrs"] = "connect" /\ After["ping_pong_200"] = "reduce"
                 /\ After["latency_reduced"] = "ready" /\ After["ping_pong_10"] = "returned"
BY Zenon DEF After, PingBarriers

\* The pair has two members, and each is the peer of the other.
LEMMA PeerFacts ==
  ASSUME NEW i \in Pair
  PROVE  /\ Peer(i) \in Pair /\ Peer(i) # i /\ Peer(Peer(i)) = i
         /\ \A k \in Pair : k = i \/ k = Peer(i)
<1>1. IsFiniteSet(Pair \ {i}) /\ Cardinality(Pair \ {i}) = 1
  BY FS_RemoveElement, PairAssumption
<1>2. PICK j : Pair \ {i} = {j}
  BY <1>1, FS_Singleton, Zenon
<1>3. j \in Pair /\ j # i /\ \A k \in Pair : k # i <=> k = j
  BY <1>2, Zenon
<1>4. Peer(i) = j
  BY <1>3, Zenon DEF Peer
<1>5. \A k \in Pair : k # j <=> k = i
  BY <1>3, Zenon
<1>6. Peer(j) = i
  BY <1>5, Zenon DEF Peer
<1> QED BY <1>3, <1>4, <1>6, Zenon

\* The counted sets of ping-pong are finite.
LEMMA PingFinite == /\ IsFiniteSet(Shaped) /\ IsFiniteSet(Shaped') /\ IsFiniteSet(Reduced) /\ IsFiniteSet(Reduced')
                    /\ IsFiniteSet(Numbered) /\ IsFiniteSet(Numbered')
                    /\ IsFiniteSet(MeasuredOnce) /\ IsFiniteSet(MeasuredOnce')
<1>1. /\ Shaped \in SUBSET Pair /\ Shaped' \in SUBSET Pair /\ Reduced \in SUBSET Pair /\ Reduced' \in SUBSET Pair
      /\ Numbered \in SUBSET Pair /\ Numbered' \in SUBSET Pair
      /\ MeasuredOnce \in SUBSET Pair /\ MeasuredOnce' \in SUBSET Pair
  BY Zenon DEF Shaped, Reduced, Numbered, MeasuredOnce
<1> QED BY <1>1, FS_Subset, PairAssumption, Zenon
-----------------------------------------------------------------------------
\* What the operators that move an instance do to it.
LEMMA InstSet ==
  ASSUME PingTypes, NEW i \in Pair, NEW r \in InstType, r.pc = "waiting" => r.wait \in PingBarriers,
         inst' = [inst EXCEPT ![i] = r]
  PROVE  InstMoves(i) /\ inst'[i] = r
BY DEF PingTypes, InstMoves

\* PingGoto changes the place alone.
LEMMA GotoFacts ==
  ASSUME PingTypes, NEW i \in Pair, NEW p \in Places, PingGoto(i, p)
  PROVE  /\ InstMoves(i) /\ Where(i)' = p
         /\ inst'[i].round = inst[i].round /\ inst'[i].seq = inst[i].seq /\ inst'[i].buf = inst[i].buf
<1> DEFINE r == [inst[i] EXCEPT !.pc = p]
<1>1. inst' = [inst EXCEPT ![i] = r]
  BY Zenon DEF PingGoto
<1>2. inst[i] \in InstType /\ p # "waiting"
  BY DEF PingTypes, Places, InRound
<1>3. r \in InstType /\ r.pc = p /\ r.seq = inst[i].seq /\ r.buf = inst[i].buf /\ r.round = inst[i].round
  BY <1>2, Zenon DEF InstType
<1> HIDE DEF r
<1>4. InstMoves(i) /\ inst'[i] = r
  BY <1>1, <1>2, <1>3, InstSet, Zenon
<1> QED BY <1>2, <1>3, <1>4, Zenon DEF Where

\* SignalAndWait takes an instance to the barrier that it signals.
LEMMA SignalFacts ==
  ASSUME PingTypes, NEW i \in Pair, NEW s \in PingBarriers, SignalAndWait(i, s)
  PROVE  /\ InstMoves(i) /\ Where(i)' = s
         /\ inst'[i].round = inst[i].round /\ inst'[i].buf = inst[i].buf
         /\ s # "ip_allocation" => inst'[i].seq = inst[i].seq
         /\ pingCounts' = [pingCounts EXCEPT ![s] = pingCounts[s] + 1] /\ pingCounts' \in [PingBarriers -> Nat]
<1> DEFINE n == IF s = "ip_allocation" THEN pingCounts[s] + 1 ELSE inst[i].seq
<1> DEFINE r == [inst[i] EXCEPT !.pc = "waiting", !.wait = s, !.seq = n]
<1>1. inst' = [inst EXCEPT ![i] = r] /\ pingCounts' = [pingCounts EXCEPT ![s] = pingCounts[s] + 1]
  BY Zenon DEF SignalAndWait
<1>2. inst[i] \in InstType /\ n \in Nat /\ (s # "ip_allocation" => n = inst[i].seq)
  BY DEF PingTypes, InstType
<1> HIDE DEF n
<1>3. /\ r \in InstType /\ r.pc = "waiting" /\ r.wait = s /\ r.seq = n /\ r.buf = inst[i].buf
      /\ r.round = inst[i].round
  BY <1>2, Zenon DEF InstType
<1> HIDE DEF r
<1>4. InstMoves(i) /\ inst'[i] = r
  BY <1>1, <1>3, InstSet, Zenon
<1>5. pingCounts' \in [PingBarriers -> Nat]
  BY <1>1 DEF PingTypes
<1> QED BY <1>1, <1>2, <1>3, <1>4, <1>5, Zenon DEF Where

\* ConfigureNetwork takes an instance to the barrier of its callback.
LEMMA ConfigureFacts ==
  ASSUME PingTypes, NEW i \in Pair, NEW s \in PingBarriers,
         inst' = [inst EXCEPT ![i].pc = "waiting", ![i].wait = s]
  PROVE  /\ InstMoves(i) /\ Where(i)' = s
         /\ inst'[i].round = inst[i].round /\ inst'[i].buf = inst[i].buf /\ inst'[i].seq = inst[i].seq
<1> DEFINE r == [inst[i] EXCEPT !.pc = "waiting", !.wait = s]
<1>1. inst' = [inst EXCEPT ![i] = r]
  BY Zenon
<1>2. inst[i] \in InstType
  BY Zenon DEF PingTypes
<1>3. /\ r \in InstType /\ r.pc = "waiting" /\ r.wait = s /\ r.seq = inst[i].seq /\ r.buf = inst[i].buf
      /\ r.round = inst[i].round
  BY <1>2, Zenon DEF InstType
<1> HIDE DEF r
<1>4. InstMoves(i) /\ inst'[i] = r
  BY <1>1, <1>3, InstSet, Zenon
<1> QED BY <1>3, <1>4, Zenon DEF Where

\* The second configuration starts the second round.
LEMMA ReduceFacts ==
  ASSUME PingTypes, NEW i \in Pair, NEW s \in PingBarriers,
         inst' = [inst EXCEPT ![i].pc = "waiting", ![i].wait = s, ![i].round = 2]
  PROVE  /\ InstMoves(i) /\ Where(i)' = s
         /\ inst'[i].round = 2 /\ inst'[i].buf = inst[i].buf /\ inst'[i].seq = inst[i].seq
<1> DEFINE r == [inst[i] EXCEPT !.pc = "waiting", !.wait = s, !.round = 2]
<1>1. inst' = [inst EXCEPT ![i] = r]
  BY Zenon
<1>2. inst[i] \in InstType
  BY Zenon DEF PingTypes
<1>3. /\ r \in InstType /\ r.pc = "waiting" /\ r.wait = s /\ r.seq = inst[i].seq /\ r.buf = inst[i].buf
      /\ r.round = 2
  BY <1>2, Zenon DEF InstType
<1> HIDE DEF r
<1>4. InstMoves(i) /\ inst'[i] = r
  BY <1>1, <1>3, InstSet, Zenon
<1> QED BY <1>3, <1>4, Zenon DEF Where

\* A byte that is read goes into the buffer.
LEMMA ReadFacts ==
  ASSUME PingTypes, NEW i \in Pair, NEW p \in Places, NEW b \in Nat, inst' = [inst EXCEPT ![i].pc = p, ![i].buf = b]
  PROVE  /\ InstMoves(i) /\ Where(i)' = p
         /\ inst'[i].round = inst[i].round /\ inst'[i].seq = inst[i].seq /\ inst'[i].buf = b
<1> DEFINE r == [inst[i] EXCEPT !.pc = p, !.buf = b]
<1>1. inst' = [inst EXCEPT ![i] = r]
  BY Zenon
<1>2. inst[i] \in InstType /\ p # "waiting"
  BY DEF PingTypes, Places, InRound
<1>3. r \in InstType /\ r.pc = p /\ r.seq = inst[i].seq /\ r.buf = b /\ r.round = inst[i].round
  BY <1>2, Zenon DEF InstType
<1> HIDE DEF r
<1>4. InstMoves(i) /\ inst'[i] = r
  BY <1>1, <1>2, <1>3, InstSet, Zenon
<1> QED BY <1>2, <1>3, <1>4 DEF Where

\* The steps that no latency depends on, and how an instance goes from place to place.
Onward ==
  {<<"announce", "listening">>, <<"publish", "exchange">>, <<"exchange", "got_other_addrs">>, <<"connect", "ready">>,
   <<"ready", "await">>, <<"await", "ping">>, <<"ping", "theirs">>, <<"theirs", "pong">>, <<"pong", "mine">>,
   <<"mine", "measured">>}
Keeps == UNCHANGED <<pingPending, pingCounts>>
Configures(i, s, l) ==
  /\ pingCounts' = pingCounts
  /\ \E a \in Nat : pingPending' = [pingPending EXCEPT ![i] = [latency |-> l, addr |-> a, state |-> s]]
Signals(s) == pingPending' = pingPending /\ pingCounts' = [pingCounts EXCEPT ![s] = pingCounts[s] + 1]
Path(i) ==
  \/ Where(i) = "start" /\ Where(i)' = "network_configured" /\ Configures(i, "network_configured", 100)
  \/ Where(i) = "allocate" /\ Where(i)' = "ip_allocation" /\ Signals("ip_allocation")
  \/ Where(i) = "readdress" /\ Where(i)' = "ip_changed" /\ Configures(i, "ip_changed", 100)
  \/ <<Where(i), Where(i)'>> \in Onward /\ (Keeps \/ Signals("listening") \/ Signals("got_other_addrs"))
  \/ Where(i) = "measured" /\ Where(i)' = "ping_pong_200" /\ inst[i].round = 1 /\ Signals("ping_pong_200")
  \/ Where(i) = "measured" /\ Where(i)' = "ping_pong_10" /\ inst[i].round = 2 /\ Signals("ping_pong_10")
  \/ Where(i) = "reduce" /\ Where(i)' = "latency_reduced" /\ Configures(i, "latency_reduced", 10)
  \/ /\ Where(i) \in PingBarriers /\ pingCounts[Where(i)] >= PingN /\ Where(i)' = After[Where(i)] /\ Keeps
     /\ inst[i].pc = "waiting"
  \/ Where(i)' = "failed" /\ Keeps

\* An instance between two barriers is where its program counter is.
LEMMA AtIsWhere == ASSUME NEW i, NEW p, At(i, p), p # "waiting" PROVE Where(i) = p
BY Zenon DEF At, Where

\* Every step of an instance takes it along the plan, with the signal or configuration that
\* belongs there.
LEMMA PingPath ==
  ASSUME PingTypes, NEW i \in Pair, PingStep(i)
  PROVE  /\ InstMoves(i) /\ Path(i) /\ pingLink' = pingLink
         /\ inst'[i].round = IF Where(i) = "reduce" /\ Where(i)' # "failed" THEN 2 ELSE inst[i].round
         /\ Where(i) # "allocate" => inst'[i].seq = inst[i].seq
         /\ ~PingPongRound(i) => /\ wire' = wire /\ inst'[i].buf = inst[i].buf
                                 /\ Where(i) \notin {"ready", "await", "ping", "theirs", "pong", "mine"}
<1> USE DEF Places, InRound, PingBarriers
<1>0. inst[i] \in InstType /\ pingLink[i].addr \in Nat /\ inst[i].round \in {1, 2} /\ inst[i].seq \in Nat
  BY DEF PingTypes, InstType
<1>1. CASE Start(i)
  <2>1. Where(i) = "start"
    BY <1>1, AtIsWhere, Zenon DEF Start
  <2>2. /\ InstMoves(i) /\ Where(i)' = "network_configured"
        /\ inst'[i].round = inst[i].round /\ inst'[i].buf = inst[i].buf /\ inst'[i].seq = inst[i].seq
    BY <1>1, ConfigureFacts, Zenon DEF Start, ConfigureNetwork
  <2>3. Configures(i, "network_configured", 100)
    BY <1>0, <1>1, Zenon DEF Start, ConfigureNetwork, Configures
  <2> QED BY <1>1, <2>1, <2>2, <2>3, Zenon DEF Path, Start
<1>2. CASE Allocate(i)
  <2>1. Where(i) = "allocate"
    BY <1>2, AtIsWhere, Zenon DEF Allocate
  <2>2. CASE SignalAndWait(i, "ip_allocation")
    BY <1>2, <2>1, <2>2, SignalFacts, Zenon DEF Path, Allocate, Signals
  <2>3. CASE PingGoto(i, "failed") /\ UNCHANGED pingCounts
    BY <1>2, <2>1, <2>3, GotoFacts, Zenon DEF Path, Allocate, Keeps
  <2> QED BY <1>2, <2>2, <2>3, Zenon DEF Allocate
<1>3. CASE Readdress(i)
  <2>1. Where(i) = "readdress"
    BY <1>3, AtIsWhere, Zenon DEF Readdress
  <2>2. /\ InstMoves(i) /\ Where(i)' = "ip_changed"
        /\ inst'[i].round = inst[i].round /\ inst'[i].buf = inst[i].buf /\ inst'[i].seq = inst[i].seq
    BY <1>3, ConfigureFacts, Zenon DEF Readdress, ConfigureNetwork
  <2>3. Configures(i, "ip_changed", 100)
    BY <1>0, <1>3, Zenon DEF Readdress, ConfigureNetwork, Configures
  <2> QED BY <1>3, <2>1, <2>2, <2>3, Zenon DEF Path, Readdress
<1>4. CASE GetPeerAddrs(i)
  <2>1. UNCHANGED <<pingPending, pingLink, wire>>
    BY <1>4, Zenon DEF GetPeerAddrs
  <2>2. CASE At(i, "announce") /\ SignalAndWait(i, "listening")
    BY <2>1, <2>2, SignalFacts, AtIsWhere, Zenon DEF Path, Signals, Onward
  <2>3. CASE At(i, "publish") /\ PingGoto(i, "exchange") /\ UNCHANGED pingCounts
    BY <2>1, <2>3, GotoFacts, AtIsWhere, Zenon DEF Path, Keeps, Onward
  <2>4. CASE At(i, "exchange") /\ SignalAndWait(i, "got_other_addrs")
    BY <2>1, <2>4, SignalFacts, AtIsWhere, Zenon DEF Path, Signals, Onward
  <2> QED BY <1>4, <2>2, <2>3, <2>4, Zenon DEF GetPeerAddrs
<1>5. CASE PingConnect(i)
  <2>1. Where(i) = "connect"
    BY <1>5, AtIsWhere, Zenon DEF PingConnect
  <2>2. UNCHANGED <<pingPending, pingLink, pingCounts, wire>>
    BY <1>5, Zenon DEF PingConnect
  <2>3. CASE PingGoto(i, "ready")
    BY <2>1, <2>2, <2>3, GotoFacts, Zenon DEF Path, Keeps, Onward
  <2>4. CASE PingGoto(i, "failed")
    BY <2>1, <2>2, <2>4, GotoFacts, Zenon DEF Path, Keeps
  <2> QED BY <1>5, <2>3, <2>4, Zenon DEF PingConnect
<1>6. CASE PingPongRound(i)
  <2>1. ASSUME NEW from \in InRound, NEW to \in InRound, NEW b, Write(i, from, to, b), <<from, to>> \in Onward
        PROVE  /\ InstMoves(i) /\ Path(i) /\ pingLink' = pingLink /\ Where(i) = from
               /\ inst'[i].round = inst[i].round /\ inst'[i].seq = inst[i].seq
    BY <2>1, GotoFacts, AtIsWhere, Zenon DEF Write, Path, Keeps
  <2>2. ASSUME NEW from \in InRound, NEW to \in InRound, Read(i, from, to), <<from, to>> \in Onward
        PROVE  /\ InstMoves(i) /\ Path(i) /\ pingLink' = pingLink /\ Where(i) = from
               /\ inst'[i].round = inst[i].round /\ inst'[i].seq = inst[i].seq
    <3>1. Where(i) = from /\ Keeps /\ pingLink' = pingLink
      BY <2>2, AtIsWhere, Zenon DEF Read, Keeps
    <3>2. CASE PingGoto(i, "failed")
      BY <3>1, <3>2, GotoFacts, Zenon DEF Path
    <3>3. CASE wire[i] # <<>> /\ inst' = [inst EXCEPT ![i].pc = to, ![i].buf = Head(wire[i])]
      <4>1. Head(wire[i]) \in Nat
        BY <3>3 DEF PingTypes
      <4> QED BY <2>2, <3>1, <3>3, <4>1, ReadFacts, Zenon DEF Path
    <3> QED BY <2>2, <3>2, <3>3, Zenon DEF Read
  <2>3. CASE Write(i, "ready", "await", 0)
    BY <1>6, <2>1, <2>3, Zenon DEF Onward
  <2>4. CASE Read(i, "await", "ping")
    BY <1>6, <2>2, <2>4, Zenon DEF Onward
  <2>5. CASE Write(i, "ping", "theirs", inst[i].seq)
    BY <1>6, <2>1, <2>5, Zenon DEF Onward
  <2>6. CASE Read(i, "theirs", "pong")
    BY <1>6, <2>2, <2>6, Zenon DEF Onward
  <2>7. CASE Write(i, "pong", "mine", inst[i].buf)
    BY <1>6, <2>1, <2>7, Zenon DEF Onward
  <2>8. CASE Read(i, "mine", "measured")
    BY <1>6, <2>2, <2>8, Zenon DEF Onward
  <2> QED BY <1>6, <2>3, <2>4, <2>5, <2>6, <2>7, <2>8, Zenon DEF PingPongRound
<1>7. CASE Measured(i)
  <2>1. Where(i) = "measured" /\ UNCHANGED <<pingPending, pingLink, wire>>
    BY <1>7, AtIsWhere, Zenon DEF Measured
  <2>2. CASE SignalAndWait(i, RoundState[inst[i].round])
    <3>1. CASE inst[i].round = 1
      <4>1. SignalAndWait(i, "ping_pong_200")
        BY <2>2, <3>1 DEF RoundState
      <4> QED BY <2>1, <3>1, <4>1, SignalFacts, Zenon DEF Path, Signals
    <3>2. CASE inst[i].round = 2
      <4>1. SignalAndWait(i, "ping_pong_10")
        BY <2>2, <3>2 DEF RoundState
      <4> QED BY <2>1, <3>2, <4>1, SignalFacts, Zenon DEF Path, Signals
    <3> QED BY <1>0, <3>1, <3>2, Zenon
  <2>3. CASE PingGoto(i, "failed") /\ UNCHANGED pingCounts
    BY <2>1, <2>3, GotoFacts, Zenon DEF Path, Keeps
  <2> QED BY <1>7, <2>2, <2>3, Zenon DEF Measured
<1>8. CASE Reduce(i)
  <2>1. Where(i) = "reduce" /\ UNCHANGED <<pingLink, wire>>
    BY <1>8, AtIsWhere, Zenon DEF Reduce
  <2>2. /\ InstMoves(i) /\ Where(i)' = "latency_reduced"
        /\ inst'[i].round = 2 /\ inst'[i].buf = inst[i].buf /\ inst'[i].seq = inst[i].seq
    BY <1>8, ReduceFacts, Zenon DEF Reduce
  <2>3. Configures(i, "latency_reduced", 10)
    BY <1>0, <1>8, Zenon DEF Reduce, Configures
  <2> QED BY <2>1, <2>2, <2>3, Zenon DEF Path
<1>9. CASE AwaitBarrier(i)
  <2>1. UNCHANGED <<pingPending, pingLink, pingCounts, wire>> /\ Where(i) = inst[i].wait /\ Where(i) \in PingBarriers
    BY <1>9, Zenon DEF AwaitBarrier, At, Where, PingTypes
  <2>2. After[Where(i)] \in Places
    BY <2>1, Barrier, Zenon
  <2>3. CASE pingCounts[Where(i)] >= PingN /\ PingGoto(i, After[Where(i)])
    <3>1. inst[i].pc = "waiting"
      BY <1>9, Zenon DEF AwaitBarrier, At
    <3> QED BY <2>1, <2>2, <2>3, <3>1, GotoFacts, Zenon DEF Path, Keeps
  <2>4. CASE PingGoto(i, "failed")
    BY <2>1, <2>4, GotoFacts, Zenon DEF Path, Keeps
  <2> QED BY <1>9, <2>1, <2>3, <2>4, Zenon DEF AwaitBarrier
<1> QED BY <1>1, <1>2, <1>3, <1>4, <1>5, <1>6, <1>7, <1>8, <1>9, Zenon DEF PingStep

\* The wires carry numbers.
LEMMA WireTypes ==
  ASSUME PingTypes, NEW i \in Pair, PingStep(i)
  PROVE  wire' \in [Pair -> Seq(Nat)]
<1>1. Peer(i) \in Pair /\ inst[i].seq \in Nat /\ inst[i].buf \in Nat
  BY PeerFacts, Zenon DEF PingTypes, InstType
<1>2. ASSUME NEW from, NEW to, NEW b \in Nat, Write(i, from, to, b) PROVE wire' \in [Pair -> Seq(Nat)]
  BY <1>1, <1>2 DEF Write, PingTypes
<1>3. ASSUME NEW from, NEW to, Read(i, from, to) PROVE wire' \in [Pair -> Seq(Nat)]
  <2>1. CASE wire[i] # <<>> /\ wire' = [wire EXCEPT ![i] = Tail(@)]
    <3>1. Tail(wire[i]) \in Seq(Nat)
      BY <2>1 DEF PingTypes
    <3> QED BY <2>1, <3>1, Zenon DEF PingTypes
  <2>2. CASE UNCHANGED wire
    BY <2>2, Zenon DEF PingTypes
  <2> QED BY <1>3, <2>1, <2>2, Zenon DEF Read
<1>4. CASE PingPongRound(i)
  BY <1>1, <1>2, <1>3, <1>4, Zenon DEF PingPongRound
<1> QED BY <1>4, PingPath, Zenon DEF PingTypes

\* A step of an instance: no latency changes, and who has signalled stays so.
LEMMA PingFrame ==
  ASSUME LatencyInv, NEW i \in Pair, PingStep(i)
  PROVE  /\ PingTypes' /\ Shaped' = Shaped /\ Reduced' = Reduced
         /\ Numbered \subseteq Numbered' /\ MeasuredOnce \subseteq MeasuredOnce'
         /\ \A k \in Pair \ {i} : Where(k)' = Where(k) /\ inst'[k] = inst[k] /\ pingPending'[k] = pingPending[k]
<1>1. PingTypes /\ InstMoves(i) /\ Path(i) /\ pingLink' = pingLink
  BY PingPath, Zenon DEF LatencyInv
<1>2. pingCounts' \in [PingBarriers -> Nat]
  <2>1. ASSUME NEW s \in PingBarriers, Signals(s) PROVE pingCounts' \in [PingBarriers -> Nat]
    BY <1>1, <2>1 DEF PingTypes, Signals
  <2>2. CASE pingCounts' = pingCounts
    BY <1>1, <2>2, Zenon DEF PingTypes
  <2> QED BY <1>1, <2>1, <2>2, Zenon DEF Path, Keeps, Configures, PingBarriers
<1>3. /\ pingPending' \in [Pair -> [latency : {0, 10, 100}, addr : Nat, state : PingBarriers \union {"none"}]]
      /\ \A k \in Pair \ {i} : pingPending'[k] = pingPending[k]
  <2>1. CASE pingPending' = pingPending
    BY <1>1, <2>1, Zenon DEF PingTypes
  <2>2. ASSUME NEW s \in PingBarriers, NEW l \in {10, 100}, NEW a \in Nat,
               pingPending' = [pingPending EXCEPT ![i] = [latency |-> l, addr |-> a, state |-> s]]
        PROVE  /\ pingPending' \in [Pair -> [latency : {0, 10, 100}, addr : Nat, state : PingBarriers \union {"none"}]]
               /\ \A k \in Pair \ {i} : pingPending'[k] = pingPending[k]
    BY <1>1, <2>2 DEF PingTypes
  <2> QED BY <1>1, <2>1, <2>2 DEF Path, Keeps, Signals, Configures, PingBarriers
<1>4. PingTypes'
  BY <1>1, <1>2, <1>3, WireTypes, Zenon DEF PingTypes, InstMoves
<1>5. \A k \in Pair \ {i} : Where(k)' = Where(k) /\ inst'[k] = inst[k]
  BY <1>1, Zenon DEF InstMoves, Where
<1>6. ~Early(i) => ~Early(i)'
  BY <1>1, Barrier, Zenon DEF Path, Early, Onward, PingBarriers
<1>7. FirstDone(i) => FirstDone(i)'
  <2>1. inst[i].round = 2 => inst'[i].round = 2
    BY <1>1, PingPath, Zenon
  <2>2. Where(i) = "failed" => Where(i)' = "failed"
    BY <1>1, Zenon DEF Path, Onward, PingBarriers
  <2>3. Where(i) = "ping_pong_200" => Where(i)' \in {"reduce", "failed"}
    BY <1>1, Barrier, Zenon DEF Path, Onward
  <2>4. Where(i) = "reduce" => Where(i)' = "failed" \/ inst'[i].round = 2
    BY <1>1, PingPath, Zenon
  <2> QED BY <2>1, <2>2, <2>3, <2>4, Zenon DEF FirstDone
<1>8. Numbered \subseteq Numbered'
  BY <1>5, <1>6, Zenon DEF Numbered, Early
<1>9. MeasuredOnce \subseteq MeasuredOnce'
  BY <1>5, <1>7, Zenon DEF MeasuredOnce, FirstDone
<1> QED BY <1>1, <1>3, <1>4, <1>5, <1>8, <1>9, Zenon DEF Shaped, Reduced

\* A step of an instance keeps the part of the invariant about latencies.
LEMMA LatencyStep == ASSUME LatencyInv, NEW i \in Pair, PingStep(i) PROVE LatencyInv'
<1>1. PingTypes /\ Path(i) /\ pingLink' = pingLink
  BY PingPath, Zenon DEF LatencyInv
<1>2. /\ PingTypes' /\ Shaped' = Shaped /\ Reduced' = Reduced
      /\ Numbered \subseteq Numbered' /\ MeasuredOnce \subseteq MeasuredOnce'
      /\ \A k \in Pair \ {i} : Where(k)' = Where(k) /\ inst'[k] = inst[k] /\ pingPending'[k] = pingPending[k]
  BY PingFrame, Zenon
<1>3. inst'[i].round = IF Where(i) = "reduce" /\ Where(i)' # "failed" THEN 2 ELSE inst[i].round
  BY <1>1, PingPath, Zenon
<1>4. inst[i].round \in {1, 2} /\ pingLink[i].latency \in {0, 10, 100}
  BY <1>1 DEF PingTypes, InstType
<1>5. Counts(pingCounts["network_configured"], Shaped)' /\ Counts(pingCounts["latency_reduced"], Reduced)'
  <2>1. pingCounts'["network_configured"] = pingCounts["network_configured"]
        /\ pingCounts'["latency_reduced"] = pingCounts["latency_reduced"]
    BY <1>1 DEF PingTypes, Path, Keeps, Signals, Configures, PingBarriers
  <2> QED BY <1>2, <2>1, Zenon DEF LatencyInv, Counts
<1>6. Counts(pingCounts["ip_allocation"], Numbered)'
  <2>1. CASE pingCounts'["ip_allocation"] = pingCounts["ip_allocation"]
    BY <1>2, <2>1, CountKept, PingFinite, Zenon DEF LatencyInv
  <2>2. CASE Where(i) = "allocate" /\ Where(i)' = "ip_allocation" /\ Signals("ip_allocation")
    <3>1. i \in Numbered' /\ i \notin Numbered /\ pingCounts'["ip_allocation"] = pingCounts["ip_allocation"] + 1
      BY <1>1, <2>2, Zenon DEF Numbered, Early, Signals, PingTypes, PingBarriers
    <3> QED BY <1>2, <3>1, CountUp, PingFinite DEF LatencyInv
  <2> QED BY <1>1, <2>1, <2>2 DEF PingTypes, Path, Keeps, Signals, Configures, PingBarriers
<1>7. Counts(pingCounts["ping_pong_200"], MeasuredOnce)'
  <2>1. CASE pingCounts'["ping_pong_200"] = pingCounts["ping_pong_200"]
    BY <1>2, <2>1, CountKept, PingFinite, Zenon DEF LatencyInv
  <2>2. CASE Where(i) = "measured" /\ Where(i)' = "ping_pong_200" /\ inst[i].round = 1 /\ Signals("ping_pong_200")
    <3>1. i \in MeasuredOnce' /\ i \notin MeasuredOnce /\ pingCounts'["ping_pong_200"] = pingCounts["ping_pong_200"] + 1
      BY <1>1, <2>2 DEF MeasuredOnce, FirstDone, Signals, PingTypes, PingBarriers
    <3> QED BY <1>2, <3>1, CountUp, PingFinite DEF LatencyInv
  <2> QED BY <1>1, <2>1, <2>2, Zenon DEF PingTypes, Path, Keeps, Signals, Configures, PingBarriers
<1>8. ASSUME NEW k \in Pair PROVE PendingInv(k)'
  <2>1. CASE k # i
    BY <1>1, <1>2, <2>1 DEF LatencyInv, PendingInv
  <2>2. CASE k = i /\ pingPending' = pingPending
    BY <1>1, <1>3, <1>4, <2>2, Zenon DEF LatencyInv, PendingInv
  <2>3. ASSUME NEW s \in PingBarriers, NEW l \in {10, 100}, Configures(i, s, l)
        PROVE  pingPending'[i].state = s /\ pingPending'[i].latency = l
    BY <1>1, <2>3 DEF Configures, PingTypes
  <2>4. CASE k = i /\ Where(i) = "start" /\ Configures(i, "network_configured", 100)
    BY <1>1, <2>3, <2>4 DEF LatencyInv, PlaceInv, PendingInv, PingBarriers
  <2>5. Where(i) \in {"readdress", "reduce"} => pingLink[i].latency = 100
    BY <1>4 DEF LatencyInv, PlaceInv, Shaped
  <2>6. CASE k = i /\ Where(i) = "readdress" /\ Configures(i, "ip_changed", 100)
    BY <1>1, <2>3, <2>5, <2>6, Zenon DEF PendingInv, PingBarriers
  <2>7. CASE /\ k = i /\ Where(i) = "reduce" /\ Where(i)' = "latency_reduced"
             /\ Configures(i, "latency_reduced", 10)
    BY <1>1, <1>3, <2>3, <2>5, <2>7, Zenon DEF PendingInv, PingBarriers
  <2> QED BY <1>1, <2>1, <2>2, <2>4, <2>6, <2>7, Zenon DEF Path, Keeps, Signals
<1>9. ASSUME NEW k \in Pair PROVE PlaceInv(k)'
  <2>1. CASE k # i
    <3>1. Numbered = Pair => Numbered' = Pair
      BY <1>2, Zenon DEF Numbered
    <3>2. MeasuredOnce = Pair => MeasuredOnce' = Pair
      BY <1>2, Zenon DEF MeasuredOnce
    <3> QED BY <1>1, <1>2, <2>1, <3>1, <3>2 DEF LatencyInv, PlaceInv, Early
  <2>2. CASE k = i
    <3>1. /\ Where(i)' \notin {"start", "network_configured", "failed"} => Shaped' = Pair
          /\ ~Early(i)' /\ Where(i)' \notin {"ip_allocation", "failed"} => Numbered' = Pair
      <4>1. CASE Where(i) = "network_configured" /\ pingCounts[Where(i)] >= PingN
        <5>1. Shaped' = Pair
          BY <1>2, <4>1, CountAll, PairAssumption, Zenon DEF LatencyInv, PingN, Shaped
        <5> QED BY <1>1, <4>1, <5>1, Barrier, Zenon DEF Path, Early, Onward
      <4>2. CASE Where(i) = "ip_allocation" /\ pingCounts[Where(i)] >= PingN
        <5>1. Numbered = Pair
          BY <4>2, CountAll, PairAssumption, Zenon DEF LatencyInv, PingN, Numbered
        <5>2. Numbered' = Pair
          BY <1>2, <5>1, Zenon DEF Numbered
        <5> QED BY <1>2, <4>2, <5>2, Zenon DEF LatencyInv, PlaceInv
      <4>3. CASE Where(i)' \in {"failed", "network_configured", "ip_allocation"}
        <5>1. Where(i)' = "ip_allocation" => Where(i) = "allocate"
          BY <1>1, Barrier, Zenon DEF Path, Onward, PingBarriers
        <5>2. Where(i)' = "ip_allocation" => Shaped' = Pair
          BY <1>2, <5>1, Zenon DEF LatencyInv, PlaceInv
        <5>3. Where(i)' = "network_configured" => Early(i)'
          BY Zenon DEF Early
        <5> QED BY <4>3, <5>2, <5>3, Zenon
      <4>4. CASE /\ ~(Where(i) \in {"network_configured", "ip_allocation"} /\ pingCounts[Where(i)] >= PingN)
                 /\ Where(i)' \notin {"failed", "network_configured", "ip_allocation"}
        <5>1. Where(i) \notin {"start", "network_configured", "allocate", "ip_allocation", "failed"}
          BY <1>1, <4>4, Zenon DEF Path, Onward, PingBarriers
        <5>2. Shaped = Pair /\ Numbered = Pair
          BY <5>1, Zenon DEF LatencyInv, PlaceInv, Early
        <5>3. Numbered' = Pair
          BY <1>2, <5>2, Zenon DEF Numbered
        <5> QED BY <1>2, <5>2, <5>3, Zenon
      <4> QED BY <4>1, <4>2, <4>3, <4>4, Zenon
    <3>2. inst'[i].round = 2 \/ Where(i)' = "reduce" => MeasuredOnce' = Pair
      <4>1. CASE inst[i].round = 2 \/ Where(i) = "reduce"
        BY <1>2, <4>1, Zenon DEF LatencyInv, PlaceInv, MeasuredOnce
      <4>2. CASE Where(i) = "ping_pong_200" /\ pingCounts[Where(i)] >= PingN
        <5>1. MeasuredOnce = Pair
          BY <4>2, CountAll, PairAssumption, Zenon DEF LatencyInv, PingN, MeasuredOnce
        <5> QED BY <1>2, <5>1, Zenon DEF MeasuredOnce
      <4>3. CASE /\ ~(inst[i].round = 2 \/ Where(i) = "reduce")
                 /\ ~(Where(i) = "ping_pong_200" /\ pingCounts[Where(i)] >= PingN)
        BY <1>1, <1>3, <4>3, Barrier, Zenon DEF Path, Onward, PingBarriers
      <4> QED BY <4>1, <4>2, <4>3, Zenon
    <3>3. inst'[i].round = 2 /\ Where(i)' \in InRound \union {"ping_pong_10", "returned"} => Reduced' = Pair
      <4>1. CASE Where(i) = "latency_reduced" /\ pingCounts[Where(i)] >= PingN
        BY <1>2, <4>1, CountAll, PairAssumption, Zenon DEF LatencyInv, PingN, Reduced
      <4>2. CASE ~(Where(i) = "latency_reduced" /\ pingCounts[Where(i)] >= PingN)
        <5>1. Where(i)' \in InRound \union {"ping_pong_10", "returned"} =>
                Where(i) \in InRound \union {"ping_pong_10", "returned", "connect"}
          BY <1>1, <4>2, Barrier, Zenon DEF Path, Onward, PingBarriers, InRound
        <5> QED BY <1>2, <1>3, <5>1 DEF LatencyInv, PlaceInv, InRound
      <4> QED BY <4>1, <4>2, Zenon
    <3>4. /\ Where(i)' # "start"
          /\ Where(i)' \in {"start", "network_configured", "allocate", "ip_allocation", "readdress", "ip_changed",
                            "announce", "listening", "publish", "exchange", "got_other_addrs", "connect",
                            "ping_pong_200", "reduce"} => inst'[i].round = 1
          /\ Where(i)' \in {"latency_reduced", "ping_pong_10", "returned"} => inst'[i].round = 2
      BY <1>1, <1>3, Barrier, Zenon DEF LatencyInv, PlaceInv, Path, Onward, PingBarriers
    <3>5. pingLink'[i].latency = 10 => inst'[i].round = 2
      BY <1>1, <1>3, Zenon DEF LatencyInv, PlaceInv
    <3> QED BY <2>2, <3>1, <3>2, <3>3, <3>4, <3>5, Zenon DEF PlaceInv
  <2> QED BY <2>1, <2>2, Zenon
<1> QED BY <1>2, <1>5, <1>6, <1>7, <1>8, <1>9, Zenon DEF LatencyInv

\* A step of a sidecar.
LEMMA LatencyConfigured == ASSUME LatencyInv, NEW i \in Pair, PingConfigures(i) PROVE LatencyInv'
<1> DEFINE c == pingPending[i]
<1>1. /\ c # NoConfig /\ pingPending' = [pingPending EXCEPT ![i] = NoConfig] /\ inst' = inst /\ wire' = wire
      /\ \/ /\ pingLink' = [pingLink EXCEPT ![i] = [latency |-> c.latency, addr |-> c.addr]]
            /\ pingCounts' = [pingCounts EXCEPT ![c.state] = @ + 1]
         \/ UNCHANGED <<pingLink, pingCounts>>
  BY Zenon DEF PingConfigures
<1>2. /\ c \in [latency : {0, 10, 100}, addr : Nat, state : PingBarriers \union {"none"}]
      /\ \/ c.state = "network_configured" /\ c.latency = 100 /\ pingLink[i].latency = 0
         \/ c.state = "ip_changed" /\ c.latency = 100 /\ pingLink[i].latency = 100
         \/ c.state = "latency_reduced" /\ c.latency = 10 /\ pingLink[i].latency = 100 /\ inst[i].round = 2
  BY <1>1, Zenon DEF LatencyInv, PingTypes, PendingInv
<1> HIDE DEF c
<1>3. PingTypes'
  <2>1. pingPending' \in [Pair -> [latency : {0, 10, 100}, addr : Nat, state : PingBarriers \union {"none"}]]
    BY <1>1, Zenon DEF LatencyInv, PingTypes, NoConfig
  <2>2. pingLink' \in [Pair -> [latency : {0, 10, 100}, addr : Nat]]
    <3>1. [latency |-> c.latency, addr |-> c.addr] \in [latency : {0, 10, 100}, addr : Nat]
      BY <1>2, Zenon
    <3>2. CASE pingLink' = [pingLink EXCEPT ![i] = [latency |-> c.latency, addr |-> c.addr]]
      BY <3>1, <3>2, Zenon DEF LatencyInv, PingTypes
    <3>3. CASE UNCHANGED pingLink
      BY <3>3, Zenon DEF LatencyInv, PingTypes
    <3> QED BY <1>1, <3>2, <3>3, Zenon
  <2>3. pingCounts' \in [PingBarriers -> Nat]
    <3>1. c.state \in PingBarriers
      BY <1>2, Zenon DEF PingBarriers
    <3>2. CASE pingCounts' = [pingCounts EXCEPT ![c.state] = @ + 1]
      BY <3>1, <3>2 DEF LatencyInv, PingTypes
    <3>3. CASE UNCHANGED pingCounts
      BY <3>3, Zenon DEF LatencyInv, PingTypes
    <3> QED BY <1>1, <3>2, <3>3, Zenon
  <2> QED BY <1>1, <2>1, <2>2, <2>3, Zenon DEF LatencyInv, PingTypes
<1>4. /\ \A k \in Pair : Where(k)' = Where(k)
      /\ Numbered' = Numbered /\ MeasuredOnce' = MeasuredOnce
  BY <1>1, Zenon DEF Where, Numbered, Early, MeasuredOnce, FirstDone
<1>5. \A k \in Pair \ {i} : pingLink'[k] = pingLink[k] /\ pingPending'[k] = pingPending[k]
  BY <1>1 DEF LatencyInv, PingTypes
<1>6. pingPending'[i] = NoConfig
  BY <1>1 DEF LatencyInv, PingTypes
<1>7. CASE UNCHANGED <<pingLink, pingCounts>>
  <2>1. Shaped' = Shaped /\ Reduced' = Reduced
    BY <1>7, Zenon DEF Shaped, Reduced
  <2>2. ASSUME NEW k \in Pair PROVE PendingInv(k)'
    BY <1>1, <1>5, <1>6, <1>7 DEF LatencyInv, PendingInv
  <2>3. ASSUME NEW k \in Pair PROVE PlaceInv(k)'
    BY <1>1, <1>4, <1>5, <1>6, <1>7, <2>1 DEF LatencyInv, PlaceInv, Early
  <2> QED BY <1>3, <1>4, <1>7, <2>1, <2>2, <2>3, Zenon DEF LatencyInv, Counts
<1>8. CASE /\ pingLink' = [pingLink EXCEPT ![i] = [latency |-> c.latency, addr |-> c.addr]]
           /\ pingCounts' = [pingCounts EXCEPT ![c.state] = @ + 1]
  <2>1. pingLink'[i].latency = c.latency
    BY <1>8, Zenon DEF LatencyInv, PingTypes
  <2>2. Shaped \subseteq Shaped' /\ Reduced \subseteq Reduced'
    BY <1>2, <1>5, <2>1 DEF Shaped, Reduced
  <2>3. Counts(pingCounts["network_configured"], Shaped)'
    <3>1. CASE c.state = "network_configured"
      <4>1. i \in Shaped' /\ i \notin Shaped /\ pingCounts'["network_configured"] = pingCounts["network_configured"] + 1
        BY <1>2, <1>8, <2>1, <3>1 DEF Shaped, LatencyInv, PingTypes, PingBarriers
      <4> QED BY <2>2, <4>1, CountUp, PingFinite DEF LatencyInv
    <3>2. CASE c.state # "network_configured"
      <4>1. pingCounts'["network_configured"] = pingCounts["network_configured"]
        BY <1>8, <3>2, Zenon DEF LatencyInv, PingTypes, PingBarriers
      <4> QED BY <2>2, <4>1, CountKept, PingFinite, Zenon DEF LatencyInv
    <3> QED BY <3>1, <3>2, Zenon
  <2>4. Counts(pingCounts["latency_reduced"], Reduced)'
    <3>1. CASE c.state = "latency_reduced"
      <4>1. i \in Reduced' /\ i \notin Reduced /\ pingCounts'["latency_reduced"] = pingCounts["latency_reduced"] + 1
        BY <1>2, <1>8, <2>1, <3>1 DEF Reduced, LatencyInv, PingTypes, PingBarriers
      <4> QED BY <2>2, <4>1, CountUp, PingFinite DEF LatencyInv
    <3>2. CASE c.state # "latency_reduced"
      <4>1. pingCounts'["latency_reduced"] = pingCounts["latency_reduced"]
        BY <1>8, <3>2, Zenon DEF LatencyInv, PingTypes, PingBarriers
      <4> QED BY <2>2, <4>1, CountKept, PingFinite, Zenon DEF LatencyInv
    <3> QED BY <3>1, <3>2, Zenon
  <2>5. Counts(pingCounts["ip_allocation"], Numbered)' /\ Counts(pingCounts["ping_pong_200"], MeasuredOnce)'
    <3>1. /\ pingCounts'["ip_allocation"] = pingCounts["ip_allocation"]
          /\ pingCounts'["ping_pong_200"] = pingCounts["ping_pong_200"]
      BY <1>2, <1>8, Zenon DEF LatencyInv, PingTypes, PingBarriers
    <3> QED BY <1>4, <3>1, Zenon DEF LatencyInv, Counts
  <2>6. ASSUME NEW k \in Pair PROVE PendingInv(k)'
    BY <1>1, <1>5, <1>6 DEF LatencyInv, PendingInv
  <2>7. ASSUME NEW k \in Pair PROVE PlaceInv(k)'
    <3>1. (Shaped = Pair => Shaped' = Pair) /\ (Reduced = Pair => Reduced' = Pair)
      BY <2>2, Zenon DEF Shaped, Reduced
    <3>2. Where(i) # "start"
      BY <1>1, Zenon DEF LatencyInv, PlaceInv, c
    <3>3. pingLink'[k].latency = 10 => inst'[k].round = 2
      BY <1>1, <1>2, <1>5, <2>1 DEF LatencyInv, PlaceInv
    <3> QED BY <1>1, <1>4, <1>5, <3>1, <3>2, <3>3 DEF LatencyInv, PlaceInv, Early
  <2> QED BY <1>3, <2>3, <2>4, <2>5, <2>6, <2>7, Zenon DEF LatencyInv
<1> QED BY <1>1, <1>7, <1>8, Zenon

\* Numbers of bytes are natural numbers.
LEMMA ByteCounts ==
  ASSUME PingTypes, NEW i \in Pair PROVE Reads(i) \in Nat /\ Writings(i) \in Nat
<1>1. inst[i].round = 1 \/ inst[i].round = 2
  BY DEF PingTypes, InstType
<1> QED BY <1>1 DEF Reads, Writings

\* An instance outside of a round neither reads nor writes.
LEMMA SilentStep ==
  ASSUME PingInv, NEW i \in Pair, PingStep(i), ~PingPongRound(i), NEW k \in Pair
  PROVE  ByteInv(k)'
<1>1. PingTypes /\ InstMoves(i) /\ Path(i) /\ wire' = wire /\ inst'[i].buf = inst[i].buf
  BY PingPath, Zenon DEF PingInv, LatencyInv
<1>2. \A x \in Pair \ {i} : Where(x)' = Where(x) /\ inst'[x] = inst[x]
  BY PingFrame, Zenon DEF PingInv
<1>3. Peer(i) \in Pair /\ Peer(i) # i /\ Peer(Peer(i)) = i /\ (k = i \/ k = Peer(i))
  BY PeerFacts, Zenon
<1>4. Early(k)' => Early(k)
  BY PingFrame, Zenon DEF PingInv, Numbered
<1>5. Where(i)' # "failed" => Where(i) # "failed" /\ Reads(i)' = Reads(i) /\ Writings(i)' = Writings(i)
  <2>1. inst'[i].round = IF Where(i) = "reduce" /\ Where(i)' # "failed" THEN 2 ELSE inst[i].round
    BY <1>1, PingPath, Zenon
  <2>2. Where(i) \notin {"ready", "await", "ping", "theirs", "pong", "mine"}
    BY <1>1, PingPath, Zenon
  <2>3. inst[i].round \in {1, 2} /\ (Where(i) = "reduce" => inst[i].round = 1)
    BY <1>1, Zenon DEF PingInv, LatencyInv, PlaceInv, PingTypes, InstType
  <2>4. ASSUME Where(i)' # "failed" PROVE
          \/ /\ Where(i) \in {"measured", "ping_pong_200", "ping_pong_10"}
             /\ Where(i)' \in {"ping_pong_200", "ping_pong_10", "reduce", "returned"}
          \/ Where(i) = "reduce" /\ Where(i)' = "latency_reduced"
          \/ /\ Where(i) \in {"start", "network_configured", "allocate", "ip_allocation", "readdress", "ip_changed",
                              "announce", "listening", "publish", "exchange", "got_other_addrs", "connect",
                              "latency_reduced"}
             /\ Where(i)' \in {"network_configured", "allocate", "ip_allocation", "readdress", "ip_changed",
                               "announce", "listening", "publish", "exchange", "got_other_addrs", "connect", "ready"}
    BY <1>1, <2>2, <2>4, Barrier DEF Path, Onward, PingBarriers
  <2> QED BY <2>1, <2>3, <2>4 DEF Reads, Writings
<1>6. Reads(Peer(i))' = Reads(Peer(i)) /\ Writings(Peer(i))' = Writings(Peer(i)) /\ Where(Peer(i))' = Where(Peer(i))
  BY <1>2, <1>3, Zenon DEF Reads, Writings
<1>7. Early(k)' => wire'[k] = <<>> /\ wire'[Peer(k)] = <<>>
  BY <1>1, <1>4, Zenon DEF PingInv, ByteInv
<1>8. Where(Peer(i)) # "failed" /\ Where(i)' # "failed" =>
        /\ Reads(i)' + Len(wire'[i]) = Writings(Peer(i))'
        /\ Reads(Peer(i))' + Len(wire'[Peer(i)]) = Writings(i)'
  BY <1>1, <1>3, <1>5, <1>6, Zenon DEF PingInv, ByteInv
<1>9. ASSUME Where(k)' # "failed" PROVE
        /\ \A n \in 1 .. Len(wire'[k]) : wire'[k][n] = Byte(k, Reads(k) + n)'
        /\ Where(k)' \in {"ping", "pong", "measured"} => inst'[k].buf = Byte(k, Reads(k))'
  <2>1. CASE Where(i) = "allocate"
    <3>1. wire'[k] = <<>>
      BY <1>1, <1>3, <2>1, Zenon DEF PingInv, ByteInv, Early
    <3>2. Where(i)' \notin {"ping", "pong", "measured"}
      BY <1>1, <2>1, Zenon DEF Path, Onward, PingBarriers
    <3>3. Where(Peer(i)) \notin {"ping", "pong", "measured"}
      <4>1. i \notin Numbered
        BY <2>1, Zenon DEF Numbered, Early
      <4> QED BY <1>3, <4>1, Zenon DEF PingInv, LatencyInv, PlaceInv, Early
    <3> QED BY <1>3, <1>6, <3>1, <3>2, <3>3
  <2>2. CASE Where(i) # "allocate"
    <3>1. inst'[i].seq = inst[i].seq /\ inst'[Peer(i)].seq = inst[Peer(i)].seq
      BY <1>1, <1>2, <1>3, <2>2, PingPath, Zenon
    <3>3. Reads(k)' = Reads(k) /\ Where(k) # "failed"
      BY <1>3, <1>5, <1>6, <1>9, Zenon
    <3>4. inst'[k].buf = inst[k].buf /\ wire'[k] = wire[k]
      BY <1>1, <1>2, <1>3, Zenon
    <3>5. Where(k)' \in {"ping", "pong", "measured"} => Where(k) \in {"ping", "pong", "measured"}
      <4>1. Where(i)' \in {"ping", "pong", "measured"} => Where(i) \in {"ready", "await", "ping", "theirs", "pong", "mine"}
        BY <1>1, Barrier, Zenon DEF Path, Onward, PingBarriers
      <4>2. Where(i) \notin {"ready", "await", "ping", "theirs", "pong", "mine"}
        BY <1>1, PingPath, Zenon
      <4> QED BY <1>3, <1>6, <4>1, <4>2, Zenon
    <3>6. /\ \A n \in 1 .. Len(wire[k]) : wire[k][n] = Byte(k, Reads(k) + n)
          /\ Where(k) \in {"ping", "pong", "measured"} => inst[k].buf = Byte(k, Reads(k))
      BY <3>3, Zenon DEF PingInv, ByteInv
    <3>7. \A n : Byte(k, Reads(k) + n)' = Byte(k, Reads(k) + n) /\ Byte(k, Reads(k))' = Byte(k, Reads(k))
      BY <3>1, <3>3, <1>3, Zenon DEF Byte
    <3> QED BY <3>4, <3>5, <3>6, <3>7, Zenon
  <2> QED BY <2>1, <2>2, Zenon
<1> QED BY <1>3, <1>6, <1>7, <1>8, <1>9, Zenon DEF ByteInv

\* A byte is written: it is the next one of the reader's.
LEMMA WriteStep ==
  ASSUME PingInv, NEW i \in Pair, PingStep(i), NEW from, NEW to, NEW b, Write(i, from, to, b),
         \/ from = "ready" /\ to = "await" /\ b = 0
         \/ from = "ping" /\ to = "theirs" /\ b = inst[i].seq
         \/ from = "pong" /\ to = "mine" /\ b = inst[i].buf,
         NEW k \in Pair
  PROVE  ByteInv(k)'
<1>1. PingTypes /\ wire \in [Pair -> Seq(Nat)]
  BY Zenon DEF PingInv, LatencyInv, PingTypes
<1>2. Peer(i) \in Pair /\ Peer(i) # i /\ Peer(Peer(i)) = i /\ (k = i \/ k = Peer(i))
  BY PeerFacts, Zenon
<1>3. /\ Where(i) = from /\ Where(i)' = to /\ inst'[i].round = inst[i].round /\ inst'[i].seq = inst[i].seq
      /\ \A x \in Pair \ {i} : Where(x)' = Where(x) /\ inst'[x] = inst[x]
  BY <1>1, PingFrame, GotoFacts, AtIsWhere, Zenon DEF PingInv, Write, Places, InRound
<1>4. b \in Nat /\ inst[i].round \in {1, 2}
  BY <1>1 DEF PingTypes, InstType
<1>5. wire'[i] = wire[i] /\ wire'[Peer(i)] = Append(wire[Peer(i)], b)
  BY <1>1, <1>2, Zenon DEF Write
<1>6. ~Early(k)'
  <2>1. Numbered = Pair
    BY <1>3, Zenon DEF PingInv, LatencyInv, PlaceInv, Early
  <2> QED BY <2>1, PingFrame, Zenon DEF PingInv, Numbered
<1>7. Reads(i)' = Reads(i) /\ Writings(i)' = Writings(i) + 1
  BY <1>3, <1>4 DEF Reads, Writings
<1>8. Reads(Peer(i))' = Reads(Peer(i)) /\ Writings(Peer(i))' = Writings(Peer(i)) /\ Where(Peer(i))' = Where(Peer(i))
  BY <1>2, <1>3, Zenon DEF Reads, Writings
<1>9. \A n \in Nat : Byte(i, n)' = Byte(i, n) /\ Byte(Peer(i), n)' = Byte(Peer(i), n)
  BY <1>2, <1>3, Zenon DEF Byte
<1>10. Reads(i) \in Nat /\ Reads(Peer(i)) \in Nat /\ Writings(i) \in Nat /\ Writings(Peer(i)) \in Nat
  BY <1>1, <1>2, ByteCounts, Zenon
<1>11. b = Byte(Peer(i), Writings(i) + 1)
  <2>1. from = "pong" => b = inst[Peer(i)].seq
    <3>1. from = "pong" => Reads(i) % 3 = 2 /\ b = Byte(i, Reads(i))
      BY <1>3, <1>4 DEF PingInv, ByteInv, Reads
    <3> QED BY <3>1 DEF Byte
  <2>2. /\ from = "ready" => (Writings(i) + 1) % 3 = 1
        /\ from = "ping" => (Writings(i) + 1) % 3 = 2
        /\ from = "pong" => (Writings(i) + 1) % 3 = 0
    BY <1>3, <1>4 DEF Writings
  <2> QED BY <1>2, <2>1, <2>2 DEF Byte
<1>12. Where(Peer(i)) # "failed" =>
         /\ Reads(i) + Len(wire[i]) = Writings(Peer(i))
         /\ Reads(Peer(i)) + Len(wire[Peer(i)]) = Writings(i)
  BY <1>2, <1>3, Zenon DEF PingInv, ByteInv
<1>13. CASE k = i
  <2>1. Where(i)' \notin {"ping", "pong", "measured"} /\ Where(i) # "failed"
    BY <1>3, Zenon
  <2>2. ASSUME NEW n \in 1 .. Len(wire'[i]) PROVE wire'[i][n] = Byte(i, Reads(i) + n)'
    <3>1. Byte(i, Reads(i) + n)' = Byte(i, Reads(i) + n)
      BY <1>2, <1>3, <1>7, Zenon DEF Byte
    <3> QED BY <1>5, <2>1, <3>1, Zenon DEF PingInv, ByteInv
  <2> QED BY <1>5, <1>6, <1>7, <1>8, <1>12, <1>13, <2>1, <2>2, Zenon DEF ByteInv
<1>14. CASE k = Peer(i)
  <2>1. ASSUME Where(k) # "failed", NEW n \in 1 .. Len(wire'[k]) PROVE wire'[k][n] = Byte(k, Reads(k) + n)'
    <3>1. Byte(k, Reads(k) + n)' = Byte(k, Reads(k) + n)
      BY <1>2, <1>3, <1>8, <1>14, Zenon DEF Byte
    <3>2. wire[k] \in Seq(Nat) /\ wire'[k] = Append(wire[k], b)
      BY <1>1, <1>5, <1>14, Zenon
    <3>3. CASE n = Len(wire[k]) + 1
      <4>1. Reads(k) + n = Writings(i) + 1
        BY <1>10, <1>12, <1>14, <2>1, <3>2, <3>3
      <4>2. wire'[k][n] = b
        BY <1>4, <3>2, <3>3
      <4> QED BY <1>11, <1>14, <3>1, <4>1, <4>2, Zenon
    <3>4. CASE n \in 1 .. Len(wire[k])
      <4>1. wire'[k][n] = wire[k][n]
        BY <1>4, <3>2, <3>4
      <4> QED BY <2>1, <3>1, <3>4, <4>1, Zenon DEF PingInv, ByteInv
    <3> QED BY <1>4, <3>2, <3>3, <3>4
  <2>2. Where(k) # "failed" => Reads(k)' + Len(wire'[k]) = Writings(Peer(k))'
    <3>1. Len(wire'[k]) = Len(wire[k]) + 1 /\ Len(wire[k]) \in Nat
      BY <1>1, <1>4, <1>5, <1>14
    <3> QED BY <1>2, <1>7, <1>8, <1>10, <1>12, <1>14, <3>1
  <2>3. Where(k) \in {"ping", "pong", "measured"} => inst'[k].buf = Byte(k, Reads(k))'
    <3>1. Byte(k, Reads(k))' = Byte(k, Reads(k)) /\ inst'[k].buf = inst[k].buf
      BY <1>2, <1>3, <1>8, <1>14, Zenon DEF Byte
    <3> QED BY <3>1, Zenon DEF PingInv, ByteInv
  <2> QED BY <1>6, <1>8, <1>14, <2>1, <2>2, <2>3, Zenon DEF ByteInv
<1> QED BY <1>2, <1>13, <1>14, Zenon

\* A byte is read, or the connection is found closed.
LEMMA ReadStep ==
  ASSUME PingInv, NEW i \in Pair, PingStep(i), NEW from, NEW to, Read(i, from, to),
         \/ from = "await" /\ to = "ping"
         \/ from = "theirs" /\ to = "pong"
         \/ from = "mine" /\ to = "measured",
         NEW k \in Pair
  PROVE  ByteInv(k)'
<1>1. PingTypes /\ wire \in [Pair -> Seq(Nat)]
  BY Zenon DEF PingInv, LatencyInv, PingTypes
<1>2. Peer(i) \in Pair /\ Peer(i) # i /\ Peer(Peer(i)) = i /\ (k = i \/ k = Peer(i))
  BY PeerFacts, Zenon
<1>3. /\ Where(i) = from
      /\ \A x \in Pair \ {i} : Where(x)' = Where(x) /\ inst'[x] = inst[x]
  BY <1>1, PingFrame, AtIsWhere, Zenon DEF PingInv, Read
<1>4. inst'[i].round = inst[i].round /\ inst'[i].seq = inst[i].seq /\ inst[i].round \in {1, 2}
  BY <1>1, <1>3, PingPath, Zenon DEF PingTypes, InstType
<1>5. ~Early(k)'
  <2>1. Numbered = Pair
    BY <1>3, Zenon DEF PingInv, LatencyInv, PlaceInv, Early
  <2> QED BY <2>1, PingFrame, Zenon DEF PingInv, Numbered
<1>6. Reads(Peer(i))' = Reads(Peer(i)) /\ Writings(Peer(i))' = Writings(Peer(i)) /\ Where(Peer(i))' = Where(Peer(i))
  BY <1>2, <1>3, Zenon DEF Reads, Writings
<1>7. Reads(i) \in Nat /\ Reads(Peer(i)) \in Nat /\ Writings(i) \in Nat /\ Writings(Peer(i)) \in Nat
  BY <1>1, <1>2, ByteCounts, Zenon
<1>8. wire'[Peer(i)] = wire[Peer(i)] /\ (Where(i)' # "failed" => Writings(i)' = Writings(i))
  <2>1. CASE PingGoto(i, "failed") /\ UNCHANGED wire
    BY <1>1, <2>1, GotoFacts, Zenon DEF Places
  <2>2. CASE /\ wire[i] # <<>> /\ wire' = [wire EXCEPT ![i] = Tail(@)]
             /\ inst' = [inst EXCEPT ![i].pc = to, ![i].buf = Head(wire[i])]
    <3>1. Head(wire[i]) \in Nat
      BY <1>1, <2>2
    <3>2. Where(i)' = to
      BY <1>1, <2>2, <3>1, ReadFacts, Zenon DEF Places, InRound
    <3> QED BY <1>1, <1>2, <1>3, <1>4, <2>2, <3>2, Zenon DEF Writings
  <2> QED BY <2>1, <2>2, Zenon DEF Read
<1>9. CASE k = Peer(i)
  <2>1. \A n : Byte(k, Reads(k) + n)' = Byte(k, Reads(k) + n) /\ Byte(k, Reads(k))' = Byte(k, Reads(k))
    BY <1>2, <1>3, <1>4, <1>6, <1>9, Zenon DEF Byte
  <2>2. inst'[k].buf = inst[k].buf /\ Where(i) # "failed"
    BY <1>2, <1>3, <1>9, Zenon
  <2>3. Where(k) # "failed" => /\ \A n \in 1 .. Len(wire[k]) : wire[k][n] = Byte(k, Reads(k) + n)
                               /\ Where(k) \in {"ping", "pong", "measured"} => inst[k].buf = Byte(k, Reads(k))
                               /\ Reads(k) + Len(wire[k]) = Writings(i)
    BY <1>2, <1>9, <2>2, Zenon DEF PingInv, ByteInv
  <2> QED BY <1>2, <1>5, <1>6, <1>8, <1>9, <2>1, <2>2, <2>3, Zenon DEF ByteInv
<1>10. CASE k = i /\ PingGoto(i, "failed")
  <2>1. Where(i)' = "failed"
    BY <1>1, <1>10, GotoFacts, Zenon DEF Places
  <2> QED BY <1>5, <1>10, <2>1, Zenon DEF ByteInv
<1>11. CASE /\ k = i /\ wire[i] # <<>> /\ wire' = [wire EXCEPT ![i] = Tail(@)]
            /\ inst' = [inst EXCEPT ![i].pc = to, ![i].buf = Head(wire[i])]
  <2>0. wire[i] \in Seq(Nat) /\ wire[i] # <<>>
    BY <1>1, <1>11, Zenon
  <2>1. wire[i] \in Seq(Nat) /\ Len(wire[i]) >= 1 /\ Head(wire[i]) = wire[i][1] /\ Head(wire[i]) \in Nat
    BY <2>0
  <2>2. Where(i)' = to /\ inst'[i].buf = wire[i][1]
    <3>1. to \in Places
      BY Zenon DEF Places, InRound
    <3> QED BY <1>1, <1>11, <2>1, <3>1, ReadFacts, Zenon
  <2>3. Reads(i)' = Reads(i) + 1
    BY <1>3, <1>4, <2>2 DEF Reads
  <2>4. Len(wire'[i]) = Len(wire[i]) - 1 /\ \A n \in 1 .. Len(wire[i]) - 1 : wire'[i][n] = wire[i][n + 1]
    BY <1>1, <1>11, <2>1
  <2>5. /\ \A n \in 1 .. Len(wire[i]) : wire[i][n] = Byte(i, Reads(i) + n)
        /\ Where(Peer(i)) # "failed" => Reads(i) + Len(wire[i]) = Writings(Peer(i))
    BY <1>3, Zenon DEF PingInv, ByteInv
  <2>6. ASSUME NEW n \in 1 .. Len(wire'[i]) PROVE wire'[i][n] = Byte(i, Reads(i) + n)'
    <3>1. Reads(i)' + n = Reads(i) + (n + 1) /\ n + 1 \in 1 .. Len(wire[i]) /\ n \in 1 .. Len(wire[i]) - 1
      <4>1. Len(wire[i]) \in Nat /\ n \in 1 .. Len(wire[i]) - 1
        BY <2>1, <2>4
      <4>2. n + 1 \in 1 .. Len(wire[i]) /\ n \in Nat
        BY <4>1
      <4> QED BY <1>7, <2>3, <4>1, <4>2
    <3>2. Byte(i, Reads(i) + n)' = Byte(i, Reads(i) + (n + 1))
      BY <1>2, <1>3, <1>4, <3>1, Zenon DEF Byte
    <3> QED BY <2>4, <2>5, <3>1, <3>2, Zenon
  <2>7. inst'[i].buf = Byte(i, Reads(i))'
    <3>1. Byte(i, Reads(i))' = Byte(i, Reads(i) + 1)
      BY <1>2, <1>3, <1>4, <2>3, Zenon DEF Byte
    <3>2. 1 \in 1 .. Len(wire[i])
      BY <2>1
    <3> QED BY <2>2, <2>5, <3>1, <3>2, Zenon
  <2>8. Where(Peer(i)) # "failed" => Reads(i)' + Len(wire'[i]) = Writings(Peer(i))'
    BY <1>6, <1>7, <2>1, <2>3, <2>4, <2>5
  <2> QED BY <1>5, <1>6, <1>11, <2>6, <2>7, <2>8, Zenon DEF ByteInv
<1> QED BY <1>2, <1>9, <1>10, <1>11, Zenon DEF Read

\* Every step of ping-pong, of an instance or of a sidecar, keeps the invariant.
LEMMA PingInductive == PingInv /\ [PingNext]_pingVars => PingInv'
<1> SUFFICES ASSUME PingInv, [PingNext]_pingVars PROVE PingInv'
  BY Zenon
<1>1. ASSUME NEW i \in Pair, PingStep(i) PROVE PingInv'
  <2>1. ASSUME NEW k \in Pair PROVE ByteInv(k)'
    <3>1. CASE PingPongRound(i)
      BY <1>1, <3>1, WriteStep, ReadStep, Zenon DEF PingPongRound
    <3>2. CASE ~PingPongRound(i)
      BY <1>1, <3>2, SilentStep, Zenon
    <3> QED BY <3>1, <3>2, Zenon
  <2> QED BY <1>1, <2>1, LatencyStep, Zenon DEF PingInv
<1>2. ASSUME inst' = inst, wire' = wire PROVE \A i \in Pair : ByteInv(i)'
  <2>1. \A i : Where(i)' = Where(i)
    BY <1>2, Zenon DEF Where
  <2>2. \A i : Reads(i)' = Reads(i) /\ Writings(i)' = Writings(i) /\ (Early(i)' <=> Early(i))
    BY <1>2, <2>1, Zenon DEF Reads, Writings, Early
  <2>3. \A i, n : Byte(i, Reads(i) + n)' = Byte(i, Reads(i) + n) /\ Byte(i, Reads(i))' = Byte(i, Reads(i))
    BY <1>2, <2>2, Zenon DEF Byte
  <2> QED BY <1>2, <2>1, <2>2, <2>3 DEF PingInv, ByteInv
<1>3. ASSUME NEW i \in Pair, PingConfigures(i) PROVE PingInv'
  BY <1>2, <1>3, LatencyConfigured, Zenon DEF PingInv, PingConfigures
<1>4. CASE UNCHANGED pingVars
  <2> USE <1>4 DEF pingVars
  <2>1. Shaped' = Shaped /\ Reduced' = Reduced /\ Numbered' = Numbered /\ MeasuredOnce' = MeasuredOnce
    BY Zenon DEF Shaped, Reduced, Numbered, MeasuredOnce, FirstDone, Early, Where
  <2>2. \A i \in Pair : Where(i)' = Where(i) /\ PendingInv(i)'
    BY DEF PingInv, LatencyInv, PendingInv, Where
  <2>3. \A i \in Pair : PlaceInv(i)'
    BY <2>1, <2>2, Zenon DEF PingInv, LatencyInv, PlaceInv, Early
  <2> QED BY <1>2, <2>1, <2>2, <2>3, Zenon DEF PingInv, LatencyInv, PingTypes, Counts
<1> QED BY <1>1, <1>3, <1>4, Zenon DEF PingNext

\* When ping-pong starts, no network is shaped and no byte is on a wire.
LEMMA PingInitially == PingInit => PingInv
<1> SUFFICES ASSUME PingInit PROVE PingInv
  BY Zenon
<1>1. /\ \A i \in Pair : Where(i) = "start" /\ inst[i].round = 1
      /\ inst \in [Pair -> InstType] /\ \A i \in Pair : inst[i].pc # "waiting"
  BY Zenon DEF PingInit, Where, InstType, Places, InRound, PingBarriers
<1>2. PingTypes
  BY <1>1, Barrier DEF PingInit, PingTypes, NoConfig, PingBarriers
<1>3. \A s \in PingBarriers : pingCounts[s] = 0
  BY Barrier, Zenon DEF PingInit
<1>4. /\ Counts(pingCounts["network_configured"], Shaped) /\ Counts(pingCounts["ip_allocation"], Numbered)
      /\ Counts(pingCounts["ping_pong_200"], MeasuredOnce) /\ Counts(pingCounts["latency_reduced"], Reduced)
  BY <1>3, PingFinite, FS_CardinalityType DEF Counts, PingBarriers
<1>5. \A i \in Pair : PendingInv(i) /\ PlaceInv(i)
  BY <1>1 DEF PingInit, PendingInv, PlaceInv, Early, InRound
<1>6. ASSUME NEW i \in Pair PROVE ByteInv(i)
  <2>1. Peer(i) \in Pair
    BY PeerFacts, Zenon
  <2> QED BY <1>1, <2>1 DEF PingInit, ByteInv, Reads, Writings
<1> QED BY <1>2, <1>4, <1>5, <1>6, Zenon DEF PingInv, LatencyInv

\* Ping-pong (plans/network/pingpong.go) keeps its invariant, whatever fails.
THEOREM PingInvariant == PingSpec => []PingInv
BY PingInitially, PingInductive, PTL DEF PingSpec

\* What the invariant says of a measured round.
LEMMA PingMeasures == PingInv => MeasuresShape
<1> SUFFICES ASSUME PingInv PROVE MeasuresShape
  BY Zenon
<1>1. ASSUME NEW i \in Pair, NEW j \in Pair, Measuring(i) PROVE pingLink[j].latency = Latency[inst[i].round]
  <2>1. Where(i) \in InRound /\ Where(i) \in {"ping", "theirs", "pong", "mine", "measured"}
    BY <1>1, Zenon DEF Measuring, Where, InRound
  <2>2. inst[i].round \in {1, 2} /\ pingLink[j].latency \in {0, 10, 100}
    BY DEF PingInv, LatencyInv, PingTypes, InstType
  <2>3. CASE inst[i].round = 1
    <3>1. pingLink[j].latency # 0
      BY <2>1, Zenon DEF PingInv, LatencyInv, PlaceInv, Shaped
    <3>2. i \notin MeasuredOnce
      BY <2>1, <2>3 DEF MeasuredOnce, FirstDone
    <3>3. pingLink[j].latency # 10
      BY <3>2, Zenon DEF PingInv, LatencyInv, PlaceInv
    <3> QED BY <2>2, <2>3, <3>1, <3>3 DEF Latency
  <2>4. CASE inst[i].round = 2
    BY <2>1, <2>4 DEF PingInv, LatencyInv, PlaceInv, Reduced, Latency
  <2> QED BY <2>2, <2>3, <2>4, Zenon
<1>2. ASSUME NEW i \in Pair, At(i, "measured") PROVE inst[i].buf = inst[i].seq
  <2>1. Where(i) = "measured" /\ inst[i].round \in {1, 2}
    BY <1>2, AtIsWhere DEF PingInv, LatencyInv, PingTypes, InstType
  <2>2. Reads(i) % 3 = 0
    BY <2>1 DEF Reads
  <2> QED BY <2>1, <2>2 DEF PingInv, ByteInv, Byte
<1> QED BY <1>1, <1>2, Zenon DEF MeasuresShape

\* While an instance of ping-pong takes the time of a round trip, the latency of that round
\* is in force on both sides, and what comes back is its own number, although sidecars
\* may fail and dials may be refused (pingPong, MustConfigureNetwork).
THEOREM RoundsMeasureShape == PingSpec => []MeasuresShape
BY PingInvariant, PingMeasures, PTL
=============================================================================
