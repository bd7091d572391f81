------------------------- MODULE CanaryRolloutProofs -------------------------
(***************************************************************************)
(* Theorems about the rollouts of an InferenceService, for any canaries,   *)
(* changes, failures and restarts: traffic is only kept on a revision that *)
(* had all of it before, and a rollout is only taken back when asked.      *)
(***************************************************************************)
EXTENDS CanaryRollout, TLAPS

USE DEF None

\* The split for a canary adds up, and what it keeps was remembered.
LEMMA TrafficIsSplit ==
  ASSUME NEW c \in Canaries \cup {NoCanary}, NEW r \in {None} \cup Revisions
  PROVE  /\ Traffic(c, r) \in SUBSET Targets
         /\ AddsUp(Traffic(c, r))
         /\ Pinned(Traffic(c, r)) \subseteq {r} \ {None}
<1> DEFINE latest(percent) == [latest |-> TRUE, revision |-> None, percent |-> percent]
           rest == [latest |-> FALSE, revision |-> r, percent |-> 100 - c]
<1>1. CASE c = NoCanary \/ r = None
  <2>1. Traffic(c, r) = {latest(100)}
    BY <1>1 DEF Traffic
  <2>2. latest(100) \in Targets
    BY DEF Targets
  <2> QED
    BY <2>1, <2>2 DEF AddsUp, Pinned
<1>2. CASE c # NoCanary /\ r # None
  <2>1. c \in 0..100 /\ r \in Revisions
    BY <1>2, CanaryRolloutAssumption
  <2>2. latest(c) \in Targets /\ rest \in Targets
    BY <2>1 DEF Targets
  <2>3. CASE c < 100
    <3>1. Traffic(c, r) = {latest(c), rest}
      BY <1>2, <2>3 DEF Traffic
    <3>2. AddsUp({latest(c), rest})
      <4>1. latest(c).latest /\ ~rest.latest /\ latest(c).percent + rest.percent = 100
        BY <2>1
      <4> QED
        BY <4>1 DEF AddsUp
    <3>3. Pinned({latest(c), rest}) \subseteq {r}
      <4>1. latest(c).latest /\ rest.revision = r
        OBVIOUS
      <4> HIDE DEF latest, rest
      <4> QED
        BY <4>1 DEF Pinned
    <3> QED
      BY <1>2, <2>2, <3>1, <3>2, <3>3
  <2>4. CASE c = 100
    <3>1. Traffic(c, r) = {latest(100)}
      BY <1>2, <2>4 DEF Traffic
    <3>2. latest(100).latest /\ latest(100).percent = 100 /\ latest(100) \in Targets
      BY <2>2, <2>4
    <3> HIDE DEF latest
    <3> QED
      BY <3>1, <3>2 DEF AddsUp, Pinned
  <2> QED
    BY <2>1, <2>3, <2>4
<1> QED
  BY <1>1, <1>2

\* What Knative routes to: the latest revision in the place of none.
Routed(traffic) ==
  {[t EXCEPT !.revision = IF t.latest THEN kstatus.ready ELSE @] : t \in traffic}

\* It is as whole, and keeps on the same revisions, as what was asked for.
LEMMA RoutedIsSplit ==
  ASSUME NEW traffic \in SUBSET Targets, AddsUp(traffic), kstatus.ready \in {None} \cup Revisions
  PROVE  /\ Routed(traffic) \in SUBSET Targets
         /\ AddsUp(Routed(traffic))
         /\ Pinned(Routed(traffic)) = Pinned(traffic)
         /\ \A t \in Routed(traffic) : t.latest => t.revision = kstatus.ready
<1> DEFINE Send(t) == [t EXCEPT !.revision = IF t.latest THEN kstatus.ready ELSE @]
<1>1. \A t \in Targets : /\ Send(t) \in Targets
                         /\ Send(t).latest = t.latest /\ Send(t).percent = t.percent
                         /\ Send(t).revision = IF t.latest THEN kstatus.ready ELSE t.revision
  BY DEF Targets
<1>2. Routed(traffic) = {Send(t) : t \in traffic}
  BY DEF Routed
<1> HIDE DEF Send
<1>3. Routed(traffic) \in SUBSET Targets
  BY <1>1, <1>2
<1>4. AddsUp(Routed(traffic))
  <2>1. CASE traffic = {}
    BY <1>2, <2>1 DEF AddsUp
  <2>2. CASE \E t \in traffic : t.latest /\ t.percent = 100 /\ traffic = {t}
    <3>1. PICK t \in traffic : t.latest /\ t.percent = 100 /\ traffic = {t}
      BY <2>2
    <3>2. Routed(traffic) = {Send(t)}
      BY <1>2, <3>1
    <3> QED
      BY <1>1, <3>1, <3>2 DEF AddsUp
  <2>3. CASE \E t, u \in traffic :
               t.latest /\ ~u.latest /\ t.percent + u.percent = 100 /\ traffic = {t, u}
    <3>1. PICK t \in traffic, u \in traffic :
            t.latest /\ ~u.latest /\ t.percent + u.percent = 100 /\ traffic = {t, u}
      BY <2>3
    <3>2. Routed(traffic) = {Send(t), Send(u)}
      BY <1>2, <3>1
    <3>3. Send(t).latest /\ ~Send(u).latest /\ Send(t).percent + Send(u).percent = 100
      BY <1>1, <3>1
    <3> QED
      BY <3>2, <3>3 DEF AddsUp
  <2> QED
    BY <2>1, <2>2, <2>3 DEF AddsUp
<1>5. Pinned(Routed(traffic)) = Pinned(traffic)
  BY <1>1, <1>2 DEF Pinned
<1>6. \A t \in Routed(traffic) : t.latest => t.revision = kstatus.ready
  BY <1>1, <1>2
<1> QED
  BY <1>3, <1>4, <1>5, <1>6

\* The status that is carried over remembers only what it did before and, if all
\* traffic is reported on it, the revision that is ready.
LEMMA StatusIsCarried ==
  ASSUME RolloutIInv, NEW s \in Statuses, Remembered(s)
  PROVE  PropagateStatus(s) \in Statuses /\ Remembered(PropagateStatus(s))
<1>1. s.rolledout \in {None} \cup Revisions /\ s.previous \in {None} \cup Revisions
  BY DEF Statuses
<1>2. kstatus.ready \in {None} \cup Revisions
  BY DEF RolloutIInv, RolloutInv, RolloutTypeOK
<1>3. CASE IsRolledOut(s)
  <2>1. kstatus.ready \in full
    BY <1>3 DEF IsRolledOut, LatestIsReady, RolloutIInv
  <2>2. PropagateStatus(s) = [rolledout |-> kstatus.ready, previous |-> s.rolledout]
    BY <1>3 DEF PropagateStatus, IsRolledOut, IsRolledBack
  <2> QED
    BY <1>1, <1>2, <2>1, <2>2 DEF Statuses, Remembered
<1>4. CASE ~IsRolledOut(s) /\ IsRolledBack(s)
  <2>1. PropagateStatus(s) = [s EXCEPT !.rolledout = s.previous]
    BY <1>4 DEF PropagateStatus
  <2> QED
    BY <1>1, <2>1 DEF Statuses, Remembered
<1>5. CASE ~IsRolledOut(s) /\ ~IsRolledBack(s)
  <2>1. PropagateStatus(s) = s
    BY <1>5 DEF PropagateStatus
  <2> QED
    BY <2>1
<1> QED
  BY <1>3, <1>4, <1>5

\* Nothing is remembered, and nothing routed, in the beginning.
LEMMA InitRolloutIInv == Init => RolloutIInv
<1> SUFFICES ASSUME Init PROVE RolloutIInv
  OBVIOUS
<1>1. isvc \in Objects /\ isvc.status = NoStatus /\ cache = isvc
  BY DEF Init, Objects, Statuses, NoStatus
<1>2. RolloutTypeOK
  BY <1>1, CanaryRolloutAssumption DEF Init, RolloutTypeOK, AddsUp
<1>3. Remembered(NoStatus)
  BY DEF Remembered, NoStatus
<1>4. worker.status = NoStatus
  BY DEF Init, Idle
<1> QED
  BY <1>1, <1>2, <1>3, <1>4 DEF Init, RolloutIInv, RolloutInv, KeptWereRolledOut, Pinned

\* The user, the informer and the mishaps only pass on what is remembered already.
LEMMA SurroundingsRolloutIInv ==
  ASSUME RolloutIInv,
         Sync \/ CallFails \/ Restart \/ PodChanges \/ \E s \in Specs : ChangeSpec(s)
  PROVE  RolloutIInv'
<1> USE DEF RolloutIInv, RolloutInv, RolloutTypeOK, KeptWereRolledOut, Remembered, knative
<1>1. Remembered(NoStatus)
  BY DEF NoStatus
<1>2. CASE Sync
  BY <1>2 DEF Sync
<1>3. CASE CallFails
  <2>1. worker'.status = NoStatus /\ faults' \in 0..MaxFaults
    BY <1>3, CanaryRolloutAssumption DEF CallFails, Again, Idle
  <2> QED
    BY <1>1, <1>3, <2>1 DEF CallFails, Again
<1>4. CASE Restart
  <2>1. worker'.status = NoStatus /\ faults' \in 0..MaxFaults
    BY <1>4, CanaryRolloutAssumption DEF Restart, Again, Idle
  <2> QED
    BY <1>1, <1>4, <2>1 DEF Restart, Again
<1>5. CASE PodChanges
  BY <1>5 DEF PodChanges
<1>6. CASE \E s \in Specs : ChangeSpec(s)
  <2>1. PICK s \in Specs : ChangeSpec(s)
    BY <1>6
  <2>2. isvc' \in Objects /\ isvc'.status = isvc.status
    BY <2>1 DEF ChangeSpec, Objects
  <2>3. worker' = Idle \/ worker' \in [pc : {"service", "status"}, spec : Specs,
                                       status : Statuses, current : BOOLEAN]
    <3>1. worker' = [worker EXCEPT !.current = FALSE]
      BY <2>1 DEF ChangeSpec
    <3>2. CASE worker = Idle
      BY <3>1, <3>2 DEF Idle
    <3>3. CASE worker # Idle
      BY <3>1, <3>3
    <3> QED
      BY <3>2, <3>3
  <2>4. worker'.status = worker.status
    BY <2>1 DEF ChangeSpec, Idle
  <2> QED
    BY <2>1, <2>2, <2>3, <2>4 DEF ChangeSpec
<1> QED
  BY <1>2, <1>3, <1>4, <1>5, <1>6

\* The controller splits the traffic by what it has read, and writes that or what
\* Knative has reported.
LEMMA ControllerRolloutIInv ==
  ASSUME RolloutIInv, Control \/ ListPodsFails
  PROVE  RolloutIInv'
<1>1. Remembered(NoStatus)
  BY DEF Remembered, NoStatus
<1>2. worker.pc \in {"service", "status"} =>
        /\ worker.spec \in Specs /\ worker.status \in Statuses
        /\ worker \in [pc : {"service", "status"}, spec : Specs,
                       status : Statuses, current : BOOLEAN]
  BY DEF RolloutIInv, RolloutInv, RolloutTypeOK, Idle
<1>3. CASE Read
  <2>1. worker' \in [pc : {"service", "status"}, spec : Specs,
                     status : Statuses, current : BOOLEAN]
    BY <1>3 DEF Read, RolloutIInv, RolloutInv, RolloutTypeOK, Objects
  <2>2. worker'.status = cache.status /\ queued' \in BOOLEAN
    BY <1>3 DEF Read
  <2> QED
    BY <1>3, <2>1, <2>2 DEF Read, knative, RolloutIInv, RolloutInv, RolloutTypeOK,
                            KeptWereRolledOut, Remembered
<1>4. CASE WriteService
  <2>1. worker.pc = "service" /\ worker.status.rolledout \in {None} \cup Revisions
    BY <1>2, <1>4 DEF WriteService, Statuses
  <2>2. worker.spec.canary \in Canaries \cup {NoCanary} /\ worker.spec.template \in Revisions
    BY <1>2, <2>1 DEF Specs
  <2>3. /\ Pinned(service'.traffic) \subseteq full
        /\ service' \in [template : {None} \cup Revisions, traffic : SUBSET Targets]
        /\ AddsUp(service'.traffic)
    BY <1>4, <2>1, <2>2, TrafficIsSplit DEF WriteService, RolloutIInv, Remembered
  <2>4. PropagateStatus(worker.status) \in Statuses /\ Remembered(PropagateStatus(worker.status))
    BY <1>2, <2>1, StatusIsCarried DEF RolloutIInv
  <2>5. worker' \in [pc : {"service", "status"}, spec : Specs,
                     status : Statuses, current : BOOLEAN]
    BY <1>2, <1>4, <2>1, <2>4 DEF WriteService
  <2>6. worker'.status = PropagateStatus(worker.status)
    BY <1>2, <1>4, <2>1 DEF WriteService
  <2>7. queued' \in BOOLEAN
    BY <1>4 DEF WriteService, RolloutIInv, RolloutInv, RolloutTypeOK
  <2> QED
    BY <1>4, <2>3, <2>4, <2>5, <2>6, <2>7
       DEF WriteService, knative, RolloutIInv, RolloutInv, RolloutTypeOK,
           KeptWereRolledOut, Remembered
<1>5. CASE Requeue
  <2>1. worker'.status = NoStatus
    BY <1>5 DEF Requeue, Again, Idle
  <2> QED
    BY <1>1, <1>5, <2>1 DEF Requeue, Again, knative, RolloutIInv, RolloutInv, RolloutTypeOK,
                            KeptWereRolledOut, Remembered
<1>6. CASE UpdateStatus \/ ListPodsFails
  <2>1. worker.pc = "status" /\ WriteStatus
    BY <1>6 DEF UpdateStatus, ListPodsFails
  <2>5. queued' \in BOOLEAN
    BY <1>6 DEF UpdateStatus, ListPodsFails
  <2>6. faults' \in 0..MaxFaults
    BY <1>6, CanaryRolloutAssumption
       DEF UpdateStatus, ListPodsFails, RolloutIInv, RolloutInv, RolloutTypeOK
  <2>2. isvc' \in Objects /\ isvc'.status \in {isvc.status, worker.status}
    BY <1>2, <2>1 DEF WriteStatus, Objects, RolloutIInv, RolloutInv, RolloutTypeOK
  <2>3. worker' = Idle /\ worker'.status = NoStatus
    BY <2>1 DEF WriteStatus, Idle
  <2>4. UNCHANGED <<ordered, cache, service, knative>>
    BY <1>6 DEF UpdateStatus, ListPodsFails
  <2> QED
    BY <1>1, <2>1, <2>2, <2>3, <2>4, <2>5, <2>6 DEF knative, RolloutIInv, RolloutInv, RolloutTypeOK,
                                        KeptWereRolledOut, Remembered
<1> QED
  BY <1>3, <1>4, <1>5, <1>6 DEF Control

\* A route that has all traffic as the latest one is remembered as having had it.
LEMMA KnativeRolloutIInv ==
  ASSUME RolloutIInv, Knative \/ \E r \in Revisions : BecomesReady(r)
  PROVE  RolloutIInv'
<1>1. kstatus \in [created : {None} \cup Revisions, ready : {None} \cup Revisions,
                   traffic : SUBSET Targets]
  BY DEF RolloutIInv, RolloutInv, RolloutTypeOK
<1>2. CASE CreateRevision
  <2>1. /\ kstatus' \in [created : {None} \cup Revisions, ready : {None} \cup Revisions,
                         traffic : SUBSET Targets]
        /\ kstatus'.traffic = kstatus.traffic
        /\ revisions' \subseteq {None} \cup Revisions
    <3>1. service.template \in {None} \cup Revisions
      BY DEF RolloutIInv, RolloutInv, RolloutTypeOK
    <3>2. kstatus' = [kstatus EXCEPT !.created = service.template]
      BY <1>2 DEF CreateRevision, Report
    <3>3. revisions' \subseteq {None} \cup Revisions
      <4>1. revisions' = revisions \cup {service.template}
        BY <1>2 DEF CreateRevision
      <4>2. revisions \subseteq {None} \cup Revisions
        BY DEF RolloutIInv, RolloutInv, RolloutTypeOK
      <4> QED
        BY <3>1, <4>1, <4>2
    <3> QED
      BY <1>1, <3>1, <3>2, <3>3
  <2> QED
    BY <1>2, <2>1 DEF CreateRevision, Report, RolloutIInv, RolloutInv, RolloutTypeOK,
                      KeptWereRolledOut, Remembered
<1>3. CASE \E r \in Revisions : BecomesReady(r)
  <2>1. PICK r \in Revisions : BecomesReady(r)
    BY <1>3
  <2>2. /\ kstatus' \in [created : {None} \cup Revisions, ready : {None} \cup Revisions,
                         traffic : SUBSET Targets]
        /\ kstatus'.traffic = kstatus.traffic
    BY <1>1, <2>1 DEF BecomesReady, Report
  <2> QED
    BY <2>1, <2>2 DEF BecomesReady, Report, RolloutIInv, RolloutInv, RolloutTypeOK,
                      KeptWereRolledOut, Remembered
<1>4. CASE Route
  <2> DEFINE traffic == Routed(service.traffic)
  <2>1. kstatus.ready \in Revisions
    BY <1>1, <1>4 DEF Route
  <2>2. service.traffic \in SUBSET Targets /\ AddsUp(service.traffic)
        /\ Pinned(service.traffic) \subseteq full
    BY DEF RolloutIInv, RolloutInv, RolloutTypeOK, KeptWereRolledOut
  <2>3. /\ traffic \in SUBSET Targets /\ AddsUp(traffic)
        /\ Pinned(traffic) \subseteq full
        /\ \A t \in traffic : t.latest => t.revision = kstatus.ready
    BY <1>1, <2>2, RoutedIsSplit
  <2>4. /\ Report([kstatus EXCEPT !.traffic = traffic])
        /\ full' = full \cup {t.revision : t \in {u \in traffic : u.latest /\ u.percent = 100}}
        /\ UNCHANGED <<revisions, retrying>>
    BY <1>4 DEF Route, Routed
  <2> HIDE DEF traffic
  <2>5. /\ kstatus' \in [created : {None} \cup Revisions, ready : {None} \cup Revisions,
                         traffic : SUBSET Targets]
        /\ kstatus'.traffic = traffic
    BY <1>1, <2>3, <2>4 DEF Report
  <2>6. full \subseteq full' /\ full' \subseteq Revisions
    BY <2>1, <2>3, <2>4 DEF RolloutIInv, RolloutInv, RolloutTypeOK
  <2>7. \A t \in traffic : t.latest /\ t.percent = 100 => t.revision \in full'
    BY <2>4
  <2>8. RolloutTypeOK'
    BY <2>3, <2>4, <2>5, <2>6 DEF Report, RolloutIInv, RolloutInv, RolloutTypeOK
  <2>9. UNCHANGED <<service, isvc, cache, worker>>
    BY <2>4 DEF Report
  <2>10. KeptWereRolledOut'
    BY <2>2, <2>3, <2>5, <2>6, <2>9 DEF RolloutIInv, RolloutInv, KeptWereRolledOut, Remembered
  <2>11. Remembered(cache.status)' /\ Remembered(worker.status)'
    BY <2>6, <2>9 DEF RolloutIInv, Remembered
  <2> QED
    BY <2>5, <2>7, <2>8, <2>10, <2>11 DEF RolloutIInv, RolloutInv
<1> QED
  BY <1>2, <1>3, <1>4 DEF Knative

\* Every step keeps the inductive invariant.
THEOREM NextRolloutIInv == RolloutIInv /\ [Next]_vars => RolloutIInv'
<1> SUFFICES ASSUME RolloutIInv, [Next]_vars PROVE RolloutIInv'
  OBVIOUS
<1>1. CASE UNCHANGED vars
  BY <1>1 DEF vars, knative, RolloutIInv, RolloutInv, RolloutTypeOK, KeptWereRolledOut, Remembered
<1>2. CASE Next
  BY <1>2, SurroundingsRolloutIInv, ControllerRolloutIInv, KnativeRolloutIInv DEF Next
<1> QED
  BY <1>1, <1>2

\* Traffic is only kept, and only a revision remembered, that had all traffic before
\* as the latest one.
THEOREM KeptHadAllTraffic == Spec => []RolloutInv
<1>1. Init => RolloutIInv
  BY InitRolloutIInv
<1>2. RolloutIInv /\ [Next]_vars => RolloutIInv'
  BY NextRolloutIInv
<1>3. RolloutIInv => RolloutInv
  BY DEF RolloutIInv
<1> QED
  BY <1>1, <1>2, <1>3, PTL DEF Spec
-----------------------------------------------------------------------------
(* A rollout is only taken back when that was asked for.                   *)

\* What the invariants say of the parts, in the form the steps below use.
LEMMA RollbackTypes ==
  ASSUME RollbackIInv
  PROVE  /\ isvc \in Objects /\ cache \in Objects
         /\ worker # Idle => worker \in [pc : {"service", "status"}, spec : Specs,
                                         status : Statuses, current : BOOLEAN]
         /\ service \in [template : Nat, traffic : SUBSET Targets]
         /\ kstatus \in [created : Nat, ready : Nat, traffic : SUBSET Targets]
         /\ revisions \subseteq Nat
<1>1. {None} \cup Revisions \subseteq Nat
  BY DEF Revisions
<1> QED
  BY <1>1 DEF RollbackIInv, RolloutIInv, RolloutInv, RolloutTypeOK

\* The numbers in a specification and in a status.
LEMMA TemplatesAreNumbers ==
  /\ \A s \in Specs : s.template \in Nat /\ s.template \in Revisions
  /\ \A s \in Statuses : s.rolledout \in Nat /\ s.previous \in Nat
  /\ \A o \in Objects : o.spec \in Specs /\ o.status \in Statuses
BY DEF Specs, Statuses, Objects, Revisions

\* The latest revision gets a part of the traffic only if that is the canary.
LEMMA PartIsTheCanary ==
  ASSUME NEW c \in Canaries \cup {NoCanary}, NEW r,
         NEW t \in Traffic(c, r), t.latest, t.percent < 100
  PROVE  c \notin {NoCanary, 100}
<1> DEFINE latest(percent) == [latest |-> TRUE, revision |-> None, percent |-> percent]
<1> SUFFICES ASSUME c \in {NoCanary, 100} PROVE t = latest(100)
  OBVIOUS
<1> QED
  BY DEF Traffic

\* In the beginning nothing was routed, and the only specification was asked for.
LEMMA InitRollbackIInv == Init => RollbackIInv
<1> SUFFICES ASSUME Init PROVE RollbackIInv
  OBVIOUS
<1>1. RolloutIInv
  BY InitRolloutIInv
<1>2. isvc.spec \in Specs /\ isvc.status = NoStatus /\ cache = isvc /\ asked = <<isvc.spec>>
  BY DEF Init
<1>3. asked \in Seq(Specs) /\ Asked(isvc.spec)
  BY <1>2 DEF Asked
<1>4. isvc.spec.template \in Nat
  BY <1>2, TemplatesAreNumbers
<1>5. TemplatesFollow
  BY <1>2, <1>4 DEF Init, TemplatesFollow, Idle
<1>6. worker = Idle /\ worker.status = NoStatus
  BY DEF Init, Idle
<1> QED
  BY <1>1, <1>2, <1>3, <1>5, <1>6
     DEF Init, RollbackIInv, WasReady, NoStatus, SplitAsked, StatusFollows

\* What was asked for stays so when the user asks for more.
LEMMA AskedIsKept ==
  ASSUME RollbackIInv, NEW s \in Specs, asked' = Append(asked, s)
  PROVE  /\ asked' \in Seq(Specs)
         /\ \E i \in DOMAIN asked' : asked'[i] = s
         /\ \A i \in DOMAIN asked : i \in DOMAIN asked' /\ asked'[i] = asked[i]
<1>1. asked \in Seq(Specs)
  BY DEF RollbackIInv, SplitAsked
<1>2. /\ DOMAIN asked' = 1..(Len(asked) + 1) /\ DOMAIN asked = 1..Len(asked) /\ Len(asked) \in Nat
      /\ asked'[Len(asked) + 1] = s
  BY <1>1
<1>3. \A i \in DOMAIN asked : asked'[i] = asked[i]
  BY <1>1
<1> QED
  BY <1>1, <1>2, <1>3

\* A new specification is a new thing asked for, and what was read is not the
\* latest any more.
LEMMA ChangeRollbackIInv ==
  ASSUME RollbackIInv, RolloutIInv', NEW s \in Specs, ChangeSpec(s)
  PROVE  RollbackIInv'
<1>1. /\ isvc \in Objects /\ isvc.spec.template \in Nat /\ cache.spec.template \in Nat
      /\ s.template \in Nat
  BY RollbackTypes, TemplatesAreNumbers
<1>2. isvc'.spec = s /\ isvc'.status = isvc.status
  BY <1>1 DEF ChangeSpec, Objects
<1>3. worker' = [worker EXCEPT !.current = FALSE] /\ UNCHANGED <<cache, service, knative, ordered>>
  BY DEF ChangeSpec
<1>4. /\ worker'.pc = worker.pc /\ worker'.spec = worker.spec /\ worker'.status = worker.status
      /\ ~worker'.current
      /\ worker' # Idle => worker # Idle
  <2>1. CASE worker = Idle
    BY <1>3, <2>1 DEF Idle
  <2>2. CASE worker # Idle
    BY <1>3, <2>2, RollbackTypes
  <2> QED
    BY <2>1, <2>2
<1>5. isvc.spec.template <= s.template
  BY <1>1 DEF ChangeSpec
<1>6. TemplatesFollow'
  <2>1. cache'.spec.template <= isvc'.spec.template
    BY <1>1, <1>2, <1>3, <1>5 DEF RollbackIInv, TemplatesFollow
  <2> QED
    BY <1>3, <1>4, <2>1 DEF RollbackIInv, TemplatesFollow, knative
<1>7. asked' = Append(asked, s)
  BY DEF ChangeSpec
<1>8. \A x : Asked(x) => \E i \in DOMAIN asked' : asked'[i] = x
  BY <1>7, AskedIsKept DEF Asked
<1>9. \A r : RollbackAsked(r) => \E i \in DOMAIN asked' : asked'[i].template = r /\ ~Whole(asked'[i])
  BY <1>7, AskedIsKept DEF RollbackAsked
<1>10. SplitAsked'
  <2>1. Asked(isvc.spec)' /\ asked' \in Seq(Specs)
    BY <1>2, <1>7, AskedIsKept DEF Asked
  <2>2. Asked(cache.spec)'
    BY <1>3, <1>8 DEF Asked, RollbackIInv, SplitAsked
  <2>3. (worker # Idle => Asked(worker.spec))'
    BY <1>4, <1>8 DEF Asked, RollbackIInv, SplitAsked
  <2>4. (\A t \in service.traffic : t.latest /\ t.percent < 100 => RollbackAsked(service.template))'
    BY <1>3, <1>9 DEF RollbackAsked, RollbackIInv, SplitAsked
  <2>5. (ordered => \A t \in kstatus.traffic : t.latest /\ t.percent < 100 =>
           \E r \in Revisions : t.revision <= r /\ r <= kstatus.created /\ RollbackAsked(r))'
    BY <1>3, <1>9 DEF RollbackAsked, RollbackIInv, SplitAsked, knative
  <2> QED
    BY <2>1, <2>2, <2>3, <2>4, <2>5 DEF SplitAsked
<1> QED
  BY <1>2, <1>3, <1>4, <1>6, <1>10 DEF RollbackIInv, WasReady, StatusFollows, knative

\* The informer passes on what is there, and a mishap forgets what was read.
LEMMA MishapRollbackIInv ==
  ASSUME RollbackIInv, RolloutIInv', Sync \/ CallFails \/ Restart \/ PodChanges \/ Requeue
  PROVE  RollbackIInv'
<1>1. isvc.spec.template \in Nat /\ cache.spec.template \in Nat /\ service.template \in Nat
      /\ (worker # Idle => worker.spec.template \in Nat)
  BY RollbackTypes, TemplatesAreNumbers
<1>2. UNCHANGED <<ordered, isvc, service, kstatus, revisions, asked>>
  BY DEF Sync, CallFails, Restart, PodChanges, Requeue, knative
<1>3. cache' = cache \/ cache' = isvc
  BY DEF Sync, CallFails, Restart, PodChanges, Requeue
<1>4. worker' = worker \/ worker' = Idle
  BY DEF Sync, CallFails, Restart, PodChanges, Requeue, Again
<1>5. cache'.spec.template \in Nat /\ cache.spec.template <= cache'.spec.template
      /\ cache'.spec.template <= isvc.spec.template
  BY <1>1, <1>3 DEF RollbackIInv, TemplatesFollow
<1>6. service.template <= cache.spec.template
  <2>1. worker.pc = "service" => worker # Idle
    BY DEF Idle
  <2> QED
    BY <1>1, <2>1 DEF RollbackIInv, TemplatesFollow
<1>7. TemplatesFollow'
  <2>1. CASE worker' = worker
    BY <1>1, <1>2, <1>5, <2>1 DEF RollbackIInv, TemplatesFollow, Idle
  <2>2. CASE worker' = Idle
    <3>1. worker'.pc # "service"
      BY <2>2 DEF Idle
    <3>2. service'.template <= cache'.spec.template
      BY <1>1, <1>2, <1>5, <1>6
    <3> QED
      BY <1>2, <1>5, <2>2, <3>1, <3>2 DEF RollbackIInv, TemplatesFollow
  <2> QED
    BY <1>4, <2>1, <2>2
<1>8. WasReady(isvc.status)' /\ WasReady(cache.status)'
  BY <1>2, <1>3 DEF RollbackIInv, WasReady
<1>9. WasReady(worker.status)' /\ StatusFollows'
  <2>1. CASE worker' = worker
    BY <1>2, <2>1 DEF RollbackIInv, WasReady, StatusFollows, RollbackAsked
  <2>2. CASE worker' = Idle
    <3>1. worker'.status = NoStatus
      BY <2>2 DEF Idle
    <3>2. kstatus'.ready \in Nat
      BY <1>2, RollbackTypes
    <3> QED
      BY <2>2, <3>1, <3>2 DEF WasReady, NoStatus, StatusFollows
  <2> QED
    BY <1>4, <2>1, <2>2
<1>10. SplitAsked'
  BY <1>2, <1>3, <1>4 DEF RollbackIInv, SplitAsked, Asked, RollbackAsked
<1> QED
  BY <1>7, <1>8, <1>9, <1>10 DEF RollbackIInv
\* What looks like a rollback was asked for: a part of the traffic was, with the
\* template that got it.
LEMMA RollbackWasAsked ==
  ASSUME RollbackIInv, ordered, NEW s \in Statuses, IsRolledBack(s)
  PROVE  RollbackAsked(s.rolledout)
<1>1. PICK t \in kstatus.traffic : LatestIsReady(t) /\ t.percent < 100
  BY DEF IsRolledBack
<1>2. PICK r \in Revisions : t.revision <= r /\ r <= kstatus.created /\ RollbackAsked(r)
  BY <1>1 DEF RollbackIInv, SplitAsked, LatestIsReady
<1>3. t.revision = kstatus.ready /\ kstatus.ready = kstatus.created /\ kstatus.ready = s.rolledout
  BY <1>1 DEF LatestIsReady, IsRolledBack
<1>4. kstatus.ready \in Nat /\ r \in Nat
  BY RollbackTypes DEF Revisions
<1>5. r = s.rolledout
  BY <1>2, <1>3, <1>4
<1> QED
  BY <1>2, <1>5

\* The status that is carried over names what was ready, and gives up what was
\* rolled out only if that was asked for.
LEMMA CarriedWasReady ==
  ASSUME RollbackIInv, NEW s \in Statuses, WasReady(s)
  PROVE  /\ WasReady(PropagateStatus(s))
         /\ ordered /\ PropagateStatus(s).rolledout < s.rolledout => RollbackAsked(s.rolledout)
<1>1. s.rolledout \in Nat /\ s.previous \in Nat /\ kstatus.ready \in Nat
  BY TemplatesAreNumbers, RollbackTypes
<1>2. s.rolledout <= kstatus.ready /\ s.previous <= kstatus.ready
  BY DEF WasReady
<1>3. CASE IsRolledOut(s)
  <2>1. PropagateStatus(s) = [rolledout |-> kstatus.ready, previous |-> s.rolledout]
    BY <1>3 DEF PropagateStatus, IsRolledOut, IsRolledBack
  <2> QED
    BY <1>1, <1>2, <2>1 DEF WasReady
<1>4. CASE ~IsRolledOut(s) /\ IsRolledBack(s)
  <2>1. PropagateStatus(s) = [s EXCEPT !.rolledout = s.previous]
    BY <1>4 DEF PropagateStatus
  <2>2. WasReady(PropagateStatus(s))
    BY <1>1, <1>2, <2>1 DEF WasReady, Statuses
  <2> QED
    BY <1>4, <2>2, RollbackWasAsked
<1>5. CASE ~IsRolledOut(s) /\ ~IsRolledBack(s)
  <2>1. PropagateStatus(s) = s
    BY <1>5 DEF PropagateStatus
  <2> QED
    BY <1>1, <2>1
<1> QED
  BY <1>3, <1>4, <1>5

\* What is read is what was asked for and remembered.
LEMMA ReadRollbackIInv ==
  ASSUME RollbackIInv, RolloutIInv', Read
  PROVE  RollbackIInv'
<1>1. /\ worker' = [pc |-> "service", spec |-> cache.spec, status |-> cache.status,
                    current |-> cache = isvc]
      /\ worker = Idle
      /\ UNCHANGED <<ordered, isvc, cache, service, knative, asked>>
  BY DEF Read
<1>2. worker.pc # "service"
  BY <1>1 DEF Idle
<1>3. cache.spec.template \in Nat
  BY RollbackTypes, TemplatesAreNumbers
<1>4. TemplatesFollow'
  BY <1>1, <1>2, <1>3 DEF RollbackIInv, TemplatesFollow, knative
<1>5. WasReady(isvc.status)' /\ WasReady(cache.status)' /\ WasReady(worker.status)'
  BY <1>1 DEF RollbackIInv, WasReady, knative
<1>6. SplitAsked'
  BY <1>1 DEF RollbackIInv, SplitAsked, Asked, RollbackAsked, knative
<1>7. StatusFollows'
  BY <1>1 DEF StatusFollows
<1> QED
  BY <1>4, <1>5, <1>6, <1>7 DEF RollbackIInv

\* What is written to the Knative Service was asked for.
LEMMA WriteRollbackIInv ==
  ASSUME RollbackIInv, RolloutIInv', WriteService
  PROVE  RollbackIInv'
<1>1. /\ worker.pc = "service" /\ worker # Idle
      /\ service' = [template |-> worker.spec.template,
                     traffic |-> Traffic(worker.spec.canary, worker.status.rolledout)]
      /\ worker' = [worker EXCEPT !.pc = "status", !.status = PropagateStatus(@)]
      /\ UNCHANGED <<ordered, isvc, cache, knative, asked>>
  BY DEF WriteService, Idle
<1>2. worker \in [pc : {"service", "status"}, spec : Specs, status : Statuses, current : BOOLEAN]
  BY <1>1, RollbackTypes
<1>3. /\ worker'.pc = "status" /\ worker'.spec = worker.spec /\ worker'.current = worker.current
      /\ worker'.status = PropagateStatus(worker.status)
  BY <1>1, <1>2
<1>4. worker.spec \in Specs /\ worker.status \in Statuses
  BY <1>2
<1>5. /\ worker.spec.template \in Nat /\ cache.spec.template \in Nat
      /\ service.template \in Nat /\ kstatus.created \in Nat
  BY <1>4, RollbackTypes, TemplatesAreNumbers
<1>6. /\ kstatus.created <= worker.spec.template
      /\ worker.spec.template <= cache.spec.template
  BY <1>1, <1>5 DEF RollbackIInv, TemplatesFollow
<1>7. TemplatesFollow'
  BY <1>1, <1>3, <1>6 DEF RollbackIInv, TemplatesFollow, knative
<1>8. /\ WasReady(PropagateStatus(worker.status))
      /\ ordered /\ PropagateStatus(worker.status).rolledout < worker.status.rolledout =>
           RollbackAsked(worker.status.rolledout)
  BY <1>4, CarriedWasReady DEF RollbackIInv
<1>9. WasReady(isvc.status)' /\ WasReady(cache.status)' /\ WasReady(worker.status)'
  BY <1>1, <1>3, <1>8 DEF RollbackIInv, WasReady, knative
<1>10. StatusFollows'
  BY <1>1, <1>3, <1>8 DEF RollbackIInv, StatusFollows, RollbackAsked
<1>11. \A t \in service'.traffic : t.latest /\ t.percent < 100 => RollbackAsked(worker.spec.template)
  <2> SUFFICES ASSUME NEW t \in service'.traffic, t.latest, t.percent < 100
               PROVE  RollbackAsked(worker.spec.template)
    OBVIOUS
  <2>1. worker.spec.canary \in Canaries \cup {NoCanary}
    BY <1>4 DEF Specs
  <2>2. t \in Traffic(worker.spec.canary, worker.status.rolledout)
    BY <1>1
  <2>3. ~Whole(worker.spec)
    BY <2>1, <2>2, PartIsTheCanary DEF Whole
  <2> QED
    BY <1>1, <2>3 DEF RollbackIInv, SplitAsked, Asked, RollbackAsked
<1>12. SplitAsked'
  <2>1. service'.template = worker.spec.template
    BY <1>1
  <2>2. (\A t \in service.traffic : t.latest /\ t.percent < 100 => RollbackAsked(service.template))'
    BY <1>1, <1>11, <2>1 DEF RollbackAsked
  <2> QED
    BY <1>1, <1>3, <2>2 DEF RollbackIInv, SplitAsked, Asked, RollbackAsked, knative
<1> QED
  BY <1>7, <1>9, <1>10, <1>12 DEF RollbackIInv

\* The status that is written names what was ready.
LEMMA StatusRollbackIInv ==
  ASSUME RollbackIInv, RolloutIInv', UpdateStatus \/ ListPodsFails
  PROVE  RollbackIInv'
<1>1. /\ isvc' = IF Changed /\ worker.current THEN [isvc EXCEPT !.status = worker.status] ELSE isvc
      /\ worker' = Idle /\ worker.pc = "status"
      /\ UNCHANGED <<ordered, cache, service, knative, asked>>
  BY DEF UpdateStatus, ListPodsFails, WriteStatus
<1>2. isvc'.spec = isvc.spec /\ isvc'.status \in {isvc.status, worker.status}
  BY <1>1, RollbackTypes DEF Objects
<1>3. WasReady(isvc.status)' /\ WasReady(cache.status)' /\ WasReady(worker.status)'
  <2>1. worker'.status = NoStatus /\ kstatus'.ready \in Nat
    BY <1>1, RollbackTypes DEF Idle, knative
  <2> QED
    BY <1>1, <1>2, <2>1 DEF RollbackIInv, WasReady, NoStatus, knative
<1>4. TemplatesFollow'
  <2>1. worker.pc # "service" /\ worker'.pc # "service"
    BY <1>1 DEF Idle
  <2> QED
    BY <1>1, <1>2, <2>1 DEF RollbackIInv, TemplatesFollow, knative
<1>5. SplitAsked'
  BY <1>1, <1>2 DEF RollbackIInv, SplitAsked, Asked, RollbackAsked, knative
<1>6. StatusFollows'
  BY <1>1 DEF StatusFollows
<1> QED
  BY <1>3, <1>4, <1>5, <1>6 DEF RollbackIInv

\* Knative only makes newer revisions ready, and routes what the service says.
LEMMA KnativeRollbackIInv ==
  ASSUME RollbackIInv, RolloutIInv', Knative \/ \E r \in Revisions : BecomesReady(r)
  PROVE  RollbackIInv'
<1>1. UNCHANGED <<ordered, isvc, cache, worker, service, asked>>
  BY DEF Knative, CreateRevision, Route, BecomesReady, Report
<1>2. /\ kstatus \in [created : Nat, ready : Nat, traffic : SUBSET Targets]
      /\ service.template \in Nat /\ revisions \subseteq Nat
  BY RollbackTypes
<1>3. /\ kstatus.created <= service.template
      /\ kstatus.ready <= kstatus.created
      /\ \A r \in revisions : r <= kstatus.created
  BY DEF RollbackIInv, TemplatesFollow
<1>4. /\ isvc.status.rolledout \in Nat /\ isvc.status.previous \in Nat
      /\ cache.status.rolledout \in Nat /\ cache.status.previous \in Nat
      /\ worker.status.rolledout \in Nat /\ worker.status.previous \in Nat
  <2>1. worker.status \in Statuses
    BY RollbackTypes DEF Idle, NoStatus, Statuses
  <2> QED
    BY <2>1, RollbackTypes, TemplatesAreNumbers
<1>5. StatusFollows'
  BY <1>1 DEF RollbackIInv, StatusFollows, RollbackAsked
<1>6. CASE CreateRevision
  <2>1. /\ kstatus' = [kstatus EXCEPT !.created = service.template]
        /\ revisions' = revisions \cup {service.template}
    BY <1>6 DEF CreateRevision, Report
  <2>2. /\ kstatus'.created = service.template /\ kstatus'.ready = kstatus.ready
        /\ kstatus'.traffic = kstatus.traffic
    BY <1>2, <2>1
  <2>3. TemplatesFollow'
    <3>1. \A r \in revisions' \cup {kstatus'.ready} : r <= kstatus'.created
      BY <1>2, <1>3, <2>1, <2>2
    <3> QED
      BY <1>1, <1>2, <2>2, <3>1 DEF RollbackIInv, TemplatesFollow
  <2>4. \A r \in Revisions : r <= kstatus.created => r <= kstatus'.created
    BY <1>2, <1>3, <2>2 DEF Revisions
  <2>5. SplitAsked'
    <3>1. (ordered => \A t \in kstatus.traffic : t.latest /\ t.percent < 100 =>
             \E r \in Revisions : t.revision <= r /\ r <= kstatus.created /\ RollbackAsked(r))'
      BY <1>1, <2>2, <2>4 DEF RollbackIInv, SplitAsked, RollbackAsked
    <3> QED
      BY <1>1, <3>1 DEF RollbackIInv, SplitAsked, Asked, RollbackAsked
  <2>6. WasReady(isvc.status)' /\ WasReady(cache.status)' /\ WasReady(worker.status)'
    BY <1>1, <2>2 DEF RollbackIInv, WasReady
  <2> QED
    BY <1>5, <2>3, <2>5, <2>6 DEF RollbackIInv
<1>7. CASE \E r \in Revisions : BecomesReady(r)
  <2>1. PICK r \in Revisions : BecomesReady(r)
    BY <1>7
  <2>2. r \in revisions /\ r > kstatus.ready /\ kstatus' = [kstatus EXCEPT !.ready = r]
        /\ UNCHANGED revisions /\ r \in Nat
    BY <1>2, <2>1 DEF BecomesReady, Report
  <2>3. /\ kstatus'.created = kstatus.created /\ kstatus'.ready = r
        /\ kstatus'.traffic = kstatus.traffic
    BY <1>2, <2>2
  <2>4. TemplatesFollow'
    BY <1>1, <1>3, <2>2, <2>3 DEF RollbackIInv, TemplatesFollow
  <2>5. SplitAsked'
    BY <1>1, <2>3 DEF RollbackIInv, SplitAsked, Asked, RollbackAsked
  <2>6. WasReady(isvc.status)' /\ WasReady(cache.status)' /\ WasReady(worker.status)'
    BY <1>1, <1>2, <1>4, <2>2, <2>3 DEF RollbackIInv, WasReady
  <2> QED
    BY <1>5, <2>4, <2>5, <2>6 DEF RollbackIInv
<1>8. CASE Route
  <2>1. /\ kstatus' = [kstatus EXCEPT !.traffic = Routed(service.traffic)]
        /\ UNCHANGED revisions
        /\ ordered => kstatus.created = service.template
    BY <1>8 DEF Route, Report, Routed
  <2>2. /\ kstatus'.created = kstatus.created /\ kstatus'.ready = kstatus.ready
        /\ kstatus'.traffic = Routed(service.traffic)
    BY <1>2, <2>1
  <2>3. TemplatesFollow'
    BY <1>1, <2>1, <2>2 DEF RollbackIInv, TemplatesFollow
  <2>4. WasReady(isvc.status)' /\ WasReady(cache.status)' /\ WasReady(worker.status)'
    BY <1>1, <2>2 DEF RollbackIInv, WasReady
  <2>5. ASSUME ordered, NEW t \in kstatus'.traffic, t.latest, t.percent < 100
        PROVE  \E r \in Revisions : t.revision <= r /\ r <= kstatus.created /\ RollbackAsked(r)
    <3>1. PICK u \in service.traffic :
            t = [u EXCEPT !.revision = IF u.latest THEN kstatus.ready ELSE @]
      BY <2>2, <2>5 DEF Routed
    <3>2. u \in Targets
      BY RollbackTypes
    <3>3. u.latest /\ u.percent < 100 /\ t.revision = kstatus.ready
      BY <2>5, <3>1, <3>2 DEF Targets
    <3>4. RollbackAsked(kstatus.created)
      BY <2>1, <2>5, <3>3 DEF RollbackIInv, SplitAsked
    <3>5. kstatus.created \in Revisions
      <4>1. asked \in Seq(Specs)
        BY DEF RollbackIInv, SplitAsked
      <4>2. \A i \in DOMAIN asked : asked[i].template \in Revisions
        BY <4>1, TemplatesAreNumbers
      <4> QED
        BY <3>4, <4>2 DEF RollbackAsked
    <3> QED
      BY <1>2, <1>3, <3>3, <3>4, <3>5
  <2>6. SplitAsked'
    <3>1. (ordered => \A t \in kstatus.traffic : t.latest /\ t.percent < 100 =>
             \E r \in Revisions : t.revision <= r /\ r <= kstatus.created /\ RollbackAsked(r))'
      BY <1>1, <2>2, <2>5 DEF RollbackAsked
    <3> QED
      BY <1>1, <3>1 DEF RollbackIInv, SplitAsked, Asked, RollbackAsked
  <2> QED
    BY <1>5, <2>3, <2>4, <2>6 DEF RollbackIInv
<1> QED
  BY <1>6, <1>7, <1>8 DEF Knative

\* Every step keeps the invariant.
THEOREM NextRollbackIInv == RollbackIInv /\ [Next]_vars => RollbackIInv'
<1> SUFFICES ASSUME RollbackIInv, [Next]_vars PROVE RollbackIInv'
  OBVIOUS
<1>1. RolloutIInv'
  BY NextRolloutIInv DEF RollbackIInv
<1>2. CASE UNCHANGED vars
  BY <1>1, <1>2 DEF vars, knative, RollbackIInv, WasReady, TemplatesFollow, SplitAsked, Asked,
                    RollbackAsked, StatusFollows
<1>3. CASE Next
  BY <1>1, <1>3, ChangeRollbackIInv, MishapRollbackIInv, ReadRollbackIInv, WriteRollbackIInv,
     StatusRollbackIInv, KnativeRollbackIInv DEF Next, Control
<1> QED
  BY <1>2, <1>3

\* Only the write of the status changes it, and what that gives up was asked for.
LEMMA RollbackStep ==
  ASSUME RollbackIInv, [Next]_vars, ordered, isvc'.status.rolledout < isvc.status.rolledout
  PROVE  RollbackAsked(isvc.status.rolledout)
<1>1. isvc.status.rolledout \in Nat /\ isvc \in Objects
  BY RollbackTypes, TemplatesAreNumbers
<1>2. ~(isvc.status.rolledout < isvc.status.rolledout)
  BY <1>1
<1>3. isvc'.status # isvc.status
  BY <1>2
<1>4. UpdateStatus \/ ListPodsFails
  <2>1. ASSUME NEW s \in Specs, ChangeSpec(s) PROVE isvc'.status = isvc.status
    BY <1>1, <2>1 DEF ChangeSpec, Objects
  <2>2. isvc' # isvc
    BY <1>3
  <2> QED
    BY <1>3, <2>1, <2>2 DEF Next, vars, Control, Knative, Sync, CallFails, Restart, PodChanges, Read,
         WriteService, Requeue, CreateRevision, Route, BecomesReady, Report
<1>5. worker.pc = "status" /\ worker # Idle /\ worker.current /\ isvc'.status = worker.status
  <2>1. worker.pc = "status" /\ WriteStatus
    BY <1>4 DEF UpdateStatus, ListPodsFails
  <2>2. Changed /\ worker.current
    BY <1>3, <2>1 DEF WriteStatus
  <2>3. isvc' = [isvc EXCEPT !.status = worker.status]
    BY <2>1, <2>2 DEF WriteStatus
  <2>4. isvc'.status = worker.status
    BY <1>1, <2>3 DEF Objects
  <2> QED
    BY <2>1, <2>2, <2>4 DEF Idle
<1> QED
  BY <1>5 DEF RollbackIInv, StatusFollows

\* As long as Knative reports a revision before it routes to it, the controller gives
\* up a revision that was rolled out only if a part of the traffic was asked for
\* with its template.
THEOREM RollbacksAreAskedFor == Spec => RollbackIsAsked
<1>1. Init => RollbackIInv
  BY InitRollbackIInv
<1>2. RollbackIInv /\ [Next]_vars => RollbackIInv'
  BY NextRollbackIInv
<1>3. RollbackIInv /\ [Next]_vars =>
        [ordered /\ isvc'.status.rolledout < isvc.status.rolledout
           => RollbackAsked(isvc.status.rolledout)]_vars
  BY RollbackStep
<1> QED
  BY <1>1, <1>2, <1>3, PTL DEF Spec, RollbackIsAsked
=============================================================================
