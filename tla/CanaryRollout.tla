----------------------------- MODULE CanaryRollout -----------------------------
(***************************************************************************)
(* pkg/controller/v1beta1/inferenceservice: the predictor of one           *)
(* InferenceService as a Knative Service. The controller reads the         *)
(* InferenceService from its cache, writes the Knative Service, carries    *)
(* over the status that this write returns and writes the status of the    *)
(* InferenceService, unless that has changed since it was read. The status *)
(* is also the memory of the rollouts: it names the revision that keeps    *)
(* the rest of the traffic while a canary gets a part of it. What else is  *)
(* in the status is left out, nothing of it is read again.                 *)
(*                                                                         *)
(* Revisions are numbered like the templates they run, 0 is none. Knative  *)
(* makes a revision of a new template, notices when it is ready and routes *)
(* the traffic, each in its own time.                                      *)
(***************************************************************************)
EXTENDS Naturals, Sequences, FiniteSets, FiniteSetsExt

CONSTANTS
  Canaries,    \* the values of canaryTrafficPercent
  NoCanary,
  MaxChanges,  \* bound on the changes of the specification
  MaxFaults    \* bound on failed calls and restarts

ASSUME CanaryRolloutAssumption ==
  /\ Canaries \subseteq 0..100
  /\ NoCanary \notin Nat
  /\ MaxChanges \in Nat /\ MaxFaults \in Nat

Revisions == 1..(MaxChanges + 1)
None == 0

VARIABLES
  ordered,   \* Knative routes a change only after it has made the revision
  isvc,      \* the InferenceService in the API server
  cache,     \* and in the cache of the controller
  queued,    \* it is to be reconciled
  worker,    \* the reconciliation that is going on
  service,   \* the specification of the Knative Service, template 0 before there is one
  kstatus,   \* its status
  revisions, \* those that Knative has made
  retrying,  \* the newest pod runs its storage initializer again after an error
  faults,    \* calls that may still fail, and restarts
  asked,     \* history: all specifications of the InferenceService
  full       \* history: the revisions that had all traffic as the latest one

knative == <<kstatus, revisions, retrying, full>>
vars == <<ordered, isvc, cache, queued, worker, service, knative, faults, asked>>

Specs == [template : Revisions, canary : Canaries \cup {NoCanary}]
Statuses == [rolledout : {None} \cup Revisions,   \* LatestRolledoutRevision
             previous : {None} \cup Revisions]    \* PreviousRolledoutRevision
Objects == [spec : Specs, status : Statuses]
Targets == [latest : BOOLEAN, revision : {None} \cup Revisions, percent : 0..100]

NoStatus == [rolledout |-> None, previous |-> None]

\* What was read, until it is written; whether that is still the latest.
Idle == [pc |-> "idle", spec |-> [template |-> None, canary |-> NoCanary],
         status |-> NoStatus, current |-> FALSE]

Init ==
  /\ ordered \in BOOLEAN
  /\ isvc \in {[spec |-> s, status |-> NoStatus] : s \in {t \in Specs : t.template = 1}}
  /\ cache = isvc
  /\ queued = TRUE
  /\ worker = Idle
  /\ service = [template |-> None, traffic |-> {}]
  /\ kstatus = [created |-> None, ready |-> None, traffic |-> {}]
  /\ revisions = {}
  /\ retrying = FALSE
  /\ faults \in 0..MaxFaults
  /\ asked = <<isvc.spec>>
  /\ full = {}

-----------------------------------------------------------------------------
(* The user, the informer and the mishaps.                                 *)

ChangeSpec(s) ==
  /\ Len(asked) <= MaxChanges
  /\ s # isvc.spec
  /\ s.template \in {isvc.spec.template, isvc.spec.template + 1}
  /\ isvc' = [isvc EXCEPT !.spec = s]
  /\ worker' = [worker EXCEPT !.current = FALSE]
  /\ asked' = Append(asked, s)
  /\ UNCHANGED <<ordered, cache, queued, service, knative, faults>>

Sync ==
  /\ cache # isvc
  /\ cache' = isvc
  /\ queued' = TRUE
  /\ UNCHANGED <<ordered, isvc, worker, service, knative, faults, asked>>

Again == worker' = Idle /\ queued' = TRUE

\* Also a conflict with a write of what is left out of the status.
CallFails ==
  /\ worker # Idle
  /\ faults > 0
  /\ faults' = faults - 1
  /\ Again
  /\ UNCHANGED <<ordered, isvc, cache, service, knative, asked>>

Restart ==
  /\ faults > 0
  /\ faults' = faults - 1
  /\ Again
  /\ cache' = isvc
  /\ UNCHANGED <<ordered, isvc, service, knative, asked>>

-----------------------------------------------------------------------------
(* The controller.                                                         *)

\* The canary gets its part as the latest revision, the rest stays with the
\* revision that was rolled out last.
Traffic(canary, rolledout) ==
  LET latest(percent) == [latest |-> TRUE, revision |-> None, percent |-> percent]
      rest == [latest |-> FALSE, revision |-> rolledout, percent |-> 100 - canary]
  IN
  IF canary = NoCanary \/ rolledout = None THEN {latest(100)}
  ELSE {latest(canary)} \cup (IF canary < 100 THEN {rest} ELSE {})

Read ==
  /\ worker = Idle
  /\ queued
  /\ worker' = [pc |-> "service", spec |-> cache.spec, status |-> cache.status,
                current |-> cache = isvc]
  /\ queued' = FALSE
  /\ UNCHANGED <<ordered, isvc, cache, service, knative, faults, asked>>

Share(r) == MapThenSumSet(LAMBDA t : t.percent, {t \in kstatus.traffic : t.revision = r})

LatestIsReady(t) == t.latest /\ t.revision = kstatus.ready

\* Variant: whatever it gets of the traffic.
IsRolledOutPartly(s) ==
  \E t \in kstatus.traffic : LatestIsReady(t) /\ s.rolledout # kstatus.ready

IsRolledOut(s) ==
  \E t \in kstatus.traffic :
    LatestIsReady(t) /\ s.rolledout # kstatus.ready /\ t.percent = 100

\* Variant: although there is a newer revision that is not ready yet.
IsRolledBackEarly(s) ==
  /\ \E t \in kstatus.traffic : LatestIsReady(t) /\ t.percent < 100
  /\ s.rolledout = kstatus.ready
  /\ Share(kstatus.ready) = 100
  /\ s.previous # None

\* All traffic is split over the revision that was rolled out last.
IsRolledBack(s) ==
  /\ \E t \in kstatus.traffic : LatestIsReady(t) /\ t.percent < 100
  /\ s.rolledout = kstatus.ready
  /\ kstatus.ready = kstatus.created
  /\ Share(kstatus.ready) = 100
  /\ s.previous # None

\* Variant: a rollout is never taken back.
PropagateStatusForward(s) ==
  IF IsRolledOut(s) THEN [rolledout |-> kstatus.ready, previous |-> s.rolledout] ELSE s

PropagateStatus(s) ==
  CASE IsRolledOut(s) -> [rolledout |-> kstatus.ready, previous |-> s.rolledout]
    [] IsRolledBack(s) -> [s EXCEPT !.rolledout = s.previous]
    [] OTHER -> s

\* The status that is carried over is the one that the write finds.
WriteService ==
  /\ worker.pc = "service"
  /\ service' = [template |-> worker.spec.template,
                 traffic |-> Traffic(worker.spec.canary, worker.status.rolledout)]
  /\ worker' = [worker EXCEPT !.pc = "status", !.status = PropagateStatus(@)]
  /\ queued' = (queued \/ service' # service)
  /\ UNCHANGED <<ordered, isvc, cache, knative, faults, asked>>

\* While the storage initializer tries again, nothing is written.
Requeue ==
  /\ worker.pc = "status"
  /\ retrying
  /\ Again
  /\ UNCHANGED <<ordered, isvc, cache, service, knative, faults, asked>>

\* A status that is the one in the cache is not written, and one that was made
\* from an older InferenceService is refused.
Changed == worker.status # cache.status
Refused == Changed /\ ~worker.current

WriteStatus ==
  /\ isvc' = IF Changed /\ worker.current THEN [isvc EXCEPT !.status = worker.status] ELSE isvc
  /\ worker' = Idle

UpdateStatus ==
  /\ worker.pc = "status"
  /\ ~retrying
  /\ WriteStatus
  /\ queued' = (queued \/ Refused)
  /\ UNCHANGED <<ordered, cache, service, knative, faults, asked>>

\* After an error of the component the status is written as far as it is known.
ListPodsFails ==
  /\ worker.pc = "status"
  /\ faults > 0
  /\ faults' = faults - 1
  /\ WriteStatus
  /\ queued' = TRUE
  /\ UNCHANGED <<ordered, cache, service, knative, asked>>

-----------------------------------------------------------------------------
(* Knative. A change of its status makes the InferenceService be           *)
(* reconciled, a change of a pod does not.                                 *)

Report(k) ==
  /\ kstatus' = k
  /\ queued' = TRUE
  /\ UNCHANGED <<ordered, isvc, cache, worker, service, faults, asked>>

CreateRevision ==
  /\ kstatus.created # service.template
  /\ Report([kstatus EXCEPT !.created = service.template])
  /\ revisions' = revisions \cup {service.template}
  /\ UNCHANGED <<retrying, full>>

BecomesReady(r) ==
  /\ r \in revisions
  /\ r > kstatus.ready
  /\ Report([kstatus EXCEPT !.ready = r])
  /\ UNCHANGED <<revisions, retrying, full>>

Route ==
  LET traffic == {[t EXCEPT !.revision = IF t.latest THEN kstatus.ready ELSE @] :
                    t \in service.traffic}
  IN
  /\ kstatus.ready # None
  /\ kstatus.traffic # traffic
  /\ ordered => kstatus.created = service.template
  /\ Report([kstatus EXCEPT !.traffic = traffic])
  /\ full' = full \cup {t.revision : t \in {u \in traffic : u.latest /\ u.percent = 100}}
  /\ UNCHANGED <<revisions, retrying>>

PodChanges ==
  /\ kstatus.created # None
  /\ retrying' = ~retrying
  /\ UNCHANGED <<ordered, isvc, cache, queued, worker, service, kstatus, revisions, full, faults, asked>>

-----------------------------------------------------------------------------
Control == Read \/ WriteService \/ Requeue \/ UpdateStatus
Knative == CreateRevision \/ Route

Next ==
  \/ \E s \in Specs : ChangeSpec(s)
  \/ Sync \/ CallFails \/ ListPodsFails \/ Restart
  \/ Control
  \/ Knative
  \/ \E r \in Revisions : BecomesReady(r)
  \/ PodChanges

Spec == Init /\ [][Next]_vars

\* A revision may never be ready.
FairSpec == Spec /\ WF_vars(Sync) /\ WF_vars(Control) /\ WF_vars(Knative)

-----------------------------------------------------------------------------
\* The parts of the traffic add up to all of it.
AddsUp(traffic) ==
  \/ traffic = {}
  \/ \E t \in traffic : t.latest /\ t.percent = 100 /\ traffic = {t}
  \/ \E t, u \in traffic :
       t.latest /\ ~u.latest /\ t.percent + u.percent = 100 /\ traffic = {t, u}

\* The state is well-formed, that of the worker and of Knative included.
RolloutTypeOK ==
  /\ ordered \in BOOLEAN /\ queued \in BOOLEAN /\ retrying \in BOOLEAN
  /\ isvc \in Objects /\ cache \in Objects
  /\ worker = Idle \/ worker \in [pc : {"service", "status"}, spec : Specs,
                                  status : Statuses, current : BOOLEAN]
  /\ service \in [template : {None} \cup Revisions, traffic : SUBSET Targets]
  /\ kstatus \in [created : {None} \cup Revisions, ready : {None} \cup Revisions,
                  traffic : SUBSET Targets]
  /\ AddsUp(service.traffic) /\ AddsUp(kstatus.traffic)
  /\ revisions \subseteq {None} \cup Revisions
  /\ faults \in 0..MaxFaults
  /\ full \subseteq Revisions

Pinned(traffic) == {t.revision : t \in {u \in traffic : ~u.latest}}

Remembered(s) == {s.rolledout, s.previous} \subseteq full \cup {None}

\* Traffic is only ever kept on a revision that had all of it before, and only
\* such revisions are remembered, whatever the controller has read, missed or
\* not managed to write.
KeptWereRolledOut ==
  /\ Pinned(service.traffic) \cup Pinned(kstatus.traffic) \subseteq full
  /\ Remembered(isvc.status)

RolloutInv == RolloutTypeOK /\ KeptWereRolledOut

\* Inductive: so is what is read from a cache or not written yet, and what Knative
\* reports has happened.
RolloutIInv ==
  /\ RolloutInv
  /\ Remembered(cache.status)
  /\ Remembered(worker.status)
  /\ \A t \in kstatus.traffic : t.latest /\ t.percent = 100 => t.revision \in full

Whole(s) == s.canary \in {NoCanary, 100}

\* A part of the traffic was asked for with this template.
RollbackAsked(r) == \E i \in DOMAIN asked : asked[i].template = r /\ ~Whole(asked[i])

\* If Knative keeps the order, a revision that was rolled out is given up only if
\* the user has asked for that.
RollbackIsAsked ==
  [][ordered /\ isvc'.status.rolledout < isvc.status.rolledout
       => RollbackAsked(isvc.status.rolledout)]_vars

\* Nothing is remembered that was not ready before.
WasReady(s) == s.rolledout <= kstatus.ready /\ s.previous <= kstatus.ready

\* Templates only grow, and pass from the user to the revisions one after the other.
TemplatesFollow ==
  /\ cache.spec.template <= isvc.spec.template
  /\ worker # Idle => worker.spec.template <= cache.spec.template
  /\ service.template <= IF worker.pc = "service" THEN worker.spec.template
                         ELSE cache.spec.template
  /\ kstatus.created <= service.template
  /\ \A r \in revisions \cup {kstatus.ready} : r <= kstatus.created

\* What is read was asked for, and a part of the traffic with the template that
\* the Knative Service has; if the order is kept, what is routed was asked for with
\* one between the revision that got the part and the one made last.
Asked(s) == \E i \in DOMAIN asked : asked[i] = s

SplitAsked ==
  /\ asked \in Seq(Specs)
  /\ Asked(isvc.spec) /\ Asked(cache.spec)
  /\ worker # Idle => Asked(worker.spec)
  /\ \A t \in service.traffic : t.latest /\ t.percent < 100 => RollbackAsked(service.template)
  /\ ordered => \A t \in kstatus.traffic : t.latest /\ t.percent < 100 =>
       \E r \in Revisions : t.revision <= r /\ r <= kstatus.created /\ RollbackAsked(r)

\* A status that can still be written was made from the one that is there, and
\* gives a revision up only if that was asked for.
StatusFollows ==
  worker # Idle /\ worker.current =>
    /\ worker.pc = "service" => worker.status = isvc.status
    /\ worker.pc = "status" /\ ordered /\ worker.status.rolledout < isvc.status.rolledout =>
         RollbackAsked(isvc.status.rolledout)

\* The inductive invariant behind RollbackIsAsked.
RollbackIInv ==
  /\ RolloutIInv
  /\ WasReady(isvc.status) /\ WasReady(cache.status) /\ WasReady(worker.status)
  /\ TemplatesFollow /\ SplitAsked /\ StatusFollows

\* The traffic is as the user wants it, as far as there is a revision that is
\* ready: all of it goes there and this is remembered, or a part of it does and
\* the rest is kept by one that was rolled out, by another one if there is any.
AsAsked ==
  LET s == isvc.spec
      r == kstatus.ready
      latest == {t \in kstatus.traffic : t.latest}
  IN
  /\ service.template = s.template
  /\ r # None =>
       /\ \A t \in latest : t.revision = r
       /\ \/ /\ Whole(s)
             /\ \A t \in latest : t.percent = 100
             /\ isvc.status.rolledout = r
          \/ /\ ~Whole(s)
             /\ \A t \in latest : t.percent = s.canary
             /\ kstatus.created = r /\ isvc.status.previous # None
                  => r \notin Pinned(kstatus.traffic)

\* When the user is done and no pod retries for ever, the rollout comes to rest
\* as it was asked for.
RolloutSettles == <>[]~retrying => <>[]AsAsked
=============================================================================
