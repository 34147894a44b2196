--------------------------- MODULE WorkloadProofs ---------------------------
(***************************************************************************)
(* Submissions and the scheduler's catalog, for any requests, catalog and  *)
(* number of handlers: submissions that do not overlap keep what their     *)
(* review relies on, changes that do not overlap keep the catalog          *)
(* consistent, and the reaper of plan windows evicts no project whose plan *)
(* was open all along.                                                     *)
(***************************************************************************)
EXTENDS SubmitSaga, FiniteSetTheorems, WellFoundedInduction, TLAPS

\* A leaf is tried with Zenon, and where that fails with the SMT solver.
USE Zenon, SMTT(30)

JobFields ==
    {"id", "key", "print", "user", "project", "status", "required", "device", "sm", "pinned",
     "streaming", "bitrate", "priority", "preemptible", "limit", "complete", "sought", "cross"}

Busy(x) == h[x].pc # "idle"

\* Handlers that do not overlap are busy one at a time.
OneBusy == width = 1 => \A x, y \in Handlers : Busy(x) /\ Busy(y) => x = y

CatalogTypes ==
    /\ DOMAIN h = Handlers /\ faults \in Nat
    /\ \A l \in DOMAIN plans : plans[l] \in PlanShapes
    /\ \A x \in Handlers :
         /\ h[x].pc = "writePlan" => h[x].plan \in PlanShapes
         /\ h[x].pc = "dropQueue" => \A p \in DOMAIN h[x].lists : h[x].lists[p] \subseteq QueueIds
    /\ DOMAIN projects = Projects
    /\ \A p \in Projects : "plan" \in DOMAIN projects[p]

\* What a change of the catalog has read is still so when it writes.
ChangeKnows(x) ==
    /\ h[x].pc = "writePlan" => h[x].plan.queues \subseteq DOMAIN queues
    /\ h[x].pc = "dropQueue" =>
         /\ faults = 0 => {p \in DOMAIN plans : h[x].id \in plans[p].queues} \subseteq DOMAIN h[x].lists
         /\ \A p \in DOMAIN h[x].lists : h[x].lists[p] = plans[p].queues \ {h[x].id}
    /\ h[x].pc = "bind" => h[x].id \in DOMAIN plans

\* Unless a call failed, plans list queues there are; a project may be bound to a plan that is gone
\* only while the handler that deleted it clears the bindings.
CatalogKept ==
    width = 1 =>
        /\ \A x \in Handlers : ChangeKnows(x)
        /\ faults = 0 => \A l \in DOMAIN plans : plans[l].queues \subseteq DOMAIN queues
        /\ faults = 0 => \A p \in Projects :
             \/ projects[p].plan \in DOMAIN plans \cup {None}
             \/ \E x \in Handlers : h[x].pc = "unbind" /\ h[x].id = projects[p].plan

CatalogInv == OneBusy /\ CatalogTypes /\ CatalogKept

\* Job ids count the jobs.
JobsNumbered ==
    /\ IsFiniteSet(jobs)
    /\ \A j \in jobs : DOMAIN j = JobFields /\ j.id \in 1 .. Cardinality(jobs)
    /\ \A i, j \in jobs : i.id = j.id => i = j

Deciding == {"context", "usage", "preempt", "reserve", "create"}

Permitted(l) == l.plan.cross /\ (l.queue = None \/ l.queue.cross)

\* What a submission holds: the request it decoded, as a profile completed it.
\* Past a lookup among all jobs none has its key, and past a review of all jobs none of
\* another project shares its GPU class, unless plan and queue permit that.
SubmissionKnows(l) ==
    /\ l.pc \in {"check"} \cup Deciding => l.req \in Requests
    /\ l.pc \in {"usage", "reserve", "create"} =>
         DOMAIN l.seen = RequestFields /\ l.seen.user = l.req.user
    /\ width = 1 =>
         /\ l.pc \in Deciding /\ l.sought => \A j \in jobs : ~SameKey(j, l.req)
         /\ (l.pc \in {"reserve", "create"} /\ l.complete /\ MPSRequested(l.seen)) =>
              (CrossProjectMPS(WithDevice(l.seen), {j \in jobs : j.status \in CountedStatuses})
                 => Permitted(l))

SubmitInv ==
    /\ OneBusy /\ DOMAIN h = Handlers
    /\ JobsNumbered
    /\ \A x \in Handlers : SubmissionKnows(h[x])
    /\ SerialSubmissions

\* A handler that may start is alone when handlers do not overlap.
LEMMA FreeAlone ==
    ASSUME NEW x \in Handlers, Free(x), width = 1
    PROVE  \A y \in Handlers : ~Busy(y)
<1> DEFINE B == {y \in Handlers : h[y].pc # "idle"}
<1>1. IsFiniteSet(B)
  BY HandlersAssumption, FS_Subset
<1>2. Cardinality(B) \in Nat /\ Cardinality(B) < 1
  BY <1>1, FS_CardinalityType DEF Free
<1>3. B = {}
  BY <1>1, <1>2, FS_EmptySet
<1> QED
  BY <1>3 DEF Busy

\* One handler moves, the one that is busy or one that may start.
LEMMA HandlerMoves ==
    ASSUME OneBusy, DOMAIN h = Handlers, NEW x \in Handlers, NEW l, Becomes(x, l),
           Busy(x) \/ Free(x), UNCHANGED width
    PROVE  /\ DOMAIN h' = Handlers /\ h'[x] = l
           /\ \A y \in Handlers : y # x => h'[y] = h[y]
           /\ OneBusy'
           /\ width = 1 => \A y \in Handlers : y # x => ~Busy(y) /\ ~Busy(y)'
<1>1. /\ DOMAIN h' = Handlers /\ h'[x] = l
      /\ \A y \in Handlers : y # x => h'[y] = h[y]
  BY DEF Becomes
<1>2. width = 1 => \A y \in Handlers : y # x => ~Busy(y)
  <2>1. CASE Busy(x)
    BY <2>1 DEF OneBusy
  <2>2. CASE Free(x)
    BY <2>2, FreeAlone
  <2> QED
    BY <2>1, <2>2
<1>3. width = 1 => \A y \in Handlers : y # x => ~Busy(y)'
  BY <1>1, <1>2 DEF Busy
<1>4. OneBusy'
  BY <1>3 DEF OneBusy
<1> QED
  BY <1>1, <1>2, <1>3, <1>4

Writing == {"writePlan", "dropQueue", "bind", "unbind"}

Reaping == {"reap", "evict"}

\* A pass that is about to evict.
Sentence(x, left, p, missed) ==
    [pc |-> "evict", now |-> h[x].now, left |-> left, project |-> p, missed |-> missed]

\* A step that leaves the catalog alone, of a handler that has nothing to
\* write to it before and after.
LEMMA CatalogAlone ==
    ASSUME CatalogInv, NEW x \in Handlers, NEW l, Becomes(x, l), Busy(x) \/ Free(x),
           h[x].pc # "unbind", l.pc \notin Writing,
           UNCHANGED <<width, queues, plans, projects>>,
           faults' \in Nat, faults' = 0 => faults = 0
    PROVE  CatalogInv'
<1>1. /\ DOMAIN h' = Handlers /\ h'[x] = l /\ OneBusy'
      /\ \A y \in Handlers : y # x => h'[y] = h[y]
  BY HandlerMoves DEF CatalogInv, CatalogTypes
<1>2. CatalogTypes'
  BY <1>1 DEF CatalogInv, CatalogTypes, Writing
<1>3. ASSUME width = 1 PROVE \A y \in Handlers : ChangeKnows(y)'
  <2>1. ASSUME NEW y \in Handlers PROVE ChangeKnows(y)'
    <3>1. CASE y = x
      BY <1>1, <3>1 DEF ChangeKnows, Writing
    <3>2. CASE y # x
      <4>1. ChangeKnows(y)
        BY <1>3 DEF CatalogInv, CatalogKept
      <4>2. h'[y] = h[y]
        BY <1>1, <3>2
      <4> QED
        BY <4>1, <4>2 DEF ChangeKnows
    <3> QED
      BY <3>1, <3>2
  <2> QED
    BY <2>1
<1>4. ASSUME width = 1, faults' = 0, NEW p \in Projects
      PROVE  \/ projects'[p].plan \in DOMAIN plans' \cup {None}
             \/ \E y \in Handlers : h'[y].pc = "unbind" /\ h'[y].id = projects'[p].plan
  BY <1>1, <1>4 DEF CatalogInv, CatalogKept
<1>5. CatalogKept'
  BY <1>3, <1>4 DEF CatalogInv, CatalogKept
<1> QED
  BY <1>1, <1>2, <1>5 DEF CatalogInv

\* A step that leaves the catalog and the handlers alone.
LEMMA CatalogSame ==
    ASSUME CatalogInv, UNCHANGED <<width, queues, plans, projects, h, faults>>
    PROVE  CatalogInv'
<1>1. OneBusy' /\ CatalogTypes'
  BY DEF CatalogInv, OneBusy, Busy, CatalogTypes
<1>2. CatalogKept'
  BY DEF CatalogInv, CatalogKept, ChangeKnows
<1> QED
  BY <1>1, <1>2 DEF CatalogInv

\* What a submission holds after the first half of its review.
ContextRead(x) ==
    LET r == h[x].req
        project == projects[r.project]
    IN  [pc |-> "usage", req |-> r, retried |-> h[x].retried, sought |-> h[x].sought,
         project |-> project, plan |-> plans[project.plan],
         queue |-> QueueByName(queues, r.queue),
         seen |-> WithAccelerator(profiles.accelerator, r)]

\* The first half of a review answers or keeps what it read.
LEMMA ContextStep ==
    ASSUME NEW x \in Handlers, SubmitContext(x)
    PROVE  Becomes(x, Idle) \/ Becomes(x, ContextRead(x))
BY DEF SubmitContext, ContextRead

\* Where the steps of a submission lead.
LEMMA SubmitBecomes ==
    ASSUME NEW x \in Handlers, SubmitStart(x) \/ Submit(x)
    PROVE  \E l : Becomes(x, l) /\ l.pc \in {"idle", "check"} \cup Deciding
<1>0. CASE SubmitStart(x)
  <2>1. PICK r \in Requests : Becomes(x, Submission("check", r, FALSE, FALSE))
    BY <1>0 DEF SubmitStart
  <2>2. Submission("check", r, FALSE, FALSE).pc = "check"
    BY DEF Submission
  <2> QED
    BY <2>1, <2>2
<1>1. CASE SubmitCheck(x)
  <2>1. \/ Becomes(x, Idle)
        \/ \E b : Becomes(x, Submission("context", h[x].req, FALSE, b))
    BY <1>1 DEF SubmitCheck
  <2>2. Idle.pc = "idle" /\ \A b : Submission("context", h[x].req, FALSE, b).pc = "context"
    BY DEF Idle, Submission
  <2> QED
    BY <2>1, <2>2 DEF Deciding
<1>2. CASE SubmitContext(x)
  <2>1. ContextRead(x).pc = "usage" /\ Idle.pc = "idle"
    BY DEF ContextRead, Idle
  <2> QED
    BY <1>2, <2>1, ContextStep DEF Deciding
<1>3. CASE SubmitUsage(x)
  <2> DEFINE m == [pc |-> "preempt", req |-> h[x].req, queue |-> h[x].queue, sought |-> h[x].sought]
  <2>1. Becomes(x, Idle) \/ Becomes(x, m) \/ \E b : Becomes(x, Reviewed(h[x], "reserve", b))
    BY <1>3 DEF SubmitUsage
  <2>2. /\ Idle.pc = "idle" /\ m.pc = "preempt"
        /\ \A b : Reviewed(h[x], "reserve", b).pc = "reserve"
    BY DEF Idle, Reviewed
  <2> HIDE DEF m
  <2> QED
    BY <2>1, <2>2 DEF Deciding
<1>4. CASE SubmitPreempt(x)
  BY <1>4 DEF SubmitPreempt, Idle, Submission, Deciding
<1>5. CASE SubmitReserve(x)
  BY <1>5 DEF SubmitReserve, Idle, Reviewed, Deciding
<1>6. CASE SubmitCreate(x)
  BY <1>6 DEF SubmitCreate, Idle
<1> QED
  BY <1>0, <1>1, <1>2, <1>3, <1>4, <1>5, <1>6 DEF Submit

\* The steps of a submission.
LEMMA SubmitKeepsCatalog ==
    ASSUME CatalogInv, NEW x \in Handlers, SubmitStart(x) \/ Submit(x)
    PROVE  CatalogInv'
<1>0. faults \in Nat
  BY DEF CatalogInv, CatalogTypes
<1>1. h[x].pc # "unbind" /\ (Busy(x) \/ Free(x))
  BY DEF SubmitStart, Submit, SubmitCheck, SubmitContext, SubmitUsage, SubmitPreempt,
         SubmitReserve, SubmitCreate, Free, Busy
<1>2. UNCHANGED <<width, queues, plans, projects>>
  BY DEF SubmitStart, Submit, SubmitCheck, SubmitContext, SubmitUsage, SubmitPreempt,
         SubmitReserve, SubmitCreate, Catalog
<1>3. faults' \in {faults, faults + 1}
  BY DEF SubmitStart, Submit, SubmitCheck, SubmitContext, SubmitUsage, SubmitPreempt,
         SubmitReserve, SubmitCreate, Listed
<1>4. PICK l : Becomes(x, l) /\ l.pc \in {"idle", "check"} \cup Deciding
  BY SubmitBecomes
<1>5. l.pc \notin Writing
  BY <1>4 DEF Writing, Deciding
<1>6. faults' \in Nat /\ (faults' = 0 => faults = 0)
  BY <1>0, <1>3
<1> QED
  BY <1>1, <1>2, <1>4, <1>5, <1>6, CatalogAlone

\* Where the steps of the reaper lead.
LEMMA ReapBecomes ==
    ASSUME NEW x \in Handlers, ReapStart(x) \/ Reap(x)
    PROVE  \E l : Becomes(x, l) /\ l.pc \in {"idle"} \cup Reaping
<1>1. \A t, left : Pass(t, left).pc = "reap"
  BY DEF Pass
<1>2. CASE ReapStart(x)
  BY <1>1, <1>2 DEF ReapStart, Reaping
<1>3. CASE ReapProject(x)
  <2>1. \/ \E left : Becomes(x, Pass(h[x].now, left))
        \/ \E left, p, missed : Becomes(x, Sentence(x, left, p, missed))
    BY <1>3 DEF ReapProject, Sentence
  <2>2. \A left, p, missed : Sentence(x, left, p, missed).pc = "evict"
    BY DEF Sentence
  <2> QED
    BY <1>1, <2>1, <2>2 DEF Reaping
<1>4. CASE ReapEvict(x)
  BY <1>1, <1>4 DEF ReapEvict, Reaping
<1>5. CASE ReapEnd(x)
  BY <1>5 DEF ReapEnd, Idle
<1> QED
  BY <1>2, <1>3, <1>4, <1>5 DEF Reap

\* The steps of the reaper.
LEMMA ReapKeepsCatalog ==
    ASSUME CatalogInv, NEW x \in Handlers, ReapStart(x) \/ Reap(x)
    PROVE  CatalogInv'
<1>0. faults \in Nat
  BY DEF CatalogInv, CatalogTypes
<1>1. h[x].pc # "unbind" /\ (Busy(x) \/ Free(x))
  BY DEF ReapStart, Reap, ReapProject, ReapEvict, ReapEnd, Change, Free, Busy
<1>2. UNCHANGED <<width, queues, plans, projects>>
  BY DEF ReapStart, Reap, ReapProject, ReapEvict, ReapEnd, Catalog
<1>3. faults' \in {faults, faults + 1}
  BY DEF ReapStart, Reap, ReapProject, ReapEvict, ReapEnd
<1>4. PICK l : Becomes(x, l) /\ l.pc \in {"idle"} \cup Reaping
  BY ReapBecomes
<1>5. l.pc \notin Writing
  BY <1>4 DEF Writing, Reaping
<1>6. faults' \in Nat /\ (faults' = 0 => faults = 0)
  BY <1>0, <1>3
<1> QED
  BY <1>1, <1>2, <1>4, <1>5, <1>6, CatalogAlone

\* A deletion of queue q that has read these plans.
Dropping(q, listing) ==
    [pc |-> "dropQueue", id |-> q, lists |-> [p \in listing |-> plans[p].queues \ {q}]]

\* A change of the catalog that reads before it writes.
LEMMA ReadKeepsCatalog ==
    ASSUME CatalogInv, NEW x \in Handlers,
           \/ ReadPlansOf(x) \/ CreatePlan(x) \/ UpdatePlan(x) \/ BindPlanQueues(x)
           \/ CheckBinding(x)
    PROVE  CatalogInv'
<1>1. Free(x) /\ UNCHANGED <<width, queues, plans, projects>>
  BY DEF ReadPlansOf, CreatePlan, UpdatePlan, BindPlanQueues, CheckBinding, Change, Catalog
<1>d. faults' \in Nat /\ (faults' = 0 => faults = 0)
  <2>1. faults \in Nat /\ faults' \in {faults, faults + 1}
    BY DEF CatalogInv, CatalogTypes, ReadPlansOf, CreatePlan, UpdatePlan, BindPlanQueues, CheckBinding
  <2> QED
    BY <2>1
<1>2. \E l : /\ Becomes(x, l) /\ l.pc \in {"writePlan", "dropQueue", "bind"}
             /\ l.pc = "writePlan" => l.plan \in PlanShapes /\ l.plan.queues \subseteq DOMAIN queues
             /\ l.pc = "dropQueue" =>
                  /\ DOMAIN l.lists \subseteq DOMAIN plans
                  /\ faults' = 0 => {p \in DOMAIN plans : l.id \in plans[p].queues} \subseteq DOMAIN l.lists
                  /\ \A p \in DOMAIN l.lists : l.lists[p] = plans[p].queues \ {l.id}
             /\ l.pc = "bind" => l.id \in DOMAIN plans
  <2>1. CASE ReadPlansOf(x)
    <3>1. PICK q \in DOMAIN queues, read \in SUBSET DOMAIN plans :
             /\ faults' = IF read = DOMAIN plans THEN faults ELSE faults + 1
             /\ Becomes(x, Dropping(q, {p \in read : q \in plans[p].queues}))
      BY <2>1 DEF ReadPlansOf, Dropping
    <3> DEFINE m == Dropping(q, {p \in read : q \in plans[p].queues})
    <3>2. /\ m.pc = "dropQueue" /\ m.id = q /\ DOMAIN m.lists = {p \in read : q \in plans[p].queues}
          /\ \A p \in DOMAIN m.lists : m.lists[p] = plans[p].queues \ {q}
      BY DEF Dropping
    <3>3. faults' = 0 => read = DOMAIN plans
      <4>1. faults \in Nat
        BY DEF CatalogInv, CatalogTypes
      <4> QED
        BY <3>1, <4>1
    <3>4. Becomes(x, m)
      BY <3>1
    <3> HIDE DEF m
    <3> QED
      BY <3>2, <3>3, <3>4
  <2>2. CASE CreatePlan(x) \/ UpdatePlan(x) \/ BindPlanQueues(x)
    <3>1. \E p : \E r \in PlanShapes : QueuesChecked(x, p, r)
      <4>1. CASE CreatePlan(x) \/ UpdatePlan(x)
        BY <4>1, RecordsAssumption DEF CreatePlan, UpdatePlan
      <4>2. CASE BindPlanQueues(x)
        <5>1. PICK p \in DOMAIN plans, Q \in SUBSET QueueIds :
                     QueuesChecked(x, p, [plans[p] EXCEPT !.queues = Q])
          BY <4>2 DEF BindPlanQueues
        <5>2. plans[p] \in PlanShapes
          BY DEF CatalogInv, CatalogTypes
        <5>3. [plans[p] EXCEPT !.queues = Q] \in PlanShapes
          BY <5>2 DEF PlanShapes
        <5> QED
          BY <5>1, <5>3
      <4> QED
        BY <2>2, <4>1, <4>2
    <3>2. PICK p : \E r \in PlanShapes : QueuesChecked(x, p, r)
      BY <3>1
    <3>3. PICK r \in PlanShapes : QueuesChecked(x, p, r)
      BY <3>2
    <3> QED
      BY <3>3 DEF QueuesChecked
  <2>3. CASE CheckBinding(x)
    BY <2>3 DEF CheckBinding
  <2> QED
    BY <2>1, <2>2, <2>3
<1>3. PICK l : /\ Becomes(x, l) /\ l.pc \in {"writePlan", "dropQueue", "bind"}
               /\ l.pc = "writePlan" => l.plan \in PlanShapes /\ l.plan.queues \subseteq DOMAIN queues
               /\ l.pc = "dropQueue" =>
                    /\ DOMAIN l.lists \subseteq DOMAIN plans
                    /\ faults' = 0 => {p \in DOMAIN plans : l.id \in plans[p].queues} \subseteq DOMAIN l.lists
                    /\ \A p \in DOMAIN l.lists : l.lists[p] = plans[p].queues \ {l.id}
               /\ l.pc = "bind" => l.id \in DOMAIN plans
  BY <1>2
<1>b. OneBusy /\ DOMAIN h = Handlers /\ Becomes(x, l)
  BY <1>3 DEF CatalogInv, CatalogTypes
<1>c. /\ DOMAIN h' = Handlers /\ h'[x] = l /\ OneBusy'
      /\ \A y \in Handlers : y # x => h'[y] = h[y]
      /\ width = 1 => \A y \in Handlers : y # x => ~Busy(y) /\ ~Busy(y)'
  BY <1>1, <1>b, HandlerMoves
<1>4. /\ DOMAIN h' = Handlers /\ h'[x] = l /\ OneBusy' /\ h[x].pc = "idle"
      /\ \A y \in Handlers : y # x => h'[y] = h[y]
      /\ width = 1 => \A y \in Handlers : y # x => h'[y].pc = "idle"
  BY <1>1, <1>c DEF Busy, Free
<1>a. l.pc = "dropQueue" => \A p \in DOMAIN l.lists : l.lists[p] \subseteq QueueIds
  BY <1>3 DEF CatalogInv, CatalogTypes, PlanShapes
<1>5. CatalogTypes'
  BY <1>1, <1>d, <1>3, <1>4, <1>a, ZenonT(30) DEF CatalogInv, CatalogTypes
<1>6. ASSUME width = 1, NEW y \in Handlers PROVE ChangeKnows(y)'
  <2>1. CASE y = x
    BY <1>1, <1>3, <1>4, <2>1 DEF ChangeKnows
  <2>2. CASE y # x
    BY <1>4, <1>6, <2>2 DEF ChangeKnows
  <2> QED
    BY <2>1, <2>2
<1>7. ASSUME width = 1, faults = 0, NEW p \in Projects
      PROVE  projects[p].plan \in DOMAIN plans \cup {None}
  <2>1. \A y \in Handlers : h[y].pc = "idle"
    BY <1>1, <1>7, FreeAlone DEF Busy
  <2> QED
    BY <1>7, <2>1 DEF CatalogInv, CatalogKept
<1>8. CatalogKept'
  BY <1>1, <1>d, <1>6, <1>7 DEF CatalogInv, CatalogKept
<1> QED
  BY <1>4, <1>5, <1>8 DEF CatalogInv

\* More queues, and other profiles, are no harm.
LEMMA QueueKeepsCatalog ==
    ASSUME CatalogInv, NEW x \in Handlers, CreateQueue(x) \/ UpdateQueue(x)
    PROVE  CatalogInv'
<1>1. UNCHANGED <<width, plans, projects, h, faults>> /\ DOMAIN queues \subseteq DOMAIN queues'
  BY DEF CreateQueue, UpdateQueue, PutRecord
<1>2. OneBusy' /\ CatalogTypes'
  BY <1>1 DEF CatalogInv, OneBusy, Busy, CatalogTypes
<1>3. ASSUME NEW y \in Handlers, ChangeKnows(y) PROVE ChangeKnows(y)'
  BY <1>1, <1>3 DEF ChangeKnows
<1>4. CatalogKept'
  BY <1>1, <1>3 DEF CatalogInv, CatalogKept
<1> QED
  BY <1>2, <1>4 DEF CatalogInv

\* A plan is written as it was checked.
LEMMA WritePlanKeepsCatalog ==
    ASSUME CatalogInv, NEW x \in Handlers, WritePlan(x)
    PROVE  CatalogInv'
<1>1. /\ h[x].pc = "writePlan" /\ Becomes(x, Idle)
      /\ UNCHANGED <<width, queues, projects, faults>>
  BY DEF WritePlan
<1>2. plans' = plans \/ plans' = PutRecord(plans, h[x].id, h[x].plan)
  BY DEF WritePlan
<1>3. /\ DOMAIN h' = Handlers /\ h'[x].pc = "idle" /\ OneBusy'
      /\ \A y \in Handlers : y # x => h'[y] = h[y]
      /\ width = 1 => \A y \in Handlers : y # x => h[y].pc = "idle"
  BY <1>1, HandlerMoves DEF CatalogInv, CatalogTypes, Busy, Idle
<1>4. h[x].plan \in PlanShapes
  BY <1>1 DEF CatalogInv, CatalogTypes
<1>5. /\ DOMAIN plans \subseteq DOMAIN plans'
      /\ \A l \in DOMAIN plans' : plans'[l] = h[x].plan \/ (l \in DOMAIN plans /\ plans'[l] = plans[l])
  BY <1>2 DEF PutRecord
<1>6. CatalogTypes'
  BY <1>1, <1>3, <1>4, <1>5, ZenonT(30) DEF CatalogInv, CatalogTypes
<1>7. ASSUME width = 1, NEW y \in Handlers PROVE ChangeKnows(y)'
  <2>1. h'[y].pc = "idle"
    BY <1>3, <1>7
  <2> QED
    BY <2>1 DEF ChangeKnows
<1>8. ASSUME width = 1, faults = 0, NEW l \in DOMAIN plans'
      PROVE  plans'[l].queues \subseteq DOMAIN queues
  BY <1>1, <1>5, <1>8 DEF CatalogInv, CatalogKept, ChangeKnows
<1>9. ASSUME width = 1, faults = 0, NEW p \in Projects
      PROVE  projects[p].plan \in DOMAIN plans' \cup {None}
  <2>1. \A y \in Handlers : h[y].pc # "unbind"
    BY <1>1, <1>3, <1>9
  <2> QED
    BY <1>5, <1>9, <2>1 DEF CatalogInv, CatalogKept
<1>10. CatalogKept'
  BY <1>1, <1>7, <1>8, <1>9 DEF CatalogInv, CatalogKept
<1> QED
  BY <1>3, <1>6, <1>10 DEF CatalogInv

\* A queue goes with its mention in every plan.
LEMMA DropQueueKeepsCatalog ==
    ASSUME CatalogInv, NEW x \in Handlers, DropQueue(x)
    PROVE  CatalogInv'
<1>1. /\ h[x].pc = "dropQueue" /\ Becomes(x, Idle)
      /\ UNCHANGED <<width, projects, faults>>
  BY DEF DropQueue
<1>2. /\ DOMAIN h' = Handlers /\ h'[x].pc = "idle" /\ OneBusy'
      /\ \A y \in Handlers : y # x => h'[y] = h[y]
      /\ width = 1 => \A y \in Handlers : y # x => h[y].pc = "idle"
  BY <1>1, HandlerMoves DEF CatalogInv, CatalogTypes, Busy, Idle
<1>3. CASE UNCHANGED <<queues, plans>>
  <2>1. CatalogTypes'
    BY <1>1, <1>2, <1>3 DEF CatalogInv, CatalogTypes
  <2>2. ASSUME width = 1, NEW y \in Handlers PROVE ChangeKnows(y)'
    BY <1>2, <2>2 DEF ChangeKnows
  <2>3. width = 1 => \A y \in Handlers : h[y].pc # "unbind"
    BY <1>1, <1>2
  <2>4. CatalogKept'
    BY <1>1, <1>3, <2>2, <2>3 DEF CatalogInv, CatalogKept
  <2> QED
    BY <1>2, <2>1, <2>4 DEF CatalogInv
<1>4. CASE h[x].id \in DOMAIN queues
  <2> DEFINE l == h[x].lists
  <2>1. /\ queues' = DropRecord(queues, h[x].id)
        /\ plans' = [p \in DOMAIN plans |-> IF p \in DOMAIN l
                                             THEN [plans[p] EXCEPT !.queues = l[p]]
                                             ELSE plans[p]]
    BY <1>4 DEF DropQueue
  <2>2. DOMAIN queues' = DOMAIN queues \ {h[x].id} /\ DOMAIN plans' = DOMAIN plans
    BY <2>1 DEF DropRecord
  <2>3. ASSUME NEW p \in DOMAIN plans
        PROVE  /\ plans'[p] \in PlanShapes
               /\ width = 1 /\ faults = 0 => plans'[p].queues \subseteq DOMAIN queues'
    <3>1. plans[p] \in PlanShapes
      BY DEF CatalogInv, CatalogTypes
    <3>2. CASE p \in DOMAIN l
      <4>1. l[p] \in SUBSET QueueIds
        BY <1>1, <3>2 DEF CatalogInv, CatalogTypes
      <4>2. plans'[p] = [plans[p] EXCEPT !.queues = l[p]]
        BY <2>1, <3>2
      <4>3. plans'[p] \in PlanShapes /\ plans'[p].queues = l[p]
        BY <3>1, <4>1, <4>2 DEF PlanShapes
      <4>4. width = 1 /\ faults = 0 => l[p] = plans[p].queues \ {h[x].id} /\ plans[p].queues \subseteq DOMAIN queues
        BY <1>1, <3>2 DEF CatalogInv, CatalogKept, ChangeKnows
      <4> QED
        BY <2>2, <4>3, <4>4
    <3>3. CASE p \notin DOMAIN l
      <4>1. plans'[p] = plans[p]
        BY <2>1, <3>3
      <4>2. width = 1 /\ faults = 0 => h[x].id \notin plans[p].queues /\ plans[p].queues \subseteq DOMAIN queues
        BY <1>1, <3>3 DEF CatalogInv, CatalogKept, ChangeKnows
      <4> QED
        BY <2>2, <3>1, <4>1, <4>2
    <3> QED
      BY <3>2, <3>3
  <2>4. CatalogTypes'
    BY <1>1, <1>2, <2>2, <2>3 DEF CatalogInv, CatalogTypes
  <2>5. ASSUME width = 1, NEW y \in Handlers PROVE ChangeKnows(y)'
    BY <1>2, <2>5 DEF ChangeKnows
  <2>6. width = 1 => \A y \in Handlers : h[y].pc # "unbind"
    BY <1>1, <1>2
  <2>7. CatalogKept'
    BY <1>1, <2>2, <2>3, <2>5, <2>6 DEF CatalogInv, CatalogKept
  <2> QED
    BY <1>2, <2>4, <2>7 DEF CatalogInv
<1> QED
  BY <1>3, <1>4 DEF DropQueue

\* The binding is written, or the call fails.
LEMMA BindKeepsCatalog ==
    ASSUME CatalogInv, NEW x \in Handlers, Bind(x)
    PROVE  CatalogInv'
<1>1. h[x].pc = "bind" /\ Becomes(x, Idle) /\ UNCHANGED <<width, queues, plans>>
  BY DEF Bind
<1>2. Busy(x) /\ Idle.pc \notin Writing /\ faults \in Nat
  BY <1>1 DEF Busy, Idle, Writing, CatalogInv, CatalogTypes
<1>3. CASE UNCHANGED projects /\ faults' = faults + 1
  <2>1. faults' \in Nat /\ faults' # 0
    BY <1>2, <1>3
  <2> QED
    BY <1>1, <1>2, <1>3, <2>1, CatalogAlone
<1>4. CASE projects' = [projects EXCEPT ![h[x].project].plan = h[x].id] /\ UNCHANGED faults
  <2>1. /\ DOMAIN h' = Handlers /\ h'[x].pc = "idle" /\ OneBusy'
        /\ \A y \in Handlers : y # x => h'[y] = h[y]
        /\ width = 1 => \A y \in Handlers : y # x => h[y].pc = "idle"
    BY <1>1, HandlerMoves DEF CatalogInv, CatalogTypes, Busy, Idle
  <2>2. ASSUME NEW p \in Projects
        PROVE  "plan" \in DOMAIN projects'[p] /\ projects'[p].plan \in {h[x].id, projects[p].plan}
    BY <1>4 DEF CatalogInv, CatalogTypes
  <2>3. CatalogTypes'
    BY <1>1, <1>4, <2>1, <2>2 DEF CatalogInv, CatalogTypes
  <2>4. ASSUME width = 1, NEW y \in Handlers PROVE ChangeKnows(y)'
    BY <2>1, <2>4 DEF ChangeKnows
  <2>5. width = 1 => h[x].id \in DOMAIN plans /\ \A y \in Handlers : h[y].pc # "unbind"
    BY <1>1, <2>1 DEF CatalogInv, CatalogKept, ChangeKnows
  <2>6. CatalogKept'
    BY <1>1, <1>4, <2>2, <2>4, <2>5 DEF CatalogInv, CatalogKept
  <2> QED
    BY <2>1, <2>3, <2>6 DEF CatalogInv
<1> QED
  BY <1>3, <1>4 DEF Bind

\* A plan goes, and the bindings to it are left to the same handler.
LEMMA DeletePlanKeepsCatalog ==
    ASSUME CatalogInv, NEW x \in Handlers, DeletePlan(x)
    PROVE  CatalogInv'
<1>1. Free(x) /\ UNCHANGED <<width, queues, projects, faults>>
  BY DEF DeletePlan, Change
<1>2. PICK l \in DOMAIN plans : /\ plans' = DropRecord(plans, l)
                                /\ Becomes(x, [pc |-> "unbind", id |-> l])
  BY DEF DeletePlan
<1>3. DOMAIN plans' = DOMAIN plans \ {l} /\ \A m \in DOMAIN plans' : plans'[m] = plans[m]
  BY <1>2 DEF DropRecord
<1>4. /\ DOMAIN h' = Handlers /\ h'[x] = [pc |-> "unbind", id |-> l] /\ OneBusy'
      /\ \A y \in Handlers : y # x => h'[y] = h[y]
      /\ width = 1 => \A y \in Handlers : y # x => h'[y].pc = "idle"
  BY <1>1, <1>2, HandlerMoves DEF CatalogInv, CatalogTypes, Busy
<1>5. h'[x].pc = "unbind" /\ h'[x].id = l
  BY <1>4
<1>6. CatalogTypes'
  BY <1>1, <1>3, <1>4, <1>5 DEF CatalogInv, CatalogTypes
<1>7. ASSUME width = 1, NEW y \in Handlers PROVE ChangeKnows(y)'
  BY <1>4, <1>5, <1>7 DEF ChangeKnows
<1>8. ASSUME width = 1, faults = 0, NEW p \in Projects
      PROVE  projects[p].plan \in DOMAIN plans' \cup {None} \/ projects[p].plan = l
  <2>1. \A y \in Handlers : h[y].pc = "idle"
    BY <1>1, <1>8, FreeAlone DEF Busy
  <2> QED
    BY <1>3, <1>8, <2>1 DEF CatalogInv, CatalogKept
<1>9. CatalogKept'
  BY <1>1, <1>3, <1>5, <1>7, <1>8 DEF CatalogInv, CatalogKept
<1> QED
  BY <1>4, <1>6, <1>9 DEF CatalogInv

\* The bindings are cleared, or the call fails.
LEMMA UnbindKeepsCatalog ==
    ASSUME CatalogInv, NEW x \in Handlers, Unbind(x)
    PROVE  CatalogInv'
<1>1. h[x].pc = "unbind" /\ Becomes(x, Idle) /\ UNCHANGED <<width, queues, plans>>
  BY DEF Unbind
<1>2. /\ DOMAIN h' = Handlers /\ h'[x].pc = "idle" /\ OneBusy'
      /\ \A y \in Handlers : y # x => h'[y] = h[y]
      /\ width = 1 => \A y \in Handlers : y # x => h[y].pc = "idle"
  BY <1>1, HandlerMoves DEF CatalogInv, CatalogTypes, Busy, Idle
<1>3. ASSUME width = 1, NEW y \in Handlers PROVE ChangeKnows(y)'
  BY <1>2, <1>3 DEF ChangeKnows
<1>4. faults \in Nat
  BY DEF CatalogInv, CatalogTypes
<1>5. CASE UNCHANGED projects /\ faults' = faults + 1
  <2>1. faults' \in Nat /\ faults' # 0
    BY <1>4, <1>5
  <2>2. CatalogTypes'
    BY <1>1, <1>2, <1>5, <2>1 DEF CatalogInv, CatalogTypes
  <2>3. CatalogKept'
    BY <1>1, <1>3, <2>1 DEF CatalogInv, CatalogKept
  <2> QED
    BY <1>2, <2>2, <2>3 DEF CatalogInv
<1>6. CASE /\ projects' = [p \in Projects |-> IF projects[p].plan = h[x].id
                                              THEN [projects[p] EXCEPT !.plan = None]
                                              ELSE projects[p]]
           /\ UNCHANGED faults
  <2>1. ASSUME NEW p \in Projects
        PROVE  /\ "plan" \in DOMAIN projects'[p]
               /\ projects'[p].plan = IF projects[p].plan = h[x].id THEN None ELSE projects[p].plan
    BY <1>6 DEF CatalogInv, CatalogTypes
  <2>2. CatalogTypes'
    BY <1>1, <1>2, <1>6, <2>1 DEF CatalogInv, CatalogTypes
  <2>3. ASSUME width = 1, faults = 0, NEW p \in Projects
        PROVE  projects'[p].plan \in DOMAIN plans \cup {None}
    <3>1. \A y \in Handlers : h[y].pc = "unbind" => y = x
      BY <1>2, <2>3
    <3>2. projects[p].plan \in DOMAIN plans \cup {None} \/ projects[p].plan = h[x].id
      BY <2>3, <3>1 DEF CatalogInv, CatalogKept
    <3> QED
      BY <2>1, <3>2
  <2>4. CatalogKept'
    BY <1>1, <1>3, <1>6, <2>3 DEF CatalogInv, CatalogKept
  <2> QED
    BY <1>2, <2>2, <2>4 DEF CatalogInv
<1> QED
  BY <1>5, <1>6 DEF Unbind

\* The catalog at the start.
LEMMA CatalogStart == ASSUME Init PROVE CatalogInv
<1>1. DOMAIN h = Handlers /\ (\A x \in Handlers : h[x].pc = "idle") /\ faults = 0
  BY DEF Init, Idle
<1>2. OneBusy
  BY <1>1 DEF OneBusy, Busy
<1>3. CatalogTypes
  BY <1>1, CatalogAssumption DEF Init, CatalogTypes
<1>4. \A x \in Handlers : ChangeKnows(x)
  BY <1>1 DEF ChangeKnows
<1>5. CatalogKept
  BY <1>4, CatalogAssumption DEF Init, CatalogKept
<1> QED
  BY <1>2, <1>3, <1>5 DEF CatalogInv

\* Every step keeps it.
LEMMA CatalogStep == ASSUME CatalogInv, [Next]_vars PROVE CatalogInv'
<1>1. CASE Environment \/ SeedProfiles \/ UNCHANGED vars
  <2>1. UNCHANGED <<width, queues, plans, projects, h, faults>>
    BY <1>1 DEF Environment, SeedProfiles, Catalog, vars
  <2> QED
    BY <2>1, CatalogSame
<1>2. ASSUME NEW x \in Handlers, Begin(x) PROVE CatalogInv'
  <2>1. CASE AcceleratorProfile(x) \/ NetworkProfile(x) \/ PlacementProfile(x)
    <3>1. UNCHANGED <<width, queues, plans, projects, h, faults>>
      BY <2>1 DEF AcceleratorProfile, NetworkProfile, PlacementProfile, ProfileChange
    <3> QED
      BY <3>1, CatalogSame
  <2> QED
    BY <1>2, <2>1, SubmitKeepsCatalog, ReadKeepsCatalog, QueueKeepsCatalog, DeletePlanKeepsCatalog,
       ReapKeepsCatalog DEF Begin
<1>3. ASSUME NEW x \in Handlers, Submit(x) PROVE CatalogInv'
  BY <1>3, SubmitKeepsCatalog
<1>4. ASSUME NEW x \in Handlers, Finish(x) PROVE CatalogInv'
  BY <1>4, WritePlanKeepsCatalog, DropQueueKeepsCatalog, BindKeepsCatalog, UnbindKeepsCatalog
     DEF Finish
<1>5. ASSUME NEW x \in Handlers, Reap(x) PROVE CatalogInv'
  BY <1>5, ReapKeepsCatalog
<1> QED
  BY <1>1, <1>2, <1>3, <1>4, <1>5 DEF Next

\* Plans list queues that exist and projects are bound to plans that exist,
\* whenever nothing is under way, handlers do not overlap and no call failed:
\* the checks of createPlan, updatePlan, bindPlanQueues and bindPlanToProject
\* and the cascades of deleteQueue and deletePlan are complete, for any
\* catalog and any number of changes (schedulerquota/handler.go).
THEOREM CatalogStaysConsistent == Spec => []CatalogConsistent
<1>1. Init => CatalogInv
  BY CatalogStart
<1>2. CatalogInv /\ [Next]_vars => CatalogInv'
  BY CatalogStep
<1>3. CatalogInv => CatalogConsistent
  BY DEF CatalogInv, CatalogKept, CatalogConsistent
<1> QED
  BY <1>1, <1>2, <1>3, PTL DEF Spec

\* The reason of an eviction, for a plan there is.
LEMMA ReasonOfPlan ==
    ASSUME NEW plan, plan # None, NEW t \in Int
    PROVE  EvictionReason(plan, t) = None
             <=> ~ValidityExpired(plan, t) /\ WeekWindowsContain(plan.windows, t - Grace)
<1>1. CASE ValidityExpired(plan, t)
  BY <1>1, AdmissionAssumption DEF EvictionReason
<1>2. CASE ~ValidityExpired(plan, t) /\ ~WeekWindowsContain(plan.windows, t - Grace)
  BY <1>2, AdmissionAssumption DEF EvictionReason
<1>3. CASE ~ValidityExpired(plan, t) /\ WeekWindowsContain(plan.windows, t - Grace)
  BY <1>3 DEF EvictionReason
<1> QED
  BY <1>1, <1>2, <1>3

\* A step of a handler of the catalog.
ChangeStep(x) ==
    \/ CreateQueue(x) \/ UpdateQueue(x) \/ ReadPlansOf(x) \/ CreatePlan(x) \/ UpdatePlan(x)
    \/ BindPlanQueues(x) \/ DeletePlan(x) \/ CheckBinding(x) \/ AcceleratorProfile(x)
    \/ NetworkProfile(x) \/ PlacementProfile(x) \/ Finish(x)

\* Where it leads.
LEMMA ChangeBecomes ==
    ASSUME NEW x \in Handlers, ChangeStep(x)
    PROVE  UNCHANGED h \/ \E l : Becomes(x, l) /\ l.pc \in {"idle"} \cup Writing
<1>1. CASE \/ CreateQueue(x) \/ UpdateQueue(x) \/ AcceleratorProfile(x) \/ NetworkProfile(x)
           \/ PlacementProfile(x)
  BY <1>1 DEF CreateQueue, UpdateQueue, AcceleratorProfile, NetworkProfile, PlacementProfile,
              ProfileChange
<1>2. CASE ReadPlansOf(x)
  <2>1. \E q, listing : Becomes(x, Dropping(q, listing))
    BY <1>2 DEF ReadPlansOf, Dropping
  <2>2. \A q, listing : Dropping(q, listing).pc = "dropQueue"
    BY DEF Dropping
  <2> QED
    BY <2>1, <2>2 DEF Writing
<1>3. CASE CreatePlan(x) \/ UpdatePlan(x) \/ BindPlanQueues(x)
  <2>1. \E p : \E r : QueuesChecked(x, p, r)
    BY <1>3 DEF CreatePlan, UpdatePlan, BindPlanQueues
  <2>2. PICK p : \E r : QueuesChecked(x, p, r)
    BY <2>1
  <2>3. PICK r : QueuesChecked(x, p, r)
    BY <2>2
  <2> DEFINE m == [pc |-> "writePlan", id |-> p, plan |-> r, fresh |-> p \notin DOMAIN plans]
  <2>4. Becomes(x, m)
    BY <2>3 DEF QueuesChecked
  <2>5. m.pc \in Writing
    BY DEF Writing
  <2> HIDE DEF m
  <2> QED
    BY <2>4, <2>5
<1>4. CASE CheckBinding(x)
  BY <1>4 DEF CheckBinding, Writing
<1>5. CASE DeletePlan(x)
  <2>1. PICK m : Becomes(x, [pc |-> "unbind", id |-> m])
    BY <1>5 DEF DeletePlan
  <2> QED
    BY <2>1 DEF Writing
<1>6. CASE Finish(x)
  BY <1>6 DEF Finish, WritePlan, DropQueue, Bind, Unbind, Idle
<1> QED
  BY <1>1, <1>2, <1>3, <1>4, <1>5, <1>6 DEF ChangeStep

\* What a pass of the reaper knows of a project it has not seen yet, unless it
\* is excused: its binding is the one that was listed, and its plan is open.
ReapKnows(x) ==
    /\ h[x].pc \in Reaping =>
         /\ h[x].now \in Times
         /\ \A p \in DOMAIN h[x].left : p \in Projects /\
              (p \notin excused[x] => projects[p].plan = h[x].left[p] /\ OpenUntil(p, h[x].now))
    /\ h[x].pc = "evict" => h[x].missed \/ h[x].project \in excused[x]

ReapInv == DOMAIN h = Handlers /\ \A x \in Handlers : ReapKnows(x)

\* Who is excused once, stays so; who is not, keeps binding and plan.
LEMMA Excused ==
    ASSUME Excuse, NEW x \in Handlers, h'[x].pc \in Reaping
    PROVE  /\ excused[x] \subseteq excused'[x]
           /\ \A p \in Projects \ excused'[x] :
                projects'[p].plan = projects[p].plan /\ OpenUntil(p, h[x].now)'
<1>1. excused'[x] = excused[x] \cup {p \in Projects : \/ projects'[p].plan # projects[p].plan
                                                      \/ ~OpenUntil(p, h[x].now)'}
  BY DEF Excuse, Reaping
<1> QED
  BY <1>1

\* A pass goes on with the same moment and with projects it had left.
LEMMA PassGoesOn ==
    ASSUME Excuse, NEW x \in Handlers, ReapKnows(x), h[x].pc \in Reaping,
           h'[x].pc \in Reaping, h'[x].now = h[x].now,
           \A p \in DOMAIN h'[x].left : p \in DOMAIN h[x].left /\ h'[x].left[p] = h[x].left[p],
           h'[x].pc = "evict" => h'[x].missed \/ h'[x].project \in excused'[x]
    PROVE  ReapKnows(x)'
<1>1. ASSUME NEW p \in DOMAIN h'[x].left
      PROVE  /\ p \in Projects
             /\ p \notin excused'[x] =>
                  projects'[p].plan = h'[x].left[p] /\ OpenUntil(p, h[x].now)'
  <2>1. p \in Projects /\ (p \notin excused[x] => projects[p].plan = h[x].left[p])
    BY <1>1 DEF ReapKnows
  <2>2. /\ excused[x] \subseteq excused'[x]
        /\ p \notin excused'[x] => projects'[p].plan = projects[p].plan /\ OpenUntil(p, h[x].now)'
    BY <2>1, Excused
  <2> QED
    BY <2>1, <2>2
<1>2. h'[x].now \in Times
  BY DEF ReapKnows
<1> QED
  BY <1>1, <1>2 DEF ReapKnows

\* A project that is not excused has no reason to be evicted.
LEMMA NoReason ==
    ASSUME CatalogInv, NEW p, NEW t \in Times, OpenUntil(p, t)
    PROVE  EvictionReason(plans[projects[p].plan], t) = None
<1> DEFINE l == projects[p].plan
<1>1. l \in DOMAIN plans /\ \A u \in (t - Grace)..t : PlanActive(plans[l], u)
  BY DEF OpenUntil
<1>2. t \in Int /\ plans[l] # None
  BY <1>1, TimesAssumption, RecordsAssumption DEF CatalogInv, CatalogTypes
<1>3. t \in (t - Grace)..t /\ (t - Grace) \in (t - Grace)..t
  BY <1>2, AdmissionAssumption
<1>4. ~ValidityExpired(plans[l], t) /\ WeekWindowsContain(plans[l].windows, t - Grace)
  BY <1>1, <1>3 DEF PlanActive
<1> QED
  BY <1>2, <1>4, ReasonOfPlan

\* The steps of a pass.
LEMMA ReapStepKnows ==
    ASSUME CatalogInv, ReapInv, Excuse, NEW x \in Handlers, ReapStart(x) \/ Reap(x)
    PROVE  ReapKnows(x)'
<1>0. ReapKnows(x) /\ DOMAIN h = Handlers
  BY DEF ReapInv
<1>1. CASE ReapStart(x)
  <2>1. PICK t \in Times : Becomes(x, Pass(t, [p \in Projects |-> projects[p].plan]))
    BY <1>1 DEF ReapStart
  <2>2. /\ h'[x].pc = "reap" /\ h'[x].now = t /\ DOMAIN h'[x].left = Projects
        /\ \A p \in Projects : h'[x].left[p] = projects[p].plan
    BY <1>0, <2>1 DEF Becomes, Pass
  <2>3. \A p \in Projects \ excused'[x] :
            projects'[p].plan = projects[p].plan /\ OpenUntil(p, h[x].now)'
    BY <2>2, Excused DEF Reaping
  <2> QED
    BY <2>2, <2>3 DEF ReapKnows, Reaping
<1>2. CASE ReapProject(x)
  <2>1. PICK p \in DOMAIN h[x].left, missed \in BOOLEAN :
          LET id == h[x].left[p]
              plan == IF id \in DOMAIN plans /\ ~missed THEN plans[id] ELSE None
              rest == DropRecord(h[x].left, p)
          IN  Becomes(x, IF EvictionReason(plan, h[x].now) = None
                         THEN Pass(h[x].now, rest) ELSE Sentence(x, rest, p, missed))
    BY <1>2 DEF ReapProject, Sentence
  <2> DEFINE id == h[x].left[p]
             plan == IF id \in DOMAIN plans /\ ~missed THEN plans[id] ELSE None
             rest == DropRecord(h[x].left, p)
  <2>2. \A q \in DOMAIN rest : q \in DOMAIN h[x].left /\ rest[q] = h[x].left[q]
    BY DEF DropRecord
  <2>3. h[x].pc \in Reaping
    BY <1>2 DEF ReapProject, Reaping
  <2>4. CASE EvictionReason(plan, h[x].now) = None
    <3>1. h'[x].pc = "reap" /\ h'[x].now = h[x].now /\ h'[x].left = rest
      BY <1>0, <2>1, <2>4 DEF Becomes, Pass
    <3> HIDE DEF rest
    <3> QED
      BY <1>0, <2>2, <2>3, <3>1, PassGoesOn DEF Reaping
  <2>5. CASE EvictionReason(plan, h[x].now) # None
    <3>1. /\ h'[x].pc = "evict" /\ h'[x].now = h[x].now /\ h'[x].left = rest
          /\ h'[x].project = p /\ h'[x].missed = missed
      BY <1>0, <2>1, <2>5 DEF Becomes, Sentence
    <3>2. missed \/ p \in excused[x]
      <4> SUFFICES ASSUME ~missed, p \notin excused[x] PROVE FALSE
        OBVIOUS
      <4>1. projects[p].plan = id /\ OpenUntil(p, h[x].now) /\ h[x].now \in Times
        BY <1>0, <2>3 DEF ReapKnows
      <4>2. id \in DOMAIN plans
        BY <4>1 DEF OpenUntil
      <4>3. EvictionReason(plans[id], h[x].now) = None
        BY <4>1, NoReason
      <4> QED
        BY <2>5, <4>2, <4>3
    <3>3. excused[x] \subseteq excused'[x]
      BY <3>1, Excused DEF Reaping
    <3> HIDE DEF rest
    <3>4. h'[x].pc \in Reaping /\ (h'[x].missed \/ h'[x].project \in excused'[x])
      BY <3>1, <3>2, <3>3 DEF Reaping
    <3> QED
      BY <1>0, <2>2, <2>3, <3>1, <3>4, PassGoesOn
  <2> QED
    BY <2>4, <2>5
<1>3. CASE ReapEvict(x)
  <2>1. /\ h[x].pc = "evict" /\ h'[x].pc = "reap" /\ h'[x].now = h[x].now
        /\ h'[x].left = h[x].left
    BY <1>0, <1>3 DEF ReapEvict, Becomes, Pass
  <2> QED
    BY <1>0, <2>1, PassGoesOn DEF Reaping
<1>4. CASE ReapEnd(x)
  BY <1>0, <1>4 DEF ReapEnd, Becomes, Idle, ReapKnows, Reaping
<1> QED
  BY <1>1, <1>2, <1>3, <1>4 DEF Reap

\* Every step keeps what the passes know.
LEMMA ReapStep == ASSUME CatalogInv, ReapInv, [Next]_vars PROVE ReapInv'
<1>0. DOMAIN h = Handlers /\ \A x \in Handlers : ReapKnows(x)
  BY DEF ReapInv
<1>1. CASE UNCHANGED vars
  BY <1>0, <1>1 DEF vars, ReapInv, ReapKnows, OpenUntil
<1>2. ASSUME Excuse, NEW x \in Handlers, h'[x] = h[x] PROVE ReapKnows(x)'
  <2>1. CASE h[x].pc \in Reaping
    <3>1. h[x].pc = "evict" => h[x].missed \/ h[x].project \in excused'[x]
      BY <1>0, <1>2, <2>1, Excused DEF ReapKnows
    <3> QED
      BY <1>0, <1>2, <2>1, <3>1, PassGoesOn
  <2>2. CASE h[x].pc \notin Reaping
    BY <1>2, <2>2 DEF ReapKnows, Reaping
  <2> QED
    BY <2>1, <2>2
<1>3. ASSUME Excuse, UNCHANGED h PROVE ReapInv'
  BY <1>0, <1>2, <1>3 DEF ReapInv
<1>4. ASSUME Excuse, NEW x \in Handlers, NEW l, Becomes(x, l), ReapKnows(x)' PROVE ReapInv'
  <2>1. DOMAIN h' = Handlers /\ \A y \in Handlers : y # x => h'[y] = h[y]
    BY <1>0, <1>4 DEF Becomes
  <2> QED
    BY <1>2, <1>4, <2>1 DEF ReapInv
<1>5. ASSUME Excuse, NEW x \in Handlers, NEW l, Becomes(x, l), l.pc \notin Reaping PROVE ReapInv'
  <2>1. h'[x].pc \notin Reaping
    BY <1>0, <1>5 DEF Becomes
  <2>2. ReapKnows(x)'
    BY <2>1 DEF ReapKnows, Reaping
  <2> QED
    BY <1>4, <1>5, <2>2
<1>6. CASE Next
  <2>0. Excuse
    BY <1>6 DEF Next
  <2>1. CASE Environment \/ SeedProfiles
    BY <1>3, <2>0, <2>1 DEF Environment, SeedProfiles
  <2>2. ASSUME NEW x \in Handlers, SubmitStart(x) \/ Submit(x) PROVE ReapInv'
    BY <1>5, <2>0, <2>2, SubmitBecomes DEF Deciding, Reaping
  <2>3. ASSUME NEW x \in Handlers, ChangeStep(x) PROVE ReapInv'
    BY <1>3, <1>5, <2>0, <2>3, ChangeBecomes DEF Writing, Reaping
  <2>4. ASSUME NEW x \in Handlers, ReapStart(x) \/ Reap(x) PROVE ReapInv'
    BY <1>4, <2>0, <2>4, ReapBecomes, ReapStepKnows
  <2> QED
    BY <1>6, <2>1, <2>2, <2>3, <2>4 DEF Next, Begin, ChangeStep
<1> QED
  BY <1>1, <1>6

\* No pass of the reaper evicts a project whose binding stood and whose plan
\* was open all along, for any plans, projects and number of handlers, however
\* plans and bindings change between the steps of the pass: unless the plan
\* could not be read, the project was without an open plan, or bound anew,
\* since the pass began (schedulerquota/plan_window_reaper.go
\* reapExpiredPlanWindowsWithReader, planWindowEvictionReason).
THEOREM EvictionsAreEarned == Spec => []EvictionEarned
<1>1. Init => CatalogInv /\ ReapInv
  <2>1. Init => ReapInv
    BY DEF Init, Idle, ReapInv, ReapKnows, Reaping
  <2> QED
    BY <2>1, CatalogStart
<1>2. CatalogInv /\ ReapInv /\ [Next]_vars => (CatalogInv /\ ReapInv)'
  BY CatalogStep, ReapStep
<1>3. ReapInv => EvictionEarned
  BY DEF ReapInv, ReapKnows, EvictionEarned
<1> QED
  BY <1>1, <1>2, <1>3, PTL DEF Spec

\* The least of some numbers is one of them.
LEMMA LeastOne == ASSUME NEW S, S \subseteq Nat, S # {} PROVE Min(S) \in S
<1>1. PICK n \in S : \A k \in S : <<k, n>> \notin OpToRel(<, Nat)
  BY WFMin, NatLessThanWellFounded
<1>2. \A k \in S : <<k, n>> \in Nat \X Nat
  OBVIOUS
<1>3. \A k \in S : ~(k < n)
  BY <1>1, <1>2 DEF OpToRel
<1>4. \A k \in S : n <= k
  BY <1>3
<1> QED
  BY <1>4 DEF Min

\* A review without a denial passed every rule.
LEMMA NoDenial ==
    ASSUME NEW rules, DOMAIN rules \subseteq Nat, FirstDenial(rules) = "ok"
    PROVE  \A i \in DOMAIN rules : rules[i] = "ok"
<1> DEFINE D == {i \in DOMAIN rules : rules[i] # "ok"}
<1>1. SUFFICES ASSUME D # {} PROVE FALSE
  OBVIOUS
<1>2. Min(D) \in D
  BY <1>1, LeastOne
<1>3. FirstDenial(rules) = rules[Min(D)]
  BY <1>1 DEF FirstDenial
<1> QED
  BY <1>2, <1>3

\* A submission whose review had no denial passed the rule on MPS.
LEMMA ReviewPassedMPS ==
    ASSUME NEW x, NEW listed, UsagePolicies(x, listed) = "ok"
    PROVE  MPSPolicy(h[x].project, h[x].plan, h[x].queue, WithDevice(h[x].seen),
                     {j \in listed : j.status \in CountedStatuses}) = "ok"
<1> DEFINE l == h[x]
           r == l.seen
           dev == WithDevice(r)
           usage == Usage(listed, r.project, r.user)
           active == {j \in listed : j.status \in CountedStatuses}
           rules == << DevicePolicy(l.plan, r), MPSSharePolicy(l.plan, dev),
               MPSPolicy(l.project, l.plan, l.queue, dev, active),
               NetworkPolicy(profiles.network, r.network), FloorPolicy(r),
               StreamPolicy(r, usage, Caps), JobLimitPolicy(l.project, usage),
               QuotaPolicy(l.plan, r, usage), UserQuotaPolicy(UserQuotas, r, usage) >>
<1>1. FirstDenial(rules) = "ok"
  BY DEF UsagePolicies
<1>2. DOMAIN rules = 1 .. 9 /\ rules[3] = MPSPolicy(l.project, l.plan, l.queue, dev, active)
  OBVIOUS
<1> HIDE DEF rules
<1>3. rules[3] = "ok"
  BY <1>1, <1>2, NoDenial
<1> QED
  BY <1>2, <1>3

\* An accelerator profile and a device class complete a request: its other
\* fields stay.
LEMMA SeenRequest ==
    ASSUME NEW accelerators, NEW r \in Requests
    PROVE  /\ DOMAIN WithAccelerator(accelerators, r) = RequestFields
           /\ WithAccelerator(accelerators, r).user = r.user
<1>1. DOMAIN r = RequestFields
  BY RecordsAssumption
<1> QED
  BY <1>1 DEF WithAccelerator, RequestFields

LEMMA DeviceRequest ==
    ASSUME NEW r, DOMAIN r = RequestFields
    PROVE  /\ WithDevice(r).sm = r.sm /\ WithDevice(r).pinned = r.pinned
           /\ WithDevice(r).project = r.project
BY DEF WithDevice, RequestFields

\* Job k is job i, later: only its status may be another.
LaterOf(k, i) ==
    /\ \A f \in JobFields \ {"status"} : k[f] = i[f]
    /\ k.status \in CountedStatuses => i.status \in CountedStatuses

JobsLater == \A k \in jobs' : \E i \in jobs : LaterOf(k, i)

\* Some jobs get another status.
LEMMA Restatused ==
    ASSUME JobsNumbered, NEW V \in SUBSET jobs, NEW s,
           jobs' = (jobs \ V) \cup {[j EXCEPT !.status = s] : j \in V},
           s \notin CountedStatuses \/ \A j \in V : j.status \in CountedStatuses
    PROVE  JobsNumbered' /\ JobsLater
<1> DEFINE Now(j) == IF j \in V THEN [j EXCEPT !.status = s] ELSE j
<1>1. ASSUME NEW j \in jobs
      PROVE  DOMAIN Now(j) = JobFields /\ LaterOf(Now(j), j)
  BY DEF JobsNumbered, LaterOf, JobFields
<1>2. ASSUME NEW j \in jobs PROVE Now(j).id = j.id
  BY <1>1, <1>2 DEF LaterOf, JobFields
<1>3. (\A j \in jobs : Now(j) \in jobs') /\ (\A k \in jobs' : \E j \in jobs : k = Now(j))
  OBVIOUS
<1> HIDE DEF Now
<1>4. JobsLater
  BY <1>1, <1>3 DEF JobsLater
<1>5. \A k, m \in jobs' : k.id = m.id => k = m
  BY <1>2, <1>3 DEF JobsNumbered
<1>6. IsFiniteSet(jobs') /\ Cardinality(jobs') = Cardinality(jobs)
  <2> DEFINE g == [j \in jobs |-> Now(j)]
  <2>1. g \in [jobs -> jobs']
    BY <1>3
  <2>2. \A a, b \in jobs : g[a] = g[b] => a = b
    BY <1>2 DEF JobsNumbered
  <2>3. \A k \in jobs' : \E j \in jobs : g[j] = k
    BY <1>3
  <2> HIDE DEF g
  <2>4. g \in Bijection(jobs, jobs')
    BY <2>1, <2>2, <2>3 DEF Bijection, Injection, Surjection, IsInjective
  <2>5. ExistsBijection(jobs, jobs')
    BY <2>4 DEF ExistsBijection
  <2> QED
    BY <2>5, FS_Bijection DEF JobsNumbered
<1>7. ASSUME NEW k \in jobs' PROVE DOMAIN k = JobFields /\ k.id \in 1 .. Cardinality(jobs')
  <2>1. PICK j \in jobs : k = Now(j)
    BY <1>3
  <2> QED
    BY <1>1, <1>2, <1>6, <2>1 DEF JobsNumbered
<1>8. JobsNumbered'
  BY <1>5, <1>6, <1>7 DEF JobsNumbered
<1> QED
  BY <1>4, <1>8

\* Jobs that go on are no other jobs for a review.
LEMMA LaterFields ==
    ASSUME NEW k, NEW i, LaterOf(k, i)
    PROVE  /\ k.id = i.id /\ k.key = i.key /\ k.user = i.user /\ k.project = i.project
           /\ k.sm = i.sm /\ k.pinned = i.pinned /\ k.device = i.device
           /\ k.complete = i.complete /\ k.sought = i.sought /\ k.cross = i.cross
           /\ MPSRequested(k) = MPSRequested(i) /\ DeviceOf(k) = DeviceOf(i)
           /\ k.status \in CountedStatuses => i.status \in CountedStatuses
<1>1. /\ k.id = i.id /\ k.key = i.key /\ k.user = i.user /\ k.project = i.project
      /\ k.sm = i.sm /\ k.pinned = i.pinned /\ k.device = i.device
      /\ k.complete = i.complete /\ k.sought = i.sought /\ k.cross = i.cross
  BY DEF LaterOf, JobFields
<1>2. MPSRequested(k) = MPSRequested(i) /\ DeviceOf(k) = DeviceOf(i)
  BY <1>1 DEF MPSRequested, DeviceOf
<1> QED
  BY <1>1, <1>2 DEF LaterOf

LEMMA LaterSerial ==
    ASSUME SerialSubmissions, JobsLater, UNCHANGED width
    PROVE  SerialSubmissions'
<1> SUFFICES ASSUME width = 1, NEW k \in jobs', NEW m \in jobs'
             PROVE  /\ k.key # None /\ k.key = m.key /\ k.user = m.user /\ k.id < m.id => ~m.sought
                    /\ /\ k.id < m.id /\ k.project # m.project
                       /\ {k.status, m.status} \subseteq CountedStatuses
                       /\ MPSRequested(k) /\ MPSRequested(m) /\ DeviceOf(k) = DeviceOf(m)
                       /\ m.complete
                       => m.cross
  BY DEF SerialSubmissions
<1>1. PICK i \in jobs : LaterOf(k, i)
  BY DEF JobsLater
<1>2. PICK j \in jobs : LaterOf(m, j)
  BY DEF JobsLater
<1>3. /\ k.id = i.id /\ k.key = i.key /\ k.user = i.user /\ k.project = i.project
      /\ MPSRequested(k) = MPSRequested(i) /\ DeviceOf(k) = DeviceOf(i)
      /\ k.status \in CountedStatuses => i.status \in CountedStatuses
  BY <1>1, LaterFields
<1>4. /\ m.id = j.id /\ m.key = j.key /\ m.user = j.user /\ m.project = j.project
      /\ m.complete = j.complete /\ m.sought = j.sought /\ m.cross = j.cross
      /\ MPSRequested(m) = MPSRequested(j) /\ DeviceOf(m) = DeviceOf(j)
      /\ m.status \in CountedStatuses => j.status \in CountedStatuses
  BY <1>2, LaterFields, ZenonT(30)
<1>6. k.key # None /\ k.key = m.key /\ k.user = m.user /\ k.id < m.id => ~m.sought
  <2>1. i.key # None /\ i.key = j.key /\ i.user = j.user /\ i.id < j.id => ~j.sought
    BY DEF SerialSubmissions
  <2> QED
    BY <1>3, <1>4, <2>1
<1>7. ASSUME k.id < m.id, k.project # m.project, {k.status, m.status} \subseteq CountedStatuses,
             MPSRequested(k), MPSRequested(m), DeviceOf(k) = DeviceOf(m), m.complete
      PROVE  m.cross
  <2>1. {i.status, j.status} \subseteq CountedStatuses
    BY <1>3, <1>4, <1>7
  <2>2. j.cross
    BY <1>3, <1>4, <1>7, <2>1 DEF SerialSubmissions
  <2> QED
    BY <1>4, <2>2
<1> QED
  BY <1>6, <1>7

Counted == {j \in jobs : j.status \in CountedStatuses}

\* What a review found absent stays absent while the jobs go on.
LEMMA LaterReview ==
    ASSUME JobsLater
    PROVE  /\ \A r : (\A j \in jobs : ~SameKey(j, r)) => \A k \in jobs' : ~SameKey(k, r)
           /\ \A r : CrossProjectMPS(r, Counted') => CrossProjectMPS(r, Counted)
<1>1. ASSUME NEW r, \A j \in jobs : ~SameKey(j, r), NEW k \in jobs' PROVE ~SameKey(k, r)
  <2>1. PICK i \in jobs : LaterOf(k, i)
    BY DEF JobsLater
  <2>2. k.key = i.key /\ k.user = i.user
    BY <2>1, LaterFields
  <2> QED
    BY <1>1, <2>2 DEF SameKey
<1>2. ASSUME NEW r, CrossProjectMPS(r, Counted') PROVE CrossProjectMPS(r, Counted)
  <2>1. PICK k \in jobs' : /\ k.status \in CountedStatuses /\ k.project # r.project
                           /\ MPSRequested(k) /\ DeviceOf(k) = DeviceOf(r)
    BY <1>2 DEF CrossProjectMPS, Counted
  <2>2. PICK i \in jobs : LaterOf(k, i)
    BY DEF JobsLater
  <2>3. /\ i.project = k.project /\ MPSRequested(i) = MPSRequested(k) /\ DeviceOf(i) = DeviceOf(k)
        /\ k.status \in CountedStatuses => i.status \in CountedStatuses
    BY <2>2, LaterFields
  <2>4. /\ i \in Counted /\ i.project # r.project
        /\ MPSRequested(i) /\ DeviceOf(i) = DeviceOf(r)
    BY <2>1, <2>3 DEF Counted
  <2> QED
    BY <2>4 DEF CrossProjectMPS
<1> QED
  BY <1>1, <1>2

LEMMA LaterKnows ==
    ASSUME NEW x \in Handlers, SubmissionKnows(h[x]), JobsLater, h'[x] = h[x], UNCHANGED width
    PROVE  SubmissionKnows(h[x])'
<1> DEFINE l == h[x]
<1>1. (\A j \in jobs : ~SameKey(j, l.req)) => \A k \in jobs' : ~SameKey(k, l.req)
  BY LaterReview
<1>2. CrossProjectMPS(WithDevice(l.seen), Counted') => CrossProjectMPS(WithDevice(l.seen), Counted)
  BY LaterReview
<1>3. h'[x] = l
  OBVIOUS
<1>4. /\ l.pc \in {"check"} \cup Deciding => l.req \in Requests
      /\ l.pc \in {"usage", "reserve", "create"} =>
           DOMAIN l.seen = RequestFields /\ l.seen.user = l.req.user
      /\ width = 1 =>
           /\ l.pc \in Deciding /\ l.sought => \A j \in jobs : ~SameKey(j, l.req)
           /\ (l.pc \in {"reserve", "create"} /\ l.complete /\ MPSRequested(l.seen)) =>
                (CrossProjectMPS(WithDevice(l.seen), Counted) => Permitted(l))
  BY DEF SubmissionKnows, Counted
<1> HIDE DEF l
<1>5. /\ l.pc \in {"check"} \cup Deciding => l.req \in Requests
      /\ l.pc \in {"usage", "reserve", "create"} =>
           DOMAIN l.seen = RequestFields /\ l.seen.user = l.req.user
      /\ width' = 1 =>
           /\ l.pc \in Deciding /\ l.sought => \A j \in jobs' : ~SameKey(j, l.req)
           /\ (l.pc \in {"reserve", "create"} /\ l.complete /\ MPSRequested(l.seen)) =>
                (CrossProjectMPS(WithDevice(l.seen), Counted') => Permitted(l))
  BY <1>1, <1>2, <1>4
<1> QED
  BY <1>3, <1>5 DEF SubmissionKnows, Counted

\* A job that goes on.
LEMMA EnvironmentSubmit == ASSUME SubmitInv, Environment PROVE SubmitInv'
<1> USE DEF SubmitInv
<1>1. UNCHANGED <<width, h>>
  BY DEF Environment
<1>2. JobsNumbered' /\ JobsLater
  <2>1. ASSUME NEW j \in jobs, JobProgress(j) PROVE JobsNumbered' /\ JobsLater
    <3>1. \/ /\ j.status = "submitted"
             /\ jobs' = (jobs \ {j}) \cup {[i EXCEPT !.status = "running"] : i \in {j}}
          \/ jobs' = (jobs \ {j}) \cup {[i EXCEPT !.status = "completed"] : i \in {j}}
      BY <2>1 DEF JobProgress
    <3>2. "completed" \notin CountedStatuses /\ "submitted" \in CountedStatuses
      BY DEF CountedStatuses, QueuedStatuses
    <3>3. {j} \in SUBSET jobs
      OBVIOUS
    <3>4. CASE /\ j.status = "submitted"
               /\ jobs' = (jobs \ {j}) \cup {[i EXCEPT !.status = "running"] : i \in {j}}
      <4>1. \A i \in {j} : i.status \in CountedStatuses
        BY <3>2, <3>4
      <4> QED
        BY <3>3, <3>4, <4>1, Restatused
    <3>5. CASE jobs' = (jobs \ {j}) \cup {[i EXCEPT !.status = "completed"] : i \in {j}}
      BY <3>2, <3>3, <3>5, Restatused
    <3> QED
      BY <3>1, <3>4, <3>5
  <2> QED
    BY <2>1 DEF Environment
<1>3. \A x \in Handlers : SubmissionKnows(h[x])'
  BY <1>1, <1>2, LaterKnows
<1>4. SerialSubmissions'
  BY <1>1, <1>2, LaterSerial
<1>5. OneBusy' /\ DOMAIN h' = Handlers
  BY <1>1 DEF OneBusy, Busy
<1> QED
  BY <1>2, <1>3, <1>4, <1>5

\* The other handlers know what they knew; when handlers do not overlap they
\* are idle.
LEMMA OthersKnow ==
    ASSUME SubmitInv, NEW x \in Handlers, NEW l, Becomes(x, l), Busy(x) \/ Free(x),
           UNCHANGED width, NEW y \in Handlers, y # x
    PROVE  SubmissionKnows(h[y])'
<1>0. OneBusy /\ DOMAIN h = Handlers
  BY DEF SubmitInv
<1>a. /\ \A z \in Handlers : z # x => h'[z] = h[z]
      /\ width = 1 => \A z \in Handlers : z # x => ~Busy(z) /\ ~Busy(z)'
  BY <1>0, HandlerMoves
<1>1. h'[y] = h[y] /\ (width = 1 => h[y].pc = "idle")
  BY <1>a DEF Busy
<1>2. SubmissionKnows(h[y])
  BY DEF SubmitInv
<1>3. width = 1 => h[y].pc \notin {"check"} \cup Deciding
  BY <1>1 DEF Deciding
<1>4. width = 1 => h[y].pc \notin {"reserve", "create"} /\ h[y].pc \notin Deciding
  BY <1>3 DEF Deciding
<1>5. /\ h[y].pc \in {"check"} \cup Deciding => h[y].req \in Requests
      /\ h[y].pc \in {"usage", "reserve", "create"} =>
           DOMAIN h[y].seen = RequestFields /\ h[y].seen.user = h[y].req.user
  BY <1>2 DEF SubmissionKnows
<1> QED
  BY <1>1, <1>4, <1>5 DEF SubmissionKnows

\* A handler moves and the jobs stay.
LEMMA SubmitMoves ==
    ASSUME SubmitInv, NEW x \in Handlers, NEW l, Becomes(x, l), Busy(x) \/ Free(x),
           UNCHANGED <<width, jobs>>, SubmissionKnows(l)
    PROVE  SubmitInv'
<1>1. DOMAIN h' = Handlers /\ h'[x] = l /\ OneBusy'
  BY HandlerMoves DEF SubmitInv
<1>2. JobsNumbered' /\ SerialSubmissions'
  BY DEF SubmitInv, JobsNumbered, SerialSubmissions
<1>3. SubmissionKnows(h[x])'
  BY <1>1 DEF SubmissionKnows
<1>4. \A y \in Handlers : SubmissionKnows(h[y])'
  BY <1>3, OthersKnow
<1> QED
  BY <1>1, <1>2, <1>4 DEF SubmitInv

\* A handler that is no submission knows nothing of one.
LEMMA NoSubmission ==
    ASSUME NEW l, l.pc \in {"idle"} \cup Writing \cup Reaping PROVE SubmissionKnows(l)
BY DEF SubmissionKnows, Writing, Reaping, Deciding

\* The handlers of the catalog.
LEMMA ChangeSubmit ==
    ASSUME SubmitInv, NEW x \in Handlers, ChangeStep(x)
    PROVE  SubmitInv'
<1>1. UNCHANGED <<width, jobs>> /\ (Busy(x) \/ Free(x))
  BY ChangeBecomes DEF ChangeStep, CreateQueue, UpdateQueue, ReadPlansOf, CreatePlan, UpdatePlan,
         BindPlanQueues, DeletePlan, CheckBinding, AcceleratorProfile, NetworkProfile,
         PlacementProfile, ProfileChange, Finish, WritePlan, DropQueue, Bind, Unbind, Change, Busy
<1>2. CASE UNCHANGED h
  <2>1. OneBusy' /\ DOMAIN h' = Handlers /\ JobsNumbered' /\ SerialSubmissions'
    BY <1>1, <1>2 DEF SubmitInv, OneBusy, Busy, JobsNumbered, SerialSubmissions
  <2>2. \A y \in Handlers : SubmissionKnows(h[y])'
    BY <1>1, <1>2 DEF SubmitInv, SubmissionKnows
  <2> QED
    BY <2>1, <2>2 DEF SubmitInv
<1>3. ASSUME NEW l, Becomes(x, l), l.pc \in {"idle"} \cup Writing
      PROVE  SubmitInv'
  BY <1>1, <1>3, NoSubmission, SubmitMoves
<1> QED
  BY <1>2, <1>3, ChangeBecomes

\* The reaper.
LEMMA ReapSubmit ==
    ASSUME SubmitInv, NEW x \in Handlers, ReapStart(x) \/ Reap(x)
    PROVE  SubmitInv'
<1>1. UNCHANGED width /\ (Busy(x) \/ Free(x))
  BY DEF ReapStart, Reap, ReapProject, ReapEvict, ReapEnd, Change, Free, Busy
<1>2. PICK l : Becomes(x, l) /\ l.pc \in {"idle"} \cup Reaping
  BY ReapBecomes
<1>3. SubmissionKnows(l)
  BY <1>2, NoSubmission
<1>4. CASE UNCHANGED jobs
  BY <1>1, <1>2, <1>3, <1>4, SubmitMoves
<1>5. CASE ReapEvict(x)
  <2>1. PICK E \in SUBSET {j \in jobs : j.project = h[x].project /\ j.status = "running"} :
               jobs' = (jobs \ E) \cup {[j EXCEPT !.status = "evicted"] : j \in E}
    BY <1>5 DEF ReapEvict
  <2>2. E \in SUBSET jobs /\ "evicted" \notin CountedStatuses
    BY DEF CountedStatuses, QueuedStatuses
  <2>3. JobsNumbered' /\ JobsLater
    BY <2>1, <2>2, Restatused DEF SubmitInv
  <2>4. SerialSubmissions'
    BY <1>1, <2>3, LaterSerial DEF SubmitInv
  <2>5. DOMAIN h' = Handlers /\ h'[x] = l /\ OneBusy'
    BY <1>1, <1>2, HandlerMoves DEF SubmitInv
  <2>6. SubmissionKnows(h[x])'
    BY <1>2, <2>5 DEF SubmissionKnows, Deciding, Reaping
  <2>7. \A y \in Handlers : SubmissionKnows(h[y])'
    BY <1>1, <1>2, <2>6, OthersKnow
  <2> QED
    BY <2>3, <2>4, <2>5, <2>7 DEF SubmitInv
<1> QED
  BY <1>4, <1>5 DEF ReapStart, Reap, ReapProject, ReapEnd

\* A submission up to its reservation.
LEMMA StepSubmit ==
    ASSUME SubmitInv, NEW x \in Handlers,
           \/ SubmitStart(x) \/ SubmitCheck(x) \/ SubmitContext(x) \/ SubmitUsage(x)
           \/ SubmitReserve(x)
    PROVE  SubmitInv'
<1>1. UNCHANGED <<width, jobs>> /\ (Busy(x) \/ Free(x))
  BY DEF SubmitStart, SubmitCheck, SubmitContext, SubmitUsage, SubmitReserve, Busy
<1>2. SubmissionKnows(h[x])
  BY DEF SubmitInv
<1>3. SubmissionKnows(Idle)
  BY NoSubmission DEF Idle
<1>4. CASE Becomes(x, Idle)
  BY <1>1, <1>3, <1>4, SubmitMoves
<1>5. CASE SubmitStart(x)
  <2>1. PICK r \in Requests : Becomes(x, Submission("check", r, FALSE, FALSE))
    BY <1>5 DEF SubmitStart
  <2>2. SubmissionKnows(Submission("check", r, FALSE, FALSE))
    BY DEF SubmissionKnows, Submission, Deciding
  <2> QED
    BY <1>1, <2>1, <2>2, SubmitMoves
<1>6. CASE SubmitCheck(x) /\ ~Becomes(x, Idle)
  <2>1. \E b : /\ Becomes(x, Submission("context", h[x].req, FALSE, b))
               /\ b => \A j \in jobs : ~SameKey(j, h[x].req)
    <3>1. CASE h[x].req.key = None
      BY <1>6, <3>1 DEF SubmitCheck, SameKey
    <3>2. CASE h[x].req.key # None
      <4>1. PICK listed : /\ ~\E j \in listed : SameKey(j, h[x].req)
                          /\ Becomes(x, Submission("context", h[x].req, FALSE, listed = jobs))
        BY <1>6, <3>2 DEF SubmitCheck
      <4> QED
        BY <4>1
    <3> QED
      BY <3>1, <3>2
  <2>2. PICK b : /\ Becomes(x, Submission("context", h[x].req, FALSE, b))
                 /\ b => \A j \in jobs : ~SameKey(j, h[x].req)
    BY <2>1
  <2> DEFINE l == Submission("context", h[x].req, FALSE, b)
  <2>3. l.pc = "context" /\ l.req = h[x].req /\ l.sought = b /\ h[x].req \in Requests
    BY <1>2, <1>6 DEF Submission, SubmitCheck, SubmissionKnows
  <2>4. Becomes(x, l)
    BY <2>2
  <2> HIDE DEF l
  <2>5. SubmissionKnows(l)
    BY <2>2, <2>3 DEF SubmissionKnows
  <2> QED
    BY <1>1, <2>4, <2>5, SubmitMoves
<1>7. CASE SubmitContext(x) /\ ~Becomes(x, Idle)
  <2> DEFINE l == ContextRead(x)
  <2>1. Becomes(x, l) /\ h[x].pc = "context"
    BY <1>7, ContextStep DEF SubmitContext
  <2>2. /\ l.pc = "usage" /\ l.req = h[x].req /\ l.sought = h[x].sought
        /\ l.seen = WithAccelerator(profiles.accelerator, h[x].req)
    BY DEF ContextRead
  <2> HIDE DEF l
  <2>3. /\ h[x].req \in Requests
        /\ width = 1 /\ h[x].sought => \A j \in jobs : ~SameKey(j, h[x].req)
    BY <1>2, <2>1 DEF SubmissionKnows, Deciding
  <2>a. /\ DOMAIN WithAccelerator(profiles.accelerator, h[x].req) = RequestFields
        /\ WithAccelerator(profiles.accelerator, h[x].req).user = h[x].req.user
    BY <2>3, SeenRequest
  <2>4. DOMAIN l.seen = RequestFields /\ l.seen.user = l.req.user
    BY <2>2, <2>a
  <2>5. SubmissionKnows(l)
    BY <2>2, <2>3, <2>4 DEF SubmissionKnows
  <2> QED
    BY <1>1, <2>1, <2>5, SubmitMoves
<1>8. CASE SubmitUsage(x) /\ ~Becomes(x, Idle)
  <2>0. /\ h[x].pc = "usage" /\ h[x].req \in Requests
        /\ DOMAIN h[x].seen = RequestFields /\ h[x].seen.user = h[x].req.user
        /\ width = 1 /\ h[x].sought => \A j \in jobs : ~SameKey(j, h[x].req)
    BY <1>2, <1>8 DEF SubmitUsage, SubmissionKnows, Deciding
  <2> DEFINE m == [pc |-> "preempt", req |-> h[x].req, queue |-> h[x].queue, sought |-> h[x].sought]
  <2>1. PICK listed :
           \/ /\ UsagePolicies(x, listed) = "ok"
              /\ Becomes(x, Reviewed(h[x], "reserve", listed = jobs))
           \/ Becomes(x, m)
    BY <1>8 DEF SubmitUsage
  <2>2. CASE Becomes(x, m)
    <3>1. m.pc = "preempt" /\ m.req = h[x].req /\ m.sought = h[x].sought
      OBVIOUS
    <3> HIDE DEF m
    <3>2. SubmissionKnows(m)
      BY <2>0, <3>1 DEF SubmissionKnows
    <3> QED
      BY <1>1, <2>2, <3>2, SubmitMoves
  <2>3. CASE /\ UsagePolicies(x, listed) = "ok"
             /\ Becomes(x, Reviewed(h[x], "reserve", listed = jobs))
    <3> DEFINE l == Reviewed(h[x], "reserve", listed = jobs)
    <3>1. /\ l.pc = "reserve" /\ l.req = h[x].req /\ l.seen = h[x].seen /\ l.sought = h[x].sought
          /\ l.plan = h[x].plan /\ l.queue = h[x].queue /\ l.complete = (listed = jobs)
      BY DEF Reviewed
    <3> HIDE DEF l
    <3>2. ASSUME l.complete, MPSRequested(l.seen),
                 CrossProjectMPS(WithDevice(l.seen), {j \in jobs : j.status \in CountedStatuses})
          PROVE  Permitted(l)
      <4>1. listed = jobs
        BY <3>1, <3>2
      <4>2. MPSPolicy(h[x].project, h[x].plan, h[x].queue, WithDevice(h[x].seen),
                      {j \in jobs : j.status \in CountedStatuses}) = "ok"
        BY <2>3, <4>1, ReviewPassedMPS
      <4>3. MPSRequested(WithDevice(h[x].seen)) = MPSRequested(h[x].seen)
        BY <2>0, DeviceRequest DEF MPSRequested
      <4>4. MPSRequested(WithDevice(h[x].seen))
        BY <3>1, <3>2, <4>3
      <4>5. h[x].plan.cross /\ (h[x].queue = None \/ h[x].queue.cross)
        BY <3>1, <3>2, <4>2, <4>4 DEF MPSPolicy
      <4> QED
        BY <3>1, <4>5 DEF Permitted
    <3>3. SubmissionKnows(l)
      BY <2>0, <3>1, <3>2 DEF SubmissionKnows
    <3> QED
      BY <1>1, <2>3, <3>3, SubmitMoves DEF l
  <2> QED
    BY <2>1, <2>2, <2>3
<1>9. CASE SubmitReserve(x) /\ ~Becomes(x, Idle)
  <2> DEFINE l == Reviewed(h[x], "create", h[x].complete)
  <2>1. h[x].pc = "reserve" /\ Becomes(x, l)
    BY <1>9 DEF SubmitReserve
  <2>2. /\ l.pc = "create" /\ l.req = h[x].req /\ l.seen = h[x].seen /\ l.sought = h[x].sought
        /\ l.plan = h[x].plan /\ l.queue = h[x].queue /\ l.complete = h[x].complete
    BY DEF Reviewed
  <2> HIDE DEF l
  <2>3. SubmissionKnows(l)
    BY <1>2, <2>1, <2>2 DEF SubmissionKnows, Permitted, Deciding
  <2> QED
    BY <1>1, <2>1, <2>3, SubmitMoves
<1> QED
  BY <1>4, <1>5, <1>6, <1>7, <1>8, <1>9

\* A preemption ends jobs and starts the review over.
LEMMA PreemptSubmit ==
    ASSUME SubmitInv, NEW x \in Handlers, SubmitPreempt(x)
    PROVE  SubmitInv'
<1>1. h[x].pc = "preempt" /\ UNCHANGED width /\ Busy(x) /\ SubmissionKnows(h[x])
  BY DEF SubmitPreempt, Busy, SubmitInv
<1>2. CASE Becomes(x, Idle) /\ UNCHANGED jobs
  <2>1. SubmissionKnows(Idle)
    BY NoSubmission DEF Idle
  <2> QED
    BY <1>1, <1>2, <2>1, SubmitMoves
<1>3. CASE \E V \in SUBSET Victims(h[x].req, h[x].queue.priority) :
             /\ jobs' = (jobs \ V) \cup {[j EXCEPT !.status = "preempted"] : j \in V}
             /\ Becomes(x, Submission("context", h[x].req, TRUE, h[x].sought))
  <2>1. PICK V \in SUBSET Victims(h[x].req, h[x].queue.priority) :
             /\ jobs' = (jobs \ V) \cup {[j EXCEPT !.status = "preempted"] : j \in V}
             /\ Becomes(x, Submission("context", h[x].req, TRUE, h[x].sought))
    BY <1>3
  <2>2. V \in SUBSET jobs /\ "preempted" \notin CountedStatuses
    BY DEF Victims, CountedStatuses, QueuedStatuses
  <2>3. JobsNumbered' /\ JobsLater
    BY <2>1, <2>2, Restatused DEF SubmitInv
  <2>4. SerialSubmissions'
    BY <1>1, <2>3, LaterSerial DEF SubmitInv
  <2> DEFINE l == Submission("context", h[x].req, TRUE, h[x].sought)
  <2>5. DOMAIN h' = Handlers /\ h'[x] = l /\ OneBusy'
    BY <1>1, <2>1, HandlerMoves DEF SubmitInv
  <2>6. l.pc = "context" /\ l.req = h[x].req /\ l.sought = h[x].sought
    BY DEF Submission
  <2> HIDE DEF l
  <2>7. /\ h[x].req \in Requests
        /\ width = 1 /\ h[x].sought => \A j \in jobs : ~SameKey(j, h[x].req)
    BY <1>1 DEF SubmissionKnows, Deciding
  <2>8. width = 1 /\ h[x].sought => \A k \in jobs' : ~SameKey(k, h[x].req)
    BY <2>3, <2>7, LaterReview
  <2>9. SubmissionKnows(h[x])'
    BY <1>1, <2>5, <2>6, <2>7, <2>8 DEF SubmissionKnows
  <2>10. \A y \in Handlers : SubmissionKnows(h[y])'
    BY <1>1, <2>1, <2>9, OthersKnow
  <2> QED
    BY <2>3, <2>4, <2>5, <2>10 DEF SubmitInv
<1> QED
  BY <1>2, <1>3 DEF SubmitPreempt

\* The job that a submission creates.
LEMMA CreateSubmit ==
    ASSUME SubmitInv, NEW x \in Handlers, SubmitCreate(x)
    PROVE  SubmitInv'
<1>1. /\ h[x].pc = "create" /\ UNCHANGED width /\ Busy(x) /\ SubmissionKnows(h[x])
      /\ Becomes(x, Idle)
  BY DEF SubmitCreate, Busy, SubmitInv
<1>2. SubmissionKnows(Idle) /\ Idle.pc = "idle"
  BY NoSubmission DEF Idle
<1>3. CASE UNCHANGED jobs
  BY <1>1, <1>2, <1>3, SubmitMoves
<1>4. CASE jobs' = jobs \cup {NewJob(x, Cardinality(jobs) + 1)}
  <2> DEFINE n == NewJob(x, Cardinality(jobs) + 1)
             l == h[x]
             dev == WithDevice(h[x].seen)
  <2>1. /\ DOMAIN n = JobFields /\ n.id = Cardinality(jobs) + 1
        /\ n.key = l.req.key /\ n.user = l.seen.user /\ n.project = l.seen.project
        /\ n.sm = l.seen.sm /\ n.pinned = l.seen.pinned /\ n.device = dev.device
        /\ n.complete = l.complete /\ n.sought = l.sought
    BY DEF NewJob, JobFields
  <2>2. n.cross <=> Permitted(l)
    BY DEF NewJob, Permitted
  <2>3. /\ l.req \in Requests /\ DOMAIN l.seen = RequestFields /\ l.seen.user = l.req.user
        /\ width = 1 /\ l.sought => \A j \in jobs : ~SameKey(j, l.req)
        /\ (width = 1 /\ l.complete /\ MPSRequested(l.seen)
              /\ CrossProjectMPS(dev, {j \in jobs : j.status \in CountedStatuses})) => Permitted(l)
    BY <1>1 DEF SubmissionKnows, Deciding
  <2>4. dev.project = l.seen.project
    BY <2>3, DeviceRequest
  <2>5. MPSRequested(n) = MPSRequested(l.seen) /\ DeviceOf(n) = DeviceOf(dev)
    BY <2>1 DEF MPSRequested, DeviceOf
  <2>6. jobs' = jobs \cup {n}
    BY <1>4
  <2> HIDE DEF n, l, dev
  <2>7. /\ IsFiniteSet(jobs) /\ Cardinality(jobs) \in Nat
        /\ \A j \in jobs : DOMAIN j = JobFields /\ j.id \in 1 .. Cardinality(jobs)
        /\ \A i, j \in jobs : i.id = j.id => i = j
    BY FS_CardinalityType DEF SubmitInv, JobsNumbered
  <2>8. n \notin jobs /\ \A j \in jobs : j.id < n.id
    BY <2>1, <2>7
  <2>9. IsFiniteSet(jobs') /\ Cardinality(jobs') = Cardinality(jobs) + 1
    BY <2>6, <2>7, <2>8, FS_AddElement
  <2>10. JobsNumbered'
    <3>a. DOMAIN n = JobFields /\ n.id = Cardinality(jobs) + 1
      BY <2>1
    <3>1. \A j \in jobs' : DOMAIN j = JobFields /\ j.id \in 1 .. Cardinality(jobs')
      BY <2>6, <2>7, <2>9, <3>a
    <3>2. \A i, j \in jobs' : i.id = j.id => i = j
      BY <2>6, <2>7, <2>8
    <3> QED
      BY <2>9, <3>1, <3>2 DEF JobsNumbered
  <2>11. SerialSubmissions'
    <3> SUFFICES ASSUME width = 1, NEW i \in jobs', NEW j \in jobs'
                 PROVE  /\ i.key # None /\ i.key = j.key /\ i.user = j.user /\ i.id < j.id => ~j.sought
                        /\ /\ i.id < j.id /\ i.project # j.project
                           /\ {i.status, j.status} \subseteq CountedStatuses
                           /\ MPSRequested(i) /\ MPSRequested(j) /\ DeviceOf(i) = DeviceOf(j)
                           /\ j.complete
                           => j.cross
      BY <1>1 DEF SerialSubmissions
    <3>1. CASE i \in jobs /\ j \in jobs
      BY <3>1 DEF SubmitInv, SerialSubmissions
    <3>2. ASSUME NEW m \in jobs, n.sought
          PROVE  ~(n.key # None /\ m.key = n.key /\ m.user = n.user)
      <4>1. ~SameKey(m, l.req)
        BY <2>1, <2>3, <3>2
      <4> QED
        BY <2>1, <2>3, <4>1 DEF SameKey
    <3>3. CASE i = n /\ j \in jobs
      <4>0. i.id = Cardinality(jobs) + 1
        BY <2>1, <3>3
      <4>1. ~(i.id < j.id)
        BY <2>7, <3>3, <4>0
      <4> QED
        BY <4>1
    <3>4. CASE i \in jobs /\ j = n
      <4>1. ASSUME i.project # j.project, i.status \in CountedStatuses, MPSRequested(i),
                   MPSRequested(j), DeviceOf(i) = DeviceOf(j), j.complete
            PROVE  j.cross
        <5>1. i.project # dev.project /\ DeviceOf(i) = DeviceOf(dev) /\ MPSRequested(l.seen)
              /\ l.complete
          BY <2>1, <2>4, <2>5, <3>4, <4>1
        <5>2. CrossProjectMPS(dev, {m \in jobs : m.status \in CountedStatuses})
          BY <3>4, <4>1, <5>1 DEF CrossProjectMPS
        <5> QED
          BY <2>2, <2>3, <3>4, <5>1, <5>2
      <4>2. i.key # None /\ i.key = j.key /\ i.user = j.user => ~j.sought
        BY <3>2, <3>4
      <4> QED
        BY <4>1, <4>2
    <3>5. CASE i = n /\ j = n
      <4>0. i.id = Cardinality(jobs) + 1 /\ j.id = Cardinality(jobs) + 1
        BY <2>1, <3>5
      <4>1. ~(i.id < j.id)
        BY <2>7, <4>0
      <4> QED
        BY <4>1
    <3> QED
      BY <2>6, <3>1, <3>3, <3>4, <3>5
  <2>12. DOMAIN h' = Handlers /\ h'[x] = Idle /\ OneBusy'
    BY <1>1, HandlerMoves DEF SubmitInv
  <2>13. SubmissionKnows(h[x])'
    BY <1>2, <2>12 DEF SubmissionKnows, Deciding
  <2>14. \A y \in Handlers : SubmissionKnows(h[y])'
    BY <1>1, <2>13, OthersKnow
  <2> QED
    BY <2>10, <2>11, <2>12, <2>14 DEF SubmitInv
<1> QED
  BY <1>3, <1>4 DEF SubmitCreate

LEMMA SubmitStarts == ASSUME Init PROVE SubmitInv
<1>1. DOMAIN h = Handlers /\ (\A x \in Handlers : h[x].pc = "idle") /\ jobs = {}
  BY DEF Init, Idle
<1>2. OneBusy
  BY <1>1 DEF OneBusy, Busy
<1>3. JobsNumbered /\ SerialSubmissions
  BY <1>1, FS_EmptySet DEF JobsNumbered, SerialSubmissions
<1>4. \A x \in Handlers : SubmissionKnows(h[x])
  BY <1>1, NoSubmission
<1> QED
  BY <1>1, <1>2, <1>3, <1>4 DEF SubmitInv

LEMMA SubmitSteps == ASSUME SubmitInv, [Next]_vars PROVE SubmitInv'
<1>1. CASE SeedProfiles \/ UNCHANGED vars
  <2>1. UNCHANGED <<width, jobs, h>>
    BY <1>1 DEF SeedProfiles, vars
  <2>2. OneBusy' /\ DOMAIN h' = Handlers /\ JobsNumbered' /\ SerialSubmissions'
    BY <2>1 DEF SubmitInv, OneBusy, Busy, JobsNumbered, SerialSubmissions
  <2>3. \A y \in Handlers : SubmissionKnows(h[y])'
    BY <2>1 DEF SubmitInv, SubmissionKnows
  <2> QED
    BY <2>2, <2>3 DEF SubmitInv
<1>2. CASE Environment
  BY <1>2, EnvironmentSubmit
<1>3. ASSUME NEW x \in Handlers, Begin(x) \/ Submit(x) \/ Finish(x) \/ Reap(x) PROVE SubmitInv'
  <2>1. CASE SubmitStart(x) \/ Submit(x)
    BY <2>1, StepSubmit, PreemptSubmit, CreateSubmit DEF Submit
  <2>2. CASE ChangeStep(x)
    BY <2>2, ChangeSubmit
  <2>3. CASE ReapStart(x) \/ Reap(x)
    BY <2>3, ReapSubmit
  <2> QED
    BY <1>3, <2>1, <2>2, <2>3 DEF Begin, ChangeStep
<1> QED
  BY <1>1, <1>2, <1>3 DEF Next

\* Submissions that do not overlap keep what the review relies on, for any
\* requests, catalog and number of jobs, whatever calls fail and however the
\* catalog changes between the steps: an idempotency key of a user stands for
\* one job, unless the lookup of a later one was cut short, and after complete
\* listings two projects share GPUs of one class by MPS only where plan and
\* queue permit it (workload/job_submit.go submitJob, job_repository.go
\* FindJobBySubmitIdempotencyKeyHash, schedulerquota/admission.go
\* evaluateSubmitAdmission).
THEOREM SubmissionsAreSerial == Spec => []SerialSubmissions
<1>1. Init => SubmitInv
  BY SubmitStarts
<1>2. SubmitInv /\ [Next]_vars => SubmitInv'
  BY SubmitSteps
<1>3. SubmitInv => SerialSubmissions
  BY DEF SubmitInv
<1> QED
  BY <1>1, <1>2, <1>3, PTL DEF Spec

=============================================================================
