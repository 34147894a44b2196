------------------------------ MODULE MCSubmit ------------------------------
(* Small instances of SubmitSaga, beside the parts of MCRuntime.           *)
EXTENDS SubmitSaga, MCRuntime, TLC

Amounts(g, c, m) == [d \in Dims |-> CASE d = "gpu" -> g [] d = "cpu" -> c [] d = "mem" -> m]

Container(g, c) == [limits |-> Amounts(g, 0, 0), requests |-> Amounts(0, c, 1)]

\* A pod that waits for an init container with more CPU than it uses later.
APod(g, c) ==
    [kind |-> "Pod", tasks |-> {}, replicas |-> 1, claim |-> None,
     template |-> [containers |-> <<Container(g, c)>>, inits |-> <<Container(0, c + 1)>>,
                   images |-> {"base"}, socket |-> FALSE]]

Request(user, project, key, amounts, sm, objects) ==
    [user |-> user, project |-> project, key |-> key, queue |-> "fast",
     required |-> amounts, gpuCount |-> 0, sm |-> sm, pinned |-> FALSE, share |-> None,
     device |-> None, accelerator |-> None, network |-> None, placement |-> None,
     streaming |-> FALSE, bitrate |-> 0, objects |-> objects]

\* Two projects share GPUs of one class, one key is used for two different
\* requests, a profile brings the percentage, and one request streams.
MCRequests ==
    { Request("ann", "p1", "k1", Amounts(50, 2, 1), 50, <<APod(50, 1)>>),
      [Request("ann", "p1", "k1", Amounts(0, 2, 1), None, <<APod(0, 1)>>)
         EXCEPT !.streaming = TRUE, !.bitrate = 2],
      [Request("bob", "p2", None, Amounts(50, 2, 1), None, <<APod(50, 1)>>)
         EXCEPT !.accelerator = "half"] }

MCQueue(name, cross, priority) ==
    [name |-> name, mps |-> TRUE, cross |-> cross, cap |-> 60, priority |-> priority,
     preemptible |-> TRUE]

MCPlan(queueIds, cross, windows) ==
    [from |-> 0, until |-> 6, windows |-> windows, queues |-> queueIds,
     limit |-> Amounts(100, 3, 0), models |-> {"gpu.nvidia.com"}, mpsForbidden |-> FALSE,
     mps |-> TRUE, cross |-> cross, cap |-> 0]

MCProject(plan) ==
    [plan |-> plan, personal |-> None, members |-> {"ann", "bob"}, ownerGroup |-> {},
     highSecurity |-> FALSE, maxRunning |-> 0, maxQueued |-> 2]

MCProfile(name, enabled) ==
    [name |-> name, enabled |-> enabled, class |-> None, sm |-> 50, pinned |-> FALSE]

MCQueueRecords == {MCQueue("fast", TRUE, 2), MCQueue("slow", TRUE, 0)}
MCPlanRecords == {MCPlan({"q1"}, FALSE, {<<1, 3>>})}
MCProfileRecords ==
    [accelerator |-> {MCProfile("half", FALSE)}, network |-> {MCProfile("lan", TRUE)},
     placement |-> {MCProfile("any", TRUE)}]
MCInitQueues == [q \in {"q1"} |-> MCQueue("fast", TRUE, 1)]
MCInitPlans == [l \in {"l1"} |-> MCPlan({"q1"}, FALSE, {<<1, 3>>})]
MCInitProjects == [p \in {"p1", "p2"} |-> MCProject("l1")]
MCInitProfiles ==
    [accelerator |-> [n \in {"half"} |-> MCProfile("half", TRUE)],
     network |-> << >>, placement |-> << >>]
MCUserQuotas == [k \in {<<"p1", "ann">>} |-> Amounts(100, 4, 0)]
MCCaps == [bitrate |-> 4, sessions |-> 1, egress |-> 4]
MCImageRules == {[image |-> "base", project |-> "*", deleted |-> FALSE, enabled |-> TRUE]}
\* Both sides of every end of the window, and of the validity.
MCTimes == {0, 1, 2, 3, 6, 7}

\* The submission shares no state with the parts of MCRuntime: one moves.
mcVars == <<focus, vars, runtimeVars>>

MCInit ==
    /\ focus \in {"submit"} \cup RuntimeFoci
    /\ Init /\ RuntimeInit
    /\ focus # "submit" => width = 1

\* Bound: one handler meets two catalog changes, or one and a failed call; two
\* concurrent handlers make two submissions, or one beside a catalog change.
SubmitBound ==
    IF width = 1 THEN changes + faults <= 2 ELSE changes + Cardinality(jobs) <= 2

MCNext ==
    /\ UNCHANGED focus
    /\ \/ /\ focus = "submit" /\ UNCHANGED runtimeVars
          /\ Next
          /\ SubmitBound'
       \/ focus \in RuntimeFoci /\ UNCHANGED vars /\ RuntimePart

MCSpec == MCInit /\ [][MCNext]_mcVars

\* Handlers are interchangeable.
MCSymmetry == Permutations(Handlers)

=============================================================================
