---------------------------- MODULE ConfigFiles ----------------------------
(***************************************************************************)
(* Config files of the workload service with their versions and commands,  *)
(* and the command that cancels a job (services/workload: handler.go,      *)
(* config_repository.go, job_access_handlers.go).                          *)
(*                                                                         *)
(* A handler reads and checks in one access and writes in another; the     *)
(* version of a create or an update is a third.  One config file is        *)
(* modelled, under an id that clients name, so that it may be deleted and  *)
(* created again.  Project access is enforced, and nobody's access changes *)
(* (ProjectAccess has that).  Nothing in the repository carries out a      *)
(* command: it is a row and an event.                                      *)
(***************************************************************************)
EXTENDS Naturals, Sequences, FiniteSets

CONSTANTS ConfigCallers,   \* requests being served
          ProjectsOf,      \* caller -> the projects it may use
          Contents,        \* contents of a file that are not empty
          NoContent,       \* an empty content
          KeepContent,     \* an update that names no content
          NoConfig,
          NoProjectId,     \* a project_id that is blank or not a text
          CancelKeys,      \* idempotency keys, each of one user
          NoCancelKey,
          CancelBodies,    \* what else a cancel request says
          MaxBorn,         \* bound on creations of the file
          MaxCancels       \* bound on cancel commands

VARIABLES config,       \* the file: project and content
          versions,     \* configfiles:versions
          instanceCmds, \* actions of the file's accepted commands
          cancels,      \* jobs:commands
          creq,         \* caller -> where its request is
          born, bornIn, \* history: creations, and the project of the last
          held, unkept, \* history: contents the file had; those whose version was lost
          crossed,      \* history: a request met a file created after its check
          answers, cancelRaced  \* history: accepted cancels; keys used by two requests
                                \* at once, or whose command a request could not list

configRows == <<config, versions, instanceCmds>>
configHistory == <<born, bornIn, held, unkept, crossed>>
cancelVars == <<cancels, answers, cancelRaced>>
configVars == <<configRows, creq, configHistory, cancelVars>>

\* A request with a content, the update of a file, and a cancel with its key.
ConfigRequest(pc, x) == [pc |-> pc, content |-> x, project |-> NoConfig, gen |-> 0, key |-> NoCancelKey]
UpdateRequest(x, p, g) == [pc |-> "update", content |-> x, project |-> p, gen |-> g, key |-> NoCancelKey]
CancelRequest(k, b) == [pc |-> "cancel", content |-> b, project |-> NoConfig, gen |-> 0, key |-> k]
ConfigIdle == ConfigRequest("idle", NoContent)

ConfigFilesInit ==
    /\ config = NoConfig
    /\ versions = {} /\ instanceCmds = {} /\ cancels = << >>
    /\ creq = [c \in ConfigCallers |-> ConfigIdle]
    /\ born = 0 /\ bornIn = NoConfig
    /\ held = {} /\ unkept = {} /\ crossed = FALSE
    /\ answers = {} /\ cancelRaced = {}

ConfigGoes(c, r) == creq' = [creq EXCEPT ![c] = r]
ConfigDone(c) == ConfigGoes(c, ConfigIdle)
ConfigFree(c) == creq[c].pc = "idle"

requireProjectAccess(c, p) == p # NoProjectId /\ p \in ProjectsOf[c]

Sha256(x) == <<"sha256", x>>

\* The handlers of one file start alike: GetConfig, then the project it is in.
GetConfig(c, r) ==
    /\ ConfigFree(c)
    /\ config # NoConfig /\ requireProjectAccess(c, config.project)
    /\ ConfigGoes(c, r)
    /\ UNCHANGED <<configRows, configHistory, cancelVars>>

-----------------------------------------------------------------------------
(***************************************************************************)
(* Config files and their versions.                                        *)
(***************************************************************************)

\* The id of a file that exists is a conflict.
createConfigFile(c, p, x) ==
    /\ ConfigFree(c) /\ born < MaxBorn
    /\ requireProjectAccess(c, p)
    /\ config = NoConfig
    /\ config' = [project |-> p, content |-> x]
    /\ born' = born + 1 /\ bornIn' = p
    /\ held' = held \cup {x}
    /\ ConfigGoes(c, ConfigRequest("version", x))
    /\ UNCHANGED <<versions, instanceCmds, unkept, crossed, cancelVars>>

\* The project of the request is the one the file is in: another is refused,
\* but a blank one is not.
projectIDImmutable(p) == p \in {NoProjectId, config.project}

updateConfigFile(c, x, p) ==
    /\ GetConfig(c, UpdateRequest(x, p, born))
    /\ p = NoConfig \/ projectIDImmutable(p)

\* As a bug would: the version of the request, not of the row it made.
VersionOfRequest(row, r) == r.content

\* createVersion is given the row as the update left it.
versionContent(row, r) == row.content

\* What the request does not name stays, what it names is replaced, a blank
\* project and an empty content included; without a row the update fails.
UpdateConfigWithEvent(c) ==
    /\ creq[c].pc = "update"
    /\ LET r == creq[c]
           row == [project |-> IF r.project = NoConfig THEN config.project ELSE r.project,
                   content |-> IF r.content = KeepContent THEN config.content ELSE r.content]
       IN  \/ /\ config = NoConfig
              /\ ConfigDone(c) /\ UNCHANGED <<config, held, crossed>>
           \/ /\ config # NoConfig
              /\ config' = row
              /\ held' = held \cup {row.content}
              /\ crossed' = (crossed \/ r.gen # born)
              /\ ConfigGoes(c, ConfigRequest("version", versionContent(row, r)))
    /\ UNCHANGED <<versions, instanceCmds, born, bornIn, unkept, cancelVars>>

\* An error is only logged.
createVersion(c) ==
    /\ creq[c].pc = "version"
    /\ \/ /\ versions' = versions \cup {[other |-> FALSE, sha256 |-> Sha256(creq[c].content), immutable |-> FALSE]}
          /\ UNCHANGED unkept
       \/ unkept' = unkept \cup {creq[c].content} /\ UNCHANGED versions
    /\ ConfigDone(c)
    /\ UNCHANGED <<config, instanceCmds, born, bornIn, held, crossed, cancelVars>>

deleteConfigFile(c) == GetConfig(c, ConfigRequest("delete", NoContent))

\* The versions stay.
DeleteConfigWithEvent(c) ==
    /\ creq[c].pc = "delete"
    /\ config' = NoConfig
    /\ ConfigDone(c)
    /\ UNCHANGED <<versions, instanceCmds, configHistory, cancelVars>>

commitConfigFileVersion(c, x) == GetConfig(c, ConfigRequest("commit", x))

\* The content is the request's, and so is the config it is filed under when
\* the request names one.
CommitVersionWithEvent(c) ==
    /\ creq[c].pc = "commit"
    /\ \E other \in BOOLEAN :
          versions' = versions \cup {[other |-> other, sha256 |-> Sha256(creq[c].content), immutable |-> TRUE]}
    /\ ConfigDone(c)
    /\ UNCHANGED <<config, instanceCmds, configHistory, cancelVars>>

configInstanceCommand(c) == GetConfig(c, ConfigRequest("command", NoContent))

CreateInstanceCommandWithEvent(c) ==
    /\ creq[c].pc = "command"
    /\ \E action \in {"start", "stop"} : instanceCmds' = instanceCmds \cup {action}
    /\ ConfigDone(c)
    /\ UNCHANGED <<config, versions, configHistory, cancelVars>>

-----------------------------------------------------------------------------
(***************************************************************************)
(* Cancelling a job, with or without an idempotency key.                   *)
(***************************************************************************)

CancelAccepted(k, b, i) == answers' = answers \cup {[key |-> k, body |-> b, command |-> i]}

\* A key seen before answers with its command, or is a conflict when the
\* request it was used for said something else.  A listing that fails misses
\* the command, and the request goes on as if the key was new.
cancelJobIdempotencyResult(c, k, b) ==
    /\ k # NoCancelKey
    /\ \E i \in DOMAIN cancels :
          /\ cancels[i].key = k /\ cancels[i].fingerprint = Sha256(b)
          /\ CancelAccepted(k, b, i)
    /\ UNCHANGED <<creq, cancelRaced>>

cancelJob(c, k, b) ==
    /\ ConfigFree(c)
    /\ \/ cancelJobIdempotencyResult(c, k, b)
       \/ /\ ConfigGoes(c, CancelRequest(k, b))
          /\ cancelRaced' = cancelRaced \cup
                 {x \in {k} \ {NoCancelKey} :
                    \/ \E i \in DOMAIN cancels : cancels[i].key = x
                    \/ \E d \in ConfigCallers : creq[d].pc = "cancel" /\ creq[d].key = x}
          /\ UNCHANGED answers
    /\ UNCHANGED <<configRows, configHistory, cancels>>

CreateJobCommandWithEvent(c) ==
    /\ creq[c].pc = "cancel" /\ Len(cancels) < MaxCancels
    /\ LET r == creq[c]
       IN  /\ cancels' = Append(cancels, [key |-> r.key, fingerprint |-> Sha256(r.content)])
           /\ CancelAccepted(r.key, r.content, Len(cancels) + 1)
    /\ ConfigDone(c)
    /\ UNCHANGED <<configRows, configHistory, cancelRaced>>

-----------------------------------------------------------------------------
\* A write fails, or the process dies before it.
ConfigRequestDies(c) ==
    /\ ~ConfigFree(c)
    /\ unkept' = IF creq[c].pc = "version" THEN unkept \cup {creq[c].content} ELSE unkept
    /\ ConfigDone(c)
    /\ UNCHANGED <<configRows, born, bornIn, held, crossed, cancelVars>>

NamedProjects == UNION {ProjectsOf[d] : d \in ConfigCallers}

ConfigFileStep(c) ==
    \/ \E x \in Contents \cup {NoContent} : \/ \E p \in NamedProjects : createConfigFile(c, p, x)
                                            \/ commitConfigFileVersion(c, x)
    \/ \E x \in Contents \cup {NoContent, KeepContent}, p \in NamedProjects \cup {NoProjectId, NoConfig} :
         updateConfigFile(c, x, p)
    \/ UpdateConfigWithEvent(c) \/ createVersion(c)
    \/ deleteConfigFile(c) \/ DeleteConfigWithEvent(c) \/ CommitVersionWithEvent(c)
    \/ configInstanceCommand(c) \/ CreateInstanceCommandWithEvent(c)

CancelStep(c) ==
    \/ \E k \in CancelKeys \cup {NoCancelKey}, b \in CancelBodies : cancelJob(c, k, b)
    \/ CreateJobCommandWithEvent(c)

ConfigFilesNext == \E c \in ConfigCallers : ConfigFileStep(c) \/ CancelStep(c) \/ ConfigRequestDies(c)

ConfigFilesSpec == ConfigFilesInit /\ [][ConfigFilesNext]_configVars

-----------------------------------------------------------------------------
\* The history of a config file can be relied on, however updates, deletes and
\* re-creations interleave: every content the file had has a version, unless
\* the write of that version failed or is still to come, and every version
\* that nobody committed by hand is of a content the file really had.  A file
\* is in the project it was created in, or in none once an update with a blank
\* project_id passed the check that project_id is immutable, and never in
\* another unless an update was checked against an earlier file of the same
\* id.  And a key under which requests to cancel a job did not overlap, and
\* whose command every one of them could list, has one command, which answers
\* just the requests that say the same.
ConfigHistoryKept ==
    /\ \A x \in held \ unkept :
          \/ \E v \in versions : ~v.immutable /\ v.sha256 = Sha256(x)
          \/ \E c \in ConfigCallers : creq[c].pc = "version" /\ creq[c].content = x
    /\ \A v \in versions : v.immutable \/ \E x \in held : v.sha256 = Sha256(x)
    /\ config = NoConfig \/ crossed \/ config.project \in {bornIn, NoProjectId}
    /\ \A a, b \in answers :
          a.key = b.key /\ a.key \notin cancelRaced \cup {NoCancelKey} =>
             a.command = b.command /\ a.body = b.body
=============================================================================
