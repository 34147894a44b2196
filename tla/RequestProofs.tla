---------------------------- MODULE RequestProofs ----------------------------
(***************************************************************************)
(* Config files, cancel commands, forms and announcements, for any number  *)
(* of callers, contents, keys, forms and announcements: what the config    *)
(* file held has a version, a form that was Completed stays so unless a    *)
(* request overtook another, and the pins exceed their limit by less than  *)
(* there are administrators.                                               *)
(***************************************************************************)
EXTENDS ConfigFiles, RequestForms, TLAPS

\* A leaf is tried with Zenon, and where that fails with the SMT solver.
USE Zenon, SMTT(30)

-----------------------------------------------------------------------------
(* Config files and the cancelling of jobs.                                  *)

ConfigPcs == {"idle", "version", "update", "delete", "commit", "command", "cancel"}
ConfigContents == Contents \cup {NoContent}
UpdateContents == ConfigContents \cup {KeepContent}
ConfigRecords == [project : NamedProjects \cup {NoProjectId}, content : ConfigContents]
ConfigRequests == [pc : ConfigPcs, content : UpdateContents \cup CancelBodies,
                   project : NamedProjects \cup {NoProjectId, NoConfig}, gen : Nat, key : CancelKeys \cup {NoCancelKey}]
CancelCommands == [key : CancelKeys \cup {NoCancelKey}, fingerprint : {Sha256(b) : b \in CancelBodies}]

ConfigTypes ==
    /\ config \in ConfigRecords \cup {NoConfig}
    /\ creq \in [ConfigCallers -> ConfigRequests]
    /\ born \in Nat

CancelTypes ==
    /\ cancels \in Seq(CancelCommands)
    /\ \A c \in ConfigCallers : creq[c].pc = "cancel" => creq[c].content \in CancelBodies

(* A request that is to write a version writes one of a content the file     *)
(* had, and an update that names a project names the one the file of its     *)
(* check was created in, or a blank one.                                     *)
ConfigKnows(c) ==
    /\ creq[c].pc = "version" => creq[c].content \in held
    /\ creq[c].pc = "update" =>
          /\ creq[c].content \in UpdateContents
          /\ creq[c].gen <= born
          /\ creq[c].gen = born /\ ~crossed => creq[c].project \in {bornIn, NoProjectId, NoConfig}

(* An answer is the command of its key and body.  A key that was not raced   *)
(* has one command or one request that is to create it.                      *)
AnswersTrue ==
    \A a \in answers : /\ a.command \in DOMAIN cancels
                       /\ cancels[a.command] = [key |-> a.key, fingerprint |-> Sha256(a.body)]

KeysOnce ==
    \A k \in CancelKeys \ (cancelRaced \cup {NoCancelKey}) :
        /\ \A i, j \in DOMAIN cancels : cancels[i].key = k /\ cancels[j].key = k => i = j
        /\ \A c \in ConfigCallers : creq[c].pc = "cancel" /\ creq[c].key = k =>
              /\ \A i \in DOMAIN cancels : cancels[i].key # k
              /\ \A d \in ConfigCallers : creq[d].pc = "cancel" /\ creq[d].key = k => d = c

(* The part of ConfigHistoryKept that is about the file.                     *)
FileKept ==
    /\ \A x \in held \ unkept :
          \/ \E v \in versions : ~v.immutable /\ v.sha256 = Sha256(x)
          \/ \E c \in ConfigCallers : creq[c].pc = "version" /\ creq[c].content = x
    /\ \A v \in versions : v.immutable \/ \E x \in held : v.sha256 = Sha256(x)
    /\ config = NoConfig \/ crossed \/ config.project \in {bornIn, NoProjectId}

FileInv == (\A c \in ConfigCallers : ConfigKnows(c)) /\ FileKept
CancelInv == CancelTypes /\ AnswersTrue /\ KeysOnce
ConfigInv == ConfigTypes /\ FileInv /\ CancelInv

\* A request is made with the fields it is given.
LEMMA ConfigRequestType ==
    /\ \A pc \in ConfigPcs, x \in ConfigContents :
          /\ ConfigRequest(pc, x) \in ConfigRequests
          /\ ConfigRequest(pc, x).pc = pc /\ ConfigRequest(pc, x).content = x
    /\ ConfigIdle \in ConfigRequests /\ ConfigIdle.pc = "idle"
  BY DEF ConfigRequest, ConfigRequests, ConfigIdle, ConfigPcs, ConfigContents, UpdateContents

\* What a file handler does leaves the cancel commands alone.
LEMMA CancelsStay ==
    ASSUME ConfigTypes, CancelInv, NEW c \in ConfigCallers, NEW x \in ConfigRequests, x.pc # "cancel",
           ConfigGoes(c, x), UNCHANGED cancelVars
    PROVE  CancelInv'
  <1>1. /\ \A d \in ConfigCallers : creq'[d].pc = "cancel" => creq'[d] = creq[d]
        /\ UNCHANGED <<cancels, answers, cancelRaced>>
    BY DEF ConfigTypes, ConfigGoes, cancelVars
  <1>2. CancelTypes' /\ AnswersTrue'
    BY <1>1 DEF CancelInv, CancelTypes, AnswersTrue
  <1>3. KeysOnce'
    BY <1>1 DEF CancelInv, KeysOnce
  <1> QED  BY <1>2, <1>3 DEF CancelInv

\* A request that neither writes a version nor updates leaves the file alone.
LEMMA FileStays ==
    ASSUME ConfigTypes, FileInv, NEW c \in ConfigCallers, NEW x \in ConfigRequests,
           creq[c].pc # "version", x.pc \notin {"version", "update"},
           ConfigGoes(c, x), UNCHANGED <<held, unkept, born, bornIn, crossed>>,
           versions \subseteq versions', \A v \in versions' \ versions : v.immutable,
           config' \in {config, NoConfig}
    PROVE  FileInv'
  <1>1. \A d \in ConfigCallers : creq'[d].pc \in {"version", "update"} => creq'[d] = creq[d]
    BY DEF ConfigTypes, ConfigGoes
  <1>2. \A d \in ConfigCallers : creq[d].pc = "version" => creq'[d] = creq[d]
    BY DEF ConfigTypes, ConfigGoes
  <1>3. \A d \in ConfigCallers : ConfigKnows(d)'
    BY <1>1 DEF FileInv, ConfigKnows
  <1>4. FileKept'
    BY <1>2 DEF FileInv, FileKept
  <1> QED  BY <1>3, <1>4 DEF FileInv

\* There is neither a file nor a command.
LEMMA ConfigInitInv == ConfigFilesInit => ConfigInv
  <1> SUFFICES ASSUME ConfigFilesInit PROVE ConfigInv
    OBVIOUS
  <1>1. ConfigTypes
    BY ConfigRequestType DEF ConfigFilesInit, ConfigTypes
  <1>2. \A c \in ConfigCallers : creq[c].pc = "idle"
    BY ConfigRequestType DEF ConfigFilesInit
  <1>3. FileInv
    BY <1>2 DEF ConfigFilesInit, FileInv, FileKept, ConfigKnows
  <1>4. CancelInv
    BY <1>2 DEF ConfigFilesInit, CancelInv, CancelTypes, AnswersTrue, KeysOnce
  <1> QED  BY <1>1, <1>3, <1>4 DEF ConfigInv

\* A new file: its content is to get a version, and updates of an earlier file
\* are of an earlier generation.
LEMMA CreateFileInv ==
    ASSUME ConfigInv, NEW c \in ConfigCallers, NEW p \in NamedProjects, NEW x \in ConfigContents,
           createConfigFile(c, p, x)
    PROVE  ConfigInv'
  <1> DEFINE r == ConfigRequest("version", x)
  <1>1. r \in ConfigRequests /\ r.pc = "version" /\ r.content = x
    BY ConfigRequestType, ZenonT(30) DEF ConfigPcs
  <1>2. ConfigGoes(c, r) /\ creq[c].pc = "idle"
    BY DEF createConfigFile, ConfigFree
  <1> HIDE DEF r
  <1>3. ConfigTypes'
    BY <1>1, <1>2 DEF ConfigInv, ConfigTypes, ConfigRecords, ConfigGoes, createConfigFile
  <1>4. CancelInv'
    BY <1>1, <1>2, CancelsStay DEF ConfigInv, createConfigFile
  <1>5. /\ creq'[c] = r
        /\ \A d \in ConfigCallers \ {c} : creq'[d] = creq[d]
    BY <1>1, <1>2 DEF ConfigInv, ConfigTypes, ConfigGoes
  <1>6. \A d \in ConfigCallers : ConfigKnows(d)'
    <2>1. born' = born + 1 /\ born \in Nat /\ held \subseteq held' /\ x \in held' /\ \A d \in ConfigCallers : creq[d].gen \in Nat
      BY DEF createConfigFile, ConfigInv, ConfigTypes, ConfigRequests
    <2> QED  BY <1>1, <1>5, <2>1 DEF ConfigInv, FileInv, ConfigKnows
  <1>7. FileKept'
    BY <1>1, <1>2, <1>5 DEF ConfigInv, FileInv, FileKept, createConfigFile
  <1> QED  BY <1>3, <1>4, <1>6, <1>7 DEF ConfigInv, FileInv

\* The check of a request about the file: an update that names a project names
\* the one the file was created in, or a blank one.
LEMMA GetConfigInv ==
    ASSUME ConfigInv, NEW c \in ConfigCallers,
           \/ \E x \in UpdateContents, p \in NamedProjects \cup {NoProjectId, NoConfig} : updateConfigFile(c, x, p)
           \/ \E x \in ConfigContents : commitConfigFileVersion(c, x)
           \/ deleteConfigFile(c) \/ configInstanceCommand(c)
    PROVE  ConfigInv'
  <1>1. PICK r \in ConfigRequests :
            /\ GetConfig(c, r) /\ r.pc \notin {"version", "cancel"}
            /\ r.pc = "update" => /\ r.content \in UpdateContents /\ r.gen = born
                                  /\ r.project \in {config.project, NoProjectId, NoConfig}
    <2>1. ASSUME NEW x \in UpdateContents, NEW p \in NamedProjects \cup {NoProjectId, NoConfig}, updateConfigFile(c, x, p)
          PROVE  LET u == UpdateRequest(x, p, born)
                 IN  /\ u \in ConfigRequests /\ GetConfig(c, u)
                     /\ u.pc = "update" /\ u.content = x /\ u.gen = born
                     /\ u.project \in {config.project, NoProjectId, NoConfig}
      BY <2>1 DEF updateConfigFile, projectIDImmutable, UpdateRequest, ConfigInv, ConfigTypes, ConfigRequests, ConfigPcs
    <2>2. ASSUME NEW x \in ConfigContents, commitConfigFileVersion(c, x)
          PROVE  LET u == ConfigRequest("commit", x)
                 IN  u \in ConfigRequests /\ GetConfig(c, u) /\ u.pc = "commit"
      BY <2>2, ConfigRequestType DEF commitConfigFileVersion, ConfigPcs
    <2>3. ASSUME deleteConfigFile(c) \/ configInstanceCommand(c)
          PROVE  \E u \in ConfigRequests : GetConfig(c, u) /\ u.pc \in {"delete", "command"}
      BY <2>3, ConfigRequestType DEF deleteConfigFile, configInstanceCommand, ConfigPcs, ConfigContents
    <2> QED  BY <2>1, <2>2, <2>3
  <1>2. /\ ConfigGoes(c, r) /\ creq[c].pc = "idle" /\ config # NoConfig
        /\ UNCHANGED <<configRows, configHistory, cancelVars>>
    BY <1>1 DEF GetConfig, ConfigFree
  <1>3. /\ creq'[c] = r
        /\ \A d \in ConfigCallers \ {c} : creq'[d] = creq[d]
        /\ creq' \in [ConfigCallers -> ConfigRequests]
    BY <1>1, <1>2 DEF ConfigInv, ConfigTypes, ConfigGoes
  <1>4. UNCHANGED <<config, versions, held, unkept, born, bornIn, crossed>>
    BY <1>2 DEF configRows, configHistory
  <1>5. ConfigTypes'
    BY <1>3, <1>4 DEF ConfigInv, ConfigTypes
  <1>6. CancelInv'
    BY <1>1, <1>2, CancelsStay DEF ConfigInv
  <1>7. \A d \in ConfigCallers : ConfigKnows(d)'
    <2>1. born \in Nat
      BY DEF ConfigInv, ConfigTypes
    <2> QED  BY <1>1, <1>2, <1>3, <1>4, <2>1 DEF ConfigInv, FileInv, FileKept, ConfigKnows
  <1>8. FileKept'
    BY <1>2, <1>3, <1>4 DEF ConfigInv, FileInv, FileKept
  <1> QED  BY <1>5, <1>6, <1>7, <1>8 DEF ConfigInv, FileInv

\* The update: the row keeps the project it was created in or loses it, unless
\* the update was checked against an earlier file.
LEMMA UpdateConfigInv ==
    ASSUME ConfigInv, NEW c \in ConfigCallers, UpdateConfigWithEvent(c)
    PROVE  ConfigInv'
  <1> DEFINE row == [project |-> IF creq[c].project = NoConfig THEN config.project ELSE creq[c].project,
                     content |-> IF creq[c].content = KeepContent THEN config.content ELSE creq[c].content]
             r == ConfigRequest("version", row.content)
  <1>0. /\ creq[c] \in ConfigRequests /\ creq[c].pc = "update"
        /\ ConfigKnows(c) /\ creq[c].content \in UpdateContents
        /\ UNCHANGED <<versions, born, bornIn, unkept, cancelVars>>
    BY DEF ConfigInv, ConfigTypes, FileInv, ConfigKnows, UpdateConfigWithEvent
  <1>1. CASE config = NoConfig /\ ConfigDone(c) /\ UNCHANGED <<config, held, crossed>>
    <2>1. ConfigGoes(c, ConfigIdle) /\ ConfigIdle \in ConfigRequests /\ ConfigIdle.pc = "idle"
      BY <1>1, ConfigRequestType DEF ConfigDone
    <2>2. ConfigTypes'
      BY <1>0, <1>1, <2>1 DEF ConfigInv, ConfigTypes, ConfigGoes
    <2>3. FileInv'
      BY <1>0, <1>1, <2>1, FileStays DEF ConfigInv
    <2>4. CancelInv'
      BY <1>0, <2>1, CancelsStay DEF ConfigInv
    <2> QED  BY <2>2, <2>3, <2>4 DEF ConfigInv
  <1>2. CASE /\ config # NoConfig /\ config' = row /\ held' = held \cup {row.content}
             /\ crossed' = (crossed \/ creq[c].gen # born) /\ ConfigGoes(c, r)
    <2>1. row \in ConfigRecords
      BY <1>0, <1>2 DEF ConfigInv, ConfigTypes, ConfigRequests, ConfigRecords, UpdateContents
    <2>2. r \in ConfigRequests /\ r.pc = "version" /\ r.content = row.content
      BY <2>1, ConfigRequestType DEF ConfigPcs, ConfigRecords
    <2>3. ~crossed' => row.project \in {bornIn, NoProjectId}
      BY <1>0, <1>2 DEF ConfigInv, FileInv, FileKept, ConfigKnows
    <2> HIDE DEF r, row
    <2>4. ConfigTypes'
      BY <1>0, <1>2, <2>1, <2>2 DEF ConfigInv, ConfigTypes, ConfigGoes
    <2>5. CancelInv'
      BY <1>0, <1>2, <2>2, CancelsStay DEF ConfigInv
    <2>6. /\ creq'[c] = r
          /\ \A d \in ConfigCallers \ {c} : creq'[d] = creq[d]
      BY <1>2, <2>2 DEF ConfigInv, ConfigTypes, ConfigGoes
    <2>7. \A d \in ConfigCallers : ConfigKnows(d)'
      BY <1>0, <1>2, <2>2, <2>6 DEF ConfigInv, FileInv, ConfigKnows
    <2>8. FileKept'
      BY <1>0, <1>2, <2>2, <2>3, <2>6 DEF ConfigInv, FileInv, FileKept
    <2> QED  BY <2>4, <2>5, <2>7, <2>8 DEF ConfigInv, FileInv
  <1> QED  BY <1>1, <1>2 DEF UpdateConfigWithEvent, versionContent

\* A request that ends: its version was written, or the content is not kept.
LEMMA EndsInv ==
    ASSUME ConfigInv, NEW c \in ConfigCallers, ConfigDone(c), UNCHANGED cancelVars,
           UNCHANGED <<config, held, born, bornIn, crossed>>, versions \subseteq versions', unkept \subseteq unkept',
           \A v \in versions' \ versions : v.immutable \/ \E x \in held : v.sha256 = Sha256(x),
           creq[c].pc = "version" => \/ creq[c].content \in unkept'
                                     \/ \E v \in versions' : ~v.immutable /\ v.sha256 = Sha256(creq[c].content)
    PROVE  ConfigInv'
  <1>1. ConfigGoes(c, ConfigIdle) /\ ConfigIdle \in ConfigRequests /\ ConfigIdle.pc = "idle"
    BY ConfigRequestType DEF ConfigDone
  <1>2. ConfigTypes'
    BY <1>1 DEF ConfigInv, ConfigTypes, ConfigGoes
  <1>3. CancelInv'
    BY <1>1, CancelsStay DEF ConfigInv
  <1>4. creq'[c].pc = "idle" /\ \A d \in ConfigCallers \ {c} : creq'[d] = creq[d]
    BY <1>1 DEF ConfigInv, ConfigTypes, ConfigGoes
  <1>5. \A d \in ConfigCallers : ConfigKnows(d)'
    BY <1>4 DEF ConfigInv, FileInv, ConfigKnows
  <1>6. FileKept'
    BY <1>4 DEF ConfigInv, FileInv, FileKept
  <1> QED  BY <1>2, <1>3, <1>5, <1>6 DEF ConfigInv, FileInv

\* createVersion writes the version of a content the file had.
LEMMA VersionInv ==
    ASSUME ConfigInv, NEW c \in ConfigCallers, createVersion(c) \/ ConfigRequestDies(c)
    PROVE  ConfigInv'
  <1>1. CASE createVersion(c)
    <2>1. creq[c].pc = "version" /\ creq[c].content \in held
      BY <1>1 DEF createVersion, ConfigInv, FileInv, ConfigKnows
    <2> DEFINE v == [other |-> FALSE, sha256 |-> Sha256(creq[c].content), immutable |-> FALSE]
    <2>2. v.sha256 = Sha256(creq[c].content) /\ ~v.immutable
      OBVIOUS
    <2>3. CASE versions' = versions \cup {v} /\ UNCHANGED unkept
      <3> HIDE DEF v
      <3> QED  BY <1>1, <2>1, <2>2, <2>3, EndsInv DEF createVersion
    <2>4. CASE unkept' = unkept \cup {creq[c].content} /\ UNCHANGED versions
      BY <1>1, <2>1, <2>4, EndsInv DEF createVersion
    <2> QED  BY <1>1, <2>3, <2>4 DEF createVersion
  <1>2. CASE ConfigRequestDies(c)
    BY <1>2, EndsInv DEF ConfigRequestDies, configRows
  <1> QED  BY <1>1, <1>2

\* Deletes, commits by hand and commands write no version of the file's own.
LEMMA OtherWritesInv ==
    ASSUME ConfigInv, NEW c \in ConfigCallers,
           DeleteConfigWithEvent(c) \/ CommitVersionWithEvent(c) \/ CreateInstanceCommandWithEvent(c)
    PROVE  ConfigInv'
  <1>1. /\ ConfigGoes(c, ConfigIdle) /\ ConfigIdle \in ConfigRequests /\ ConfigIdle.pc = "idle"
        /\ creq[c].pc # "version"
        /\ UNCHANGED <<held, unkept, born, bornIn, crossed, cancelVars>>
        /\ config' \in {config, NoConfig}
    BY ConfigRequestType
       DEF ConfigDone, DeleteConfigWithEvent, CommitVersionWithEvent, CreateInstanceCommandWithEvent, configHistory
  <1>2. versions \subseteq versions' /\ \A v \in versions' \ versions : v.immutable
    BY DEF DeleteConfigWithEvent, CommitVersionWithEvent, CreateInstanceCommandWithEvent
  <1>3. ConfigTypes'
    BY <1>1 DEF ConfigInv, ConfigTypes, ConfigGoes
  <1> QED  BY <1>1, <1>2, <1>3, FileStays, CancelsStay DEF ConfigInv

\* cancelJob: a key seen before answers with its command; a new one is looked
\* up now and used later, and if another request uses it too, or its command
\* could not be listed, it is raced.
LEMMA CancelJobInv ==
    ASSUME ConfigInv, NEW c \in ConfigCallers, NEW k \in CancelKeys \cup {NoCancelKey}, NEW b \in CancelBodies,
           cancelJob(c, k, b)
    PROVE  ConfigInv'
  <1>0. /\ creq[c].pc = "idle" /\ cancels \in Seq(CancelCommands)
        /\ UNCHANGED <<config, versions, held, unkept, born, bornIn, crossed, cancels>>
    BY DEF cancelJob, ConfigFree, configRows, configHistory, ConfigInv, CancelInv, CancelTypes
  <1>1. CASE cancelJobIdempotencyResult(c, k, b)
    <2>1. UNCHANGED <<creq, cancelRaced>>
      BY <1>1 DEF cancelJobIdempotencyResult
    <2>2. PICK i \in DOMAIN cancels : /\ cancels[i].key = k /\ cancels[i].fingerprint = Sha256(b)
                                      /\ CancelAccepted(k, b, i)
      BY <1>1 DEF cancelJobIdempotencyResult
    <2>3. cancels[i] = [key |-> k, fingerprint |-> Sha256(b)]
      <3>1. cancels[i] \in CancelCommands
        BY <1>0
      <3> HIDE DEF Sha256
      <3> QED  BY <2>2, <3>1 DEF CancelCommands
    <2>4. AnswersTrue'
      <3>1. AnswersTrue /\ answers' = answers \cup {[key |-> k, body |-> b, command |-> i]}
        BY <2>2 DEF CancelAccepted, ConfigInv, CancelInv
      <3> QED  BY <1>0, <2>2, <2>3, <3>1 DEF AnswersTrue
    <2>5. CancelTypes' /\ KeysOnce'
      <3>1. CancelTypes /\ KeysOnce
        BY DEF ConfigInv, CancelInv
      <3>2. CancelTypes'
        BY <1>0, <2>1, <3>1 DEF CancelTypes
      <3>3. KeysOnce'
        BY <1>0, <2>1, <3>1 DEF KeysOnce
      <3> QED  BY <3>2, <3>3
    <2>6. ConfigTypes' /\ FileInv'
      BY <1>0, <2>1 DEF ConfigInv, ConfigTypes, FileInv, FileKept, ConfigKnows
    <2> QED  BY <2>4, <2>5, <2>6 DEF ConfigInv, CancelInv
  <1>2. CASE /\ ConfigGoes(c, CancelRequest(k, b))
             /\ cancelRaced' = cancelRaced \cup
                    {x \in {k} \ {NoCancelKey} :
                       \/ \E i \in DOMAIN cancels : cancels[i].key = x
                       \/ \E d \in ConfigCallers : creq[d].pc = "cancel" /\ creq[d].key = x}
             /\ UNCHANGED answers
    <2> DEFINE r == CancelRequest(k, b)
    <2>1. r \in ConfigRequests /\ r.pc = "cancel" /\ r.key = k /\ r.content = b
      BY DEF CancelRequest, ConfigRequests, ConfigPcs
    <2>2. ConfigGoes(c, r)
      BY <1>2
    <2> HIDE DEF r
    <2>3. creq'[c] = r /\ \A d \in ConfigCallers \ {c} : creq'[d] = creq[d]
      BY <2>1, <2>2 DEF ConfigInv, ConfigTypes, ConfigGoes
    <2>4. ConfigTypes'
      BY <1>0, <2>1, <2>2 DEF ConfigInv, ConfigTypes, ConfigGoes
    <2>5. FileInv'
      BY <1>0, <2>1, <2>2, FileStays DEF ConfigInv
    <2>6. CancelTypes' /\ AnswersTrue'
      BY <1>0, <1>2, <2>1, <2>3 DEF ConfigInv, CancelInv, CancelTypes, AnswersTrue
    <2>7. KeysOnce
      BY DEF ConfigInv, CancelInv
    <2>8. KeysOnce'
      <3>1. /\ cancels' = cancels
            /\ \A x \in CancelKeys : x \notin cancelRaced' \cup {NoCancelKey} => x \notin cancelRaced \cup {NoCancelKey}
        BY <1>0, <1>2
      <3>2. k \in cancelRaced' \cup {NoCancelKey} \/
                (\A d \in ConfigCallers : creq[d].pc = "cancel" => creq[d].key # k)
        BY <1>2
      <3>3. k \in cancelRaced' \cup {NoCancelKey} \/ \A i \in DOMAIN cancels : cancels[i].key # k
        BY <1>2
      <3>4. creq'[c].key = k
        BY <2>1, <2>3
      <3> QED  BY <2>3, <2>7, <3>1, <3>2, <3>3, <3>4 DEF KeysOnce
    <2> QED  BY <2>4, <2>5, <2>6, <2>8 DEF ConfigInv, CancelInv
  <1> QED  BY <1>1, <1>2 DEF cancelJob

\* The command of a key that was not raced is the first of its key.
LEMMA CreateCommandInv ==
    ASSUME ConfigInv, NEW c \in ConfigCallers, CreateJobCommandWithEvent(c)
    PROVE  ConfigInv'
  <1> DEFINE n == Len(cancels) + 1
             m == [key |-> creq[c].key, fingerprint |-> Sha256(creq[c].content)]
  <1>1. /\ creq[c] \in ConfigRequests /\ creq[c].pc = "cancel" /\ creq[c].content \in CancelBodies
        /\ cancels \in Seq(CancelCommands)
        /\ UNCHANGED <<config, versions, held, unkept, born, bornIn, crossed, cancelRaced>>
    BY DEF CreateJobCommandWithEvent, ConfigInv, ConfigTypes, CancelInv, CancelTypes, configRows, configHistory
  <1>2. m \in CancelCommands /\ m.key = creq[c].key
    BY <1>1 DEF CancelCommands, ConfigRequests
  <1>3. /\ ConfigGoes(c, ConfigIdle) /\ ConfigIdle \in ConfigRequests /\ ConfigIdle.pc = "idle"
        /\ cancels' = Append(cancels, m)
        /\ answers' = answers \cup {[key |-> creq[c].key, body |-> creq[c].content, command |-> n]}
    BY ConfigRequestType DEF CreateJobCommandWithEvent, ConfigDone, CancelAccepted
  <1>4. /\ cancels' \in Seq(CancelCommands) /\ DOMAIN cancels' = 1..n /\ DOMAIN cancels = 1..(n - 1)
        /\ n \in Nat \ {0} /\ cancels'[n] = m /\ \A i \in 1..(n - 1) : cancels'[i] = cancels[i]
    BY <1>1, <1>2, <1>3
  <1>5. creq'[c].pc = "idle" /\ \A d \in ConfigCallers \ {c} : creq'[d] = creq[d]
    BY <1>3 DEF ConfigInv, ConfigTypes, ConfigGoes
  <1>6. AnswersTrue'
    <2> SUFFICES ASSUME NEW a \in answers'
                 PROVE  /\ a.command \in DOMAIN cancels'
                        /\ cancels'[a.command] = [key |-> a.key, fingerprint |-> Sha256(a.body)]
      BY DEF AnswersTrue
    <2>1. CASE a \in answers
      BY <1>4, <2>1 DEF ConfigInv, CancelInv, AnswersTrue
    <2>2. CASE a = [key |-> creq[c].key, body |-> creq[c].content, command |-> n]
      BY <1>4, <2>2
    <2> QED  BY <1>3, <2>1, <2>2
  <1> HIDE DEF n, m
  <1>7. CancelTypes'
    BY <1>4, <1>5 DEF ConfigInv, CancelInv, CancelTypes
  <1>8. KeysOnce'
    <2> SUFFICES ASSUME NEW k \in CancelKeys \ (cancelRaced \cup {NoCancelKey})
                 PROVE  /\ \A i, j \in 1..n : cancels'[i].key = k /\ cancels'[j].key = k => i = j
                        /\ \A d \in ConfigCallers : creq'[d].pc = "cancel" /\ creq'[d].key = k =>
                              /\ \A i \in 1..n : cancels'[i].key # k
                              /\ \A e \in ConfigCallers : creq'[e].pc = "cancel" /\ creq'[e].key = k => e = d
      BY <1>1, <1>4 DEF KeysOnce
    <2>1. /\ \A i, j \in 1..(n - 1) : cancels[i].key = k /\ cancels[j].key = k => i = j
          /\ \A d \in ConfigCallers : creq[d].pc = "cancel" /\ creq[d].key = k =>
                /\ \A i \in 1..(n - 1) : cancels[i].key # k
                /\ \A e \in ConfigCallers : creq[e].pc = "cancel" /\ creq[e].key = k => e = d
      BY <1>4 DEF ConfigInv, CancelInv, KeysOnce
    <2>2. \A i \in 1..n : i \in 1..(n - 1) \/ i = n
      BY <1>4
    <2> QED  BY <1>1, <1>2, <1>4, <1>5, <2>1, <2>2
  <1>9. ConfigTypes'
    BY <1>1, <1>3 DEF ConfigInv, ConfigTypes, ConfigGoes
  <1>10. FileInv'
    BY <1>1, <1>3, FileStays DEF ConfigInv
  <1> QED  BY <1>6, <1>7, <1>8, <1>9, <1>10 DEF ConfigInv, CancelInv

\* Every step of every request keeps the invariant.
LEMMA ConfigNextInv == ConfigInv /\ [ConfigFilesNext]_configVars => ConfigInv'
  <1> SUFFICES ASSUME ConfigInv, [ConfigFilesNext]_configVars PROVE ConfigInv'
    OBVIOUS
  <1>1. ASSUME NEW c \in ConfigCallers, ConfigFileStep(c) PROVE ConfigInv'
    BY <1>1, CreateFileInv, GetConfigInv, UpdateConfigInv, VersionInv, OtherWritesInv
       DEF ConfigFileStep, ConfigContents, UpdateContents
  <1>2. ASSUME NEW c \in ConfigCallers, CancelStep(c) PROVE ConfigInv'
    BY <1>2, CancelJobInv, CreateCommandInv DEF CancelStep
  <1>3. ASSUME NEW c \in ConfigCallers, ConfigRequestDies(c) PROVE ConfigInv'
    BY <1>3, VersionInv
  <1>4. CASE UNCHANGED configVars
    <2>1. UNCHANGED <<config, versions, creq, held, unkept, born, bornIn, crossed, cancels, answers, cancelRaced>>
      BY <1>4 DEF configVars, configRows, configHistory, cancelVars
    <2>2. ConfigTypes' /\ FileInv'
      BY <2>1 DEF ConfigInv, ConfigTypes, FileInv, FileKept, ConfigKnows
    <2>3. CancelTypes /\ AnswersTrue /\ KeysOnce
      BY DEF ConfigInv, CancelInv
    <2>4. CancelTypes' /\ AnswersTrue'
      BY <2>1, <2>3 DEF CancelTypes, AnswersTrue
    <2>5. KeysOnce'
      BY <2>1, <2>3 DEF KeysOnce
    <2> QED  BY <2>2, <2>4, <2>5 DEF ConfigInv, CancelInv
  <1> QED  BY <1>1, <1>2, <1>3, <1>4 DEF ConfigFilesNext

\* Config files and cancel commands, for any callers, projects, contents and
\* keys: every content the file had has a version unless the write of it was
\* lost or is to come, no version but a commit by hand is of another content,
\* the file stays in its project or loses it to an update that blanks it
\* (unless an update met a later file), and a key used without overlap and
\* never missed by a listing has one command, which answers the same request
\* only (workload/handler.go, job_access_handlers.go).
THEOREM ConfigHistoryIsKept == ConfigFilesSpec => []ConfigHistoryKept
  <1>1. ConfigInv => ConfigHistoryKept
    <2> SUFFICES ASSUME ConfigInv PROVE ConfigHistoryKept
      OBVIOUS
    <2>1. ASSUME NEW a \in answers, NEW b \in answers, a.key = b.key, a.key \notin cancelRaced \cup {NoCancelKey}
          PROVE  a.command = b.command /\ a.body = b.body
      <3>1. /\ a.command \in DOMAIN cancels /\ cancels[a.command] = [key |-> a.key, fingerprint |-> Sha256(a.body)]
            /\ b.command \in DOMAIN cancels /\ cancels[b.command] = [key |-> a.key, fingerprint |-> Sha256(b.body)]
        BY <2>1 DEF ConfigInv, CancelInv, AnswersTrue
      <3>2. cancels[a.command].key = a.key /\ cancels[b.command].key = a.key /\ a.key \in CancelKeys
        BY <2>1, <3>1 DEF ConfigInv, CancelInv, CancelTypes, CancelCommands
      <3>3. a.command = b.command
        BY <2>1, <3>1, <3>2 DEF ConfigInv, CancelInv, KeysOnce
      <3>4. Sha256(a.body) = Sha256(b.body)
        BY <3>1, <3>3
      <3> QED  BY <3>3, <3>4 DEF Sha256
    <2> QED  BY <2>1 DEF ConfigInv, FileInv, FileKept, ConfigHistoryKept
  <1> QED  BY <1>1, ConfigInitInv, ConfigNextInv, PTL DEF ConfigFilesSpec

-----------------------------------------------------------------------------
(* Forms.                                                                    *)

FormPcs == {"idle", "form", "formPut", "mailPut", "notice", "noticePut", "purge", "readPut", "inbox"}
FormSeqs == Seq(FormIds) \cup {<<a>> : a \in Notices}
FormRequests == [pc : FormPcs, ids : FormSeqs, seen : FormStatuses \cup {""}, to : FormStatuses \cup {""},
                 pin : BOOLEAN, over : BOOLEAN, left : SUBSET NoticeIds]
NoticeRows == [state : {"none", "row", "deleted"}, pinned : BOOLEAN, over : BOOLEAN]

FormTypes ==
    /\ forms \in [FormIds -> [status : FormStatuses \cup {""}, owner : FormCallers \cup {""}]]
    /\ mail \in [FormIds -> SUBSET {"open", "late"}]
    /\ notices \in [Notices -> NoticeRows]
    /\ inbox \subseteq NoticeIds
    /\ freq \in [FormCallers -> FormRequests]

(* A request about forms has one in hand.  What it is to write follows from  *)
(* a status it has read, and no status follows Completed.                    *)
FormKnows(c, r) ==
    /\ r.pc \in {"form", "formPut", "mailPut"} => r.ids \in Seq(FormIds) \ {<< >>}
    /\ r.pc \in {"form", "formPut"} => r.to \in FormStatuses
    /\ r.pc = "formPut" => validTransition(r.seen, r.to)
    /\ r.pc = "mailPut" => r.seen # "Completed"
    /\ r.pc \in {"notice", "noticePut"} => c \in FormAdmins /\ r.ids \in {<< >>} \cup {<<a>> : a \in Notices}

LateOvertaken == \A f \in FormIds : "late" \in mail[f] => f \in overtaken
FinishedStay == finished \subseteq FormIds /\ \A f \in finished \ overtaken : forms[f].status = "Completed"

FormInv == FormTypes /\ (\A c \in FormCallers : FormKnows(c, freq[c])) /\ LateOvertaken /\ FinishedStay

(* The places that are pinned or will be: a request that is to write a pin   *)
(* takes the place of the announcement it updates, or a new one.             *)
PinnedNotices == {a \in Notices : notices[a].state = "row" /\ notices[a].pinned}
PinPlace(c) == IF freq[c].ids = << >> THEN <<"new", c>> ELSE <<"at", freq[c].ids[1]>>
PinWriters == {c \in FormCallers : freq[c].pc = "noticePut" /\ freq[c].pin}
PinPlaces == ({"at"} \X PinnedNotices) \cup {PinPlace(c) : c \in PinWriters}

PinsPromised == IsFiniteSet(PinPlaces) /\ Cardinality(PinPlaces) < PinLimit + Cardinality(FormAdmins)

\* The requests that are about neither a form nor a pin.
LEMMA PlainRequestType ==
    /\ FormIdle \in FormRequests /\ FormIdle.pc = "idle"
    /\ \A left \in SUBSET NoticeIds : InboxRequest(left) \in FormRequests /\ InboxRequest(left).pc = "inbox"
  <1>1. << >> \in FormSeqs
    BY DEF FormSeqs
  <1> QED  BY <1>1 DEF FormIdle, FormRequest, InboxRequest, FormRequests, FormPcs

\* A move of one caller leaves the other callers where they are.
LEMMA FormMoves ==
    ASSUME FormTypes, NEW c \in FormCallers, NEW x \in FormRequests, FormGoes(c, x)
    PROVE  /\ freq' \in [FormCallers -> FormRequests]
           /\ freq'[c] = x
           /\ \A d \in FormCallers \ {c} : freq'[d] = freq[d]
  BY DEF FormTypes, FormGoes

\* A move that writes no form and no message keeps the invariant.
LEMMA FormMoveKeeps ==
    ASSUME FormInv, NEW c \in FormCallers, NEW x \in FormRequests, FormGoes(c, x), FormKnows(c, x),
           UNCHANGED <<forms, mail, finished, overtaken>>,
           notices' \in [Notices -> NoticeRows], inbox' \subseteq NoticeIds
    PROVE  FormInv'
  <1>1. /\ freq' \in [FormCallers -> FormRequests]
        /\ freq'[c] = x
        /\ \A d \in FormCallers \ {c} : freq'[d] = freq[d]
    BY FormMoves DEF FormInv
  <1>2. FormTypes'
    BY <1>1 DEF FormInv, FormTypes
  <1>3. \A d \in FormCallers : FormKnows(d, freq'[d])
    BY <1>1 DEF FormInv
  <1> QED  BY <1>2, <1>3 DEF FormInv, LateOvertaken, FinishedStay, FormKnows

\* There is no form, no announcement and no notification.
LEMMA FormInitInv == FormInit => FormInv
  <1> SUFFICES ASSUME FormInit PROVE FormInv
    OBVIOUS
  <1>1. FormTypes
    BY PlainRequestType DEF FormInit, FormTypes, formRow, NoticeRows
  <1>2. \A c \in FormCallers : FormKnows(c, freq[c])
    BY PlainRequestType DEF FormInit, FormKnows
  <1> QED  BY <1>1, <1>2 DEF FormInv, FormInit, LateOvertaken, FinishedStay

INSTANCE WellFoundedInduction

\* A free number is one of the free ones.
LEMMA FirstFreeIn ==
    ASSUME NEW S, S \subseteq Nat, S # {}
    PROVE  FirstFree(S) \in S
  <1>1. PICK n \in S : \A k \in S : <<k, n>> \notin OpToRel(<, Nat)
    BY WFMin, NatLessThanWellFounded
  <1>2. \A k \in S : <<k, n>> \in Nat \X Nat
    OBVIOUS
  <1>3. \A k \in S : ~(k < n)
    BY <1>1, <1>2 DEF OpToRel
  <1>4. \A k \in S : n <= k
    BY <1>3
  <1> QED  BY <1>4 DEF FirstFree

\* A new form is Pending, and was not there to be finished.
LEMMA CreateFormInv ==
    ASSUME FormInv, NEW c \in FormCallers, createForm(c)
    PROVE  FormInv'
  <1> DEFINE fresh == {f \in FormIds : forms[f].status = ""}
             f == FirstFree(fresh)
  <1>1. f \in fresh
    <2>1. FormIds \subseteq Nat
      BY FormsAssumption DEF FormIds
    <2> QED  BY <2>1, FirstFreeIn DEF createForm
  <1>2. /\ forms' = [forms EXCEPT ![f] = formRow("Pending", c)]
        /\ UNCHANGED <<mail, notices, inbox, freq, finished, overtaken>>
    BY DEF createForm
  <1>3. f \in FormIds /\ forms[f].status = ""
    BY <1>1
  <1> HIDE DEF f
  <1>4. FormTypes'
    BY <1>2, <1>3 DEF FormInv, FormTypes, formRow, FormStatuses
  <1>5. \A d \in FormCallers : FormKnows(d, freq'[d])
    BY <1>2 DEF FormInv
  <1>6. FinishedStay'
    BY <1>2, <1>3 DEF FormInv, FormTypes, FinishedStay
  <1> QED  BY <1>2, <1>4, <1>5, <1>6 DEF FormInv, LateOvertaken, FormKnows

\* The next form of a batch, or the end of it.
LEMMA NextFormMoves ==
    ASSUME FormInv, NEW c \in FormCallers, freq[c].pc \in {"form", "formPut"}, NextForm(c)
    PROVE  \E x \in FormRequests : FormGoes(c, x) /\ FormKnows(c, x) /\ x.pc \in {"idle", "form"}
  <1> DEFINE ids == freq[c].ids
  <1>1. freq[c] \in FormRequests /\ ids \in Seq(FormIds) \ {<< >>} /\ freq[c].to \in FormStatuses
    BY DEF FormInv, FormTypes, FormKnows
  <1>2. CASE Len(ids) = 1
    BY <1>2, PlainRequestType DEF NextForm, FormDone, FormKnows
  <1>3. CASE Len(ids) # 1
    <2> DEFINE x == FormRequest("form", Tail(ids), "", freq[c].to)
    <2> HIDE DEF ids
    <2>1. Tail(ids) \in Seq(FormIds) \ {<< >>}
      <3>1. Len(ids) \in Nat /\ Len(ids) # 0 /\ Len(ids) # 1
        BY <1>1, <1>3
      <3>2. Tail(ids) \in Seq(FormIds) /\ Len(Tail(ids)) = Len(ids) - 1
        BY <1>1, <3>1
      <3>3. Len(Tail(ids)) # 0
        BY <3>1, <3>2
      <3>4. ASSUME NEW t, t = << >> PROVE Len(t) = 0
        BY <3>4
      <3>5. Tail(ids) # << >>
        BY <3>3, <3>4
      <3> QED  BY <3>2, <3>5
    <2>2. Tail(ids) \in FormSeqs /\ "form" \in FormPcs
      BY <2>1 DEF FormPcs, FormSeqs
    <2>3. x \in FormRequests /\ x.pc = "form" /\ x.ids = Tail(ids) /\ x.to = freq[c].to
      BY <1>1, <2>2 DEF FormRequest, FormRequests
    <2>4. FormGoes(c, x)
      BY <1>3 DEF NextForm, ids
    <2> HIDE DEF x
    <2> QED  BY <1>1, <2>1, <2>3, <2>4 DEF FormKnows
  <1> QED  BY <1>2, <1>3

\* The checks of the form handlers write nothing, and remember the status read.
LEMMA FormChecksInv ==
    ASSUME FormInv, NEW c \in FormCallers,
           \/ transitionForm(c)
           \/ \E ids \in {<<f>> : f \in FormIds} \cup (FormIds \X FormIds), to \in FormStatuses :
                batchUpdateFormStatus(c, ids, to)
           \/ \E f \in FormIds : createMessage(c, f)
    PROVE  FormInv'
  <1>0. "form" \in FormPcs /\ "formPut" \in FormPcs /\ "mailPut" \in FormPcs
    BY DEF FormPcs
  <1>a. UNCHANGED <<forms, mail, notices, inbox, finished, overtaken>>
    BY DEF transitionForm, batchUpdateFormStatus, createMessage
  <1>1. notices' \in [Notices -> NoticeRows] /\ inbox' \subseteq NoticeIds
    BY <1>a DEF FormInv, FormTypes
  <1>2. ASSUME transitionForm(c)
        PROVE  \E x \in FormRequests : FormGoes(c, x) /\ FormKnows(c, x)
    <2> DEFINE seen == forms[Head(freq[c].ids)].status
    <2>1. /\ freq[c] \in FormRequests /\ freq[c].ids \in Seq(FormIds) \ {<< >>} /\ freq[c].to \in FormStatuses
          /\ freq[c].pc = "form"
      BY <1>2 DEF FormInv, FormTypes, FormKnows, transitionForm
    <2>2. Head(freq[c].ids) \in FormIds
      BY <2>1
    <2>3. seen \in FormStatuses \cup {""}
      BY <2>2 DEF FormInv, FormTypes
    <2>4. CASE seen # "" /\ validTransition(seen, freq[c].to)
      <3> DEFINE x == FormRequest("formPut", freq[c].ids, seen, freq[c].to)
      <3> HIDE DEF seen
      <3>1. freq[c].ids \in FormSeqs
        BY <2>1 DEF FormRequests
      <3>2. /\ x \in FormRequests /\ x.pc = "formPut" /\ x.ids = freq[c].ids
            /\ x.seen = seen /\ x.to = freq[c].to
        BY <1>0, <2>1, <2>3, <3>1 DEF FormRequest, FormRequests
      <3>3. FormGoes(c, x)
        BY <1>2, <2>4 DEF transitionForm, seen
      <3> HIDE DEF x
      <3> QED  BY <2>1, <2>4, <3>2, <3>3 DEF FormKnows
    <2>5. CASE ~(seen # "" /\ validTransition(seen, freq[c].to))
      <3>1. NextForm(c)
        BY <1>2, <2>5 DEF transitionForm
      <3> QED  BY <2>1, <3>1, NextFormMoves
    <2> QED  BY <2>4, <2>5
  <1>3. ASSUME NEW ids \in {<<f>> : f \in FormIds} \cup (FormIds \X FormIds), NEW to \in FormStatuses,
               batchUpdateFormStatus(c, ids, to)
        PROVE  \E x \in FormRequests : FormGoes(c, x) /\ FormKnows(c, x)
    <2> DEFINE x == FormRequest("form", ids, "", to)
    <2>1. ids \in Seq(FormIds) \ {<< >>} /\ ids \in FormSeqs
      <3>1. CASE ids \in {<<f>> : f \in FormIds}
        <4>1. PICK f \in FormIds : ids = <<f>>
          BY <3>1
        <4> QED  BY <4>1 DEF FormSeqs
      <3>2. CASE ids \in FormIds \X FormIds
        <4>1. PICK f \in FormIds, g \in FormIds : ids = <<f, g>>
          BY <3>2
        <4> QED  BY <4>1 DEF FormSeqs
      <3> QED  BY <3>1, <3>2
    <2>2. x \in FormRequests /\ x.pc = "form" /\ x.ids = ids /\ x.to = to
      BY <1>0, <2>1 DEF FormRequest, FormRequests
    <2>3. FormGoes(c, x)
      BY <1>3 DEF batchUpdateFormStatus
    <2> HIDE DEF x
    <2> QED  BY <2>1, <2>2, <2>3 DEF FormKnows
  <1>4. ASSUME NEW f \in FormIds, createMessage(c, f)
        PROVE  \E x \in FormRequests : FormGoes(c, x) /\ FormKnows(c, x)
    <2> DEFINE x == FormRequest("mailPut", <<f>>, forms[f].status, "")
    <2>a. <<f>> \in Seq(FormIds) \ {<< >>} /\ <<f>> \in FormSeqs
      BY DEF FormSeqs
    <2>1. forms[f].status \in FormStatuses \cup {""} /\ forms[f].status # "Completed"
      BY <1>4 DEF createMessage, FormInv, FormTypes
    <2>2. x \in FormRequests /\ x.pc = "mailPut" /\ x.ids = <<f>> /\ x.seen = forms[f].status
      BY <1>0, <2>a, <2>1 DEF FormRequest, FormRequests
    <2>3. FormGoes(c, x)
      BY <1>4 DEF createMessage
    <2> HIDE DEF x
    <2> QED  BY <2>a, <2>1, <2>2, <2>3 DEF FormKnows
  <1> QED  BY <1>a, <1>1, <1>2, <1>3, <1>4, FormMoveKeeps

\* A write from a status that is gone overtakes the form; any other leads away
\* from a status that is not Completed.
LEMMA PutFormInv ==
    ASSUME FormInv, NEW c \in FormCallers, PutForm(c)
    PROVE  FormInv'
  <1> DEFINE f == Head(freq[c].ids)
  <1>1. /\ freq[c] \in FormRequests /\ freq[c].pc = "formPut" /\ freq[c].ids \in Seq(FormIds) \ {<< >>}
        /\ freq[c].to \in FormStatuses /\ validTransition(freq[c].seen, freq[c].to)
    BY DEF PutForm, FormInv, FormTypes, FormKnows
  <1>2. f \in FormIds /\ freq[c].seen # "Completed"
    BY <1>1 DEF validTransition
  <1>3. PICK x \in FormRequests : FormGoes(c, x) /\ FormKnows(c, x) /\ x.pc \in {"idle", "form"}
    BY <1>1, NextFormMoves DEF PutForm
  <1>4. UNCHANGED <<mail, notices, inbox>>
    BY DEF PutForm
  <1>5. CASE UNCHANGED <<forms, finished, overtaken>>
    BY <1>3, <1>4, <1>5, FormMoveKeeps DEF FormInv, FormTypes
  <1>6. CASE /\ forms' = [forms EXCEPT ![f].status = freq[c].to]
             /\ finished' = finished \cup (IF freq[c].to = "Completed" THEN {f} ELSE {})
             /\ overtaken' = overtaken \cup (IF forms[f].status # freq[c].seen THEN {f} ELSE {})
    <2> HIDE DEF f
    <2>1. FormTypes'
      <3>1. freq' \in [FormCallers -> FormRequests]
        BY <1>3, FormMoves DEF FormInv
      <3>2. forms' \in [FormIds -> [status : FormStatuses \cup {""}, owner : FormCallers \cup {""}]]
        BY <1>1, <1>2, <1>6 DEF FormInv, FormTypes
      <3> QED  BY <1>4, <3>1, <3>2 DEF FormInv, FormTypes
    <2>2. \A d \in FormCallers : FormKnows(d, freq'[d])
      BY <1>3, FormMoves DEF FormInv
    <2>3. LateOvertaken'
      BY <1>4, <1>6 DEF FormInv, LateOvertaken
    <2>4. FinishedStay'
      <3>1. finished' \subseteq FormIds
        BY <1>2, <1>6 DEF FormInv, FinishedStay
      <3>2. ASSUME NEW g \in finished' \ overtaken' PROVE forms'[g].status = "Completed"
        <4>1. forms'[f].status = freq[c].to /\ (g # f => forms'[g] = forms[g])
          BY <1>2, <1>6, <3>1, ZenonT(30) DEF FormInv, FormTypes
        <4>2. CASE g # f
          BY <1>6, <3>2, <4>1, <4>2 DEF FormInv, FinishedStay
        <4>3. CASE g = f
          BY <1>2, <1>6, <3>2, <4>1, <4>3 DEF FormInv, FinishedStay
        <4> QED  BY <4>2, <4>3
      <3> QED  BY <3>1, <3>2 DEF FinishedStay
    <2> QED  BY <2>1, <2>2, <2>3, <2>4 DEF FormInv, FormKnows
  <1> QED  BY <1>5, <1>6 DEF PutForm

\* A late message is from a status that is gone.
LEMMA PutMessageInv ==
    ASSUME FormInv, NEW c \in FormCallers, PutMessage(c)
    PROVE  FormInv'
  <1> DEFINE f == Head(freq[c].ids)
  <1>1. freq[c] \in FormRequests /\ freq[c].ids \in Seq(FormIds) \ {<< >>} /\ freq[c].seen # "Completed"
    BY DEF PutMessage, FormInv, FormTypes, FormKnows
  <1>2. f \in FormIds
    BY <1>1
  <1>3. FormGoes(c, FormIdle) /\ FormIdle \in FormRequests /\ FormKnows(c, FormIdle)
    BY PlainRequestType DEF PutMessage, FormDone, FormKnows
  <1>4. UNCHANGED <<forms, notices, inbox, finished>>
    BY DEF PutMessage
  <1>5. CASE UNCHANGED <<mail, overtaken>>
    BY <1>3, <1>4, <1>5, FormMoveKeeps DEF FormInv, FormTypes
  <1>6. CASE /\ mail' = [mail EXCEPT ![f] = @ \cup {IF forms[f].status = "Completed" THEN "late" ELSE "open"}]
             /\ overtaken' = overtaken \cup (IF forms[f].status # freq[c].seen THEN {f} ELSE {})
    <2> HIDE DEF f
    <2>1. FormTypes'
      BY <1>2, <1>3, <1>4, <1>6, FormMoves DEF FormInv, FormTypes
    <2>2. \A d \in FormCallers : FormKnows(d, freq'[d])
      BY <1>3, FormMoves DEF FormInv
    <2>3. LateOvertaken'
      BY <1>1, <1>2, <1>6 DEF FormInv, FormTypes, LateOvertaken
    <2>4. FinishedStay'
      BY <1>4, <1>6 DEF FormInv, FinishedStay
    <2> QED  BY <2>1, <2>2, <2>3, <2>4 DEF FormInv, FormKnows
  <1> QED  BY <1>5, <1>6 DEF PutMessage

INSTANCE FiniteSetTheorems

\* The places of pins are no more than they were.
LEMMA PinsShrink ==
    ASSUME PinsPromised, PinPlaces' \subseteq PinPlaces
    PROVE  PinsPromised'
  <1>1. IsFiniteSet(PinPlaces') /\ Cardinality(PinPlaces') <= Cardinality(PinPlaces)
    BY FS_Subset DEF PinsPromised
  <1>2. /\ Cardinality(PinPlaces) \in Nat /\ Cardinality(PinPlaces') \in Nat
        /\ Cardinality(FormAdmins) \in Nat /\ PinLimit \in Nat
    BY <1>1, FS_CardinalityType, FormsAssumption DEF PinsPromised
  <1>3. Cardinality(PinPlaces') < PinLimit + Cardinality(FormAdmins)
    BY <1>1, <1>2 DEF PinsPromised
  <1> QED  BY <1>1, <1>3 DEF PinsPromised

\* One place is taken for another.
LEMMA PinsSwap ==
    ASSUME PinsPromised, NEW p \in PinPlaces, NEW q, PinPlaces' \subseteq (PinPlaces \ {p}) \cup {q}
    PROVE  PinsPromised'
  <1> DEFINE rest == PinPlaces \ {p}
  <1>1. /\ IsFiniteSet(rest) /\ Cardinality(rest) = Cardinality(PinPlaces) - 1
        /\ Cardinality(PinPlaces) \in Nat /\ Cardinality(rest) \in Nat
    BY FS_RemoveElement, FS_CardinalityType DEF PinsPromised
  <1>2. /\ IsFiniteSet(rest \cup {q})
        /\ Cardinality(rest \cup {q}) \in {Cardinality(rest), Cardinality(rest) + 1}
    BY <1>1, FS_AddElement
  <1>3. IsFiniteSet(PinPlaces') /\ Cardinality(PinPlaces') <= Cardinality(rest \cup {q})
    BY <1>2, FS_Subset
  <1>4. /\ Cardinality(PinPlaces') \in Nat /\ Cardinality(rest \cup {q}) \in Nat
        /\ Cardinality(FormAdmins) \in Nat /\ PinLimit \in Nat
    BY <1>2, <1>3, FS_CardinalityType, FormsAssumption
  <1> HIDE DEF rest
  <1>5. Cardinality(PinPlaces') < PinLimit + Cardinality(FormAdmins)
    BY <1>1, <1>2, <1>3, <1>4 DEF PinsPromised
  <1> QED  BY <1>3, <1>5 DEF PinsPromised

\* The pins there are besides the administrators' are within the limit.
LEMMA PinsCounted ==
    ASSUME NEW Q, IsFiniteSet(Q), Cardinality(Q) < PinLimit,
           PinPlaces' \subseteq ({"at"} \X Q) \cup {PinPlace(d)' : d \in PinWriters'},
           PinWriters' \subseteq FormAdmins
    PROVE  PinsPromised'
  <1> DEFINE places == {PinPlace(d)' : d \in PinWriters'}
             at == {"at"} \X Q
             place == [d \in PinWriters' |-> PinPlace(d)']
  <1>1. IsFiniteSet(PinWriters') /\ Cardinality(PinWriters') <= Cardinality(FormAdmins)
    BY FS_Subset, FormsAssumption
  <1>2. place \in Surjection(PinWriters', places)
    BY DEF Surjection
  <1>3. IsFiniteSet(places) /\ Cardinality(places) <= Cardinality(PinWriters')
    BY <1>1, <1>2, FS_Surjection
  <1>4. IsFiniteSet(at) /\ Cardinality(at) = Cardinality(Q)
    <2>1. IsFiniteSet({"at"}) /\ Cardinality({"at"}) = 1
      BY FS_Singleton
    <2>2. IsFiniteSet(at) /\ Cardinality(at) = Cardinality({"at"}) * Cardinality(Q)
      BY <2>1, FS_Product
    <2>3. Cardinality(Q) \in Nat
      BY FS_CardinalityType
    <2> QED  BY <2>1, <2>2, <2>3
  <1>5. /\ IsFiniteSet(at \cup places)
        /\ Cardinality(at \cup places) = Cardinality(at) + Cardinality(places) - Cardinality(at \cap places)
    BY <1>3, <1>4, FS_Union
  <1>6. IsFiniteSet(at \cap places)
    BY <1>4, FS_Subset
  <1>7. IsFiniteSet(PinPlaces') /\ Cardinality(PinPlaces') <= Cardinality(at \cup places)
    BY <1>5, FS_Subset
  <1>8. /\ Cardinality(PinPlaces') \in Nat /\ Cardinality(at \cap places) \in Nat
        /\ Cardinality(at \cup places) \in Nat /\ Cardinality(Q) \in Nat
    BY <1>5, <1>6, <1>7, FS_CardinalityType
  <1>9. /\ Cardinality(places) \in Nat /\ Cardinality(PinWriters') \in Nat
        /\ Cardinality(FormAdmins) \in Nat /\ PinLimit \in Nat
    BY <1>1, <1>3, FS_CardinalityType, FormsAssumption
  <1> HIDE DEF places, at
  <1>10. Cardinality(PinPlaces') < PinLimit + Cardinality(FormAdmins)
    BY <1>1, <1>3, <1>4, <1>5, <1>7, <1>8, <1>9
  <1> QED  BY <1>7, <1>10 DEF PinsPromised

\* A request that is not to write a pin takes no place.
LEMMA PinsOfOthers ==
    ASSUME FormTypes, NEW c \in FormCallers, NEW x, FormGoes(c, x), ~(x.pc = "noticePut" /\ x.pin),
           PinnedNotices' \subseteq PinnedNotices
    PROVE  PinPlaces' \subseteq PinPlaces
  <1>1. freq'[c] = x /\ \A d \in FormCallers \ {c} : freq'[d] = freq[d]
    BY DEF FormTypes, FormGoes
  <1>2. \A d \in PinWriters' : d \in PinWriters /\ PinPlace(d)' = PinPlace(d)
    BY <1>1 DEF PinWriters, PinPlace
  <1> QED  BY <1>2 DEF PinPlaces

\* Every place of a pin is pinned or of a request.
LEMMA PinPlacesAre ==
    ASSUME NEW S, \A a \in PinnedNotices' : <<"at", a>> \in S, \A d \in PinWriters' : PinPlace(d)' \in S
    PROVE  PinPlaces' \subseteq S
  BY DEF PinPlaces

\* A request for a new announcement takes no place before it has counted.
LEMMA CreateAnnouncementPins ==
    ASSUME FormInv, PinsPromised, NEW c \in FormCallers, NEW pin \in BOOLEAN, NEW over \in BOOLEAN,
           createAnnouncement(c, pin, over)
    PROVE  FormInv' /\ PinsPromised'
  <1> DEFINE x == NoticeRequest(IF pin THEN "notice" ELSE "noticePut", << >>, pin, over)
  <1>1. << >> \in FormSeqs
    BY DEF FormSeqs
  <1>2. /\ x \in FormRequests /\ x.pc \in {"notice", "noticePut"} /\ x.ids = << >>
        /\ ~(x.pc = "noticePut" /\ x.pin)
    BY <1>1 DEF NoticeRequest, FormRequests, FormPcs
  <1>3. /\ FormGoes(c, x) /\ c \in FormAdmins
        /\ UNCHANGED <<forms, mail, notices, noticeReads, inbox, finished, overtaken>>
    BY DEF createAnnouncement, FormAdmin
  <1> HIDE DEF x
  <1>4. FormInv'
    BY <1>2, <1>3, FormMoveKeeps DEF FormKnows, FormInv, FormTypes
  <1>5. PinPlaces' \subseteq PinPlaces
    BY <1>2, <1>3, PinsOfOthers DEF FormInv, PinnedNotices
  <1> QED  BY <1>4, <1>5, PinsShrink

\* An update takes a place without counting only where it read a pin.
LEMMA UpdateAnnouncementPins ==
    ASSUME FormInv, PinsPromised, NEW c \in FormCallers, NEW a \in Notices, NEW pin \in BOOLEAN,
           NEW over \in BOOLEAN, updateAnnouncement(c, a, pin, over)
    PROVE  FormInv' /\ PinsPromised'
  <1> DEFINE x == NoticeRequest(IF NeedsPin(pin, notices[a]) THEN "notice" ELSE "noticePut", <<a>>, pin, over)
  <1>1. <<a>> \in FormSeqs
    BY DEF FormSeqs
  <1>2. /\ x \in FormRequests /\ x.pc \in {"notice", "noticePut"} /\ x.ids = <<a>>
        /\ x.pc = "noticePut" /\ x.pin => notices[a].pinned
    BY <1>1 DEF NoticeRequest, FormRequests, FormPcs, NeedsPin, FormInv, FormTypes, NoticeRows
  <1>3. /\ FormGoes(c, x) /\ c \in FormAdmins /\ notices[a].state = "row"
        /\ UNCHANGED <<forms, mail, notices, noticeReads, inbox, finished, overtaken>>
    BY DEF updateAnnouncement, FormAdmin
  <1> HIDE DEF x
  <1>4. FormInv'
    BY <1>2, <1>3, FormMoveKeeps DEF FormKnows, FormInv, FormTypes
  <1>5. PinPlaces' \subseteq PinPlaces
    <2>1. CASE ~(x.pc = "noticePut" /\ x.pin)
      BY <1>3, <2>1, PinsOfOthers DEF FormInv, PinnedNotices
    <2>2. CASE x.pc = "noticePut" /\ x.pin
      <3>1. freq'[c] = x /\ \A d \in FormCallers \ {c} : freq'[d] = freq[d]
        BY <1>2, <1>3, FormMoves DEF FormInv
      <3>2. a \in PinnedNotices /\ PinnedNotices' = PinnedNotices
        BY <1>2, <1>3, <2>2 DEF PinnedNotices
      <3>3. PinPlace(c)' = <<"at", a>>
        BY <1>2, <3>1 DEF PinPlace
      <3>4. \A d \in PinWriters' \ {c} : d \in PinWriters /\ PinPlace(d)' = PinPlace(d)
        BY <3>1 DEF PinWriters, PinPlace
      <3>5. /\ \A b \in PinnedNotices' : <<"at", b>> \in PinPlaces
            /\ \A d \in PinWriters' : PinPlace(d)' \in PinPlaces
        BY <3>2, <3>3, <3>4 DEF PinPlaces
      <3> QED  BY <3>5, PinPlacesAre
    <2> QED  BY <2>1, <2>2
  <1> QED  BY <1>4, <1>5, PinsShrink

\* The announcements that are counted.
LEMMA NoticesFinite == \A S \in SUBSET Notices : IsFiniteSet(S)
  <1>1. IsFiniteSet(Notices)
    BY FS_Interval, FormsAssumption DEF Notices
  <1> QED  BY <1>1, FS_Subset

\* A request that passes the count has found less than the limit.
LEMMA CheckPinsPins ==
    ASSUME FormInv, PinsPromised, NEW c \in FormCallers, CheckPins(c)
    PROVE  FormInv' /\ PinsPromised'
  <1> DEFINE except == {freq[c].ids[i] : i \in DOMAIN freq[c].ids}
             x == NoticeRequest("noticePut", freq[c].ids, freq[c].pin, freq[c].over)
  <1>0. UNCHANGED <<forms, mail, notices, noticeReads, inbox, finished, overtaken>> /\ freq[c].pc = "notice"
    BY DEF CheckPins
  <1>1. CASE FormDone(c)
    <2>1. FormGoes(c, FormIdle) /\ FormIdle \in FormRequests /\ FormIdle.pc = "idle"
      BY <1>1, PlainRequestType DEF FormDone
    <2>2. FormInv'
      BY <1>0, <2>1, FormMoveKeeps DEF FormKnows, FormInv, FormTypes
    <2>3. PinPlaces' \subseteq PinPlaces
      BY <1>0, <2>1, PinsOfOthers DEF FormInv, PinnedNotices
    <2> QED  BY <2>2, <2>3, PinsShrink
  <1>2. CASE ~(countPinned(except) >= PinLimit) /\ FormGoes(c, x)
    <2>1. /\ freq[c] \in FormRequests /\ c \in FormAdmins
          /\ freq[c].ids \in {<< >>} \cup {<<a>> : a \in Notices}
      BY <1>0 DEF FormInv, FormTypes, FormKnows
    <2>2. /\ x \in FormRequests /\ x.pc = "noticePut" /\ x.ids = freq[c].ids /\ x.pin = freq[c].pin
      BY <2>1 DEF NoticeRequest, FormRequests, FormPcs
    <2> HIDE DEF x
    <2>3. FormInv'
      BY <1>0, <1>2, <2>1, <2>2, FormMoveKeeps DEF FormKnows, FormInv, FormTypes
    <2>4. CASE ~x.pin
      <3>1. PinPlaces' \subseteq PinPlaces
        BY <1>0, <1>2, <2>4, PinsOfOthers DEF FormInv, PinnedNotices
      <3> QED  BY <2>3, <3>1, PinsShrink
    <2>5. CASE x.pin
      <3> DEFINE Q == {a \in Notices \ except : notices[a].state = "row" /\ notices[a].pinned}
                 S == ({"at"} \X Q) \cup {PinPlace(d)' : d \in PinWriters'}
      <3>1. IsFiniteSet(Q) /\ Cardinality(Q) < PinLimit
        <4>1. IsFiniteSet(Q)
          BY NoticesFinite
        <4>2. Cardinality(Q) \in Nat /\ PinLimit \in Nat
          BY <4>1, FS_CardinalityType, FormsAssumption
        <4>3. ~(Cardinality(Q) >= PinLimit)
          BY <1>2 DEF countPinned
        <4> HIDE DEF Q
        <4> QED  BY <4>1, <4>2, <4>3
      <3>2. freq'[c] = x /\ PinWriters' \subseteq FormAdmins /\ c \in PinWriters'
        <4>1. freq'[c] = x
          BY <1>2, <2>2, FormMoves DEF FormInv
        <4>2. \A d \in FormCallers : FormKnows(d, freq'[d])
          BY <2>3 DEF FormInv, FormKnows
        <4> QED  BY <2>2, <2>5, <4>1, <4>2 DEF PinWriters, FormKnows
      <3>3. \A a \in PinnedNotices' : a \in Q \/ <<"at", a>> = PinPlace(c)'
        <4>1. \A a \in PinnedNotices' : a \in Notices /\ notices[a].state = "row" /\ notices[a].pinned
          BY <1>0 DEF PinnedNotices
        <4>2. \A a \in except : <<"at", a>> = PinPlace(c)'
          <5>1. CASE freq[c].ids = << >>
            <6>1. DOMAIN freq[c].ids = {}
              BY <5>1
            <6> QED  BY <6>1
          <5>2. ASSUME NEW b \in Notices, freq[c].ids = <<b>> PROVE \A a \in except : <<"at", a>> = PinPlace(c)'
            <6>1. freq[c].ids # << >> /\ freq[c].ids[1] = b /\ DOMAIN freq[c].ids = {1}
              BY <5>2
            <6>2. \A a \in except : a = b
              BY <6>1
            <6>3. PinPlace(c)' = <<"at", b>>
              BY <2>2, <3>2, <6>1 DEF PinPlace
            <6> QED  BY <6>2, <6>3
          <5> QED  BY <2>1, <5>1, <5>2
        <4> HIDE DEF except
        <4> QED  BY <4>1, <4>2
      <3> HIDE DEF Q
      <3>4. (\A a \in PinnedNotices' : <<"at", a>> \in S) /\ \A d \in PinWriters' : PinPlace(d)' \in S
        BY <3>2, <3>3
      <3>5. PinPlaces' \subseteq S
        BY <3>4, PinPlacesAre
      <3> QED  BY <2>3, <3>1, <3>2, <3>5, PinsCounted
    <2> QED  BY <2>4, <2>5 DEF FormRequests
  <1> QED  BY <1>1, <1>2 DEF CheckPins

\* A request that ends, or starts what writes no pin, keeps the pins.
LEMMA PlainMovePins ==
    ASSUME FormInv, PinsPromised, NEW c \in FormCallers, NEW x \in FormRequests, FormGoes(c, x),
           x.pc \in {"idle", "purge", "readPut", "inbox"}, UNCHANGED <<forms, mail, finished, overtaken>>,
           notices' \in [Notices -> NoticeRows], PinnedNotices' \subseteq PinnedNotices, inbox' \subseteq NoticeIds
    PROVE  FormInv' /\ PinsPromised'
  <1>1. FormKnows(c, x)
    BY DEF FormKnows
  <1>2. FormInv'
    BY <1>1, FormMoveKeeps
  <1>3. PinPlaces' \subseteq PinPlaces
    BY PinsOfOthers DEF FormInv
  <1> QED  BY <1>2, <1>3, PinsShrink

\* The place of a new announcement is that of the request.
LEMMA CreateRowPins ==
    ASSUME FormInv, PinsPromised, NEW c \in FormCallers, CreateAnnouncementRow(c)
    PROVE  FormInv' /\ PinsPromised'
  <1> DEFINE fresh == {a \in Notices : notices[a].state = "none"}
             n == FirstFree(fresh)
  <1>0. /\ UNCHANGED <<forms, mail, noticeReads, inbox, finished, overtaken>>
        /\ FormGoes(c, FormIdle) /\ FormIdle \in FormRequests /\ FormIdle.pc = "idle"
        /\ freq[c].pc = "noticePut" /\ freq[c].ids = << >>
    BY PlainRequestType DEF CreateAnnouncementRow, FormDone
  <1>1. freq[c].pin \in BOOLEAN /\ freq[c].over \in BOOLEAN /\ inbox' \subseteq NoticeIds
        /\ notices \in [Notices -> NoticeRows]
    BY <1>0 DEF FormInv, FormTypes, FormRequests
  <1>2. CASE UNCHANGED notices
    <2>1. PinnedNotices' = PinnedNotices /\ notices' \in [Notices -> NoticeRows]
      BY <1>1, <1>2 DEF PinnedNotices
    <2> QED  BY <1>0, <1>1, <2>1, PlainMovePins
  <1>3. CASE fresh # {} /\ notices' = [notices EXCEPT ![n] = announcementRow(freq[c].pin, freq[c].over)]
    <2>1. n \in Notices
      <3>1. fresh \subseteq Nat
        BY FormsAssumption DEF Notices
      <3>2. n \in fresh
        BY <1>3, <3>1, FirstFreeIn
      <3> QED  BY <3>2
    <2> HIDE DEF n
    <2>2. notices' \in [Notices -> NoticeRows]
      BY <1>1, <1>3, <2>1 DEF NoticeRows, announcementRow
    <2>3. /\ \A a \in PinnedNotices' : a \in PinnedNotices \/ a = n
          /\ ~freq[c].pin => PinnedNotices' \subseteq PinnedNotices
      <3>1. notices'[n].pinned = freq[c].pin /\ \A a \in Notices \ {n} : notices'[a] = notices[a]
        BY <1>1, <1>3, <2>1 DEF announcementRow
      <3> QED  BY <3>1 DEF PinnedNotices
    <2>4. CASE ~freq[c].pin
      BY <1>0, <1>1, <2>2, <2>3, <2>4, PlainMovePins
    <2>5. CASE freq[c].pin
      <3>1. FormInv'
        BY <1>0, <1>1, <2>2, FormMoveKeeps DEF FormKnows
      <3>2. freq'[c] = FormIdle /\ \A d \in FormCallers \ {c} : freq'[d] = freq[d]
        BY <1>0, FormMoves DEF FormInv
      <3>3. c \in PinWriters /\ PinPlace(c) = <<"new", c>>
        BY <1>0, <2>5 DEF PinWriters, PinPlace
      <3>4. \A d \in PinWriters' : d \in PinWriters /\ d # c /\ PinPlace(d)' = PinPlace(d)
        BY <1>0, <3>2 DEF PinWriters, PinPlace
      <3>5. \A d \in PinWriters' : PinPlace(d)' # <<"new", c>>
        BY <3>4 DEF PinPlace
      <3>6. <<"new", c>> \in PinPlaces
        BY <3>3 DEF PinPlaces
      <3> DEFINE S == (PinPlaces \ {<<"new", c>>}) \cup {<<"at", n>>}
      <3>7. (\A a \in PinnedNotices' : <<"at", a>> \in S) /\ \A d \in PinWriters' : PinPlace(d)' \in S
        BY <2>3, <3>4, <3>5 DEF PinPlaces
      <3>8. PinPlaces' \subseteq S
        BY <3>7, PinPlacesAre
      <3> QED  BY <3>1, <3>6, <3>8, PinsSwap
    <2> QED  BY <2>4, <2>5
  <1> QED  BY <1>2, <1>3 DEF CreateAnnouncementRow

\* The place of an updated announcement was the request's before.
LEMMA UpdateRowPins ==
    ASSUME FormInv, PinsPromised, NEW c \in FormCallers, UpdateAnnouncementRow(c)
    PROVE  FormInv' /\ PinsPromised'
  <1> DEFINE n == Head(freq[c].ids)
  <1>0. /\ UNCHANGED <<forms, mail, noticeReads, inbox, finished, overtaken>>
        /\ FormGoes(c, FormIdle) /\ FormIdle \in FormRequests /\ FormIdle.pc = "idle"
        /\ freq[c].pc = "noticePut" /\ freq[c].ids # << >>
    BY PlainRequestType DEF UpdateAnnouncementRow, FormDone
  <1>1. freq[c].pin \in BOOLEAN /\ freq[c].over \in BOOLEAN /\ inbox' \subseteq NoticeIds
        /\ notices \in [Notices -> NoticeRows]
    BY <1>0 DEF FormInv, FormTypes, FormRequests
  <1>2. CASE UNCHANGED notices
    <2>1. PinnedNotices' = PinnedNotices /\ notices' \in [Notices -> NoticeRows]
      BY <1>1, <1>2 DEF PinnedNotices
    <2> QED  BY <1>0, <1>1, <2>1, PlainMovePins
  <1>3. CASE notices' = [notices EXCEPT ![n] = announcementRow(freq[c].pin, freq[c].over)]
    <2>1. n \in Notices /\ n = freq[c].ids[1]
      <3>1. PICK a \in Notices : freq[c].ids = <<a>>
        BY <1>0 DEF FormInv, FormKnows
      <3> QED  BY <3>1
    <2> HIDE DEF n
    <2>2. notices' \in [Notices -> NoticeRows]
      BY <1>1, <1>3, <2>1 DEF NoticeRows, announcementRow
    <2>3. /\ \A a \in PinnedNotices' : a \in PinnedNotices \/ (a = n /\ freq[c].pin)
      <3>1. notices'[n].pinned = freq[c].pin /\ \A a \in Notices \ {n} : notices'[a] = notices[a]
        BY <1>1, <1>3, <2>1 DEF announcementRow
      <3> QED  BY <3>1 DEF PinnedNotices
    <2>4. FormInv'
      BY <1>0, <1>1, <2>2, FormMoveKeeps DEF FormKnows
    <2>5. freq'[c] = FormIdle /\ \A d \in FormCallers \ {c} : freq'[d] = freq[d]
      BY <1>0, FormMoves DEF FormInv
    <2>6. freq[c].pin => c \in PinWriters /\ PinPlace(c) = <<"at", n>>
      BY <1>0, <2>1 DEF PinWriters, PinPlace
    <2>7. \A d \in PinWriters' : d \in PinWriters /\ PinPlace(d)' = PinPlace(d)
      BY <1>0, <2>5 DEF PinWriters, PinPlace
    <2>8. /\ \A a \in PinnedNotices' : <<"at", a>> \in PinPlaces
          /\ \A d \in PinWriters' : PinPlace(d)' \in PinPlaces
      BY <2>3, <2>6, <2>7 DEF PinPlaces
    <2>9. PinPlaces' \subseteq PinPlaces
      BY <2>8, PinPlacesAre
    <2> QED  BY <2>4, <2>9, PinsShrink
  <1> QED  BY <1>2, <1>3 DEF UpdateAnnouncementRow

\* The rest of what is done with announcements pins none.
LEMMA OtherNoticePins ==
    ASSUME FormInv, PinsPromised, NEW c \in FormCallers,
           \/ deleteAnnouncementReads(c) \/ upsertAnnouncementRead(c) \/ FormRequestLost(c)
           \/ \E a \in Notices : deleteAnnouncement(c, a) \/ markAnnouncementRead(c, a)
    PROVE  FormInv' /\ PinsPromised'
  <1>0. /\ UNCHANGED <<forms, mail, inbox, finished, overtaken>>
        /\ inbox' \subseteq NoticeIds /\ notices \in [Notices -> NoticeRows]
    BY DEF deleteAnnouncementReads, upsertAnnouncementRead, FormRequestLost, deleteAnnouncement,
           markAnnouncementRead, FormInv, FormTypes
  <1>1. CASE deleteAnnouncementReads(c) \/ upsertAnnouncementRead(c) \/ FormRequestLost(c)
    <2>1. /\ FormGoes(c, FormIdle) /\ FormIdle \in FormRequests /\ FormIdle.pc = "idle"
          /\ notices' = notices
      BY <1>1, PlainRequestType DEF deleteAnnouncementReads, upsertAnnouncementRead, FormRequestLost, FormDone
    <2>2. PinnedNotices' = PinnedNotices
      BY <2>1 DEF PinnedNotices
    <2> QED  BY <1>0, <2>1, <2>2, PlainMovePins
  <1>2. ASSUME NEW a \in Notices, deleteAnnouncement(c, a) PROVE FormInv' /\ PinsPromised'
    <2> DEFINE x == NoticeRequest("purge", <<a>>, FALSE, FALSE)
    <2>1. x \in FormRequests /\ x.pc = "purge"
      BY DEF NoticeRequest, FormRequests, FormPcs, FormSeqs
    <2>2. FormGoes(c, x)
      BY <1>2 DEF deleteAnnouncement
    <2>3. notices' = [notices EXCEPT ![a] = [state |-> "deleted", pinned |-> FALSE, over |-> FALSE]]
      BY <1>2 DEF deleteAnnouncement
    <2>4. notices' \in [Notices -> NoticeRows] /\ PinnedNotices' \subseteq PinnedNotices
      BY <1>0, <2>3 DEF NoticeRows, PinnedNotices
    <2> HIDE DEF x
    <2> QED  BY <1>0, <2>1, <2>2, <2>4, PlainMovePins
  <1>3. ASSUME NEW a \in Notices, markAnnouncementRead(c, a) PROVE FormInv' /\ PinsPromised'
    <2> DEFINE x == NoticeRequest("readPut", <<a>>, FALSE, FALSE)
    <2>1. x \in FormRequests /\ x.pc = "readPut"
      BY DEF NoticeRequest, FormRequests, FormPcs, FormSeqs
    <2>2. FormGoes(c, x) /\ notices' = notices
      BY <1>3 DEF markAnnouncementRead
    <2>3. PinnedNotices' = PinnedNotices
      BY <2>2 DEF PinnedNotices
    <2> HIDE DEF x
    <2> QED  BY <1>0, <2>1, <2>2, <2>3, PlainMovePins
  <1> QED  BY <1>1, <1>2, <1>3

\* What writes rows only, and no request, keeps the pins.
LEMMA RowOnlyPins ==
    ASSUME FormInv, PinsPromised, UNCHANGED <<forms, mail, freq, finished, overtaken>>,
           notices' \in [Notices -> NoticeRows], PinnedNotices' \subseteq PinnedNotices, inbox' \subseteq NoticeIds
    PROVE  FormInv' /\ PinsPromised'
  <1>1. FormInv'
    BY DEF FormInv, FormTypes, FormKnows, LateOvertaken, FinishedStay
  <1>2. PinPlaces' \subseteq PinPlaces
    BY DEF PinPlaces, PinWriters, PinPlace
  <1> QED  BY <1>1, <1>2, PinsShrink

\* The notifications have no pins.
LEMMA InboxPins ==
    ASSUME FormInv, PinsPromised, NEW c \in FormCallers, InboxStep(c)
    PROVE  FormInv' /\ PinsPromised'
  <1>0. /\ UNCHANGED <<forms, mail, notices, finished, overtaken>>
        /\ freq \in [FormCallers -> FormRequests] /\ inbox \subseteq NoticeIds
        /\ notices' \in [Notices -> NoticeRows]
    BY DEF InboxStep, markAllNotificationsRead, upsertNotification, clearNotifications, markNotificationRead,
           FormInv, FormTypes
  <1>1. PinnedNotices' = PinnedNotices
    BY <1>0 DEF PinnedNotices
  <1>2. CASE clearNotifications(c) \/ \E n \in NoticeIds : markNotificationRead(c, n)
    <2>1. UNCHANGED freq /\ inbox' \subseteq NoticeIds
      BY <1>0, <1>2 DEF clearNotifications, markNotificationRead
    <2> QED  BY <1>0, <1>1, <2>1, RowOnlyPins
  <1>3. CASE markAllNotificationsRead(c)
    <2>1. /\ FormGoes(c, InboxRequest(inbox)) /\ inbox' = inbox
          /\ InboxRequest(inbox) \in FormRequests /\ InboxRequest(inbox).pc = "inbox"
      BY <1>0, <1>3, PlainRequestType DEF markAllNotificationsRead
    <2> QED  BY <1>0, <1>1, <2>1, PlainMovePins
  <1>4. CASE upsertNotification(c)
    <2>0. freq[c].left \subseteq NoticeIds
      BY <1>0 DEF FormRequests
    <2>1. inbox' \subseteq NoticeIds
      BY <1>0, <1>4, <2>0 DEF upsertNotification
    <2>2. CASE FormDone(c)
      BY <1>0, <1>1, <2>1, <2>2, PlainMovePins, PlainRequestType DEF FormDone
    <2>3. ASSUME NEW n \in freq[c].left, FormGoes(c, InboxRequest(freq[c].left \ {n}))
          PROVE  FormInv' /\ PinsPromised'
      <3> DEFINE left == freq[c].left \ {n}
      <3>1. left \in SUBSET NoticeIds
        BY <2>0
      <3>2. InboxRequest(left) \in FormRequests /\ InboxRequest(left).pc = "inbox"
        BY <3>1, PlainRequestType
      <3> QED  BY <1>0, <1>1, <2>1, <2>3, <3>2, PlainMovePins
    <2> QED  BY <1>4, <2>2, <2>3 DEF upsertNotification
  <1> QED  BY <1>2, <1>3, <1>4 DEF InboxStep

\* Nor have the forms.
LEMMA FormStepPins ==
    ASSUME FormInv, PinsPromised, NEW c \in FormCallers, FormStep(c)
    PROVE  FormInv' /\ PinsPromised'
  <1>1. FormInv'
    BY CreateFormInv, FormChecksInv, PutFormInv, PutMessageInv DEF FormStep
  <1>2. PinnedNotices' = PinnedNotices
    BY DEF FormStep, createForm, transitionForm, PutForm, PutMessage, batchUpdateFormStatus, createMessage,
           PinnedNotices
  <1>3. ASSUME createForm(c) PROVE PinPlaces' \subseteq PinPlaces
    BY <1>2, <1>3 DEF createForm, PinPlaces, PinWriters, PinPlace
  <1>4. ASSUME NEW x, FormGoes(c, x), ~x.pin PROVE PinPlaces' \subseteq PinPlaces
    BY <1>2, <1>4, PinsOfOthers DEF FormInv
  <1>5. ASSUME NextForm(c) \/ FormDone(c) PROVE PinPlaces' \subseteq PinPlaces
    <2>1. \E pc, ids, seen, to : FormGoes(c, FormRequest(pc, ids, seen, to))
      BY <1>5 DEF NextForm, FormDone, FormIdle
    <2> QED  BY <1>4, <2>1 DEF FormRequest
  <1>6. ASSUME ~createForm(c), ~NextForm(c), ~FormDone(c) PROVE PinPlaces' \subseteq PinPlaces
    <2>1. \E pc, ids, seen, to : FormGoes(c, FormRequest(pc, ids, seen, to))
      BY <1>6 DEF FormStep, transitionForm, PutForm, PutMessage, batchUpdateFormStatus, createMessage
    <2> QED  BY <1>4, <2>1 DEF FormRequest
  <1>7. PinPlaces' \subseteq PinPlaces
    BY <1>3, <1>5, <1>6
  <1> QED  BY <1>1, <1>7, PinsShrink

\* An announcement that expires stays pinned.
LEMMA NoticeExpiresPins ==
    ASSUME FormInv, PinsPromised, NEW a \in Notices, NoticeExpires(a)
    PROVE  FormInv' /\ PinsPromised'
  <1>1. /\ UNCHANGED <<forms, mail, freq, finished, overtaken>> /\ inbox' \subseteq NoticeIds
        /\ notices' = [notices EXCEPT ![a].over = TRUE] /\ notices \in [Notices -> NoticeRows]
    BY DEF NoticeExpires, FormInv, FormTypes
  <1>2. notices' \in [Notices -> NoticeRows] /\ PinnedNotices' \subseteq PinnedNotices
    BY <1>1 DEF NoticeRows, PinnedNotices
  <1> QED  BY <1>1, <1>2, RowOnlyPins

\* Before the first request no place is taken.
LEMMA PinsInit == FormInit => PinsPromised
  <1> SUFFICES ASSUME FormInit PROVE PinsPromised
    OBVIOUS
  <1>1. PinnedNotices = {}
    BY DEF FormInit, PinnedNotices
  <1>2. PinWriters = {}
    BY PlainRequestType DEF FormInit, PinWriters
  <1>3. PinPlaces = {}
    BY <1>1, <1>2 DEF PinPlaces
  <1>4. IsFiniteSet(PinPlaces) /\ Cardinality(PinPlaces) = 0
    BY <1>3, FS_EmptySet
  <1>5. Cardinality(FormAdmins) \in Nat /\ PinLimit \in Nat \ {0}
    BY FS_CardinalityType, FormsAssumption
  <1> QED  BY <1>4, <1>5 DEF PinsPromised

\* Every step keeps the invariant.
LEMMA FormStepInv ==
    ASSUME FormInv, PinsPromised, [FormNext]_formVars
    PROVE  FormInv' /\ PinsPromised'
  <1>1. CASE UNCHANGED formVars
    <2>1. PinnedNotices' = PinnedNotices
      BY <1>1 DEF formVars, PinnedNotices
    <2> QED  BY <1>1, <2>1, RowOnlyPins DEF formVars, FormInv, FormTypes
  <1>2. ASSUME NEW c \in FormCallers, NoticeStep(c) PROVE FormInv' /\ PinsPromised'
    BY <1>2, CheckPinsPins, CreateRowPins, UpdateRowPins, OtherNoticePins, CreateAnnouncementPins,
       UpdateAnnouncementPins DEF NoticeStep
  <1>3. ASSUME NEW c \in FormCallers, FormStep(c) \/ InboxStep(c) \/ FormRequestLost(c)
        PROVE  FormInv' /\ PinsPromised'
    BY <1>3, FormStepPins, InboxPins, OtherNoticePins
  <1>4. ASSUME NEW a \in Notices, NoticeExpires(a) PROVE FormInv' /\ PinsPromised'
    BY <1>4, NoticeExpiresPins
  <1> QED  BY <1>1, <1>2, <1>3, <1>4 DEF FormNext

\* The pins there are have their places.
LEMMA FormInvKeeps ==
    ASSUME FormInv, PinsPromised
    PROVE  RequestsKept
  <1> DEFINE at == {"at"} \X PinnedNotices
  <1>1. \A f \in finished \ overtaken : forms[f].status = "Completed" /\ "late" \notin mail[f]
    BY DEF FormInv, FinishedStay, LateOvertaken
  <1>2. IsFiniteSet(PinnedNotices) /\ IsFiniteSet({"at"}) /\ Cardinality({"at"}) = 1
    BY NoticesFinite, FS_Singleton DEF PinnedNotices
  <1>3. IsFiniteSet(at) /\ Cardinality(at) = Cardinality({"at"}) * Cardinality(PinnedNotices)
    BY <1>2, FS_Product
  <1>4. Cardinality(at) <= Cardinality(PinPlaces)
    BY FS_Subset DEF PinsPromised, PinPlaces
  <1>5. /\ Cardinality(at) \in Nat /\ Cardinality(PinnedNotices) \in Nat /\ Cardinality(PinPlaces) \in Nat
        /\ Cardinality(FormAdmins) \in Nat /\ PinLimit \in Nat
    BY <1>2, <1>3, FS_CardinalityType, FormsAssumption DEF PinsPromised
  <1> HIDE DEF at
  <1>6. Cardinality(PinnedNotices) < PinLimit + Cardinality(FormAdmins)
    BY <1>2, <1>3, <1>4, <1>5 DEF PinsPromised
  <1>7. countPinned({}) = Cardinality(PinnedNotices)
    <2>1. Notices \ {} = Notices
      OBVIOUS
    <2> QED  BY <2>1 DEF countPinned, PinnedNotices
  <1> QED  BY <1>1, <1>6, <1>7 DEF RequestsKept

\* request-notification-service, under every interleaving of its handlers: a form
\* that was Completed stays so and gets no further message unless a request wrote
\* to it from a status that was gone, and the pins exceed their limit by less than
\* there are administrators (validTransition, createMessage, countPinned).
THEOREM RequestsAreKept == FormSpec => []RequestsKept
  <1>1. FormInit => FormInv /\ PinsPromised
    BY FormInitInv, PinsInit
  <1>2. FormInv /\ PinsPromised /\ [FormNext]_formVars => FormInv' /\ PinsPromised'
    BY FormStepInv
  <1>3. FormInv /\ PinsPromised => RequestsKept
    BY FormInvKeeps
  <1> QED  BY <1>1, <1>2, <1>3, PTL DEF FormSpec
==============================================================================
