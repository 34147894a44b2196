---------------------------- MODULE RequestForms ----------------------------
(* request-notification-service: forms users raise and administrators        *)
(* settle, announcements with a limited number of pins, and the read marks   *)
(* and notifications of a user.  Handlers run concurrently; each store call  *)
(* is atomic and none checks that what the handler read is still so.         *)
EXTENDS Naturals, Sequences, FiniteSets

CONSTANTS FormCallers,   \* concurrent requests, each of its own user
          FormAdmins,    \* the callers with the admin panel
          MaxForms,      \* bound on forms created
          MaxNotices,    \* bound on announcements created
          NoticeIds,     \* identifiers of notifications
          PinLimit       \* 3 in the code

ASSUME FormsAssumption ==
    /\ IsFiniteSet(FormAdmins)
    /\ MaxForms \in Nat /\ MaxNotices \in Nat
    /\ PinLimit \in Nat \ {0}

VARIABLES forms,      \* form number -> status and owner; status "" before it exists
          mail,       \* form -> messages it has: sent while open, sent after completion
          notices,    \* announcement number -> state, pinned, over (expired)
          noticeReads,\* <<announcement, user>>: the read marks
          inbox,      \* notifications of one user with a row; every caller may be this user
          freq,       \* caller -> the request it is executing
          finished,   \* history: forms that have been Completed
          overtaken   \* history: forms a request wrote to after the status it had read was gone

formVars == <<forms, mail, notices, noticeReads, inbox, freq, finished, overtaken>>

FormStatuses == {"Pending", "Processing", "Completed", "Rejected"}
FormIds == 1..MaxForms
Notices == 1..MaxNotices

(* A request about forms, about announcements, and about notifications.      *)
FormRequest(pc, ids, seen, to) ==
    [pc |-> pc, ids |-> ids, seen |-> seen, to |-> to, pin |-> FALSE, over |-> FALSE, left |-> {}]
NoticeRequest(pc, ids, pin, over) ==
    [pc |-> pc, ids |-> ids, seen |-> "", to |-> "", pin |-> pin, over |-> over, left |-> {}]
InboxRequest(left) ==
    [pc |-> "inbox", ids |-> << >>, seen |-> "", to |-> "", pin |-> FALSE, over |-> FALSE, left |-> left]
FormIdle == FormRequest("idle", << >>, "", "")

(* A row as it is stored and read back: the texts and times are left out,    *)
(* but for whether the expiry has passed.                                    *)
formRow(status, owner) == [status |-> status, owner |-> owner]
announcementRow(pin, over) == [state |-> "row", pinned |-> pin, over |-> over]

FormInit ==
    /\ forms = [f \in FormIds |-> formRow("", "")]
    /\ mail = [f \in FormIds |-> {}]
    /\ notices = [a \in Notices |-> [state |-> "none", pinned |-> FALSE, over |-> FALSE]]
    /\ noticeReads = {}
    /\ inbox = {}
    /\ freq = [c \in FormCallers |-> FormIdle]
    /\ finished = {} /\ overtaken = {}

FormGoes(c, r) == freq' = [freq EXCEPT ![c] = r]
FormDone(c) == FormGoes(c, FormIdle)
FormFree(c) == freq[c].pc = "idle"
FormAdmin(c) == c \in FormAdmins          \* requireAdmin
FirstFree(S) == CHOOSE n \in S : \A k \in S : n <= k

-----------------------------------------------------------------------------
(* Forms.  The row and its FormCreated or FormUpdated event are one           *)
(* transaction; the read models of other services start from those events.   *)

validTransition(from, to) ==
    \/ from = "Pending" /\ to \in {"Processing", "Rejected"}
    \/ from = "Processing" /\ to \in {"Completed", "Rejected", "Pending"}
    \/ from = "Rejected" /\ to = "Pending"

(* createForm, once its fields are accepted: a form linked to a project also *)
(* needs canCreateProjectForm, which ProjectAccess has.                      *)
createForm(c) ==
    LET fresh == {f \in FormIds : forms[f].status = ""} IN
    /\ FormFree(c) /\ fresh # {}
    /\ forms' = [forms EXCEPT ![FirstFree(fresh)] = formRow("Pending", c)]
    /\ UNCHANGED <<mail, notices, noticeReads, inbox, freq, finished, overtaken>>

(* updateFormStatus is a batch of one form.                                  *)
batchUpdateFormStatus(c, ids, to) ==
    /\ FormFree(c) /\ FormAdmin(c)
    /\ FormGoes(c, FormRequest("form", ids, "", to))
    /\ UNCHANGED <<forms, mail, notices, noticeReads, inbox, finished, overtaken>>

NextForm(c) ==
    IF Len(freq[c].ids) = 1 THEN FormDone(c)
    ELSE FormGoes(c, FormRequest("form", Tail(freq[c].ids), "", freq[c].to))

(* transitionForm reads the form and judges the transition; a form it refuses *)
(* counts as failed and the batch goes on.                                   *)
transitionForm(c) ==
    LET seen == forms[Head(freq[c].ids)].status IN
    /\ freq[c].pc = "form"
    /\ IF seen # "" /\ validTransition(seen, freq[c].to)
         THEN FormGoes(c, FormRequest("formPut", freq[c].ids, seen, freq[c].to))
         ELSE NextForm(c)
    /\ UNCHANGED <<forms, mail, notices, noticeReads, inbox, finished, overtaken>>

(* ... and writes the whole form it read, or fails.                          *)
PutForm(c) ==
    LET f == Head(freq[c].ids) IN
    /\ freq[c].pc = "formPut"
    /\ NextForm(c)
    /\ \/ /\ forms' = [forms EXCEPT ![f].status = freq[c].to]
          /\ finished' = finished \cup (IF freq[c].to = "Completed" THEN {f} ELSE {})
          /\ overtaken' = overtaken \cup (IF forms[f].status # freq[c].seen THEN {f} ELSE {})
       \/ UNCHANGED <<forms, finished, overtaken>>
    /\ UNCHANGED <<mail, notices, noticeReads, inbox>>

(* createMessage: the owner or an administrator, on a form not Completed.    *)
createMessage(c, f) ==
    /\ FormFree(c)
    /\ forms[f].status \notin {"", "Completed"}
    /\ forms[f].owner = c \/ FormAdmin(c)
    /\ FormGoes(c, FormRequest("mailPut", <<f>>, forms[f].status, ""))
    /\ UNCHANGED <<forms, mail, notices, noticeReads, inbox, finished, overtaken>>

PutMessage(c) ==
    LET f == Head(freq[c].ids)
        late == forms[f].status = "Completed"
    IN  /\ freq[c].pc = "mailPut"
        /\ FormDone(c)
        /\ \/ /\ mail' = [mail EXCEPT ![f] = @ \cup {IF late THEN "late" ELSE "open"}]
              /\ overtaken' = overtaken \cup (IF forms[f].status # freq[c].seen THEN {f} ELSE {})
           \/ UNCHANGED <<mail, overtaken>>
        /\ UNCHANGED <<forms, notices, noticeReads, inbox, finished>>

-----------------------------------------------------------------------------
(* Announcements.  A request in pc notice has read what it is about (ids is   *)
(* empty when it creates one) and is to count the pins; in noticePut it is   *)
(* to write.                                                                 *)

countPinned(except) ==
    Cardinality({a \in Notices \ except : notices[a].state = "row" /\ notices[a].pinned})

createAnnouncement(c, pin, over) ==
    /\ FormFree(c) /\ FormAdmin(c)
    /\ FormGoes(c, NoticeRequest(IF pin THEN "notice" ELSE "noticePut", << >>, pin, over))
    /\ UNCHANGED <<forms, mail, notices, noticeReads, inbox, finished, overtaken>>

NeedsPinFree(pin, current) == FALSE

(* Whether an update is to count: it pins what was not pinned when read.      *)
NeedsPin(pin, current) == pin /\ ~current.pinned

updateAnnouncement(c, a, pin, over) ==
    /\ FormFree(c) /\ FormAdmin(c)
    /\ notices[a].state = "row"
    /\ FormGoes(c, NoticeRequest(IF NeedsPin(pin, notices[a]) THEN "notice" ELSE "noticePut", <<a>>, pin, over))
    /\ UNCHANGED <<forms, mail, notices, noticeReads, inbox, finished, overtaken>>

(* The limit of pins; expired announcements count, the one updated does not. *)
CheckPins(c) ==
    /\ freq[c].pc = "notice"
    /\ IF countPinned({freq[c].ids[i] : i \in DOMAIN freq[c].ids}) >= PinLimit
         THEN FormDone(c)
         ELSE FormGoes(c, NoticeRequest("noticePut", freq[c].ids, freq[c].pin, freq[c].over))
    /\ UNCHANGED <<forms, mail, notices, noticeReads, inbox, finished, overtaken>>

(* The write of a new announcement, under a new identifier.                  *)
CreateAnnouncementRow(c) ==
    LET fresh == {a \in Notices : notices[a].state = "none"} IN
    /\ freq[c].pc = "noticePut" /\ freq[c].ids = << >>
    /\ FormDone(c)
    /\ \/ /\ fresh # {}
          /\ notices' = [notices EXCEPT ![FirstFree(fresh)] = announcementRow(freq[c].pin, freq[c].over)]
       \/ UNCHANGED notices
    /\ UNCHANGED <<forms, mail, noticeReads, inbox, finished, overtaken>>

(* The write of an updated one: the whole row, if it is still there.          *)
UpdateAnnouncementRow(c) ==
    /\ freq[c].pc = "noticePut" /\ freq[c].ids # << >>
    /\ FormDone(c)
    /\ \/ LET a == Head(freq[c].ids) IN
            /\ notices[a].state = "row"
            /\ notices' = [notices EXCEPT ![a] = announcementRow(freq[c].pin, freq[c].over)]
       \/ UNCHANGED notices
    /\ UNCHANGED <<forms, mail, noticeReads, inbox, finished, overtaken>>

(* deleteAnnouncement: the row, then the read marks listed.                   *)
deleteAnnouncement(c, a) ==
    /\ FormFree(c) /\ FormAdmin(c)
    /\ notices[a].state = "row"
    /\ notices' = [notices EXCEPT ![a] = [state |-> "deleted", pinned |-> FALSE, over |-> FALSE]]
    /\ FormGoes(c, NoticeRequest("purge", <<a>>, FALSE, FALSE))
    /\ UNCHANGED <<forms, mail, noticeReads, inbox, finished, overtaken>>

deleteAnnouncementReads(c) ==
    /\ freq[c].pc = "purge"
    /\ noticeReads' = {m \in noticeReads : m[1] # Head(freq[c].ids)}
    /\ FormDone(c)
    /\ UNCHANGED <<forms, mail, notices, inbox, finished, overtaken>>

isActive(a) == notices[a].state = "row" /\ ~notices[a].over

NoticeExpires(a) ==
    /\ isActive(a)
    /\ notices' = [notices EXCEPT ![a].over = TRUE]
    /\ UNCHANGED <<forms, mail, noticeReads, inbox, freq, finished, overtaken>>

markAnnouncementRead(c, a) ==
    /\ FormFree(c)
    /\ isActive(a)
    /\ FormGoes(c, NoticeRequest("readPut", <<a>>, FALSE, FALSE))
    /\ UNCHANGED <<forms, mail, notices, noticeReads, inbox, finished, overtaken>>

upsertAnnouncementRead(c) ==
    /\ freq[c].pc = "readPut"
    /\ \/ noticeReads' = noticeReads \cup {<<Head(freq[c].ids), c>>}
       \/ UNCHANGED noticeReads
    /\ FormDone(c)
    /\ UNCHANGED <<forms, mail, notices, inbox, finished, overtaken>>

-----------------------------------------------------------------------------
(* Notifications: a row is written when one is first marked read.            *)

markNotificationRead(c, n) ==
    /\ FormFree(c)
    /\ inbox' = inbox \cup {n}
    /\ UNCHANGED <<forms, mail, notices, noticeReads, freq, finished, overtaken>>

(* markAllNotificationsRead lists the rows and upserts them one by one; the   *)
(* first failure ends it.  One listed that is cleared meanwhile comes back.   *)
markAllNotificationsRead(c) ==
    /\ FormFree(c) /\ inbox # {}
    /\ FormGoes(c, InboxRequest(inbox))
    /\ UNCHANGED <<forms, mail, notices, noticeReads, inbox, finished, overtaken>>

upsertNotification(c) ==
    /\ freq[c].pc = "inbox"
    /\ \/ \E n \in freq[c].left :
            /\ inbox' = inbox \cup {n}
            /\ IF freq[c].left = {n} THEN FormDone(c) ELSE FormGoes(c, InboxRequest(freq[c].left \ {n}))
       \/ FormDone(c) /\ UNCHANGED inbox
    /\ UNCHANGED <<forms, mail, notices, noticeReads, finished, overtaken>>

clearNotifications(c) ==
    /\ FormFree(c)
    /\ inbox' = {}
    /\ UNCHANGED <<forms, mail, notices, noticeReads, freq, finished, overtaken>>

(* The process dies: a request stops between two of its store calls.          *)
FormRequestLost(c) ==
    /\ ~FormFree(c)
    /\ FormDone(c)
    /\ UNCHANGED <<forms, mail, notices, noticeReads, inbox, finished, overtaken>>

-----------------------------------------------------------------------------
FormStep(c) ==
    \/ createForm(c) \/ transitionForm(c) \/ PutForm(c) \/ PutMessage(c)
    \/ \E ids \in {<<f>> : f \in FormIds} \cup (FormIds \X FormIds), to \in FormStatuses :
         batchUpdateFormStatus(c, ids, to)
    \/ \E f \in FormIds : createMessage(c, f)

NoticeStep(c) ==
    \/ CheckPins(c) \/ CreateAnnouncementRow(c) \/ UpdateAnnouncementRow(c)
    \/ deleteAnnouncementReads(c) \/ upsertAnnouncementRead(c)
    \/ \E pin, over \in BOOLEAN :
         createAnnouncement(c, pin, over) \/ \E a \in Notices : updateAnnouncement(c, a, pin, over)
    \/ \E a \in Notices : deleteAnnouncement(c, a) \/ markAnnouncementRead(c, a)

InboxStep(c) ==
    \/ markAllNotificationsRead(c) \/ upsertNotification(c) \/ clearNotifications(c)
    \/ \E n \in NoticeIds : markNotificationRead(c, n)

FormNext ==
    \/ \E c \in FormCallers : FormStep(c) \/ NoticeStep(c) \/ InboxStep(c) \/ FormRequestLost(c)
    \/ \E a \in Notices : NoticeExpires(a)

FormSpec == FormInit /\ [][FormNext]_formVars

FormTypeOK ==
    /\ forms \in [FormIds -> [status : FormStatuses \cup {""}, owner : FormCallers \cup {""}]]
    /\ mail \in [FormIds -> SUBSET {"open", "late"}]
    /\ notices \in [Notices -> [state : {"none", "row", "deleted"}, pinned : BOOLEAN, over : BOOLEAN]]
    /\ noticeReads \subseteq Notices \X FormCallers
    /\ inbox \subseteq NoticeIds
    /\ finished \subseteq FormIds /\ overtaken \subseteq FormIds

(* A form that was Completed stays so and gets no further message, unless a   *)
(* request wrote to it from a status that was gone (validTransition and the  *)
(* check of createMessage bind only the status that was read).  The pins are *)
(* counted before the write, and not at all by an update of what was pinned  *)
(* when read: overlapping requests exceed the limit, but never by as many as *)
(* there are administrators at work.                                         *)
RequestsKept ==
    /\ \A f \in finished \ overtaken :
         forms[f].status = "Completed" /\ "late" \notin mail[f]
    /\ countPinned({}) < PinLimit + Cardinality(FormAdmins)
=============================================================================
