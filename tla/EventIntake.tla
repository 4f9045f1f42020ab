---------------------------- MODULE EventIntake ----------------------------
(***************************************************************************)
(* What becomes of platform events that are posted at least once: the      *)
(* deliveries of notification-service, whose unit of work loads and saves  *)
(* everything under a version check, and the facts of audit-service, which *)
(* looks for one fact and appends it.                                      *)
(***************************************************************************)
EXTENDS Naturals, FiniteSets

CONSTANTS
    Notices,      \* recipient, source event and template: what dedup goes by
    Settings,     \* user and category
    Locked,       \* the settings of category "security"
    SettingOf,    \* the setting that decides about a notice
    Events,       \* event ids of audit facts
    Requests,
    None

ASSUME SettingsAssumption ==
    /\ Locked \subseteq Settings /\ SettingOf \in [Notices -> Settings]
    /\ None \notin Notices \cup Events \cup Requests

VARIABLES
    deliveries,   \* notification_deliveries, each with its notification
    preferences,  \* notification_preferences
    facts,        \* audit_records
    work          \* the requests in progress

intakeVars == <<deliveries, preferences, facts, work>>

-----------------------------------------------------------------------------

Delivery == [notice: Notices, by: Requests, status: {"unread", "read"}, version: Nat]

Preference == [enabled: BOOLEAN, version: Nat]

Fact == [event: Events, by: Requests]

(* dels, prefs: the copy of the unit of work; base: the rows the commit    *)
(* has selected; event: what audit-service appends; answer: the notice or  *)
(* event that the sender is told to be there.                              *)
Idle == [pc |-> "idle", dels |-> {}, prefs |-> [p \in Settings |-> None],
         base |-> {}, bprefs |-> [p \in Settings |-> None],
         event |-> None, answer |-> None]

IntakeInit ==
    /\ deliveries = {} /\ facts = {}
    /\ preferences = [p \in Settings |-> None]
    /\ work = [r \in Requests |-> Idle]

MovedTo(r, pc) == work' = [work EXCEPT ![r].pc = pc]

Refused(r) == work' = [work EXCEPT ![r] = [Idle EXCEPT !.pc = "done"]]

Answered(r) == work' = [work EXCEPT ![r] = [Idle EXCEPT !.pc = "done", !.answer = work[r].answer]]

-----------------------------------------------------------------------------
(* notification-service *)

(* The unit of work reads its three tables.                                *)
Load(r) ==
    /\ work[r].pc = "idle"
    /\ work' = [work EXCEPT ![r] = [Idle EXCEPT !.pc = "act", !.dels = deliveries,
                                              !.prefs = preferences]]
    /\ UNCHANGED <<deliveries, preferences, facts>>

Acted(r, dels, prefs, answer) ==
    /\ work[r].pc = "act"
    /\ work' = [work EXCEPT ![r] = [@ EXCEPT !.pc = "save", !.dels = dels, !.prefs = prefs,
                                           !.answer = answer]]
    /\ UNCHANGED <<deliveries, preferences, facts>>

(* A setting nobody has made yet: on, and saved with the next commit.      *)
Setting(r, p) == IF work[r].prefs[p] = None THEN [enabled |-> TRUE, version |-> 1] ELSE work[r].prefs[p]

WithSetting(r, p) == [work[r].prefs EXCEPT ![p] = Setting(r, p)]

(* NotificationService.consume: nothing when the category is off, the      *)
(* known delivery when there is one.                                       *)
Consume(r) ==
    \E n \in Notices :
        LET p == SettingOf[n]
            off == ~Setting(r, p).enabled
            known == \E d \in work[r].dels : d.notice = n
            new == [notice |-> n, by |-> r, status |-> "unread", version |-> 1]
        IN  Acted(r, IF off \/ known THEN work[r].dels ELSE work[r].dels \cup {new},
                  WithSetting(r, p), IF off THEN None ELSE n)

Marked(d, status) == [d EXCEPT !.status = status, !.version = @ + 1]

SetReadState(r) ==
    \E d \in work[r].dels, status \in {"read", "unread"} :
        Acted(r, (work[r].dels \ {d}) \cup {Marked(d, status)}, work[r].prefs, None)

(* The deliveries of the user, who is the one user of the instance.        *)
ReadAll(r) ==
    Acted(r, {IF d.status = "unread" THEN Marked(d, "read") ELSE d : d \in work[r].dels},
          work[r].prefs, None)

UpdatePreference(r) ==
    \E p \in Settings, enabled \in BOOLEAN :
        /\ p \in Locked => enabled
        /\ LET set == [enabled |-> enabled, version |-> Setting(r, p).version + 1] IN
           Acted(r, work[r].dels, [work[r].prefs EXCEPT ![p] = set], None)

(* commit: a row that is newer than the copy is VERSION_CONFLICT.          *)
NotNewer(r) ==
    /\ \A d \in deliveries, e \in work[r].dels : d.by = e.by => d.version <= e.version
    /\ \A p \in Settings : preferences[p] # None /\ work[r].prefs[p] # None =>
         preferences[p].version <= work[r].prefs[p].version

Save(r) ==
    /\ work[r].pc = "save" /\ NotNewer(r)
    /\ work' = [work EXCEPT ![r] = [@ EXCEPT !.pc = "flush", !.base = deliveries,
                                           !.bprefs = preferences]]
    /\ UNCHANGED <<deliveries, preferences, facts>>

Writes(r) == work[r].dels \ work[r].base

Sets(r) == {p \in Settings : work[r].prefs[p] \notin {None, work[r].bprefs[p]}}

UniqueByIdOnly(n, rows) == {}   \* mutated: the deliveries without their unique constraint

(* uq_notification_delivery_dedup                                          *)
Duplicates(n, rows) == {d \in rows : d.notice = n.notice /\ d.by # n.by}

(* Rows that another transaction writes, and the unique columns it takes,  *)
(* are waited for; what it has inserted meanwhile is a violation.          *)
Flush(r) ==
    /\ work[r].pc = "flush"
    /\ \A q \in Requests \ {r} : work[q].pc = "commit" =>
         /\ Sets(q) \cap Sets(r) = {}
         /\ \A d \in Writes(r) : /\ Duplicates(d, Writes(q)) = {}
                                 /\ \A e \in Writes(q) : e.by # d.by
    /\ \A d \in Writes(r) : Duplicates(d, deliveries) = {}
    /\ \A p \in Sets(r) : work[r].bprefs[p] = None => preferences[p] = None
    /\ MovedTo(r, "commit")
    /\ UNCHANGED <<deliveries, preferences, facts>>

CommitDeliveries(r) ==
    /\ work[r].pc = "commit"
    /\ deliveries' = {d \in deliveries : \A e \in Writes(r) : e.by # d.by} \cup Writes(r)
    /\ preferences' = [p \in Settings |-> IF p \in Sets(r) THEN work[r].prefs[p] ELSE preferences[p]]
    /\ Answered(r)
    /\ UNCHANGED facts

-----------------------------------------------------------------------------
(* audit-service *)

Recorded(e) == {f \in facts : f.event = e}

(* The fact is looked for; one that is there is returned as it is.         *)
Select(r) ==
    /\ work[r].pc = "idle"
    /\ \E e \in Events :
          work' = [work EXCEPT ![r] = [Idle EXCEPT !.pc = IF Recorded(e) = {} THEN "append" ELSE "done",
                                                 !.event = e, !.answer = e]]
    /\ UNCHANGED <<deliveries, preferences, facts>>

(* The insert is flushed: the event id is unique.                          *)
Append(r) ==
    LET e == work[r].event IN
    /\ work[r].pc = "append"
    /\ Recorded(e) = {} /\ \A q \in Requests : work[q].pc = "appended" => work[q].event # e
    /\ MovedTo(r, "appended")
    /\ UNCHANGED <<deliveries, preferences, facts>>

CommitFact(r) ==
    /\ work[r].pc = "appended"
    /\ facts' = facts \cup {[event |-> work[r].event, by |-> r]}
    /\ Answered(r)
    /\ UNCHANGED <<deliveries, preferences>>

(* An unknown template, a sensitive field, a conflict, a lost connection:  *)
(* the sender posts the event again, as another request.                   *)
Abandon(r) ==
    /\ work[r].pc \in {"act", "save", "flush", "commit", "append", "appended"}
    /\ Refused(r)
    /\ UNCHANGED <<deliveries, preferences, facts>>

IntakeNext ==
    \E r \in Requests :
        \/ Load(r) \/ Consume(r) \/ SetReadState(r) \/ ReadAll(r) \/ UpdatePreference(r)
        \/ Save(r) \/ Flush(r) \/ CommitDeliveries(r)
        \/ Select(r) \/ Append(r) \/ CommitFact(r) \/ Abandon(r)

IntakeSpec == IntakeInit /\ [][IntakeNext]_intakeVars

-----------------------------------------------------------------------------
(* Properties *)

(* However often an event is posted, at the same time, again after it was  *)
(* read, or while the setting of its category changes: there is one        *)
(* delivery of a notice and one fact of an event at most, and what a       *)
(* sender was told is there is there.                                      *)
EachEventOnce ==
    /\ \A d, e \in deliveries : d.notice = e.notice => d = e
    /\ \A f, g \in facts : f.event = g.event => f = g
    /\ \A r \in Requests : work[r].pc = "done" /\ work[r].answer # None =>
         \/ \E d \in deliveries : d.notice = work[r].answer
         \/ \E f \in facts : f.event = work[r].answer

=============================================================================
