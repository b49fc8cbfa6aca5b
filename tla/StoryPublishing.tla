--------------------------- MODULE StoryPublishing ----------------------------
(***************************************************************************)
(* The life of an authored story: a draft with revisions, validation       *)
(* reports, immutable playtest and release versions, the author's          *)
(* playtests, publication, moderation and the pruning of old revisions.    *)
(*                                                                         *)
(* Every action is one database transaction; all that write take the lock  *)
(* of the story row.  Validation, playtest creation and publication are    *)
(* requests of several transactions: what a handler of the API read in one *)
(* is stale in the next.  A handler that is refused, or whose process      *)
(* dies, leaves no trace (Abandon).  There is one story, of one author.    *)
(***************************************************************************)
EXTENDS Integers

CONSTANTS Drafts,       \* contents of a draft; equal hashes are equal contents
          Templates,    \* contents of a new story
          Scenarios,    \* compiled definitions
          Metadata,     \* titles, synopses: what is published but not played
          Scenario,     \* the definition of each draft
          About,        \* the metadata of each draft
          Valid,        \* definitions the validator finds no error in
          Versions,     \* version ids
          NoVersion,    \* stands for "no version"
          Gone,         \* stands for a revision without a row
          Requests,     \* request ids of playtest and publish calls
          NoRequest,    \* stands for "no request"
          Campaigns,    \* playtest runs of the author
          Handlers,     \* API processes serving a call
          MaxRevision   \* bound: revisions of the draft

ASSUME ContentAssumption ==
          /\ Scenario \in [Drafts -> Scenarios] /\ About \in [Drafts -> Metadata]
          /\ Valid \subseteq Scenarios /\ Templates \subseteq Drafts
          /\ Gone \notin Drafts \cup Scenarios \cup Metadata
ASSUME IdAssumption == NoVersion \notin Versions /\ NoRequest \notin Requests
ASSUME RevisionAssumption == MaxRevision \in Nat \ {0}

VARIABLES story,     \* "stories" row
          draft,     \* "story_drafts" row
          history,   \* "story_draft_revisions" rows, Gone where there is none
          reports,   \* "story_validation_reports" rows
          versions,  \* "story_versions" rows, each with the request that made it
          runs,      \* playtest runs and their records
          handler    \* control state of each handler

vars == <<story, draft, history, reports, versions, runs, handler>>

-----------------------------------------------------------------------------
(* Rows and handler states *)

Revisions == 1..MaxRevision

Story == [lifecycle : {"active", "withdrawn", "blocked", "archived"},
          public    : BOOLEAN,                    \* visibility is not "private"
          current   : Versions \cup {NoVersion}]  \* current_release_id

Draft == [revision : Revisions, content : Drafts]

Report == [revision : Revisions, content : Drafts]    \* draft_revision, draft_hash

Version == [kind     : {"absent", "playtest", "release"},
            number   : Nat,                           \* release_number, 0 for NULL
            revision : Revisions \cup {0},            \* source_draft_revision
            scenario : Scenarios \cup {Gone},
            about    : Metadata \cup {Gone},          \* public_metadata
            request  : Requests \cup {NoRequest}]

Run == [version : Versions \cup {NoVersion},
        status  : {"absent", "active", "completed"}]

HandlerState == [pc       : {"idle", "cached", "read", "save", "reread", "commit"},
                 call     : {"validate", "playtest", "publish"},
                 request  : Requests \cup {NoRequest},
                 expected : Revisions \cup {0},       \* expected_revision
                 named    : Report \cup {Gone},       \* validation_report_id
                 content  : Drafts \cup {Gone},       \* the draft it read
                 report   : Drafts \cup {Gone}]       \* the draft its report is about

NoRow == [kind |-> "absent", number |-> 0, revision |-> 0, scenario |-> Gone,
          about |-> Gone, request |-> NoRequest]

Idle == [pc |-> "idle", call |-> "validate", request |-> NoRequest, expected |-> 0,
         named |-> Gone, content |-> Gone, report |-> Gone]

\* A story that was just created.
Init == /\ story = [lifecycle |-> "active", public |-> FALSE, current |-> NoVersion]
        /\ draft \in [revision : {1}, content : Templates]
        /\ history = [r \in Revisions |-> IF r = 1 THEN draft.content ELSE Gone]
        /\ reports = {}
        /\ versions = [v \in Versions |-> NoRow]
        /\ runs = [c \in Campaigns |-> [version |-> NoVersion, status |-> "absent"]]
        /\ handler = [h \in Handlers |-> Idle]

\* Mutant: the author may go on with what he archived.
Unstopped == story.lifecycle # "blocked"

\* _editable
Editable == story.lifecycle \notin {"blocked", "archived"}

\* Mutant: a request is taken for new without a look at story_requests.
AlwaysNew(q) == TRUE

\* no row of story_requests has this id (_replay)
IsNew(q) == \A v \in Versions : versions[v].request # q

Versioned(kind) == {v \in Versions : versions[v].kind = kind}

-----------------------------------------------------------------------------
(* The draft.  A repeated request finds its answer under the same lock. *)

\* _revise
Revise(content) ==
    /\ draft.revision < MaxRevision
    /\ draft' = [revision |-> draft.revision + 1, content |-> content]
    /\ history' = [history EXCEPT ![draft.revision + 1] = content]

\* The author saves what he edited, on the revision he edited, or adopts a
\* proposal for it (PostgresStoryJobStore.apply makes the same revision).
Save(content) ==
    /\ Editable
    /\ Revise(content)
    /\ UNCHANGED <<story, reports, versions, runs, handler>>

\* Mutant: the row is taken for granted.
AnyRevision(r) == TRUE

\* there is a row of story_draft_revisions
Kept(r) == history[r] # Gone

Restore(r) ==
    /\ Editable
    /\ Kept(r)
    /\ Revise(history[r])
    /\ UNCHANGED <<story, reports, versions, runs, handler>>

\* Mutant: a report does not hold back the revision it is about.
UnversionedOnly(r) == \A v \in Versions : versions[v].revision # r

Unreferenced(r) == /\ \A v \in Versions : versions[v].revision # r
                   /\ \A p \in reports : p.revision # r

\* prune_draft_history deletes some unreferenced revisions: the young ones stay,
\* and those that authoring jobs and proposals still refer to.
Prune(old) ==
    /\ old # {}
    /\ \A r \in old : Kept(r) /\ r < draft.revision /\ Unreferenced(r)
    /\ history' = [r \in Revisions |-> IF r \in old THEN Gone ELSE history[r]]
    /\ UNCHANGED <<story, draft, reports, versions, runs, handler>>

-----------------------------------------------------------------------------
(* Calls of several transactions *)

\* A call for another revision than the present is refused at its first read.
Begin(h) ==
    /\ handler[h].pc = "idle"
    /\ \/ handler' = [handler EXCEPT ![h] =
              [Idle EXCEPT !.pc = "cached", !.call = "validate", !.expected = draft.revision]]
       \/ \E q \in Requests :
              /\ Editable /\ IsNew(q)          \* replay
              /\ handler' = [handler EXCEPT ![h] =
                    [Idle EXCEPT !.pc = "cached", !.call = "playtest",
                                 !.request = q, !.expected = draft.revision]]
       \/ \E q \in Requests, named \in reports :
              /\ Editable /\ IsNew(q)
              /\ handler' = [handler EXCEPT ![h] =
                    [Idle EXCEPT !.pc = "read", !.call = "publish", !.request = q,
                                 !.expected = draft.revision, !.named = named]]
    /\ UNCHANGED <<story, draft, history, reports, versions, runs>>

\* Where a call goes once it has a report.
Reported(h, content) ==
    handler' = [handler EXCEPT ![h] =
        IF handler[h].call = "validate" \/ Scenario[content] \notin Valid
        THEN Idle
        ELSE [handler[h] EXCEPT
                !.pc = IF handler[h].call = "playtest" THEN "reread" ELSE "commit",
                !.report = content]]

\* cached_validation: a stored report is used, or the quota for a new one is taken.
CachedValidation(h) ==
    /\ handler[h].pc = "cached"
    /\ Editable
    /\ draft.revision = handler[h].expected
    /\ \/ \E p \in reports : p.revision = draft.revision /\ Reported(h, p.content)
       \/ /\ \A p \in reports : p.revision # draft.revision
          /\ handler' = [handler EXCEPT ![h].pc =
                IF handler[h].call = "publish" THEN "save" ELSE "read"]
    /\ UNCHANGED <<story, draft, history, reports, versions, runs>>

\* get_draft, without a lock; compile_draft follows.
ReadDraft(h) ==
    /\ handler[h].pc \in {"read", "reread"}
    /\ draft.revision = handler[h].expected
    /\ handler' = [handler EXCEPT
            ![h].content = draft.content,
            ![h].pc = IF handler[h].pc = "reread" THEN "commit"
                      ELSE IF handler[h].call = "publish" THEN "cached" ELSE "save"]
    /\ UNCHANGED <<story, draft, history, reports, versions, runs>>

SaveValidation(h) ==
    /\ handler[h].pc = "save"
    /\ Editable
    /\ draft = [revision |-> handler[h].expected, content |-> handler[h].content]
    /\ reports' = reports \cup {[revision |-> handler[h].expected,
                                 content |-> handler[h].content]}
    /\ Reported(h, handler[h].content)
    /\ UNCHANGED <<story, draft, history, versions, runs>>

\* _version: the definition the handler read with the metadata of the present draft
Made(h, v, kind, number) ==
    versions' = [versions EXCEPT ![v] =
        [kind |-> kind, number |-> number, revision |-> draft.revision,
         scenario |-> Scenario[handler[h].content], about |-> About[draft.content],
         request |-> handler[h].request]]

CreatePlaytestVersion(h) ==
    /\ handler[h].pc = "commit" /\ handler[h].call = "playtest"
    /\ Editable
    /\ IsNew(handler[h].request)
    /\ draft = [revision |-> handler[h].expected, content |-> handler[h].report]
    /\ \E v \in Versioned("absent") : Made(h, v, "playtest", 0)
    /\ handler' = [handler EXCEPT ![h] = Idle]
    /\ UNCHANGED <<story, draft, history, reports, runs>>

\* Mutant: any completed playtest will do.
SomethingPlayed(s) == \E c \in Campaigns : runs[c].status = "completed"

\* the author completed a playtest of this very definition
Played(s) == \E c \in Campaigns :
                /\ runs[c].status = "completed"
                /\ versions[runs[c].version].kind = "playtest"
                /\ versions[runs[c].version].scenario = s

\* Mutant: the revision is not compared again.
NotOutdated(h) == handler[h].named.content = handler[h].report

\* the report the request names is about the present draft
UpToDate(h) ==
    /\ draft.revision = handler[h].expected
    /\ handler[h].named = [revision |-> draft.revision, content |-> draft.content]
    /\ draft.content = handler[h].report

\* max(release_number) + 1
NumberAfterLast(n) == \A v \in Versions : versions[v].number < n

Publish(h) ==
    /\ handler[h].pc = "commit" /\ handler[h].call = "publish"
    /\ story.lifecycle = "active"
    /\ IsNew(handler[h].request)
    /\ UpToDate(h)
    /\ Played(Scenario[handler[h].report])
    /\ \E v \in Versioned("absent"), public \in BOOLEAN,
          n \in {versions[last].number + 1 : last \in Versions} :
          /\ NumberAfterLast(n)
          /\ Made(h, v, "release", n)
          /\ story' = [story EXCEPT !.current = v, !.public = public]
    /\ handler' = [handler EXCEPT ![h] = Idle]
    /\ UNCHANGED <<draft, history, reports, runs>>

\* The call is refused, or its process dies: the transaction leaves no trace.
Abandon(h) ==
    /\ handler[h].pc # "idle"
    /\ handler' = [handler EXCEPT ![h] = Idle]
    /\ UNCHANGED <<story, draft, history, reports, versions, runs>>

-----------------------------------------------------------------------------
(* Playtests, settings and moderation *)

\* PostgresAdventureStore.create with a playtest version, after resolve_start
StartPlaytest(c, v) ==
    /\ runs[c].status = "absent"
    /\ story.lifecycle = "active"
    /\ versions[v].kind = "playtest"
    /\ runs' = [runs EXCEPT ![c] = [version |-> v, status |-> "active"]]
    /\ UNCHANGED <<story, draft, history, reports, versions, handler>>

\* a turn of the run reaches an ending (authorize_story_run)
FinishPlaytest(c) ==
    /\ runs[c].status = "active"
    /\ story.lifecycle # "blocked"
    /\ runs' = [runs EXCEPT ![c].status = "completed"]
    /\ UNCHANGED <<story, draft, history, reports, versions, handler>>

\* settings
Settings(lifecycle, public) ==
    /\ story.lifecycle # "blocked"
    /\ story' = [story EXCEPT !.lifecycle = lifecycle, !.public = public]
    /\ UNCHANGED <<draft, history, reports, versions, runs, handler>>

\* Mutant: lifting a stop puts the story back on show.
Unblocked == "active"

\* Unblocking does not silently republish.
Lifted == "withdrawn"

\* moderate
Moderate(blocked) ==
    /\ story' = [story EXCEPT !.lifecycle = IF blocked THEN "blocked" ELSE Lifted]
    /\ UNCHANGED <<draft, history, reports, versions, runs, handler>>

-----------------------------------------------------------------------------
DraftStep == \/ \E content \in Drafts : Save(content)
             \/ \E r \in Revisions : Restore(r)
             \/ \E old \in SUBSET Revisions : Prune(old)

HandlerStep(h) == \/ Begin(h)
                  \/ CachedValidation(h)
                  \/ ReadDraft(h)
                  \/ SaveValidation(h)
                  \/ CreatePlaytestVersion(h)
                  \/ Publish(h)
                  \/ Abandon(h)

StoryStep == \/ \E c \in Campaigns, v \in Versions : StartPlaytest(c, v)
             \/ \E c \in Campaigns : FinishPlaytest(c)
             \/ \E lifecycle \in {"active", "withdrawn", "archived"}, public \in BOOLEAN :
                   Settings(lifecycle, public)
             \/ \E blocked \in BOOLEAN : Moderate(blocked)

Next == DraftStep \/ (\E h \in Handlers : HandlerStep(h)) \/ StoryStep

Spec == Init /\ [][Next]_vars

-----------------------------------------------------------------------------
(* Properties *)

TypeOK == /\ story \in Story
          /\ draft \in Draft
          /\ history \in [Revisions -> Drafts \cup {Gone}]
          /\ reports \subseteq Report
          /\ versions \in [Versions -> Version]
          /\ runs \in [Campaigns -> Run]
          /\ handler \in [Handlers -> HandlerState]

\* A version is exactly the revision it names, though its definition was read
\* before the lock and its metadata under it, and the revisions of versions and
\* reports outlive every pruning.
VersionIsItsRevision ==
    /\ \A v \in Versions : versions[v].kind # "absent" =>
          /\ history[versions[v].revision] # Gone
          /\ versions[v].scenario = Scenario[history[versions[v].revision]]
          /\ versions[v].about = About[history[versions[v].revision]]
    /\ \A p \in reports : history[p.revision] = p.content

\* definitions that the author played to an end
Completed == {versions[runs[c].version].scenario :
                 c \in {d \in Campaigns : runs[d].status = "completed"}}

\* What is released was validated, in that revision, and its author had
\* completed a playtest of the same definition.
ReleasedWasPlayed ==
    \A v \in Versioned("release") :
        /\ versions[v].scenario \in Valid
        /\ \E p \in reports : p.revision = versions[v].revision
        /\ versions[v].scenario \in Completed

\* A request makes at most one version, though two processes may serve it.
OneVersionPerRequest ==
    \A v, w \in Versions :
        versions[v].kind # "absent" /\ versions[v].request = versions[w].request => v = w

\* Release numbers never repeat, and the current release has the highest.
CurrentIsNewest ==
    /\ \A v, w \in Versioned("release") : versions[v].number = versions[w].number => v = w
    /\ \A v \in Versioned("release") :
          /\ story.current \in Versioned("release")
          /\ versions[v].number <= versions[story.current].number

\* In a stopped or archived story no call, however far it had come, changes the
\* draft, leaves a report or makes a version.
StoppedStoryIsFrozen ==
    [][story.lifecycle \in {"blocked", "archived"} =>
          UNCHANGED <<draft, reports, versions, story.current>>]_vars

-----------------------------------------------------------------------------
(* What publication promises the public, as StoryContract states it *)

Standing == IF story.lifecycle = "blocked" THEN "stopped"
            ELSE IF story.lifecycle = "active" THEN "open" ELSE "closed"
Release == IF story.current = NoVersion THEN [scenario |-> Gone, about |-> Gone]
           ELSE [scenario |-> versions[story.current].scenario,
                 about |-> versions[story.current].about]
Listed == story.lifecycle = "active" /\ story.public /\ story.current # NoVersion

Contract == INSTANCE StoryContract
    WITH standing <- Standing, release <- Release, listed <- Listed, played <- Completed

\* Calls of several transactions implement publication in one step.
ImplementsStoryContract == Contract!Spec
=============================================================================
