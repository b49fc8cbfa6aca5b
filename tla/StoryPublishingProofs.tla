------------------------- MODULE StoryPublishingProofs ------------------------
(***************************************************************************)
(* Proofs about StoryPublishing for any drafts, versions, requests,        *)
(* playtests, handlers and number of revisions.                            *)
(***************************************************************************)
EXTENDS StoryPublishing, TLAPS

USE ContentAssumption, IdAssumption, RevisionAssumption

-----------------------------------------------------------------------------
(* The inductive invariant *)

\* The newest revision is the draft's, and nothing is newer.
HistoryInv == /\ history[draft.revision] = draft.content
              /\ \A r \in Revisions : history[r] # Gone => r <= draft.revision

\* Which rows a version may be.
MadeVersion == [kind : {"playtest", "release"}, number : Nat, revision : Revisions,
                scenario : Scenarios, about : Metadata, request : Requests]
RowsInv == \A v \in Versions : versions[v] = NoRow \/ versions[v] \in MadeVersion

\* A run that was started keeps the playtest version it was started with.
RunInv == \A c \in Campaigns : runs[c].status # "absent" =>
             runs[c].version \in Versioned("playtest")

\* What a handler read is the revision it was asked about, if that is still the
\* draft's; what it is about to save or commit, it did read; and a report that
\* lets it go on has no error.
CallInv(h) ==
    LET c == handler[h] IN
    c.pc # "idle" =>
        /\ c.expected \in 1..draft.revision
        /\ c.content # Gone /\ c.expected = draft.revision => c.content = draft.content
        /\ c.pc \in {"save", "commit"} \/ (c.call = "publish" /\ c.pc = "cached")
              => c.content \in Drafts
        /\ c.pc \in {"reread", "commit"} => c.report \in Drafts /\ Scenario[c.report] \in Valid
        /\ c.pc \in {"reread", "commit"} => c.call # "validate"
        /\ c.call # "validate" => c.request \in Requests
        /\ c.call = "publish" => c.named \in reports
CallsInv == \A h \in Handlers : CallInv(h)

Typed == TypeOK /\ HistoryInv /\ RowsInv /\ RunInv /\ CallsInv

LEMMA TypedInit == Init => Typed
  <1>. SUFFICES ASSUME Init PROVE Typed
    OBVIOUS
  <1>0. 1 \in Revisions
    BY DEF Revisions
  <1>1. draft.revision = 1 /\ draft.content \in Drafts
    BY DEF Init
  <1>2. story \in Story /\ draft \in Draft
    BY <1>0 DEF Init, Story, Draft
  <1>3. history \in [Revisions -> Drafts \cup {Gone}] /\ HistoryInv
    BY <1>0, <1>1 DEF Init, HistoryInv
  <1>4. versions \in [Versions -> Version] /\ RowsInv
    BY DEF Init, RowsInv, NoRow, Version
  <1>5. runs \in [Campaigns -> Run] /\ RunInv
    BY DEF Init, RunInv, Run
  <1>6. handler \in [Handlers -> HandlerState] /\ CallsInv
    BY DEF Init, Idle, HandlerState, CallsInv, CallInv
  <1>7. reports \subseteq Report
    BY DEF Init
  <1>. QED BY <1>2, <1>3, <1>4, <1>5, <1>6, <1>7 DEF Typed, TypeOK

-----------------------------------------------------------------------------
(* What the actions do, grouped by the rows they write *)

\* Save, Restore
Revised == /\ Editable
           /\ \E content \in Drafts : Revise(content)
           /\ UNCHANGED <<story, reports, versions, runs, handler>>

LEMMA RestoreRevises ==
  ASSUME Typed, NEW r \in Revisions, Restore(r)
  PROVE  Revised
  <1>1. history[r] \in Drafts
    BY DEF Restore, Kept, Typed, TypeOK
  <1>. QED BY <1>1 DEF Restore, Revised

LEMMA DraftIs ==
  ASSUME Typed
  PROVE  /\ draft.revision \in Revisions /\ draft.content \in Drafts
         /\ draft = [revision |-> draft.revision, content |-> draft.content]
  BY DEF Typed, TypeOK, Draft

LEMMA RevisedTyped ==
  ASSUME Typed, Revised
  PROVE  Typed'
  <1>. PICK content \in Drafts : Revise(content)
    BY DEF Revised
  <1>0. /\ draft.revision \in Revisions /\ draft.revision + 1 \in Revisions
        /\ draft.revision \in Nat
    BY DraftIs DEF Revise, Revisions
  <1>1. /\ draft' \in Draft /\ draft'.revision = draft.revision + 1
        /\ draft'.content = content
    BY <1>0 DEF Revise, Draft
  <1>2. history' \in [Revisions -> Drafts \cup {Gone}]
    BY <1>0 DEF Revise, Typed, TypeOK
  <1>3. HistoryInv'
    <2>1. history'[draft'.revision] = draft'.content
      BY <1>0, <1>1 DEF Revise, Typed, TypeOK
    <2>2. ASSUME NEW r \in Revisions, history'[r] # Gone PROVE r <= draft'.revision
      <3>1. CASE r = draft.revision + 1
        BY <3>1, <1>0, <1>1
      <3>2. CASE r # draft.revision + 1
        <4>1. history[r] # Gone
          BY <3>2, <2>2, <1>0 DEF Revise, Typed, TypeOK
        <4>2. r <= draft.revision
          BY <4>1 DEF Typed, HistoryInv
        <4>. QED BY <4>2, <1>0, <1>1 DEF Revisions
      <3>. QED BY <3>1, <3>2
    <2>. QED BY <2>1, <2>2 DEF HistoryInv
  <1>4. CallsInv'
    <2>. SUFFICES ASSUME NEW h \in Handlers PROVE CallInv(h)'
      BY DEF CallsInv
    <2>1. CallInv(h) /\ handler' = handler /\ reports' = reports
      BY DEF Typed, CallsInv, Revised
    <2>. QED BY <2>1, <1>0, <1>1 DEF CallInv
  <1>. QED BY <1>1, <1>2, <1>3, <1>4
           DEF Typed, TypeOK, Revised, RowsInv, RunInv, Versioned

LEMMA PruneTyped ==
  ASSUME Typed, NEW old \in SUBSET Revisions, Prune(old)
  PROVE  Typed'
  <1>0. draft.revision \in Nat /\ draft.revision \in Revisions
    BY DraftIs DEF Revisions
  <1>1. draft.revision \notin old
    BY <1>0 DEF Prune
  <1>2. history' \in [Revisions -> Drafts \cup {Gone}]
    BY DEF Prune, Typed, TypeOK
  <1>3. HistoryInv'
    BY <1>0, <1>1 DEF Prune, Typed, HistoryInv
  <1>4. CallsInv'
    BY DEF Prune, Typed, CallsInv, CallInv
  <1>. QED BY <1>2, <1>3, <1>4
           DEF Typed, TypeOK, Prune, RowsInv, RunInv, Versioned

\* Begin, CachedValidation, ReadDraft, Abandon, and what others do to handlers
OnlyHandlers == UNCHANGED <<story, draft, history, reports, versions, runs>>

\* h moves on to a state that fits the rows.
Moves(h) == \E c \in HandlerState :
               /\ handler' = [handler EXCEPT ![h] = c]
               /\ CallInv(h)'

LEMMA MovesTyped ==
  ASSUME Typed, NEW h \in Handlers, Moves(h), draft' = draft, reports \subseteq reports'
  PROVE  handler' \in [Handlers -> HandlerState] /\ CallsInv'
  <1>1. handler' \in [Handlers -> HandlerState]
    BY DEF Moves, Typed, TypeOK
  <1>2. ASSUME NEW g \in Handlers PROVE CallInv(g)'
    <2>1. CASE g = h
      BY <2>1 DEF Moves
    <2>2. CASE g # h
      <3>1. handler'[g] = handler[g] /\ CallInv(g)
        BY <2>2 DEF Moves, Typed, TypeOK, CallsInv
      <3>. QED BY <3>1 DEF CallInv
    <2>. QED BY <2>1, <2>2
  <1>. QED BY <1>1, <1>2 DEF CallsInv

LEMMA IdleTyped == Idle \in HandlerState /\ Idle.pc = "idle"
  BY DEF Idle, HandlerState

LEMMA IdleMoves ==
  ASSUME Typed, NEW h \in Handlers, handler' = [handler EXCEPT ![h] = Idle]
  PROVE  Moves(h)
  <1>1. handler'[h] = Idle
    BY DEF Typed, TypeOK
  <1>. QED BY <1>1, IdleTyped DEF Moves, CallInv

LEMMA BeginMoves ==
  ASSUME Typed, NEW h \in Handlers, Begin(h)
  PROVE  Moves(h)
  <1>0. draft.revision \in Revisions /\ draft.revision \in 1..draft.revision
    BY DraftIs DEF Revisions
  <1>1. CASE handler' = [handler EXCEPT ![h] =
              [Idle EXCEPT !.pc = "cached", !.call = "validate", !.expected = draft.revision]]
    <2>. DEFINE c == [Idle EXCEPT !.pc = "cached", !.call = "validate",
                                  !.expected = draft.revision]
    <2>1. c \in HandlerState
      BY <1>0 DEF Idle, HandlerState
    <2>2. handler'[h] = c
      BY <1>1 DEF Typed, TypeOK
    <2>3. CallInv(h)'
      BY <2>2, <1>0 DEF CallInv, Idle, Begin
    <2>. QED BY <2>1, <2>3, <1>1 DEF Moves
  <1>2. ASSUME NEW q \in Requests,
               handler' = [handler EXCEPT ![h] =
                    [Idle EXCEPT !.pc = "cached", !.call = "playtest",
                                 !.request = q, !.expected = draft.revision]]
        PROVE  Moves(h)
    <2>. DEFINE c == [Idle EXCEPT !.pc = "cached", !.call = "playtest",
                                 !.request = q, !.expected = draft.revision]
    <2>1. c \in HandlerState
      BY <1>0 DEF Idle, HandlerState
    <2>2. handler'[h] = c
      BY <1>2 DEF Typed, TypeOK
    <2>3. CallInv(h)'
      BY <2>2, <1>0 DEF CallInv, Idle, Begin
    <2>. QED BY <2>1, <2>3, <1>2 DEF Moves
  <1>3. ASSUME NEW q \in Requests, NEW named \in reports,
               handler' = [handler EXCEPT ![h] =
                    [Idle EXCEPT !.pc = "read", !.call = "publish", !.request = q,
                                 !.expected = draft.revision, !.named = named]]
        PROVE  Moves(h)
    <2>. DEFINE c == [Idle EXCEPT !.pc = "read", !.call = "publish", !.request = q,
                                 !.expected = draft.revision, !.named = named]
    <2>1. c \in HandlerState
      <3>1. named \in Report
        BY DEF Typed, TypeOK
      <3>. QED BY <3>1, <1>0 DEF Idle, HandlerState
    <2>2. handler'[h] = c
      BY <1>3 DEF Typed, TypeOK
    <2>3. CallInv(h)'
      BY <2>2, <1>0 DEF CallInv, Idle, Begin
    <2>. QED BY <2>1, <2>3, <1>3 DEF Moves
  <1>. QED BY <1>1, <1>2, <1>3 DEF Begin

LEMMA BusyCall ==
  ASSUME Typed, NEW h \in Handlers
  PROVE  handler[h] \in HandlerState /\ CallInv(h)
  BY DEF Typed, TypeOK, CallsInv

LEMMA ReportedMoves ==
  ASSUME Typed, NEW h \in Handlers, handler[h].pc \in {"cached", "save"},
         NEW content \in Drafts, Reported(h, content),
         draft' = draft, reports \subseteq reports'
  PROVE  Moves(h)
  <1>. DEFINE c == handler[h]
  <1>. DEFINE d == [handler[h] EXCEPT
                      !.pc = IF handler[h].call = "playtest" THEN "reread" ELSE "commit",
                      !.report = content]
  <1>1. CASE c.call = "validate" \/ Scenario[content] \notin Valid
    BY <1>1, IdleMoves DEF Reported
  <1>2. CASE ~(c.call = "validate" \/ Scenario[content] \notin Valid)
    <2>1. d \in HandlerState
      BY ZenonT(60), BusyCall DEF HandlerState
    <2>2. handler' = [handler EXCEPT ![h] = d] /\ handler'[h] = d
      BY <1>2 DEF Reported, Typed, TypeOK
    <2>3. c.call \in {"playtest", "publish"}
      BY <1>2, BusyCall DEF HandlerState
    <2>4. CallInv(h)
      BY BusyCall
    <2>5. CallInv(h)'
      <3>1. /\ d.expected = c.expected /\ d.content = c.content /\ d.call = c.call
            /\ d.request = c.request /\ d.named = c.named /\ d.report = content
            /\ d.pc = IF c.call = "playtest" THEN "reread" ELSE "commit"
        BY BusyCall DEF HandlerState
      <3>2. d.pc = "commit" => c.call = "publish"
        BY <3>1, <2>3
      <3>. QED BY <2>2, <2>3, <2>4, <3>1, <3>2, <1>2 DEF CallInv
    <2>. QED BY <2>1, <2>2, <2>5 DEF Moves
  <1>. QED BY <1>1, <1>2

LEMMA CachedValidationMoves ==
  ASSUME Typed, NEW h \in Handlers, CachedValidation(h)
  PROVE  Moves(h)
  <1>1. CASE \E p \in reports : p.revision = draft.revision /\ Reported(h, p.content)
    <2>1. PICK p \in reports : Reported(h, p.content)
      BY <1>1
    <2>2. p.content \in Drafts
      BY DEF Typed, TypeOK, Report
    <2>. QED BY <2>1, <2>2, ReportedMoves DEF CachedValidation
  <1>2. CASE handler' = [handler EXCEPT ![h].pc =
                IF handler[h].call = "publish" THEN "save" ELSE "read"]
    <2>. DEFINE d == [handler[h] EXCEPT !.pc =
                        IF handler[h].call = "publish" THEN "save" ELSE "read"]
    <2>1. d \in HandlerState
      BY BusyCall DEF HandlerState
    <2>2. handler' = [handler EXCEPT ![h] = d] /\ handler'[h] = d
      BY <1>2 DEF Typed, TypeOK
    <2>3. CallInv(h)'
      <3>1. /\ d.expected = handler[h].expected /\ d.content = handler[h].content
            /\ d.call = handler[h].call /\ d.request = handler[h].request
            /\ d.named = handler[h].named /\ d.report = handler[h].report
            /\ d.pc = IF handler[h].call = "publish" THEN "save" ELSE "read"
        BY BusyCall DEF HandlerState
      <3>. QED BY <2>2, <3>1, BusyCall DEF CallInv, CachedValidation
    <2>. QED BY <2>1, <2>2, <2>3 DEF Moves
  <1>. QED BY <1>1, <1>2 DEF CachedValidation

LEMMA ReadDraftMoves ==
  ASSUME Typed, NEW h \in Handlers, ReadDraft(h)
  PROVE  Moves(h)
  <1>. DEFINE next == IF handler[h].pc = "reread" THEN "commit"
                      ELSE IF handler[h].call = "publish" THEN "cached" ELSE "save"
  <1>. DEFINE d == [handler[h] EXCEPT !.content = draft.content, !.pc = next]
  <1>1. d \in HandlerState
    BY ZenonT(60), BusyCall, DraftIs DEF HandlerState
  <1>2. handler' = [handler EXCEPT ![h] = d] /\ handler'[h] = d
    BY DEF ReadDraft, Typed, TypeOK
  <1>3. CallInv(h)'
    <2>1. /\ d.expected = handler[h].expected /\ d.content = draft.content
          /\ d.call = handler[h].call /\ d.request = handler[h].request
          /\ d.named = handler[h].named /\ d.report = handler[h].report
          /\ d.pc = next
      BY BusyCall DEF HandlerState
    <2>2. CallInv(h) /\ handler[h].pc \in {"read", "reread"} /\ draft.content \in Drafts
      BY BusyCall, DraftIs DEF ReadDraft
    <2>3. draft' = draft /\ reports' = reports
      BY DEF ReadDraft
    <2>4. CASE handler[h].pc = "read"
      <3>1. d.pc \in {"cached", "save"}
        BY <2>1, <2>4
      <3>. QED BY <1>2, <2>1, <2>2, <2>3, <2>4, <3>1 DEF CallInv
    <2>5. CASE handler[h].pc = "reread"
      <3>1. d.pc = "commit"
        BY <2>1, <2>5
      <3>. QED BY <1>2, <2>1, <2>2, <2>3, <2>5, <3>1 DEF CallInv
    <2>. QED BY <2>2, <2>4, <2>5
  <1>. QED BY <1>1, <1>2, <1>3 DEF Moves

LEMMA HandlersTyped ==
  ASSUME Typed, NEW h \in Handlers, Moves(h), OnlyHandlers
  PROVE  Typed'
  <1>1. handler' \in [Handlers -> HandlerState] /\ CallsInv'
    BY MovesTyped DEF OnlyHandlers
  <1>. QED BY <1>1 DEF Typed, TypeOK, OnlyHandlers, HistoryInv, RowsInv, RunInv, Versioned

-----------------------------------------------------------------------------
(* Reports and versions *)

LEMMA SaveValidationTyped ==
  ASSUME Typed, NEW h \in Handlers, SaveValidation(h)
  PROVE  Typed'
  <1>1. handler[h].content \in Drafts /\ handler[h].expected \in Revisions
    BY DraftIs DEF SaveValidation
  <1>2. reports' \subseteq Report /\ reports \subseteq reports'
    BY <1>1 DEF SaveValidation, Typed, TypeOK, Report
  <1>3. Moves(h)
    BY <1>1, <1>2, ReportedMoves DEF SaveValidation
  <1>4. handler' \in [Handlers -> HandlerState] /\ CallsInv'
    BY <1>2, <1>3, MovesTyped DEF SaveValidation
  <1>. QED BY <1>2, <1>4
           DEF Typed, TypeOK, SaveValidation, HistoryInv, RowsInv, RunInv, Versioned

LEMMA Committing ==
  ASSUME Typed, NEW h \in Handlers, handler[h].pc = "commit"
  PROVE  /\ handler[h].content \in Drafts /\ handler[h].request \in Requests
         /\ handler[h].report \in Drafts /\ Scenario[handler[h].report] \in Valid
         /\ handler[h].call = "publish" => handler[h].named \in reports
         /\ handler[h].expected = draft.revision => handler[h].content = draft.content
  <1>1. CallInv(h)
    BY BusyCall
  <1>2. /\ handler[h].content \in Drafts
        /\ handler[h].report \in Drafts /\ Scenario[handler[h].report] \in Valid
        /\ handler[h].call # "validate"
    BY <1>1 DEF CallInv
  <1>3. handler[h].content # Gone
    BY <1>2
  <1>. QED BY <1>1, <1>2, <1>3 DEF CallInv

\* The row that _version makes.
MadeRow(h, kind, number) ==
    [kind |-> kind, number |-> number, revision |-> draft.revision,
     scenario |-> Scenario[handler[h].content], about |-> About[draft.content],
     request |-> handler[h].request]

LEMMA MadeRowTyped ==
  ASSUME Typed, NEW h \in Handlers, handler[h].pc = "commit",
         NEW kind \in {"playtest", "release"}, NEW number \in Nat
  PROVE  MadeRow(h, kind, number) \in MadeVersion
  <1>1. Scenario[handler[h].content] \in Scenarios /\ About[draft.content] \in Metadata
    BY Committing, DraftIs
  <1>. QED BY <1>1, Committing, DraftIs DEF MadeRow, MadeVersion

LEMMA MadeTyped ==
  ASSUME Typed, NEW h \in Handlers, handler[h].pc = "commit",
         NEW kind \in {"playtest", "release"}, NEW number \in Nat,
         NEW v \in Versioned("absent"), Made(h, v, kind, number),
         handler' = [handler EXCEPT ![h] = Idle], story' \in Story,
         UNCHANGED <<draft, history, reports, runs>>
  PROVE  Typed'
  <1>1. MadeRow(h, kind, number) \in MadeVersion /\ MadeVersion \subseteq Version
    BY MadeRowTyped DEF MadeVersion, Version
  <1>2. v \in Versions /\ versions[v].kind = "absent"
    BY DEF Versioned
  <1>3. versions' = [versions EXCEPT ![v] = MadeRow(h, kind, number)]
    BY DEF Made, MadeRow
  <1>4. versions' \in [Versions -> Version] /\ RowsInv'
    BY <1>1, <1>2, <1>3 DEF Typed, TypeOK, RowsInv, NoRow
  <1>5. RunInv'
    BY <1>2, <1>3 DEF Typed, TypeOK, RunInv, Versioned
  <1>6. handler' \in [Handlers -> HandlerState] /\ CallsInv'
    BY IdleMoves, MovesTyped
  <1>. QED BY <1>4, <1>5, <1>6 DEF Typed, TypeOK, HistoryInv

LEMMA CreateTyped ==
  ASSUME Typed, NEW h \in Handlers, CreatePlaytestVersion(h)
  PROVE  Typed'
  <1>1. PICK v \in Versioned("absent") : Made(h, v, "playtest", 0)
    BY DEF CreatePlaytestVersion
  <1>2. story' \in Story
    BY DEF CreatePlaytestVersion, Typed, TypeOK
  <1>. QED BY <1>1, <1>2, MadeTyped DEF CreatePlaytestVersion

LEMMA NumbersAreNaturals ==
  ASSUME Typed, NEW v \in Versions
  PROVE  versions[v].number \in Nat
  BY DEF Typed, TypeOK, Version

LEMMA PublishTyped ==
  ASSUME Typed, NEW h \in Handlers, Publish(h)
  PROVE  Typed'
  <1>1. PICK v \in Versioned("absent"), public \in BOOLEAN,
             n \in {versions[last].number + 1 : last \in Versions} :
               /\ Made(h, v, "release", n)
               /\ story' = [story EXCEPT !.current = v, !.public = public]
    BY DEF Publish
  <1>2. n \in Nat
    BY NumbersAreNaturals
  <1>3. story' \in Story
    BY <1>1 DEF Typed, TypeOK, Story, Versioned
  <1>. QED BY <1>1, <1>2, <1>3, MadeTyped DEF Publish

-----------------------------------------------------------------------------
(* Playtests, settings and moderation *)

LEMMA StartTyped ==
  ASSUME Typed, NEW c \in Campaigns, NEW v \in Versions, StartPlaytest(c, v)
  PROVE  Typed'
  <1>1. runs' \in [Campaigns -> Run] /\ RunInv'
    BY DEF StartPlaytest, Typed, TypeOK, Run, RunInv, Versioned
  <1>2. CallsInv'
    BY DEF StartPlaytest, Typed, CallsInv, CallInv
  <1>. QED BY <1>1, <1>2 DEF StartPlaytest, Typed, TypeOK, HistoryInv, RowsInv

LEMMA FinishTyped ==
  ASSUME Typed, NEW c \in Campaigns, FinishPlaytest(c)
  PROVE  Typed'
  <1>1. runs' \in [Campaigns -> Run] /\ RunInv'
    BY DEF FinishPlaytest, Typed, TypeOK, Run, RunInv, Versioned
  <1>2. CallsInv'
    BY DEF FinishPlaytest, Typed, CallsInv, CallInv
  <1>. QED BY <1>1, <1>2 DEF FinishPlaytest, Typed, TypeOK, HistoryInv, RowsInv

\* Settings, Moderate
Governed == /\ \E lifecycle \in {"active", "withdrawn", "blocked", "archived"},
                  public \in BOOLEAN :
                  story' = [story EXCEPT !.lifecycle = lifecycle, !.public = public]
            /\ UNCHANGED <<draft, history, reports, versions, runs, handler>>

LEMMA ModerateGoverns ==
  ASSUME Typed, NEW blocked \in BOOLEAN, Moderate(blocked)
  PROVE  Governed
  <1>. DEFINE lifecycle == IF blocked THEN "blocked" ELSE "withdrawn"
  <1>1. story \in Story
    BY DEF Typed, TypeOK
  <1>2. story.public \in BOOLEAN
    BY <1>1 DEF Story
  <1>3. story' = [story EXCEPT !.lifecycle = lifecycle, !.public = story.public]
    BY <1>1 DEF Moderate, Lifted, Story
  <1>. QED BY <1>2, <1>3 DEF Governed, Moderate

LEMMA GovernedTyped ==
  ASSUME Typed, Governed
  PROVE  Typed'
  <1>1. story' \in Story
    BY DEF Governed, Typed, TypeOK, Story
  <1>2. CallsInv'
    BY DEF Governed, Typed, CallsInv, CallInv
  <1>. QED BY <1>1, <1>2 DEF Governed, Typed, TypeOK, HistoryInv, RowsInv, RunInv, Versioned

-----------------------------------------------------------------------------
(* Types *)

LEMMA NextTyped == Typed /\ [Next]_vars => Typed'
  <1>. SUFFICES ASSUME Typed, [Next]_vars PROVE Typed'
    OBVIOUS
  <1>1. CASE UNCHANGED vars
    BY <1>1 DEF vars, Typed, TypeOK, HistoryInv, RowsInv, RunInv, Versioned, CallsInv, CallInv
  <1>2. CASE DraftStep
    <2>1. ASSUME NEW content \in Drafts, Save(content) PROVE Typed'
      BY <2>1, RevisedTyped DEF Save, Revised
    <2>2. ASSUME NEW r \in Revisions, Restore(r) PROVE Typed'
      BY <2>2, RestoreRevises, RevisedTyped
    <2>3. ASSUME NEW old \in SUBSET Revisions, Prune(old) PROVE Typed'
      BY <2>3, PruneTyped
    <2>. QED BY <1>2, <2>1, <2>2, <2>3 DEF DraftStep
  <1>3. ASSUME NEW h \in Handlers, HandlerStep(h) PROVE Typed'
    <2>1. CASE Begin(h)
      BY <2>1, BeginMoves, HandlersTyped DEF Begin, OnlyHandlers
    <2>2. CASE CachedValidation(h)
      BY <2>2, CachedValidationMoves, HandlersTyped DEF CachedValidation, OnlyHandlers
    <2>3. CASE ReadDraft(h)
      BY <2>3, ReadDraftMoves, HandlersTyped DEF ReadDraft, OnlyHandlers
    <2>4. CASE SaveValidation(h)
      BY <2>4, SaveValidationTyped
    <2>5. CASE CreatePlaytestVersion(h)
      BY <2>5, CreateTyped
    <2>6. CASE Publish(h)
      BY <2>6, PublishTyped
    <2>7. CASE Abandon(h)
      BY <2>7, IdleMoves, HandlersTyped DEF Abandon, OnlyHandlers
    <2>. QED BY <1>3, <2>1, <2>2, <2>3, <2>4, <2>5, <2>6, <2>7 DEF HandlerStep
  <1>4. CASE StoryStep
    <2>1. ASSUME NEW c \in Campaigns, NEW v \in Versions, StartPlaytest(c, v) PROVE Typed'
      BY <2>1, StartTyped
    <2>2. ASSUME NEW c \in Campaigns, FinishPlaytest(c) PROVE Typed'
      BY <2>2, FinishTyped
    <2>3. ASSUME NEW lifecycle \in {"active", "withdrawn", "archived"},
                 NEW public \in BOOLEAN, Settings(lifecycle, public)
          PROVE  Typed'
      BY <2>3, GovernedTyped DEF Settings, Governed
    <2>4. ASSUME NEW blocked \in BOOLEAN, Moderate(blocked) PROVE Typed'
      BY <2>4, ModerateGoverns, GovernedTyped
    <2>. QED BY <1>4, <2>1, <2>2, <2>3, <2>4 DEF StoryStep
  <1>. QED BY <1>1, <1>2, <1>3, <1>4 DEF Next

\* Rows and handler states of a story have their types, and every call that is
\* under way knows what it read.
THEOREM StoryTypesCorrect == Spec => []TypeOK
  <1>1. Typed => TypeOK
    BY DEF Typed
  <1>. QED BY <1>1, TypedInit, NextTyped, PTL DEF Spec

LEMMA TypedAlways == Spec => []Typed
  BY TypedInit, NextTyped, PTL DEF Spec

-----------------------------------------------------------------------------
(* Steps, by what they do to versions and reports *)

\* v becomes a version of the draft as it is.
Makes(v, kind, number, request) ==
    /\ v \in Versions /\ versions[v] = NoRow
    /\ kind \in {"playtest", "release"} /\ number \in Nat
    /\ request \in Requests /\ IsNew(request)
    /\ versions' = [versions EXCEPT ![v] =
          [kind |-> kind, number |-> number, revision |-> draft.revision,
           scenario |-> Scenario[draft.content], about |-> About[draft.content],
           request |-> request]]
    /\ UNCHANGED <<draft, history, reports, runs>>

\* A release needs a valid report of the draft and a playtest of its definition.
Releases(v, number, request) ==
    /\ Makes(v, "release", number, request)
    /\ NumberAfterLast(number)
    /\ Scenario[draft.content] \in Valid
    /\ \E p \in reports : p.revision = draft.revision
    /\ Played(Scenario[draft.content])
    /\ story.lifecycle = "active"
    /\ \E public \in BOOLEAN : story' = [story EXCEPT !.current = v, !.public = public]

LEMMA CreateMakes ==
  ASSUME Typed, NEW h \in Handlers, CreatePlaytestVersion(h)
  PROVE  /\ \E v \in Versions, q \in Requests : Makes(v, "playtest", 0, q)
         /\ UNCHANGED story
  <1>1. PICK v \in Versioned("absent") : Made(h, v, "playtest", 0)
    BY DEF CreatePlaytestVersion
  <1>2. versions[v] = NoRow /\ v \in Versions
    BY DEF Versioned, Typed, RowsInv, MadeVersion
  <1>3. handler[h].content = draft.content /\ handler[h].request \in Requests
    BY Committing DEF CreatePlaytestVersion
  <1>. QED BY <1>1, <1>2, <1>3 DEF CreatePlaytestVersion, Makes, Made

LEMMA PublishReleases ==
  ASSUME Typed, NEW h \in Handlers, Publish(h)
  PROVE  \E v \in Versions, n \in Nat, q \in Requests : Releases(v, n, q)
  <1>1. PICK v \in Versioned("absent"), public \in BOOLEAN,
             n \in {versions[last].number + 1 : last \in Versions} :
               /\ NumberAfterLast(n)
               /\ Made(h, v, "release", n)
               /\ story' = [story EXCEPT !.current = v, !.public = public]
    BY DEF Publish
  <1>2. versions[v] = NoRow /\ v \in Versions
    BY DEF Versioned, Typed, RowsInv, MadeVersion
  <1>3. n \in Nat
    BY NumbersAreNaturals
  <1>4. UpToDate(h) /\ handler[h].pc = "commit" /\ handler[h].call = "publish"
    BY DEF Publish
  <1>5. /\ handler[h].content = draft.content /\ handler[h].request \in Requests
        /\ handler[h].report = draft.content /\ Scenario[draft.content] \in Valid
        /\ handler[h].named \in reports /\ handler[h].named.revision = draft.revision
    BY <1>4, Committing DEF UpToDate
  <1>6. Makes(v, "release", n, handler[h].request)
    BY <1>1, <1>2, <1>3, <1>5 DEF Publish, Makes, Made
  <1>. QED BY <1>1, <1>2, <1>3, <1>5, <1>6 DEF Publish, Releases

\* A report of the draft as it is is stored.
Reports == /\ reports' = reports \cup {[revision |-> draft.revision, content |-> draft.content]}
           /\ Editable
           /\ UNCHANGED <<story, draft, history, versions, runs>>

\* What a step can be.
StepClass ==
    \/ Revised
    \/ \E old \in SUBSET Revisions : Prune(old)
    \/ OnlyHandlers
    \/ Reports
    \/ Editable /\ UNCHANGED story /\ \E v \in Versions, q \in Requests : Makes(v, "playtest", 0, q)
    \/ \E v \in Versions, n \in Nat, q \in Requests : Releases(v, n, q)
    \/ \E c \in Campaigns, v \in Versions : StartPlaytest(c, v)
    \/ \E c \in Campaigns : FinishPlaytest(c)
    \/ \E lifecycle \in {"active", "withdrawn", "archived"}, public \in BOOLEAN :
          Settings(lifecycle, public)
    \/ \E blocked \in BOOLEAN : Moderate(blocked)

LEMMA StepClasses == Typed /\ [Next]_vars => StepClass
  <1>. SUFFICES ASSUME Typed, [Next]_vars PROVE StepClass
    OBVIOUS
  <1>1. CASE UNCHANGED vars
    BY <1>1 DEF vars, StepClass, OnlyHandlers
  <1>2. CASE DraftStep
    <2>1. ASSUME NEW content \in Drafts, Save(content) PROVE Revised
      BY <2>1 DEF Save, Revised
    <2>. QED BY <1>2, <2>1, RestoreRevises DEF DraftStep, StepClass
  <1>3. ASSUME NEW h \in Handlers, HandlerStep(h) PROVE StepClass
    <2>1. CASE Begin(h) \/ CachedValidation(h) \/ ReadDraft(h) \/ Abandon(h)
      <3>1. OnlyHandlers
        BY <2>1 DEF Begin, CachedValidation, ReadDraft, Abandon, OnlyHandlers
      <3>. QED BY <3>1 DEF StepClass
    <2>2. CASE SaveValidation(h)
      <3>1. Reports
        BY <2>2 DEF SaveValidation, Reports
      <3>. QED BY <3>1 DEF StepClass
    <2>3. CASE CreatePlaytestVersion(h)
      <3>1. Editable
        BY <2>3 DEF CreatePlaytestVersion
      <3>. QED BY <2>3, <3>1, CreateMakes DEF StepClass
    <2>4. CASE Publish(h)
      BY <2>4, PublishReleases DEF StepClass
    <2>. QED BY <1>3, <2>1, <2>2, <2>3, <2>4 DEF HandlerStep
  <1>4. CASE StoryStep
    BY <1>4 DEF StoryStep, StepClass
  <1>. QED BY <1>1, <1>2, <1>3, <1>4 DEF Next

\* One case per class of step.
LEMMA ByClass ==
  ASSUME StepClass, NEW Goal,
         Revised => Goal,
         \A old \in SUBSET Revisions : Prune(old) => Goal,
         Reports => Goal,
         \A v \in Versions, kind \in {"playtest", "release"}, n \in Nat, q \in Requests :
            Makes(v, kind, n, q) => Goal,
         UNCHANGED <<draft, history, reports, versions>> => Goal
  PROVE  Goal
  <1>1. ASSUME OnlyHandlers PROVE Goal
    BY <1>1 DEF OnlyHandlers
  <1>2. ASSUME NEW c \in Campaigns, NEW v \in Versions, StartPlaytest(c, v) PROVE Goal
    BY <1>2 DEF StartPlaytest
  <1>3. ASSUME NEW c \in Campaigns, FinishPlaytest(c) PROVE Goal
    BY <1>3 DEF FinishPlaytest
  <1>4. ASSUME NEW lifecycle, NEW public, Settings(lifecycle, public) PROVE Goal
    BY <1>4 DEF Settings
  <1>5. ASSUME NEW blocked, Moderate(blocked) PROVE Goal
    BY <1>5 DEF Moderate
  <1>6. ASSUME NEW v \in Versions, NEW n \in Nat, NEW q \in Requests, Releases(v, n, q) PROVE Goal
    BY <1>6 DEF Releases
  <1>. QED BY <1>1, <1>2, <1>3, <1>4, <1>5, <1>6 DEF StepClass

-----------------------------------------------------------------------------
(* A version is the revision it names *)

LEMMA IsItsRevisionStep ==
  ASSUME Typed, VersionIsItsRevision, StepClass
  PROVE  VersionIsItsRevision'
  <1>. DEFINE Agrees(v) ==
                 versions[v].kind # "absent" =>
                    /\ history[versions[v].revision] # Gone
                    /\ versions[v].scenario = Scenario[history[versions[v].revision]]
                    /\ versions[v].about = About[history[versions[v].revision]]
  <1>0. /\ \A v \in Versions : versions[v].kind # "absent" => versions[v].revision \in Revisions
        /\ \A p \in reports : p.revision \in Revisions /\ p.content \in Drafts
    <2>1. \A v \in Versions : versions[v].kind # "absent" => versions[v] \in MadeVersion
      BY DEF Typed, RowsInv, NoRow
    <2>2. reports \subseteq Report
      BY DEF Typed, TypeOK
    <2>. QED BY <2>1, <2>2 DEF MadeVersion, Report
  <1>1. ASSUME Revised PROVE VersionIsItsRevision'
    <2>. PICK content \in Drafts : Revise(content)
      BY <1>1 DEF Revised
    <2>1. ASSUME NEW r \in Revisions, history[r] # Gone PROVE history'[r] = history[r]
      <3>1. r <= draft.revision /\ draft.revision \in Nat /\ r \in Nat
        BY <2>1, DraftIs DEF Typed, HistoryInv, Revisions
      <3>. QED BY <3>1 DEF Revise, Typed, TypeOK
    <2>2. versions' = versions /\ reports' = reports
      BY <1>1 DEF Revised
    <2>3. \A p \in reports : history[p.revision] # Gone
      BY <1>0 DEF VersionIsItsRevision
    <2>. QED BY <1>0, <2>1, <2>2, <2>3 DEF VersionIsItsRevision
  <1>2. ASSUME NEW old \in SUBSET Revisions, Prune(old) PROVE VersionIsItsRevision'
    <2>1. /\ \A r \in Revisions \ old : history'[r] = history[r]
          /\ versions' = versions /\ reports' = reports
      BY <1>2 DEF Prune
    <2>2. /\ \A v \in Versions : versions[v].revision \notin old
          /\ \A p \in reports : p.revision \notin old
      BY <1>2 DEF Prune, Unreferenced
    <2>. QED BY <1>0, <2>1, <2>2 DEF VersionIsItsRevision
  <1>3. ASSUME Reports PROVE VersionIsItsRevision'
    <2>1. history[draft.revision] = draft.content
      BY DEF Typed, HistoryInv
    <2>. QED BY <1>3, <2>1 DEF Reports, VersionIsItsRevision
  <1>4. ASSUME NEW v \in Versions, NEW kind \in {"playtest", "release"}, NEW n \in Nat,
               NEW q \in Requests, Makes(v, kind, n, q)
        PROVE  VersionIsItsRevision'
    <2>1. history[draft.revision] = draft.content /\ draft.content \in Drafts
      BY DraftIs DEF Typed, HistoryInv
    <2>2. ASSUME NEW w \in Versions, versions'[w].kind # "absent"
          PROVE  /\ history'[versions'[w].revision] # Gone
                 /\ versions'[w].scenario = Scenario[history'[versions'[w].revision]]
                 /\ versions'[w].about = About[history'[versions'[w].revision]]
      <3>1. CASE w = v
        BY <1>4, <2>1, <3>1 DEF Makes, Typed, TypeOK
      <3>2. CASE w # v
        <4>1. versions'[w] = versions[w] /\ history' = history
          BY <1>4, <3>2 DEF Makes, Typed, TypeOK
        <4>. QED BY <2>2, <4>1 DEF VersionIsItsRevision
      <3>. QED BY <3>1, <3>2
    <2>3. \A p \in reports' : history'[p.revision] = p.content
      BY <1>4 DEF Makes, VersionIsItsRevision
    <2>. QED BY <2>2, <2>3 DEF VersionIsItsRevision
  <1>5. ASSUME UNCHANGED <<draft, history, reports, versions>> PROVE VersionIsItsRevision'
    BY <1>5 DEF VersionIsItsRevision
  <1>. QED BY <1>1, <1>2, <1>3, <1>4, <1>5, ByClass

\* A version is the revision it names, and no pruning takes away what a version
\* or a report was made of.
THEOREM VersionsCorrect == Spec => []VersionIsItsRevision
  <1>1. Init => VersionIsItsRevision
    BY DEF Init, VersionIsItsRevision, NoRow
  <1>2. Typed /\ VersionIsItsRevision /\ [Next]_vars => VersionIsItsRevision'
    BY StepClasses, IsItsRevisionStep
  <1>. QED BY <1>1, <1>2, TypedAlways, PTL DEF Spec

-----------------------------------------------------------------------------
(* One version per request, and release numbers *)

LEMMA MadeChanges ==
  ASSUME Typed, NEW v \in Versions, NEW kind, NEW n, NEW q, Makes(v, kind, n, q)
  PROVE  /\ \A w \in Versions \ {v} : versions'[w] = versions[w]
         /\ versions'[v].kind = kind /\ versions'[v].number = n /\ versions'[v].request = q
         /\ versions'[v].revision = draft.revision
         /\ versions'[v].scenario = Scenario[draft.content]
         /\ versions'[v].about = About[draft.content]
  BY DEF Makes, Typed, TypeOK

LEMMA VersionsGrow ==
  ASSUME Typed, StepClass
  PROVE  \/ versions' = versions
         \/ \E v \in Versions, kind \in {"playtest", "release"}, n \in Nat, q \in Requests :
               Makes(v, kind, n, q)
  <1>. DEFINE Goal == \/ versions' = versions
                      \/ \E v \in Versions, kind \in {"playtest", "release"}, n \in Nat,
                            q \in Requests : Makes(v, kind, n, q)
  <1>1. Revised => Goal
    BY DEF Revised
  <1>2. \A old \in SUBSET Revisions : Prune(old) => Goal
    BY DEF Prune
  <1>3. Reports => Goal
    BY DEF Reports
  <1>4. \A v \in Versions, kind \in {"playtest", "release"}, n \in Nat, q \in Requests :
            Makes(v, kind, n, q) => Goal
    OBVIOUS
  <1>5. UNCHANGED <<draft, history, reports, versions>> => Goal
    OBVIOUS
  <1>. HIDE DEF Goal
  <1>6. Goal
    BY <1>1, <1>2, <1>3, <1>4, <1>5, ByClass
  <1>. QED BY <1>6 DEF Goal

\* A request makes at most one version.
THEOREM OneVersionCorrect == Spec => []OneVersionPerRequest
  <1>1. Init => OneVersionPerRequest
    BY DEF Init, OneVersionPerRequest, NoRow
  <1>2. Typed /\ OneVersionPerRequest /\ [Next]_vars => OneVersionPerRequest'
    <2>. SUFFICES ASSUME Typed, OneVersionPerRequest, [Next]_vars PROVE OneVersionPerRequest'
      OBVIOUS
    <2>1. CASE versions' = versions
      BY <2>1 DEF OneVersionPerRequest
    <2>2. ASSUME NEW v \in Versions, NEW kind \in {"playtest", "release"}, NEW n \in Nat,
                 NEW q \in Requests, Makes(v, kind, n, q)
          PROVE  OneVersionPerRequest'
      <3>1. \A w \in Versions : versions[w].request # q
        BY <2>2 DEF Makes, IsNew
      <3>2. /\ \A w \in Versions \ {v} : versions'[w] = versions[w]
            /\ versions'[v].request = q
        BY <2>2, MadeChanges
      <3>. QED BY <3>1, <3>2 DEF OneVersionPerRequest
    <2>. QED BY <2>1, <2>2, StepClasses, VersionsGrow
  <1>. QED BY <1>1, <1>2, TypedAlways, PTL DEF Spec

\* The same by what becomes of the current release.
LEMMA CurrentMoves ==
  ASSUME Typed, StepClass
  PROVE  \/ versions' = versions /\ story'.current = story.current
         \/ \E v \in Versions, q \in Requests : Makes(v, "playtest", 0, q) /\ UNCHANGED story
         \/ \E v \in Versions, n \in Nat, q \in Requests : Releases(v, n, q)
  <1>0. story \in Story
    BY DEF Typed, TypeOK
  <1>1. CASE Revised \/ (\E old \in SUBSET Revisions : Prune(old)) \/ OnlyHandlers \/ Reports
    BY <1>1 DEF Revised, Prune, OnlyHandlers, Reports
  <1>2. CASE (\E c \in Campaigns, v \in Versions : StartPlaytest(c, v))
             \/ (\E c \in Campaigns : FinishPlaytest(c))
    BY <1>2 DEF StartPlaytest, FinishPlaytest
  <1>3. ASSUME NEW lifecycle, NEW public, Settings(lifecycle, public)
        PROVE  versions' = versions /\ story'.current = story.current
    BY <1>0, <1>3 DEF Settings, Story
  <1>4. ASSUME NEW blocked, Moderate(blocked)
        PROVE  versions' = versions /\ story'.current = story.current
    BY <1>0, <1>4 DEF Moderate, Story
  <1>. QED BY <1>1, <1>2, <1>3, <1>4 DEF StepClass

\* Release numbers never repeat and the current release has the highest.
THEOREM NewestCorrect == Spec => []CurrentIsNewest
  <1>1. Init => CurrentIsNewest
    BY DEF Init, CurrentIsNewest, Versioned, NoRow
  <1>2. Typed /\ CurrentIsNewest /\ [Next]_vars => CurrentIsNewest'
    <2>. SUFFICES ASSUME Typed, CurrentIsNewest, [Next]_vars PROVE CurrentIsNewest'
      OBVIOUS
    <2>1. CASE versions' = versions /\ story'.current = story.current
      BY <2>1 DEF CurrentIsNewest, Versioned
    <2>2. ASSUME NEW v \in Versions, NEW q \in Requests, Makes(v, "playtest", 0, q),
                 UNCHANGED story
          PROVE  CurrentIsNewest'
      <3>1. /\ \A w \in Versions \ {v} : versions'[w] = versions[w]
            /\ versions'[v].kind = "playtest"
        BY <2>2, MadeChanges
      <3>2. v \notin Versioned("release")
        BY <2>2 DEF Makes, Versioned, NoRow
      <3>3. Versioned("release")' = Versioned("release")
        BY <3>1, <3>2 DEF Versioned
      <3>4. \A w \in Versioned("release") : versions'[w] = versions[w]
        BY <3>1, <3>2 DEF Versioned
      <3>. QED BY <2>2, <3>3, <3>4 DEF CurrentIsNewest
    <2>3. ASSUME NEW v \in Versions, NEW n \in Nat, NEW q \in Requests, Releases(v, n, q)
          PROVE  CurrentIsNewest'
      <3>1. /\ \A w \in Versions \ {v} : versions'[w] = versions[w]
            /\ versions'[v].kind = "release" /\ versions'[v].number = n
        BY <2>3, MadeChanges DEF Releases
      <3>2. \A w \in Versions : versions[w].number < n /\ versions[w].number \in Nat
        BY <2>3, NumbersAreNaturals DEF Releases, NumberAfterLast
      <3>3. story'.current = v
        BY <2>3 DEF Releases, Typed, TypeOK, Story
      <3>4. \A w, x \in Versioned("release")' : versions'[w].number = versions'[x].number => w = x
        <4>. SUFFICES ASSUME NEW w \in Versions, NEW x \in Versions,
                             versions'[w].kind = "release", versions'[x].kind = "release",
                             versions'[w].number = versions'[x].number
                      PROVE  w = x
          BY DEF Versioned
        <4>1. CASE w # v /\ x # v
          BY <3>1, <4>1 DEF CurrentIsNewest, Versioned
        <4>2. CASE w = v \/ x = v
          BY <3>1, <3>2, <4>2
        <4>. QED BY <4>1, <4>2
      <3>5. \A w \in Versions : versions'[w].number <= n
        BY <3>1, <3>2
      <3>. QED BY <3>1, <3>3, <3>4, <3>5 DEF CurrentIsNewest, Versioned
    <2>. QED BY <2>1, <2>2, <2>3, StepClasses, CurrentMoves
  <1>. QED BY <1>1, <1>2, TypedAlways, PTL DEF Spec

-----------------------------------------------------------------------------
(* What is released was played *)

\* A completed playtest stays one, of the same definition.
LEMMA CompletedStays ==
  ASSUME Typed, StepClass, NEW c \in Campaigns, runs[c].status = "completed"
  PROVE  /\ runs'[c] = runs[c]
         /\ runs[c].version \in Versioned("playtest")
         /\ versions'[runs[c].version] = versions[runs[c].version]
  <1>1. runs'[c] = runs[c]
    <2>1. CASE UNCHANGED runs
      BY <2>1
    <2>2. ASSUME NEW d \in Campaigns, NEW v \in Versions, StartPlaytest(d, v)
          PROVE  runs'[c] = runs[c]
      BY <2>2 DEF StartPlaytest, Typed, TypeOK
    <2>3. ASSUME NEW d \in Campaigns, FinishPlaytest(d) PROVE runs'[c] = runs[c]
      BY <2>3 DEF FinishPlaytest, Typed, TypeOK
    <2>. QED BY <2>1, <2>2, <2>3
             DEF StepClass, Revised, Prune, OnlyHandlers, Reports, Releases, Makes,
                 Settings, Moderate
  <1>2. runs[c].version \in Versioned("playtest")
    BY DEF Typed, RunInv
  <1>3. versions'[runs[c].version] = versions[runs[c].version]
    <2>1. ASSUME NEW v \in Versions, NEW kind, NEW n, NEW q, Makes(v, kind, n, q)
          PROVE  versions'[runs[c].version] = versions[runs[c].version]
      <3>1. runs[c].version # v
        BY <1>2, <2>1 DEF Makes, Versioned, NoRow
      <3>. QED BY <1>2, <2>1, <3>1, MadeChanges DEF Versioned
    <2>. QED BY <2>1, VersionsGrow
  <1>. QED BY <1>1, <1>2, <1>3

LEMMA CompletedGrows ==
  ASSUME Typed, StepClass
  PROVE  Completed \subseteq Completed'
  <1>. SUFFICES ASSUME NEW c \in Campaigns, runs[c].status = "completed"
                PROVE  versions[runs[c].version].scenario \in Completed'
    BY DEF Completed
  <1>. QED BY CompletedStays DEF Completed

LEMMA PlayedIsCompleted == ASSUME NEW s, Played(s) PROVE s \in Completed
  BY DEF Played, Completed

LEMMA ReleasedStep ==
  ASSUME Typed, ReleasedWasPlayed, StepClass
  PROVE  ReleasedWasPlayed'
  <1>1. reports \subseteq reports'
    BY DEF StepClass, Revised, Prune, OnlyHandlers, Reports, Releases, Makes,
           Settings, Moderate, StartPlaytest, FinishPlaytest
  <1>2. ASSUME NEW w \in Versions, versions'[w].kind = "release"
        PROVE  /\ versions'[w].scenario \in Valid
               /\ \E p \in reports' : p.revision = versions'[w].revision
               /\ versions'[w].scenario \in Completed'
    <2>1. CASE versions'[w] = versions[w]
      BY <1>1, <1>2, <2>1, CompletedGrows DEF ReleasedWasPlayed, Versioned
    <2>2. CASE versions'[w] # versions[w]
      <3>1. \E v \in Versions, n \in Nat, q \in Requests : Releases(v, n, q) /\ w = v
        <4>1. ASSUME NEW v \in Versions, NEW q \in Requests, Makes(v, "playtest", 0, q)
              PROVE  FALSE
          BY <1>2, <2>2, <4>1, MadeChanges
        <4>2. ASSUME NEW v \in Versions, NEW n \in Nat, NEW q \in Requests, Releases(v, n, q)
              PROVE  w = v
          BY <2>2, <4>2, MadeChanges DEF Releases
        <4>. QED BY <2>2, <4>1, <4>2, CurrentMoves
      <3>2. PICK n \in Nat, q \in Requests : Releases(w, n, q)
        BY <3>1
      <3>3. /\ versions'[w].revision = draft.revision
            /\ versions'[w].scenario = Scenario[draft.content]
        BY <3>2, MadeChanges DEF Releases
      <3>4. /\ Scenario[draft.content] \in Valid /\ Scenario[draft.content] \in Completed
            /\ \E p \in reports : p.revision = draft.revision
        BY <3>2, PlayedIsCompleted DEF Releases
      <3>. QED BY <1>1, <3>3, <3>4, CompletedGrows
    <2>. QED BY <2>1, <2>2
  <1>. QED BY <1>2 DEF ReleasedWasPlayed, Versioned

\* Whatever is released was validated in that revision, and its author had
\* completed a playtest of the same definition.
THEOREM ReleasedCorrect == Spec => []ReleasedWasPlayed
  <1>1. Init => ReleasedWasPlayed
    BY DEF Init, ReleasedWasPlayed, Versioned, NoRow
  <1>2. Typed /\ ReleasedWasPlayed /\ [Next]_vars => ReleasedWasPlayed'
    BY StepClasses, ReleasedStep
  <1>. QED BY <1>1, <1>2, TypedAlways, PTL DEF Spec

-----------------------------------------------------------------------------
(* Stopped stories *)

LEMMA FrozenStep ==
  ASSUME Typed, StepClass, story.lifecycle \in {"blocked", "archived"}
  PROVE  UNCHANGED <<draft, reports, versions, story.current>>
  <1>1. story \in Story /\ ~Editable /\ story.lifecycle # "active"
    BY DEF Editable, Typed, TypeOK
  <1>2. ASSUME NEW lifecycle, NEW public, Settings(lifecycle, public)
        PROVE  UNCHANGED <<draft, reports, versions, story.current>>
    BY <1>1, <1>2 DEF Settings, Story
  <1>3. ASSUME NEW blocked, Moderate(blocked)
        PROVE  UNCHANGED <<draft, reports, versions, story.current>>
    BY <1>1, <1>3 DEF Moderate, Story
  <1>4. CASE \/ \E old \in SUBSET Revisions : Prune(old)
             \/ OnlyHandlers
             \/ \E c \in Campaigns, v \in Versions : StartPlaytest(c, v)
             \/ \E c \in Campaigns : FinishPlaytest(c)
    BY <1>4 DEF Prune, OnlyHandlers, StartPlaytest, FinishPlaytest
  <1>. QED BY <1>1, <1>2, <1>3, <1>4 DEF StepClass, Revised, Reports, Releases

\* No step, of however old a call, changes a stopped or archived story's draft,
\* reports, versions or release.
THEOREM FrozenCorrect == Spec => StoppedStoryIsFrozen
  <1>1. Typed /\ [Next]_vars =>
          [story.lifecycle \in {"blocked", "archived"} =>
             UNCHANGED <<draft, reports, versions, story.current>>]_vars
    BY StepClasses, FrozenStep
  <1>. QED BY <1>1, TypedAlways, PTL DEF Spec, StoppedStoryIsFrozen

-----------------------------------------------------------------------------
(* Publication as the public sees it *)

CurrentInv == story.current = NoVersion \/ story.current \in Versioned("release")

LEMMA CurrentStep ==
  ASSUME Typed, CurrentInv, StepClass
  PROVE  CurrentInv'
  <1>1. CASE versions' = versions /\ story'.current = story.current
    BY <1>1 DEF CurrentInv, Versioned
  <1>2. ASSUME NEW v \in Versions, NEW q \in Requests, Makes(v, "playtest", 0, q),
               UNCHANGED story
        PROVE  CurrentInv'
    <2>1. v \notin Versioned("release")
      BY <1>2 DEF Makes, Versioned, NoRow
    <2>2. \A w \in Versions \ {v} : versions'[w] = versions[w]
      BY <1>2, MadeChanges
    <2>. QED BY <1>2, <2>1, <2>2 DEF CurrentInv, Versioned
  <1>3. ASSUME NEW v \in Versions, NEW n \in Nat, NEW q \in Requests, Releases(v, n, q)
        PROVE  CurrentInv'
    <2>1. story'.current = v
      BY <1>3 DEF Releases, Typed, TypeOK, Story
    <2>2. versions'[v].kind = "release"
      BY <1>3, MadeChanges DEF Releases
    <2>. QED BY <2>1, <2>2 DEF CurrentInv, Versioned
  <1>. QED BY <1>1, <1>2, <1>3, CurrentMoves

PublicInv == Typed /\ CurrentInv

LEMMA PublicAlways == Spec => []PublicInv
  <1>1. Init => PublicInv
    BY TypedInit DEF PublicInv, Init, CurrentInv
  <1>2. PublicInv /\ [Next]_vars => PublicInv'
    BY NextTyped, StepClasses, CurrentStep DEF PublicInv
  <1>. QED BY <1>1, <1>2, PTL DEF Spec

Seen == <<Standing, Release, Listed, Completed>>

\* A step that only adds versions shows nothing.
LEMMA MakingIsUnseen ==
  ASSUME Typed, CurrentInv, NEW v \in Versions, NEW kind, NEW n, NEW q, Makes(v, kind, n, q),
         StepClass
  PROVE  /\ Completed' = Completed
         /\ story' = story => Release' = Release /\ Listed' = Listed /\ Standing' = Standing
  <1>1. runs' = runs
    BY DEF Makes
  <1>2. Completed' = Completed
    BY <1>1, CompletedStays DEF Completed
  <1>3. ASSUME story' = story
        PROVE  Release' = Release /\ Listed' = Listed /\ Standing' = Standing
    <2>1. story.current # NoVersion => versions'[story.current] = versions[story.current]
      <3>1. v \notin Versioned("release")
        BY DEF Makes, Versioned, NoRow
      <3>. QED BY <3>1, MadeChanges DEF CurrentInv, Versioned
    <2>. QED BY <1>3, <2>1 DEF Release, Listed, Standing
  <1>. QED BY <1>2, <1>3

LEMMA ReleaseIsSomething ==
  ASSUME Typed, CurrentInv, story.current # NoVersion
  PROVE  Release # Contract!Nothing
  <1>1. versions[story.current] \in MadeVersion
    BY DEF CurrentInv, Versioned, Typed, RowsInv, NoRow
  <1>2. versions[story.current].scenario \in Scenarios
    BY <1>1 DEF MadeVersion
  <1>. QED BY <1>2 DEF Release, Contract!Nothing

LEMMA FinishPlays ==
  ASSUME Typed, NEW c \in Campaigns, FinishPlaytest(c)
  PROVE  \E s \in Scenarios : Contract!Play(s)
  <1>. DEFINE s == versions[runs[c].version].scenario
  <1>1. runs[c].version \in Versioned("playtest")
    BY DEF FinishPlaytest, Typed, RunInv
  <1>2. s \in Scenarios
    <2>1. versions[runs[c].version] \in MadeVersion
      BY <1>1 DEF Versioned, Typed, RowsInv, NoRow
    <2>. QED BY <2>1 DEF MadeVersion
  <1>3. /\ versions' = versions /\ story' = story
        /\ runs' = [runs EXCEPT ![c].status = "completed"]
    BY DEF FinishPlaytest
  <1>4. /\ runs'[c].status = "completed" /\ runs'[c].version = runs[c].version
        /\ \A d \in Campaigns \ {c} : runs'[d] = runs[d]
    BY <1>3 DEF Typed, TypeOK, Run
  <1>5. Completed' = Completed \cup {s}
    BY <1>3, <1>4 DEF Completed
  <1>6. Standing # "stopped"
    BY DEF FinishPlaytest, Standing
  <1>7. Standing' = Standing /\ Release' = Release /\ Listed' = Listed
    BY <1>3 DEF Standing, Release, Listed
  <1>. QED BY <1>2, <1>5, <1>6, <1>7 DEF Contract!Play

LEMMA StartIsUnseen ==
  ASSUME Typed, NEW c \in Campaigns, NEW v \in Versions, StartPlaytest(c, v)
  PROVE  UNCHANGED Seen
  <1>1. /\ versions' = versions /\ story' = story
        /\ runs[c].status = "absent" /\ runs'[c].status = "active"
        /\ \A d \in Campaigns \ {c} : runs'[d] = runs[d]
    BY DEF StartPlaytest, Typed, TypeOK
  <1>2. Completed' = Completed
    BY <1>1 DEF Completed
  <1>. QED BY <1>1, <1>2 DEF Seen, Standing, Release, Listed

LEMMA ReleasePublishes ==
  ASSUME Typed, CurrentInv, StepClass,
         NEW v \in Versions, NEW n \in Nat, NEW q \in Requests, Releases(v, n, q)
  PROVE  \E s \in Scenarios, m \in Metadata : Contract!Publish(s, m)
  <1>. DEFINE s == Scenario[draft.content]
  <1>. DEFINE m == About[draft.content]
  <1>1. /\ s \in Scenarios /\ m \in Metadata /\ s \in Valid /\ s \in Completed
    BY DraftIs, PlayedIsCompleted DEF Releases
  <1>2. Completed' = Completed
    BY MakingIsUnseen DEF Releases
  <1>3. story'.current = v /\ story'.lifecycle = "active" /\ story.lifecycle = "active"
    BY DEF Releases, Typed, TypeOK, Story
  <1>4. Release' = [scenario |-> s, about |-> m]
    <2>1. versions'[v].scenario = s /\ versions'[v].about = m
      BY MadeChanges DEF Releases
    <2>. QED BY <1>3, <2>1 DEF Release
  <1>5. Standing = "open" /\ Standing' = "open"
    BY <1>3 DEF Standing
  <1>6. Listed' \in BOOLEAN
    BY DEF Listed
  <1>. QED BY <1>1, <1>2, <1>4, <1>5, <1>6 DEF Contract!Publish

LEMMA SettingsSettle ==
  ASSUME Typed, CurrentInv, NEW lifecycle \in {"active", "withdrawn", "archived"},
         NEW public \in BOOLEAN, Settings(lifecycle, public)
  PROVE  Contract!Settle
  <1>1. /\ story'.current = story.current /\ story'.lifecycle = lifecycle
        /\ versions' = versions /\ runs' = runs /\ story.lifecycle # "blocked"
    BY DEF Settings, Typed, TypeOK, Story
  <1>2. Release' = Release /\ Completed' = Completed
    BY <1>1 DEF Release, Completed
  <1>3. Standing # "stopped" /\ Standing' \in {"open", "closed"}
    BY <1>1 DEF Standing
  <1>4. Listed' => Standing' = "open" /\ Release # Contract!Nothing
    BY <1>1, ReleaseIsSomething DEF Listed, Standing
  <1>5. Listed' \in BOOLEAN
    BY DEF Listed
  <1>. QED BY <1>2, <1>3, <1>4, <1>5 DEF Contract!Settle

LEMMA ModerateStops ==
  ASSUME Typed, NEW blocked \in BOOLEAN, Moderate(blocked)
  PROVE  Contract!Stop \/ Contract!Lift
  <1>1. /\ story'.current = story.current
        /\ story'.lifecycle = IF blocked THEN "blocked" ELSE "withdrawn"
        /\ versions' = versions /\ runs' = runs
    BY DEF Moderate, Lifted, Typed, TypeOK, Story
  <1>2. Release' = Release /\ Completed' = Completed
    BY <1>1 DEF Release, Completed
  <1>3. Listed' = FALSE
    BY <1>1 DEF Listed
  <1>4. Standing' = IF blocked THEN "stopped" ELSE "closed"
    BY <1>1 DEF Standing
  <1>. QED BY <1>2, <1>3, <1>4 DEF Contract!Stop, Contract!Lift

LEMMA ContractStep ==
  ASSUME PublicInv, StepClass
  PROVE  [Contract!Next]_Seen
  <1>0. Typed /\ CurrentInv
    BY DEF PublicInv
  <1>1. CASE Revised \/ (\E old \in SUBSET Revisions : Prune(old)) \/ OnlyHandlers \/ Reports
    <2>1. story' = story /\ versions' = versions /\ runs' = runs
      BY <1>1 DEF Revised, Prune, OnlyHandlers, Reports
    <2>. QED BY <2>1 DEF Seen, Standing, Release, Listed, Completed
  <1>2. ASSUME NEW v \in Versions, NEW q \in Requests, Makes(v, "playtest", 0, q),
               UNCHANGED story
        PROVE  UNCHANGED Seen
    BY <1>0, <1>2, MakingIsUnseen DEF Seen
  <1>3. ASSUME NEW v \in Versions, NEW n \in Nat, NEW q \in Requests, Releases(v, n, q)
        PROVE  Contract!Next
    BY <1>0, <1>3, ReleasePublishes DEF Contract!Next
  <1>4. ASSUME NEW c \in Campaigns, NEW v \in Versions, StartPlaytest(c, v)
        PROVE  UNCHANGED Seen
    BY <1>0, <1>4, StartIsUnseen
  <1>5. ASSUME NEW c \in Campaigns, FinishPlaytest(c) PROVE Contract!Next
    BY <1>0, <1>5, FinishPlays DEF Contract!Next
  <1>6. ASSUME NEW lifecycle \in {"active", "withdrawn", "archived"},
               NEW public \in BOOLEAN, Settings(lifecycle, public)
        PROVE  Contract!Next
    BY <1>0, <1>6, SettingsSettle DEF Contract!Next
  <1>7. ASSUME NEW blocked \in BOOLEAN, Moderate(blocked) PROVE Contract!Next
    BY <1>0, <1>7, ModerateStops DEF Contract!Next
  <1>. QED BY <1>1, <1>2, <1>3, <1>4, <1>5, <1>6, <1>7 DEF StepClass

\* Publication in several transactions looks to the public like one step of a
\* simpler machine.
THEOREM StoryContractImplemented == Spec => ImplementsStoryContract
  <1>1. Init => Contract!Init
    BY DEF Init, Contract!Init, Contract!Nothing, Standing, Release, Listed, Completed
  <1>2. PublicInv /\ [Next]_vars => [Contract!Next]_Seen
    BY StepClasses, ContractStep DEF PublicInv
  <1>3. PublicInv /\ [Next]_vars => [Contract!Next]_(Contract!cvars)
    BY <1>2 DEF Seen, Contract!cvars
  <1>. QED BY <1>1, <1>3, PublicAlways, PTL DEF Spec, ImplementsStoryContract, Contract!Spec
=============================================================================
