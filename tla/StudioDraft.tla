----------------------------- MODULE StudioDraft -----------------------------
(***************************************************************************)
(* Studio pages editing one stored configuration, beside the proxy that    *)
(* moves the active profile by itself (src/ui/config/studio-config-state,  *)
(* config-form-state, src/ui/hooks, src/server/config.ts, openai-proxy.ts).*)
(*                                                                         *)
(* versions[r] is the configuration of revision r.  A page reads snapshots *)
(* off its event stream in order, and its requests are answered on other   *)
(* connections, so an answer and a snapshot of the same commit arrive in   *)
(* either order.  A request carries what the page held when it was sent.   *)
(***************************************************************************)
EXTENDS ConfigProfiles

CONSTANTS
  Page,                 \* open Studio pages
  Routing,                 \* proxied requests whose upstream may move the pointer
  FirstConfig,          \* the configuration on disk at start
  LegacyDocument,       \* an export of the era before profile scopes
  Manual,               \* the Setting with auto_schedule off
  Mixes,                \* what meets in one behaviour: kinds of writes, edited
                        \* fields, and the bounds on requests and commits
  MaxDrafted            \* bound on edits

\* Both documents come from a CompactGate, and hold what one stores.
ASSUME DocumentAssumption ==
  /\ WellFormed(FirstConfig)
  /\ importConfig(LegacyDocument) = Refused \/ WellFormed(importConfig(LegacyDocument))

VARIABLES versions, pages, routings, reconciled, mix, drafted, sent
draftVars == <<versions, pages, routings, reconciled, mix, drafted, sent>>

Revision == Len(versions)
Stored == versions[Revision]
NoRequest == [kind |-> "none"]
NoAnswer == 0

-----------------------------------------------------------------------------
(* The form: secrets are never shown, so their boxes start blank. *)

\* A pool row shows the tail of its stored secret.
FormRoute(route) ==
  [url |-> route.url, key |-> Unset, preset |-> Unset, rest |-> route.rest,
   pool |-> [id \in DOMAIN route.pool |->
               [typed |-> Unset, tail |-> route.pool[id]]]]

formFromConfig(config) ==
  [route |-> [scope \in ConfigScope |-> FormRoute(config.route[scope])],
   settings |-> config.settings, importConflict |-> FALSE]

isFormDirty(config, form) == form # formFromConfig(config)

formToPatch(form) ==
  [route |-> [scope \in ConfigScope |->
     [url |-> form.route[scope].url, key |-> form.route[scope].key,
      rest |-> form.route[scope].rest, preset |-> form.route[scope].preset,
      pool |-> [id \in DOMAIN form.route[scope].pool |->
                  form.route[scope].pool[id].typed]]],
   settings |-> form.settings,
   profiles |-> [scope \in ConfigScope |-> Unset],
   active   |-> [scope \in ConfigScope |-> Kept]]

\* The saved scope is adopted whole, unless it was edited after the submission.
formAfterScopedProfileChange(draft, config, scope, submitted) ==
  IF draft.route[scope] # submitted.route[scope] THEN draft
  ELSE [draft EXCEPT !.route[scope] = formFromConfig(config).route[scope]]

\* After an import the form is the imported configuration, with what was edited
\* while it ran; an edited connection is kept but flagged, for its hidden
\* credential may have changed under the same URL.  Models and settings select no
\* credential (IMPORT_INDEPENDENT_FIELDS; `rest` stands for the models here).
ConnectionFields == {"url", "key", "preset", "pool"}
KeptEdit(draft, submitted, saved) == IF draft = submitted THEN saved ELSE draft
formAfterConfigImport(draft, submitted, config) ==
  LET saved == formFromConfig(config)
      kept(scope, field) ==
        KeptEdit(draft.route[scope][field], submitted.route[scope][field],
                 saved.route[scope][field])
      merged == [scope \in ConfigScope |->
                   [field \in DOMAIN saved.route[scope] |-> kept(scope, field)]]
  IN [route |-> merged,
      settings |-> KeptEdit(draft.settings, submitted.settings, saved.settings),
      importConflict |->
        \E scope \in ConfigScope : \E field \in ConnectionFields :
          merged[scope][field] # saved.route[scope][field]]

adoptImportedConnections(draft, config) ==
  LET saved == formFromConfig(config)
  IN [draft EXCEPT
        !.route = [scope \in ConfigScope |->
                     [saved.route[scope] EXCEPT !.rest = draft.route[scope].rest]],
        !.importConflict = FALSE]

-----------------------------------------------------------------------------
(* The page: `shown` is the revision of its baseline, formRevision the one its
   draft may replace, heard the last snapshot read off the stream.  Three fields
   are history: `mine`, the fields its operator edited or chose since the form
   last took them from a configuration; `refilled` of a request, the revision a
   snapshot filled the form with after it was sent; and `astray`, that an answer
   moved formRevision although a snapshot had filled the form with another
   revision, so that the form is not what formRevision says it is. *)

Overtaken(request) ==
  IF request.kind = "none" THEN request ELSE [request EXCEPT !.overtaken = TRUE]
Refilled(request, r) ==
  IF request.kind = "none" THEN request
  ELSE [request EXCEPT !.overtaken = TRUE, !.refilled = r]

replaceConfigAndForm(page, r) ==
  [page EXCEPT !.shown = r, !.formRevision = r, !.mine = {}, !.astray = FALSE,
               !.form = formFromConfig(versions[r]),
               !.request = Refilled(@, r)]

\* Variant: the draft is rebased on whatever snapshot comes in.
rebaseDraft(page, r) == [page EXCEPT !.shown = r, !.formRevision = r]

\* A foreign snapshot becomes the baseline and the draft stays.  The draft's
\* revision follows only if the snapshot moved nothing the form covers and the
\* draft was not in conflict already.
adoptBaselineKeepingDraft(page, r) ==
  LET touchesForm == isFormDirty(versions[r], formFromConfig(versions[page.shown]))
      conflicted  == page.formRevision # page.shown
  IN [page EXCEPT !.shown = r,
        !.formRevision = IF touchesForm \/ conflicted THEN @ ELSE r]

remoteConfig(page, r) ==
  IF isFormDirty(versions[page.shown], page.form)
  THEN adoptBaselineKeepingDraft(page, r) ELSE replaceConfigAndForm(page, r)

\* An answer puts the draft on a revision, whatever the form was filled from.
Rebased(page, r) ==
  [page EXCEPT !.formRevision = r,
               !.astray = @ \/ page.request.refilled \notin {NoAnswer, r}]
setConfig(page, r) == [Rebased(page, r) EXCEPT !.shown = r]

setForm(page, form) == [page EXCEPT !.form = form, !.request = Overtaken(@)]

\* The answer to our own patch: a form changed meanwhile sits on top of it.
commitConfig(page, r) ==
  IF page.request.overtaken THEN setConfig(page, r) ELSE replaceConfigAndForm(page, r)

SettingsField == <<"settings", "all">>
ScopeFields(scope) == {scope} \X {"url", "key", "pool", "rest"}
AdoptedFields == ConfigScope \X {"url", "key", "pool"}
FormFields == {SettingsField} \cup UNION {ScopeFields(scope) : scope \in ConfigScope}

\* Fields adopted from the configuration the draft is based on are nobody's edit;
\* otherwise they are the operator's choice.
Adopted(page, form, fields, based) ==
  [setForm(page, form) EXCEPT
     !.mine = IF based THEN @ \ fields ELSE @ \cup fields]

\* Applying a profile takes over its scope and resolves nothing else: edits
\* that were in conflict when it was sent stay so.
applyProfileConfig(page, r, scope) ==
  LET base     == page.request
      form     == formAfterScopedProfileChange(page.form, versions[r], scope, page.form)
      before   == formFromConfig(versions[base.shown])
      baseline == formAfterScopedProfileChange(before, versions[r], scope, before)
      conflict == \/ base.revision # base.shown
                  \/ isFormDirty(versions[r], baseline)
      revision == IF conflict /\ isFormDirty(versions[r], form)
                  THEN base.revision ELSE r
  IN Adopted([Rebased(page, revision) EXCEPT !.shown = r], form, ScopeFields(scope),
             revision = r)

-----------------------------------------------------------------------------
(* What the operator does on a page. *)

PoolEdits(pool) ==
  {[id \in DOMAIN pool \ {gone} |-> pool[id]] : gone \in DOMAIN pool}
    \cup UNION {{[id \in DOMAIN pool \cup {new} |->
                   IF id = new THEN [typed |-> key, tail |-> NoSecret] ELSE pool[id]] :
                 key \in Secret} : new \in PoolId \ DOMAIN pool}

RouteEdits(row) ==
  {<<"url", url>> : url \in Url \ {row.url}}
    \cup {<<"rest", rest>> : rest \in Rest \ {row.rest}}
    \cup {<<"key", key>> : key \in Credential \ {row.key}}
    \cup {<<"pool", pool>> : pool \in PoolEdits(row.pool)}

DraftsOn(page, form, fields) ==
  /\ fields \subseteq mix.edited
  /\ drafted < MaxDrafted
  /\ drafted' = drafted + 1
  /\ pages' = [pages EXCEPT ![page] =
                 [setForm(pages[page], form) EXCEPT !.mine = @ \cup fields]]
  /\ UNCHANGED <<versions, routings, reconciled, sent, mix>>

EditsRoute(page) ==
  \E scope \in ConfigScope :
    \E edit \in RouteEdits(pages[page].form.route[scope]) :
      DraftsOn(page, [pages[page].form EXCEPT !.route[scope][edit[1]] = edit[2]],
               {<<scope, edit[1]>>})

\* Picking a saved URL picks its credential with it.
PicksPreset(page) ==
  \E scope \in ConfigScope :
    \E url \in DOMAIN versions[pages[page].shown].presets[scope] :
      DraftsOn(page,
        [pages[page].form EXCEPT !.route[scope].url = url,
                                 !.route[scope].preset = url,
                                 !.route[scope].key = Unset],
        {<<scope, "url">>, <<scope, "key">>})

EditsSettings(page) ==
  \E setting \in Setting \ {pages[page].form.settings} :
    DraftsOn(page, [pages[page].form EXCEPT !.settings = setting], {SettingsField})

\* A request carries the page as it was when it was sent.
Sent(page, kind, revision, mine) ==
  [page EXCEPT !.formRevision = revision, !.mine = mine,
     !.request = [kind |-> kind, revision |-> revision, submitted |-> page.form,
                  shown |-> page.shown, overtaken |-> FALSE, answer |-> NoAnswer,
                  mine |-> mine, astray |-> page.astray, refilled |-> NoAnswer]]
Sends(page, kind, revision, mine) ==
  /\ kind \in mix.kinds
  /\ pages[page].request = NoRequest
  /\ sent < mix.sent
  /\ sent' = sent + 1
  /\ pages' = [pages EXCEPT ![page] = Sent(@, kind, revision, mine)]
  /\ UNCHANGED <<versions, routings, reconciled, drafted, mix>>

\* A draft travels with the revision it was built from.
SubmitsDraft(page) ==
  /\ ~pages[page].form.importConflict
  /\ \E kind \in {"patch", "save", "update"} :
       Sends(page, kind, pages[page].formRevision, pages[page].mine)

\* The operator read the conflict and sends the draft over what is shown: all of
\* it is his choice.
overrideSaveConflict(page) ==
  /\ ~pages[page].form.importConflict
  /\ pages[page].formRevision # pages[page].shown
  /\ Sends(page, "override", pages[page].shown, FormFields)

\* What carries no draft carries no revision; the page keeps its own.
ListKinds == {"apply", "delete", "duplicate", "copy", "reorder", "import", "load"}
OperatesOnList(page) ==
  \E kind \in ListKinds :
    Sends(page, kind, pages[page].formRevision, pages[page].mine)

\* An import conflict is settled by taking the imported connections; while a
\* request is under way this too is an edit the answer does not overwrite.
AdoptsImport(page) ==
  /\ pages[page].form.importConflict
  /\ pages' = [pages EXCEPT ![page] =
       Adopted(@, adoptImportedConnections(@.form, versions[@.shown]), AdoptedFields,
               @.request = NoRequest /\ @.formRevision = @.shown)]
  /\ UNCHANGED <<versions, routings, reconciled, drafted, sent, mix>>

\* The next snapshot of the event stream.
Hears(page) ==
  /\ pages[page].heard < Revision
  /\ pages' = [pages EXCEPT ![page] =
       [remoteConfig(@, @.heard + 1) EXCEPT !.heard = pages[page].heard + 1]]
  /\ UNCHANGED <<versions, routings, reconciled, drafted, sent, mix>>

-----------------------------------------------------------------------------
(* The store works its queue off one mutation at a time, checking the revision
   there.  The bound mix.versions ends the instance, not the program. *)

FreshId(name) == <<name, Revision>>
Commits(next) ==
  /\ Revision < mix.versions
  /\ next # Refused
  /\ versions' = Append(versions, next)

\* An exported document restates all of a configuration.
Exported(config) ==
  [route |-> [scope \in ConfigScope |-> config.route[scope]],
   settings |-> config.settings, scene |-> config.scene,
   profiles |-> [scope \in ConfigScope |->
      [i \in DOMAIN config.profiles[scope] |->
         [id |-> config.profiles[scope][i].id,
          name |-> config.profiles[scope][i].name,
          route |-> config.profiles[scope][i].config.route,
          scene |-> config.profiles[scope][i].config.scene]]],
   active |-> config.active, presets |-> config.presets,
   legacy |-> <<>>, pointer |-> Unset]

Swapped(ids) == [i \in DOMAIN ids |-> ids[Len(ids) + 1 - i]]
IdList(scope) == [i \in DOMAIN Stored.profiles[scope] |-> Stored.profiles[scope][i].id]

Outcomes(request) ==
  LET patch == formToPatch(request.submitted)
      ids   == ProfileIds(Stored.profiles["codex"])
  IN CASE request.kind \in {"patch", "override"} -> {patchConfig(Stored, patch)}
       [] request.kind = "save" ->
            {saveProfile(Stored, "codex", name, patch, FreshId(name)) : name \in Title}
       [] request.kind = "update" ->
            UNION {{updateProfile(Stored, "codex", id, name, patch) : name \in Title} :
                   id \in ids}
       [] request.kind = "apply" -> {applyProfile(Stored, "codex", id) : id \in ids}
       [] request.kind = "delete" -> {deleteProfile(Stored, "codex", id) : id \in ids}
       [] request.kind \in {"duplicate", "copy"} ->
            UNION {{duplicateProfile(Stored, "codex", id, name,
                      IF request.kind = "copy" THEN "claude" ELSE "codex", FreshId(name)) :
                    name \in Title} : id \in ids}
       [] request.kind = "reorder" ->
            {reorderProfiles(Stored, "codex", Swapped(IdList("codex")))}
       [] request.kind = "import" ->
            {importConfig(document) :
               document \in {Exported(FirstConfig), LegacyDocument}}

DraftKinds == {"patch", "save", "update", "override"}
Superseded(request) == request.kind \in DraftKinds /\ request.revision # Revision

Answers(page, answer) ==
  /\ pages' = [pages EXCEPT ![page].request.answer = answer]
  /\ UNCHANGED <<routings, reconciled, drafted, sent, mix>>
Waiting(page) ==
  pages[page].request # NoRequest /\ pages[page].request.answer = NoAnswer

ServesMutation(page) ==
  /\ Waiting(page)
  /\ pages[page].request.kind # "load"
  /\ ~Superseded(pages[page].request)
  /\ \E next \in Outcomes(pages[page].request) : Commits(next)
  /\ Answers(page, Revision + 1)

Refuses(page) ==
  /\ Waiting(page)
  /\ pages[page].request.kind # "load"
  /\ \/ Superseded(pages[page].request)
     \/ Refused \in Outcomes(pages[page].request)
  /\ Answers(page, Refused)
  /\ UNCHANGED versions

ServesLoad(page) ==
  /\ Waiting(page)
  /\ pages[page].request.kind = "load"
  /\ Answers(page, Revision)
  /\ UNCHANGED versions

-----------------------------------------------------------------------------
(* The answer reaches the page. *)

\* The stored profile is the active one if that holds the submitted draft.
SavedIsActive(r, submitted) ==
  LET id     == versions[r].active["codex"]
      merged == mergeRuntimeConfig(versions[r - 1], formToPatch(submitted))
  IN /\ id # Unset
     /\ ProfileOf(versions[r], "codex", id).config
          = extractScopedProfileConfig(merged, "codex")

afterSave(page, r) ==
  LET set  == setConfig(page, r)
      form == formAfterScopedProfileChange(
                page.form, versions[r], "codex", page.request.submitted)
  IN IF ~SavedIsActive(r, page.request.submitted) THEN set
     ELSE IF form.route["codex"] = formFromConfig(versions[r]).route["codex"]
     THEN Adopted(set, form, ScopeFields("codex"), TRUE) ELSE setForm(set, form)

FieldOf(form, field) ==
  IF field = SettingsField THEN form.settings ELSE form.route[field[1]][field[2]]
afterImport(page, r) ==
  LET submitted == page.request.submitted
  IN [setForm(setConfig(page, r),
              formAfterConfigImport(page.form, submitted, versions[r])) EXCEPT
        !.mine = {field \in @ :
                    FieldOf(page.form, field) # FieldOf(submitted, field)}]

Received(page, r) ==
  CASE page.request.kind \in {"patch", "override"} -> commitConfig(page, r)
    [] page.request.kind \in {"save", "update"} -> afterSave(page, r)
    [] page.request.kind = "apply" -> applyProfileConfig(page, r, "codex")
    [] page.request.kind = "import" -> afterImport(page, r)
    [] OTHER -> remoteConfig(page, r)

Receives(page) ==
  /\ pages[page].request # NoRequest
  /\ pages[page].request.answer # NoAnswer
  /\ pages' = [pages EXCEPT ![page] =
       [IF @.request.answer = Refused THEN @ ELSE Received(@, @.request.answer)
        EXCEPT !.request = NoRequest]]
  /\ UNCHANGED <<versions, routings, reconciled, drafted, sent, mix>>

-----------------------------------------------------------------------------
(* Writers without a page: a script that moves the pointer in the document it
   read, renames a profile, or restores a backup; and the proxy. *)

Restating(profile) == [id |-> profile.id, name |-> profile.name,
                       route |-> Untouched, scene |-> Unset]
PointerPatch(id) ==
  [route |-> [scope \in ConfigScope |-> Untouched], settings |-> Unset,
   profiles |-> [scope \in ConfigScope |->
      [i \in DOMAIN Stored.profiles[scope] |-> Restating(Stored.profiles[scope][i])]],
   active |-> [Stored.active EXCEPT !["codex"] = id]]

ScriptMovesPointer ==
  /\ "script" \in mix.kinds
  /\ \E id \in ProfileIds(Stored.profiles["codex"]) \cup {Unset} :
       Commits(patchConfig(Stored, PointerPatch(id)))
  /\ UNCHANGED <<pages, routings, reconciled, drafted, sent, mix>>

ScriptRenames ==
  /\ "script" \in mix.kinds
  /\ \E id \in ProfileIds(Stored.profiles["codex"]), name \in Title :
       Commits(updateProfile(Stored, "codex", id, name, Unset))
  /\ UNCHANGED <<pages, routings, reconciled, drafted, sent, mix>>

RestoresBackup ==
  /\ "restore" \in mix.kinds
  /\ \E r \in 1..Revision : Commits(importConfig(Exported(versions[r])))
  /\ UNCHANGED <<pages, routings, reconciled, drafted, sent, mix>>

IdleTurn == [state |-> "idle", read |-> 0, target |-> Unset]

\* A request takes a configuration before its body is read.
TurnArrives(routing) ==
  /\ "sync" \in mix.kinds
  /\ routings[routing].state = "idle"
  /\ routings' = [routings EXCEPT ![routing] =
                  [state |-> "arrived", read |-> Revision, target |-> Unset]]
  /\ UNCHANGED <<versions, pages, reconciled, drafted, sent, mix>>

\* Variant: the configuration of its arrival will do.
SnapshotOfArrival(routing) == routings[routing].read
SnapshotToRoute(routing) == Revision

\* The body has arrived: the request reads the configuration again, health is
\* reconciled to it, and the scheduler picks a profile of it.
TurnRoutes(routing) ==
  LET read == SnapshotToRoute(routing)
  IN /\ routings[routing].state = "arrived"
     /\ \E id \in ProfileIds(versions[read].profiles["codex"]) :
          routings' = [routings EXCEPT ![routing] =
                      [state |-> "routed", read |-> read, target |-> id]]
     /\ reconciled' = read
     /\ UNCHANGED <<versions, pages, drafted, sent, mix>>

\* syncScheduledPrimaryProfile: the live check, and the queued one that counts.
\* The setting Manual stands for auto_schedule switched off.
WantsSync(routing) ==
  /\ Stored.settings # Manual
  /\ routings[routing].target # Stored.active["codex"]
  /\ routings[routing].read = Revision
\* Variant: the queued sync is applied whatever was saved meanwhile.
SyncAnyway(routing) == TRUE
SyncStillDue(routing) == routings[routing].read = Revision

TurnChecks(routing) ==
  /\ routings[routing].state = "routed"
  /\ routings' = [routings EXCEPT ![routing].state =
                 IF WantsSync(routing) THEN "queued" ELSE "done"]
  /\ UNCHANGED <<versions, pages, reconciled, drafted, sent, mix>>

TurnSyncs(routing) ==
  /\ routings[routing].state = "queued"
  /\ IF SyncStillDue(routing)
     THEN Commits(applyProfile(Stored, "codex", routings[routing].target))
     ELSE UNCHANGED versions
  /\ routings' = [routings EXCEPT ![routing].state = "done"]
  /\ UNCHANGED <<pages, reconciled, drafted, sent, mix>>

-----------------------------------------------------------------------------
DraftInit ==
  /\ versions = <<FirstConfig>>
  /\ pages = [page \in Page |->
       [shown |-> 1, formRevision |-> 1, heard |-> 1, mine |-> {},
        astray |-> FALSE, form |-> formFromConfig(FirstConfig), request |-> NoRequest]]
  /\ routings = [routing \in Routing |-> IdleTurn]
  /\ reconciled = 1 /\ mix \in Mixes /\ drafted = 0 /\ sent = 0

DraftNext ==
  \/ \E page \in Page :
       \/ EditsRoute(page) \/ PicksPreset(page) \/ EditsSettings(page)
       \/ SubmitsDraft(page) \/ overrideSaveConflict(page)
       \/ OperatesOnList(page) \/ AdoptsImport(page)
       \/ Hears(page) \/ Receives(page)
       \/ ServesMutation(page) \/ Refuses(page) \/ ServesLoad(page)
  \/ ScriptMovesPointer \/ ScriptRenames \/ RestoresBackup
  \/ \E routing \in Routing :
       \/ TurnArrives(routing) \/ TurnRoutes(routing)
       \/ TurnChecks(routing) \/ TurnSyncs(routing)

DraftSpec == DraftInit /\ [][DraftNext]_draftVars

-----------------------------------------------------------------------------
(* Properties. *)

Changed(field) == FieldOf(versions'[Revision'], field) # FieldOf(Stored, field)
Landed(page) ==
  /\ Revision' > Revision
  /\ pages[page].request # pages'[page].request

\* A draft that lands without an override changes, of what the store runs on,
\* only fields its operator edited or chose: whatever another page, a script or
\* the proxy changed while the draft was open is not put back, in whatever order
\* answers and snapshots arrive (useConfigActions.ts, "the very lost update the
\* guard rejects").  The exception is a draft whose form a snapshot filled while
\* an earlier request of the page was under way, and whose revision the answer
\* to that request then moved: commit_config, set_config and apply_profile take
\* the form for a draft on top of their own configuration.
UnseenEditsSurvive ==
  [][\A page \in Page :
       /\ Landed(page) /\ pages[page].request.kind \in {"patch", "save", "update"}
       /\ ~pages[page].request.astray
       => \A field \in FormFields :
            Changed(field) => field \in pages[page].request.mine]_draftVars

\* The proxy follows the newest choice: health is never reconciled back to an
\* older configuration, and the background sync of a request replaces only the
\* active profile the request saw, never one chosen or edited since.
SyncRespectsChoice ==
  [][/\ reconciled' >= reconciled
     /\ \A routing \in Routing :
          routings[routing].state = "queued" /\ routings'[routing] # routings[routing]
            /\ Revision' > Revision
          => /\ Stored.active = versions[routings[routing].read].active
             /\ Stored.route = versions[routings[routing].read].route]_draftVars

Rewrites(page) ==
  Landed(page) /\ pages[page].request.kind \in DraftKinds \cup {"import"}

\* Switching the active profile, from a page, a script or the proxy, keeps what
\* every stored profile holds: only a draft stored in it, the mirror of the
\* profile that stays active, or a document that replaces the list changes it.
SwitchesKeepCredentials ==
  [][(\A page \in Page : ~Rewrites(page))
       => \A scope \in ConfigScope :
            \A id \in ProfileIds(Stored.profiles[scope]) :
              Revision' > Revision /\ HasProfile(versions'[Revision'], scope, id)
              /\ versions'[Revision'] \notin {importConfig(Exported(versions[r])) : r \in 1..Revision}
              => ProfileOf(versions'[Revision'], scope, id).config.route
                   = ProfileOf(Stored, scope, id).config.route]_draftVars
=============================================================================
