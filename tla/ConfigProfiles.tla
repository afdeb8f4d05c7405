--------------------------- MODULE ConfigProfiles ---------------------------
(***************************************************************************)
(* The stored configuration and the mutations the admin API builds from    *)
(* it (src/server/config.ts, config-runtime.ts, config-profile-scope.ts,   *)
(* config-profile-mutations.ts, config-route-presets.ts), as operators     *)
(* from a configuration to the next one; Refused is a mutation that threw. *)
(*                                                                         *)
(* A route is the connection one scope runs on: where it points, the       *)
(* credential typed for it, its key pool by entry id, and `rest` for all   *)
(* that a patch restates in the clear (protocol, headers, models, policy). *)
(* The compact route of a scope goes through the same merge and is folded  *)
(* into it.  The settings outside both scopes (listen, timeouts, logging,  *)
(* failover) are one value.                                                *)
(***************************************************************************)
EXTENDS Naturals, Sequences, SequencesExt, FiniteSets

CONSTANTS
  Url, DefaultUrl,      \* base URLs, and the one DEFAULT_CONFIG names
  Secret, NoSecret,     \* credentials, and the empty string
  PoolId,               \* ids of key-pool entries
  Rest, DefaultRest,    \* the plain fields of a route
  Setting,              \* the settings no profile stores
  Title,                \* profile names
  Unset,                \* a field a patch does not carry, an id nobody holds
  Kept,                 \* a patch that does not name the active profile
  Refused               \* a mutation the store rejected

ConfigScope == {"codex", "claude"}
Credential == Secret \cup {NoSecret}

Pools == UNION {[ids -> Credential] : ids \in SUBSET PoolId}
NoPool == [id \in {} |-> NoSecret]
Routes == [url : Url, key : Credential, pool : Pools, rest : Rest]
ASSUME DefaultAssumption == DefaultUrl \in Url /\ DefaultRest \in Rest
DefaultRoute ==
  [url |-> DefaultUrl, key |-> NoSecret, pool |-> NoPool, rest |-> DefaultRest]

\* A stored configuration.  An id is a name and the revision that introduced it.
ProfileIdentity == Title \X Nat
StoredConfigs == [route : Routes, scene : ProfileIdentity \cup {Unset}]
StoredProfiles == [id : ProfileIdentity, name : Title, config : StoredConfigs]
PresetMaps == UNION {[urls -> Credential] : urls \in SUBSET Url}
\* undefined is not an id.
ASSUME UnsetAssumption == Unset \notin ProfileIdentity
Configs ==
  [route    : [ConfigScope -> Routes],
   settings : Setting,
   scene    : ProfileIdentity \cup {Unset},
   profiles : [ConfigScope -> Seq(StoredProfiles)],
   active   : [ConfigScope -> ProfileIdentity \cup {Unset}],
   presets  : [ConfigScope -> PresetMaps]]

\* readString(value, fallback): what a patch leaves out is unchanged.
Restated(value, stored) == IF value = Unset THEN stored ELSE value

\* Pool entries merge by id: an entry restated without its secret inherits the
\* stored one, an entry left out is dropped, no list at all keeps the pool.
mergeApiKeys(entries, stored) ==
  IF entries = Unset THEN stored
  ELSE [id \in DOMAIN entries |->
          IF entries[id] # Unset THEN entries[id]
          ELSE IF id \in DOMAIN stored THEN stored[id] ELSE NoSecret]

mergeUpstreamConfig(base, patch) ==
  [url  |-> Restated(patch.url, base.url),
   key  |-> Restated(patch.key, base.key),
   pool |-> mergeApiKeys(patch.pool, base.pool),
   rest |-> Restated(patch.rest, base.rest)]

RoutePatchOf(url, key, pool, rest) ==
  [url |-> url, key |-> key, pool |-> pool, rest |-> rest, preset |-> Unset]
Untouched == RoutePatchOf(Unset, Unset, Unset, Unset)

-----------------------------------------------------------------------------
(* Profiles and scopes. *)

\* What a profile of a scope stores of the runtime; only a Claude profile
\* freezes the scene bindings.
extractScopedProfileConfig(config, scope) ==
  [route |-> config.route[scope],
   scene |-> IF scope = "claude" THEN config.scene ELSE Unset]

mergeRuntimeForProfileScope(config, stored, scope) ==
  [config EXCEPT !.route[scope] = stored.route,
                 !.scene = IF scope = "claude" THEN stored.scene ELSE @]

ProfileIds(list) == {list[i].id : i \in DOMAIN list}
ProfileOf(config, scope, id) ==
  CHOOSE profile \in ToSet(config.profiles[scope]) : profile.id = id
HasProfile(config, scope, id) == id \in ProfileIds(config.profiles[scope])

\* Re-filing under the other scope carries where the upstream is and what gets
\* you in; everything else is the destination's default.
reScopeProfileConfig(stored) ==
  [route |-> [stored.route EXCEPT !.rest = DefaultRest], scene |-> Unset]

\* Restated profiles merge onto the stored entry of their id, or onto the
\* default route when there is none.
readProfile(item, scope, stored) ==
  LET known == {profile \in ToSet(stored) : profile.id = item.id}
      base  == IF known = {} THEN [route |-> DefaultRoute, scene |-> Unset]
               ELSE (CHOOSE profile \in known : TRUE).config
  IN [id |-> item.id, name |-> item.name,
      config |-> [route |-> mergeUpstreamConfig(base.route, item.route),
                  scene |-> Restated(item.scene, base.scene)]]

\* A list patch replaces the list by its entries in their order; a legacy list
\* stands in for a scope that has nothing stored, and an empty patch cannot
\* erase what was just migrated.
mergeProfileScopeState(scope, list, active, patchList, patchActive, legacy) ==
  LET migrated == legacy # Unset /\ list = <<>>
      stored   == IF migrated THEN legacy.profiles ELSE list
      pointer  == IF migrated THEN legacy.active ELSE active
      keep     == patchList = Unset \/ (patchList = <<>> /\ migrated)
  IN [profiles |-> IF keep THEN stored
                   ELSE [i \in DOMAIN patchList |->
                           readProfile(patchList[i], scope, stored)],
      active   |-> IF patchActive = Kept THEN pointer ELSE patchActive]

\* A top-level profile predates the scopes: it is a Codex profile unless it
\* stores nothing but a claude section.
migrateLegacyProfiles(items, pointer, scope) ==
  LET mine == SelectSeq(items, LAMBDA item : item.section = scope)
      read == [i \in DOMAIN mine |-> readProfile(mine[i], scope, <<>>)]
  IN [profiles |-> read,
      active   |-> IF pointer \in ProfileIds(read) THEN pointer ELSE Unset]

\* Variant: the runtime is stored under whatever profile is active now.
storeRuntimeInProfile(config, previous, scope) ==
  LET id == config.active[scope]
  IN IF id = Unset \/ ~HasProfile(config, scope, id) THEN config
     ELSE [config EXCEPT !.profiles[scope] =
             [i \in DOMAIN @ |->
                IF @[i].id = id
                THEN [@[i] EXCEPT !.config = extractScopedProfileConfig(config, scope)]
                ELSE @[i]]]

\* A moved pointer is a switch: the target is applied, not overwritten.  While
\* it stays put, an edit of the runtime is an edit of the active profile.
syncActiveProfileScopeFromRuntime(config, previous, scope) ==
  LET id == config.active[scope]
  IN IF id = Unset \/ ~HasProfile(config, scope, id) THEN config
     ELSE IF previous.active[scope] # id
     THEN mergeRuntimeForProfileScope(
            config, ProfileOf(config, scope, id).config, scope)
     ELSE [config EXCEPT !.profiles[scope] =
             [i \in DOMAIN @ |->
                IF @[i].id = id
                THEN [@[i] EXCEPT !.config =
                        extractScopedProfileConfig(config, scope)]
                ELSE @[i]]]

syncActiveProfilesFromRuntime(config, previous) ==
  syncActiveProfileScopeFromRuntime(
    syncActiveProfileScopeFromRuntime(config, previous, "codex"),
    previous, "claude")

-----------------------------------------------------------------------------
(* URL presets: per scope, the credential last stored with a URL.  The cap of
   24 per kind is never reached with the URLs of an instance. *)

withRecordedRouteUrlPresets(config, scopes) ==
  [config EXCEPT !.presets =
     [scope \in ConfigScope |->
        IF scope \notin scopes THEN @[scope]
        ELSE LET route == config.route[scope]
             IN [url \in DOMAIN @[scope] \cup {route.url} |->
                   IF url = route.url THEN route.key ELSE @[scope][url]]]]

recordProfileRouteUrls(config, stored, scope) ==
  LET recorded == withRecordedRouteUrlPresets(
                    [config EXCEPT !.route[scope] = stored.route], {scope})
  IN [config EXCEPT !.presets = recorded.presets]

\* A credential picked from a preset belongs to that preset's URL.
CredentialPresetFits(config, scope, patch) ==
  \/ patch.preset = Unset
  \/ /\ patch.preset \in DOMAIN config.presets[scope]
     /\ patch.url \in {Unset, patch.preset}

applyCredentialPresetToRoutePatch(config, scope, patch) ==
  IF patch.preset = Unset THEN patch
  ELSE [patch EXCEPT !.url = patch.preset,
                     !.key = IF @ = Unset
                             THEN config.presets[scope][patch.preset] ELSE @]

-----------------------------------------------------------------------------
(* The gate every mutation passes, and the mutations. *)

validateClaudeSceneProfileReferences(config) ==
  LET known  == ProfileIds(config.profiles["claude"]) \cup {Unset}
      stored == {profile.config.scene : profile \in ToSet(config.profiles["claude"])}
  IN {config.scene} \cup stored \subseteq known

validateConfig(config) ==
  /\ \A scope \in ConfigScope :
       /\ Cardinality(ProfileIds(config.profiles[scope]))
            = Len(config.profiles[scope])
       /\ config.active[scope] \in ProfileIds(config.profiles[scope]) \cup {Unset}
  /\ validateClaudeSceneProfileReferences(config)

\* What the program stores: the active profile of a scope mirrors its connection.
Mirrors(config) ==
  \A scope \in ConfigScope : \A profile \in ToSet(config.profiles[scope]) :
    profile.id = config.active[scope] => profile.config.route = config.route[scope]
WellFormed(config) == config \in Configs /\ validateConfig(config) /\ Mirrors(config)

Validated(config) == IF validateConfig(config) THEN config ELSE Refused

\* mergeRuntimeConfig: the routes a patch names, and the settings.
mergeRuntimeConfig(config, patch) ==
  [config EXCEPT
     !.route = [scope \in ConfigScope |->
                  mergeUpstreamConfig(@[scope],
                    applyCredentialPresetToRoutePatch(
                      config, scope, patch.route[scope]))],
     !.settings = Restated(patch.settings, @)]

PresetsFit(config, patch) ==
  \A scope \in ConfigScope : CredentialPresetFits(config, scope, patch.route[scope])

patchConfig(config, patch) ==
  LET merged == mergeRuntimeConfig(config, patch)
      listed == [scope \in ConfigScope |->
                   mergeProfileScopeState(scope, config.profiles[scope],
                     config.active[scope], patch.profiles[scope],
                     patch.active[scope], Unset)]
      scoped == [merged EXCEPT
                   !.profiles = [scope \in ConfigScope |-> listed[scope].profiles],
                   !.active   = [scope \in ConfigScope |-> listed[scope].active]]
      next   == syncActiveProfilesFromRuntime(scoped, config)
  IN IF ~PresetsFit(config, patch) THEN Refused
     ELSE Validated(withRecordedRouteUrlPresets(next, ConfigScope))

\* Storing a draft in a profile: it is merged onto the live runtime, never onto
\* the profile it overwrites; the active profile takes the runtime with it.
WithStored(config, scope, list, id, stored) ==
  LET next  == [config EXCEPT !.profiles[scope] = list]
      saved == IF config.active[scope] = id
               THEN mergeRuntimeForProfileScope(next, stored, scope) ELSE next
  IN Validated(recordProfileRouteUrls(saved, stored, scope))

saveProfile(config, scope, name, patch, freshId) ==
  LET stored == extractScopedProfileConfig(mergeRuntimeConfig(config, patch), scope)
      list   == config.profiles[scope]
      same   == {profile \in ToSet(list) : profile.name = name}
      id     == IF same = {} THEN freshId ELSE (CHOOSE p \in same : TRUE).id
      saved  == [id |-> id, name |-> name, config |-> stored]
  IN IF ~PresetsFit(config, patch) THEN Refused
     ELSE WithStored(config, scope,
            IF same = {} THEN Append(list, saved)
            ELSE [i \in DOMAIN list |-> IF list[i].id = id THEN saved ELSE list[i]],
            id, stored)

\* A rename carries no draft and leaves the stored configuration alone.
updateProfile(config, scope, id, name, patch) ==
  LET list   == config.profiles[scope]
      old    == ProfileOf(config, scope, id)
      stored == IF patch = Unset THEN old.config
                ELSE extractScopedProfileConfig(
                       mergeRuntimeConfig(config, patch), scope)
  IN IF \/ ~HasProfile(config, scope, id)
        \/ \E p \in ToSet(list) : p.id # id /\ p.name = name
        \/ patch # Unset /\ ~PresetsFit(config, patch)
     THEN Refused
     ELSE WithStored(config, scope,
            [i \in DOMAIN list |->
               IF list[i].id = id
               THEN [id |-> id, name |-> name, config |-> stored] ELSE list[i]],
            id, stored)

\* A copy is never activated, and carries the credential the browser never had.
duplicateProfile(config, scope, id, name, target, freshId) ==
  LET source == ProfileOf(config, scope, id).config
      copied == IF target = scope THEN source
                ELSE reScopeProfileConfig(source)
      next   == [config EXCEPT !.profiles[target] =
                   Append(@, [id |-> freshId, name |-> name, config |-> copied])]
  IN IF \/ ~HasProfile(config, scope, id)
        \/ \E p \in ToSet(config.profiles[target]) : p.name = name
     THEN Refused
     ELSE Validated(IF target = scope THEN next
                    ELSE recordProfileRouteUrls(next, copied, target))

\* Snapshots of the other Claude profiles let go of the removed one; the live
\* binding stays, and then the gate refuses the delete.
withoutStoredClaudeSceneReferences(config, id) ==
  LET list == config.profiles["claude"]
  IN [config EXCEPT !.profiles["claude"] =
        [i \in DOMAIN list |->
           [list[i] EXCEPT !.config.scene = IF @ = id THEN Unset ELSE @]]]

\* Ids are unique in a stored list: the filter leaves all but one entry.
WithoutProfile(list, id) == RemoveAt(list, CHOOSE i \in DOMAIN list : list[i].id = id)

deleteProfile(config, scope, id) ==
  LET without == [config EXCEPT
                    !.profiles[scope] = WithoutProfile(@, id),
                    !.active[scope]   = IF @ = id THEN Unset ELSE @]
  IN IF ~HasProfile(config, scope, id) THEN Refused
     ELSE Validated(IF scope = "claude"
                    THEN withoutStoredClaudeSceneReferences(without, id)
                    ELSE without)

reorderProfiles(config, scope, ids) ==
  LET list == config.profiles[scope]
  IN IF Len(ids) # Len(list) \/ ToSet(ids) # ProfileIds(list) THEN Refused
     ELSE Validated([config EXCEPT !.profiles[scope] =
            [i \in DOMAIN ids |-> ProfileOf(config, scope, ids[i])]])

applyProfile(config, scope, id) ==
  IF ~HasProfile(config, scope, id) THEN Refused
  ELSE Validated([mergeRuntimeForProfileScope(
                    config, ProfileOf(config, scope, id).config, scope)
                  EXCEPT !.active[scope] = id])

\* An import, like a restored backup, merges the document onto the defaults:
\* it replaces everything.  A document of the old layout has a top-level list.
importConfig(document) ==
  LET listed == [scope \in ConfigScope |->
                   mergeProfileScopeState(scope, <<>>, Unset,
                     document.profiles[scope], document.active[scope],
                     IF document.legacy = <<>> THEN Unset
                     ELSE migrateLegacyProfiles(
                            document.legacy, document.pointer, scope))]
  IN Validated(
       [route    |-> [scope \in ConfigScope |->
                        mergeUpstreamConfig(DefaultRoute, document.route[scope])],
        settings |-> document.settings,
        scene    |-> document.scene,
        profiles |-> [scope \in ConfigScope |-> listed[scope].profiles],
        active   |-> [scope \in ConfigScope |-> listed[scope].active],
        presets  |-> document.presets])
=============================================================================
