------------------------------- MODULE MCStudio -------------------------------
(* An instance of Studio for TLC, part by part.                                *)
EXTENDS Studio

CONSTANTS c1, c2   \* two captures

-----------------------------------------------------------------------------
(* Captures: together they exceed either cap; each alone leaves the large one  *)
(* enough room for a scan to be skipped.                                       *)
MCSize == (c1 :> 3) @@ (c2 :> 2)

-----------------------------------------------------------------------------
(* Drafts: two routes, one of them with a key pool; Codex has a profile for    *)
(* each and runs on the first, Claude has one and is not on it.                *)
Connecting(url, key, pool, rest) == [url |-> url, key |-> key, pool |-> pool, rest |-> rest]
Home  == Connecting("u0", "k1", [id \in {"p1"} |-> "k1"], "d")
Spare == Connecting("u1", "k2", NoPool, "d")
SavedAs(name, route) ==
    [id |-> <<name, 0>>, name |-> name, config |-> [route |-> route, scene |-> Unset]]
MCFirstConfig ==
    [route |-> [codex |-> Home, claude |-> Home],
     settings |-> "auto", scene |-> <<"t1", 0>>,
     profiles |-> [codex |-> << SavedAs("t1", Home), SavedAs("t2", Spare) >>,
                   claude |-> << SavedAs("t1", Spare) >>],
     active |-> [codex |-> <<"t1", 0>>, claude |-> Unset],
     presets |-> [scope \in {"codex", "claude"} |-> [u \in {"u0"} |-> "k1"]]]

\* A document of the time before profiles had scopes.
LegacyProfile(name, section, route) ==
    [id |-> <<name, 0>>, name |-> name, section |-> section, route |-> route, scene |-> Unset]
MCLegacyDocument ==
    [route |-> [scope \in {"codex", "claude"} |-> Spare], settings |-> "auto", scene |-> Unset,
     profiles |-> [scope \in {"codex", "claude"} |-> Unset],
     active |-> [scope \in {"codex", "claude"} |-> Kept],
     presets |-> [scope \in {"codex", "claude"} |-> [u \in {} |-> "none"]],
     legacy |-> << LegacyProfile("t1", "codex", Spare), LegacyProfile("t2", "claude", Home) >>,
     pointer |-> <<"t1", 0>>]

\* What the pages of one run do, the fields they edit, the requests they send and
\* the commits there may be.
Doing(kinds, edited, sends, commits) ==
    [kinds |-> kinds \cup {"patch"}, edited |-> edited, sent |-> sends, versions |-> commits + 1]
CodexUrl   == <<"codex", "url">>
CodexKey   == <<"codex", "key">>
CodexPool  == <<"codex", "pool">>
ClaudeRest == <<"claude", "rest">>
MCMixes ==
    {Doing({}, {ClaudeRest}, 4, 4), Doing({"save"}, {CodexUrl, ClaudeRest}, 2, 2),
     Doing({"update"}, {CodexKey}, 2, 2), Doing({"apply"}, {CodexUrl, ClaudeRest}, 2, 2),
     Doing({"delete", "sync"}, {SettingsField}, 1, 3), Doing({"duplicate", "script"}, {}, 1, 3),
     Doing({"copy"}, {CodexPool}, 1, 1), Doing({"reorder"}, {CodexUrl}, 3, 3),
     Doing({"import"}, {CodexUrl, SettingsField}, 2, 2),
     Doing({"load", "override"}, {CodexUrl}, 3, 3), Doing({"apply", "sync"}, {}, 2, 3),
     Doing({"restore"}, {CodexUrl, CodexKey}, 1, 3)}

Interchangeable == Permutations(Page)
=============================================================================
