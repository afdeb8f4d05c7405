------------------------------- MODULE Studio -------------------------------
(***************************************************************************)
(* What the Studio shows and saves: its log feed, the captures it offers,  *)
(* the drafts of its configuration editor and the client identities typed  *)
(* in it.  They share no state and no property relates two of them; each   *)
(* is explored while the others stay as they start (see Gateway).          *)
(***************************************************************************)
EXTENDS LogFeed, CaptureFiles, StudioDraft, ClientIdentity

VARIABLE part   \* the part that runs

studioVars == << part, feedVars, captureVars, draftVars, identityVars >>

StudioInit ==
    /\ part \in {"feed", "captures", "drafts", "identity"}
    /\ FeedInit /\ IdentityInit
    /\ Init /\ (part # "captures" => max = CHOOSE cap \in Caps : TRUE)
    /\ DraftInit /\ (part # "drafts" => mix = CHOOSE m \in Mixes : TRUE)

StudioNext ==
    \/ part = "feed" /\ FeedNext /\ UNCHANGED << part, captureVars, draftVars, identityVars >>
    \/ part = "captures" /\ Next /\ UNCHANGED << part, feedVars, draftVars, identityVars >>
    \/ part = "drafts" /\ DraftNext /\ UNCHANGED << part, feedVars, captureVars, identityVars >>
    \/ part = "identity" /\ IdentityNext /\ UNCHANGED << part, feedVars, captureVars, draftVars >>

StudioSpec == StudioInit /\ [][StudioNext]_studioVars
=============================================================================
