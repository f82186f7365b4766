---------------------------- MODULE PolicyOverlay ----------------------------
(***************************************************************************)
(* What BlocKuntu promises about a policy file it shares with the user      *)
(* (firefox_policy.rs, "records the prior values so uninstall can restore   *)
(* them"): the user's settings are all still there under BlocKuntu's, which *)
(* lie over them while it is engaged and take none of them away.            *)
(***************************************************************************)
CONSTANTS Keys, Managed, Values

VARIABLES
    user,       \* the settings that show when BlocKuntu is not engaged
    engaged     \* BlocKuntu's own values lie over the managed keys

OverlayInit == user \in [Keys -> Values] /\ engaged \in BOOLEAN

\* An edit of a managed key while BlocKuntu is engaged is not an edit of the
\* user's settings: the next repair takes it back.
UserEdits ==
    /\ \E k \in (IF engaged THEN Keys \ Managed ELSE Keys), v \in Values :
          user' = [user EXCEPT ![k] = v]
    /\ UNCHANGED engaged

Engage == engaged' = TRUE /\ UNCHANGED user
Disengage == engaged' = FALSE /\ UNCHANGED user

OverlayNext == UserEdits \/ Engage \/ Disengage

OverlaySpec == OverlayInit /\ [][OverlayNext]_<<user, engaged>>
=============================================================================
