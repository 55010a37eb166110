---------------------------- MODULE MCHttpServer -----------------------------
(***************************************************************************)
(* Two workers compete either for the settings or with requests that need   *)
(* no settings.  Two fields that change are enough to lose an update of     *)
(* one of them.                                                             *)
(***************************************************************************)
EXTENDS HttpServer

SettingsOrPages ==
    {{"getconfig", "postports", "postconfig"}, {"page", "mac", "getconfig", "postother", "bad"}}

TwoChanging == [f \in Fields |-> IF f = "stp" THEN {1} ELSE {1, 2}]
=============================================================================
