--------------------------- MODULE MCAutomationRuns ---------------------------
(* A reviewed automation that publishes to Telegram, for TLC. *)
EXTENDS AutomationRuns, TLC

CONSTANTS u, v

MCJobs == {[kind |-> k, id |-> 1] : k \in {"generate", "package"}}
MCStages == <<"manual", "generate_content_pack", "human_review", "telegram_publish">>
MCRequest == <<1>>
=============================================================================
