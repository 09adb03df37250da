------------------------------ MODULE CaseStatus ------------------------------
(***************************************************************************)
(* The application lifecycle tables of                                     *)
(* src/app/modules/applications/constants.py.  A status column is a free   *)
(* string in the database and in UpdateStatusRequest, so AnyStatus also    *)
(* holds one value that no table mentions.                                 *)
(***************************************************************************)

ApplicationStatuses ==
    { "received", "under_review", "in_progress", "awaiting_client",
      "submitted_to_authority", "awaiting_response",
      "completed", "rejected", "cancelled" }

AnyStatus == ApplicationStatuses \cup {"unlisted"}

TerminalStatuses == {"completed", "rejected", "cancelled"}

ClientCancellable == {"received", "awaiting_client"}

\* VALID_STATUS_TRANSITIONS.get(status, set())
AllowedFrom(st) ==
    CASE st = "received"               -> {"under_review", "cancelled"}
      [] st = "under_review"           -> {"in_progress", "awaiting_client", "rejected"}
      [] st = "in_progress"            -> {"submitted_to_authority", "awaiting_client", "rejected"}
      [] st = "awaiting_client"        -> {"in_progress", "rejected", "cancelled"}
      [] st = "submitted_to_authority" -> {"awaiting_response", "completed", "rejected"}
      [] st = "awaiting_response"      -> {"completed", "rejected", "in_progress"}
      [] OTHER                         -> {}
=============================================================================
