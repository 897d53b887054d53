---------------------------- MODULE FixRegistry ----------------------------
(* The registry of fixes: what may be done about each kind of finding. The  *)
(* live apply takes the kinds of tier "app", people take those of tier      *)
(* "human", nobody can repair those of tier "unfixable". The blocks follow  *)
(* the table in fixes.py; its wording, risks and hints are left out.        *)
EXTENDS Dictionaries

App(kinds) == [k \in kinds |-> "app"]
Human(kinds) == [k \in kinds |-> "human"]

LeftoverFixes ==
  App({"scheme_unused", "unused_issue_type_scheme", "unused_issue_type_screen_scheme", "empty_group"})
MigrationFixes ==
  [migration_artifact |-> "unfixable"]
  ++ Human({"group_name_collision_reserved", "apps_to_assess_for_cloud", "script_app_present",
            "unsupported_custom_field_type"})
FieldAndStatusFixes ==
  App({"unused_custom_field", "empty_screen", "status_not_in_workflow"})
  ++ Human({"duplicate_field", "workflow_no_transitions"})
SprawlFixes ==
  Human({"field_sprawl", "large_option_set", "workflow_sprawl", "status_sprawl", "screen_sprawl",
         "permission_scheme_sprawl"})
ReleaseFixes ==
  Human({"version_overdue", "version_archived_unreleased", "component_no_lead",
         "permission_grant_overly_broad"})
CatalogueFixes ==
  Human({"resolution_sprawl", "priority_sprawl", "issue_type_sprawl", "link_type_sprawl",
         "large_workflow", "public_browse_grant"})
LimitFixes ==
  Human({"component_unassigned_default", "near_field_limit", "near_issue_type_limit",
         "near_priority_limit", "near_workflow_limit", "unused_resolution"})
DuplicateFixes ==
  Human({"duplicate_status_name", "duplicate_issue_type_name", "redundant_priority_set",
         "many_overdue_versions_in_project", "large_group_admin_bloat", "anonymous_write_grant"})
ProjectFixes ==
  App({"empty_project"})
  ++ Human({"admin_grant_to_logged_in", "board_count_exceeds_projects",
            "dashboard_filter_volume_high", "version_naming_inconsistent", "inactive_project"})
SharingAndGraphFixes ==
  Human({"shared_object_owned_by_inactive", "public_shared_filter", "public_shared_dashboard",
         "unreachable_status", "dead_end_status", "global_transition_overuse"})
ReferenceAndIssueFixes ==
  App({"workflow_unreferenced", "screen_not_in_scheme"})
  ++ Human({"done_but_unresolved", "resolved_but_open", "stale_open_issues",
            "unassigned_unresolved_high"})
SpaceFixes ==
  App({"empty_space", "confluence_empty_group"})
  ++ Human({"large_space", "space_no_homepage", "orphaned_pages", "unsupported_macro_usage"})
SpaceAccessFixes ==
  Human({"cross_space_include_risk", "archived_space_clutter", "personal_space_sprawl",
         "space_count_near_guardrail", "space_no_admin", "anonymous_space_access"})
ContentFixes ==
  Human({"space_permission_to_anyone", "permission_grant_to_empty_group", "restricted_pages",
         "stale_page_ratio_high", "drafts_pileup", "label_sprawl", "template_sprawl"})
CoverageFixes == Human({"capability_gap", "area_error"})

JiraFixes ==
  LeftoverFixes ++ MigrationFixes ++ FieldAndStatusFixes ++ SprawlFixes ++ ReleaseFixes
    ++ CatalogueFixes ++ LimitFixes ++ DuplicateFixes ++ ProjectFixes ++ SharingAndGraphFixes
    ++ ReferenceAndIssueFixes

\* Mutant: the kinds the two products share are thought to be Jira's alone.
FixesJiraOnly == JiraFixes ++ SpaceFixes ++ SpaceAccessFixes

Fixes == JiraFixes ++ SpaceFixes ++ SpaceAccessFixes ++ ContentFixes ++ CoverageFixes

\* The kinds whose object an operator may have deleted, or archived, by the app.
AppKinds == {k \in DOMAIN Fixes : Fixes[k] = "app"}
=============================================================================
