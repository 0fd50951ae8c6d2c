------------------------------- MODULE Access -------------------------------
(***************************************************************************)
(* Who may do what: domain/auth.py.  A principal is a human with roles or  *)
(* a service with one identity, and carries the targets assigned to it. A  *)
(* target is a record of a resource kind and an identifier.                *)
(***************************************************************************)
EXTENDS FiniteSets

CONSTANT NoIdentity   \* the service identity of a human

Role == {"viewer", "researcher", "strategy_reviewer", "paper_operator", "admin"}
HumanPermission == {"read", "run_research", "review_strategy", "operate_paper",
                    "administer"}
ServicePermission == {"read_assigned_artifact", "complete_assigned_research",
                      "execute_assigned_paper", "dispatch_assigned_research",
                      "dispatch_assigned_backtest", "dispatch_assigned_market_data",
                      "preflight_assigned_research"}
Permission == HumanPermission \cup ServicePermission
ServiceIdentity == {"core_runner", "research_worker", "paper_executor"}
ResourceKind == {"account", "strategy", "evaluation", "research_run", "report",
                 "snapshot", "instrument", "market", "paper_global", "artifact",
                 "job", "backtest_job"}

\* _ROLE_PERMISSIONS.
RolePermissions ==
    [viewer            |-> {"read"},
     researcher        |-> {"read", "run_research"},
     strategy_reviewer |-> {"read", "run_research", "review_strategy"},
     paper_operator    |-> {"read", "operate_paper"},
     admin             |-> HumanPermission]

\* _SERVICE_PERMISSIONS.
ServicePermissions ==
    [core_runner     |-> {"dispatch_assigned_research", "dispatch_assigned_backtest",
                          "dispatch_assigned_market_data",
                          "preflight_assigned_research"},
     research_worker |-> {"read_assigned_artifact", "complete_assigned_research"},
     paper_executor  |-> {"execute_assigned_paper"}]

\* _SERVICE_TARGET_KINDS.
ServiceTargetKinds(permission) ==
    CASE permission = "read_assigned_artifact" -> {"artifact"}
      [] permission = "complete_assigned_research" -> {"job", "research_run"}
      [] permission = "execute_assigned_paper" -> {"account"}
      [] permission \in {"dispatch_assigned_research",
                         "preflight_assigned_research"} -> {"job"}
      [] permission = "dispatch_assigned_backtest" -> {"backtest_job"}
      [] permission = "dispatch_assigned_market_data" -> {"market"}
      [] OTHER -> {}

\* LocalPrincipal.validate_principal_kind: roles or an identity, never both.
WellFormed(p) ==
    IF p.kind = "human" THEN p.roles # {} /\ p.identity = NoIdentity
                        ELSE p.roles = {} /\ p.identity \in ServiceIdentity

\* authorize.
Authorized(p, permission) ==
    IF p.kind = "human"
    THEN \E role \in p.roles : permission \in RolePermissions[role]
    ELSE p.identity # NoIdentity /\ permission \in ServicePermissions[p.identity]

\* authorize_target.
AuthorizedFor(p, permission, target) ==
    /\ Authorized(p, permission)
    /\ p.kind = "service" => target.kind \in ServiceTargetKinds(permission)
    /\ "admin" \in p.roles \/ target \in p.targets

\* authorize_owned_target.
AuthorizedOwner(p, permission, target, owner) ==
    /\ Authorized(p, permission)
    /\ p.subject = owner \/ "admin" \in p.roles \/ target \in p.targets
=============================================================================
