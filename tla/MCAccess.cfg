CONSTANTS
    s1 = s1
    s2 = s2
    v1 = v1
    v2 = v2
    Slots <- MCSlots
    Values <- MCValues
    Calls = {}
    Tables = {"clusters", "nodes", "namespaces", "workloads", "pods", "network_policies",
              "image_versions", "image_origin_mappings", "image_registries", "audit_events",
              "users", "sessions", "api_tokens", "oidc_auth_states", "settings", "health",
              "cloud_accounts", "virtual_machines", "security_groups", "kube_node_vms",
              "cluster_policies", "flow_references", "endpoint_groups",
              "application_blocks", "applications"}
    TTL = 0
    ChanCap = 1
SPECIFICATION Spec
SYMMETRY Symmetry
INVARIANTS
    TypeOK
    Traceable
    ChangesNeedTheirScope
    RefusedMeansUntouched
    AccountsApart
