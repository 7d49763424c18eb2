--------------------------- MODULE MCAddPackagePage ---------------------------
(* Repositories of three contents, none of Organizational Blueprints; a    *)
(* blueprint of the team's and an external one, of five possible contents. *)
EXTENDS AddPackagePage

Repositories4 == {"apps", "team", "shared", "catalog"}

Descriptors ==
    [r \in Repositories4 |->
        CASE r = "apps" -> "Deployment"
          [] r \in {"team", "shared"} -> "Team Blueprint"
          [] r = "catalog" -> "External Blueprint"]

Sources == {"web", "nginx"}

Origins == [s \in Sources |-> IF s = "web" THEN "team" ELSE "catalog"]

Names == [s \in Sources |-> "web"]

Shaped(mutator, validator, path, kind, n) ==
    [mutator |-> mutator, validator |-> validator, info |-> "given",
     files |-> [f \in {"package-context.yaml", "set-namespace.yaml",
                       "kubeval-config.yaml", "namespace.yaml",
                       "function-config.yaml"} |->
        CASE f = path -> <<[kind |-> kind, local |-> TRUE, namespace |-> n]>>
          [] f # path /\ (f = validator \/ f = "package-context.yaml")
                -> <<[kind |-> "ConfigMap", local |-> TRUE, namespace |-> ""]>>
          [] OTHER -> <<>>]]

Shapes ==
    {Shaped("none", "none", "none", "ConfigMap", ""),
     Shaped("package-context.yaml", "kubeval-config.yaml", "none", "ConfigMap", ""),
     Shaped("set-namespace.yaml", "kubeval-config.yaml", "set-namespace.yaml",
            "SetNamespace", "web"),
     Shaped("function-config.yaml", "inline", "function-config.yaml",
            "SetNamespace", "nginx"),
     Shaped("function-config.yaml", "none", "function-config.yaml", "ConfigMap", "")}

(* Bound: the external package has a set-namespace function of the usual kind. *)
UsualCatalog == contents["nginx"].mutator = "set-namespace.yaml"

(* Bound: there is a repository to add packages to, and the user types the *)
(* name of one package.                                                     *)
OneName == page.target # Undefined /\ page.form.name # "nginx"

(* Bound: one call is under way for both packages. *)
OneCall == page.calls["web"] + page.calls["nginx"] <= 1
=============================================================================
