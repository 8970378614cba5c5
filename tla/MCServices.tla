----------------------------- MODULE MCServices -----------------------------
(* The services that share no state the properties speak of, in one run: every behaviour *)
(* is of the one that focus names, and the others stay as they started. *)
EXTENDS Organizations, Billing, Accounts, Workspace, Metrics, Analysis, IntelligencePage,
        ArgoClient, Discovery, TLC

CONSTANTS u1, u2, p1, p2, e1, r1, r2, a1, a2

MCUser == {u1, u2}
MCProject == {p1, p2}
MCEnvironment == {e1}
MCEnsurer == {r1, r2}
MCWebhook == {r1, r2}
MCIssuer == {r1, r2}
MCRow == <<a1>>
MCReader == {r1, r2}
MCInstant == {0, 3, 5}
MCCharted == {a1, a2}
MCUnobserved == {a2}
MCApp == {a1, a2}
\* Servers with mail, without SMTP, and without the pages' address.
MCMailEnvironment ==
  {[smtp |-> TRUE, production |-> TRUE, origin |-> "public https"],
   [smtp |-> FALSE, production |-> FALSE, origin |-> "unset"],
   [smtp |-> TRUE, production |-> TRUE, origin |-> "unset"]}
MCAddress == {[kind |-> "public", family |-> 6, form |-> "plain"],
              [kind |-> "reserved", family |-> 6, form |-> "hex"],
              [kind |-> "metadata", family |-> 6, form |-> "dotted"]} \cup
             [kind : {"private", "metadata"}, family : {4}, form : {"plain"}]
MCSignal == {"s", "blank"}
MCBlank == {"blank"}

Requests == Permutations({r1, r2})

VARIABLE focus

vars == <<focus, orgVars, billingVars, accountVars, workspaceVars, history, analysisVars, pageVars,
          clientVars, discoveryVars>>

\* What a module starts with makes no difference where it is not in focus.
Init ==
  /\ focus \in {"organizations", "billing", "accounts", "workspace", "metrics", "analysis", "page",
               "client", "discovery"}
  /\ OrganizationsInit /\ BillingInit /\ AccountsInit /\ WorkspaceInit
  /\ MetricsInit /\ AnalysisInit /\ PageInit /\ ClientInit /\ DiscoveryInit
  /\ focus # "organizations" => projects = [p \in Project |-> NoProject]
  /\ focus # "page" => token = "none" /\ requested = NoApp
  /\ focus # "accounts" => mail.origin = "public https"
  /\ focus # "client" => production /\ ~environment.usable /\ dns = {}
  /\ focus # "discovery" => applicationList.shape = "items" /\ size = MAX_CHARS

OthersThan(name) ==
  /\ UNCHANGED focus
  /\ name # "organizations" => UNCHANGED orgVars
  /\ name # "billing" => UNCHANGED billingVars
  /\ name # "accounts" => UNCHANGED accountVars
  /\ name # "workspace" => UNCHANGED workspaceVars
  /\ name # "metrics" => UNCHANGED history
  /\ name # "analysis" => UNCHANGED analysisVars
  /\ name # "page" => UNCHANGED pageVars
  /\ name # "client" => UNCHANGED clientVars
  /\ name # "discovery" => UNCHANGED discoveryVars

Next ==
  \/ focus = "organizations" /\ OrganizationsNext /\ OthersThan(focus)
  \/ focus = "billing" /\ BillingNext /\ OthersThan(focus)
  \/ focus = "accounts" /\ AccountsNext /\ OthersThan(focus)
  \/ focus = "workspace" /\ WorkspaceNext /\ OthersThan(focus)
  \/ focus = "metrics" /\ MetricsNext /\ OthersThan(focus)
  \/ focus = "analysis" /\ AnalysisNext /\ OthersThan(focus)
  \/ focus = "page" /\ PageNext /\ OthersThan(focus)
  \/ focus = "client" /\ ClientNext /\ OthersThan(focus)
  \/ focus = "discovery" /\ DiscoveryNext /\ OthersThan(focus)

Spec == Init /\ [][Next]_vars
=============================================================================
