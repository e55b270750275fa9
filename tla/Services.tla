------------------------------ MODULE Services ------------------------------
(***************************************************************************)
(* The services about the collection, side by side as the parts of         *)
(* Collection are: estimates, how one is made, the reports on them, the    *)
(* caches under them and the alerts of what renews them, archives and      *)
(* being allowed to restore one, the key they are encrypted with, stored   *)
(* secrets, the audit log, sign-in providers and the dashboard.  They      *)
(* share no state: a behaviour has one of them at work.                    *)
(***************************************************************************)
EXTENDS Prices, Quotes, Reports, Alerts, Caches, Archives, KeyFile, Secrets, Records,
        Providers, Layouts

VARIABLE part    \* the part at work

services == <<prices, quotes, reports, alerts, caches, archives, keyfile, secrets, records,
              providers, layouts, part>>

\* The choices of a part that is not at work are not multiplied.
Init ==
  /\ part \in {"prices", "quotes", "reports", "alerts", "caches", "archives", "keyfile", "secrets",
               "records", "providers", "layouts"}
  /\ PricesInit /\ QuotesInit /\ ReportsInit /\ AlertsInit /\ CachesInit /\ ArchivesInit
  /\ KeyFileInit /\ SecretsInit /\ RecordsInit /\ ProvidersInit /\ LayoutsInit
  /\ part # "prices" => \A i \in Priced : est[i] = {}
  /\ part # "quotes" => quoteFrom = "numista" /\ listing = <<>> /\ estimated = Ungraded
  /\ part # "caches" => cachedAs = "source"
  /\ part # "layouts" => \A t \in WidgetTypes : ~Has(t)

Next ==
  /\ UNCHANGED part
  /\ \/ part = "prices" /\ PricesNext
     \/ part = "quotes" /\ QuotesNext
     \/ part = "reports" /\ ReportsNext
     \/ part = "alerts" /\ AlertsNext
     \/ part = "caches" /\ CachesNext
     \/ part = "archives" /\ ArchivesNext
     \/ part = "keyfile" /\ KeyFileNext
     \/ part = "secrets" /\ SecretsNext
     \/ part = "records" /\ RecordsNext
     \/ part = "providers" /\ ProvidersNext
     \/ part = "layouts" /\ LayoutsNext
  \* The others stand still.
  /\ part = "prices" \/ UNCHANGED prices
  /\ part = "quotes" \/ UNCHANGED quotes
  /\ part = "reports" \/ UNCHANGED reports
  /\ part = "alerts" \/ UNCHANGED alerts
  /\ part = "caches" \/ UNCHANGED caches
  /\ part = "archives" \/ UNCHANGED archives
  /\ part = "keyfile" \/ UNCHANGED keyfile
  /\ part = "secrets" \/ UNCHANGED secrets
  /\ part = "records" \/ UNCHANGED records
  /\ part = "providers" \/ UNCHANGED providers
  /\ part = "layouts" \/ UNCHANGED layouts

Spec == Init /\ [][Next]_services
=============================================================================
