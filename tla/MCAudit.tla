------------------------------ MODULE MCAudit ------------------------------
(***************************************************************************)
(* Three directories for Audit, one of which no backend has a row for.     *)
(***************************************************************************)
EXTENDS Audit, TLC

CONSTANTS bare, wrapped, lustre

MCPaths == {bare, wrapped, lustre}
MCArgLists ==
    {<<>>, <<Unset>>, <<bare>>, <<bare, lustre>>, <<lustre, bare>>, <<wrapped, lustre>>,
     <<Unset, wrapped>>, <<lustre, Unset>>, <<wrapped, wrapped>>,
     <<lustre, wrapped, bare>>}
MCBackendMaps == <<{wrapped}, {lustre}>>

Off == [o \in {"quotaOnly", "deletedOnly", "count", "bySize", "full", "noQuota",
              "noDeleted", "noSettle", "json", "tty"} |-> FALSE] @@ [sane |-> TRUE]
With(set) == [o \in DOMAIN Off |-> Off[o] \/ o \in set]
MCOptions ==
    {With({"quotaOnly"}), With({"deletedOnly"}), With({"tty", "count"}),
     With({"full", "tty"}), With({"json", "noDeleted"}),
     With({"full", "noQuota", "noSettle"}),
     With({"quotaOnly", "noQuota"}), With({"count", "bySize"}), [Off EXCEPT !.sane = FALSE]}
=============================================================================
