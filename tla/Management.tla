----------------------------- MODULE Management -----------------------------
(***************************************************************************)
(* The management endpoints that change data, served by the same workers.  *)
(* Each has tables of its own and no request touches those of another, so  *)
(* that behaviours of one endpoint at a time are all there is to see.      *)
(***************************************************************************)
EXTENDS VulnStatus, DefaultReasons, Comments, SaErrata

CONSTANT Endpoints   \* the endpoints that are looked at

ASSUME EndpointsAssumption ==
    Endpoints \subseteq {"vuln_status", "default_reasons", "comments", "sa"}

VARIABLE endpoint

managementVars ==
    <<endpoint, versions, reasons, comments, history, second, errata,
      place, request, seen, overtaken, left>>

ManagementInit ==
    /\ endpoint \in Endpoints
    /\ RequestsInit /\ StatusInit /\ ReasonsInit /\ CommentsInit /\ SaInit

ManagementNext ==
    /\ UNCHANGED endpoint
    /\ \/ /\ endpoint = "vuln_status" /\ StatusNext
          /\ UNCHANGED <<reasons, errata>> /\ UNCHANGED commentVars
       \/ /\ endpoint = "default_reasons" /\ ReasonsNext
          /\ UNCHANGED <<versions, errata>> /\ UNCHANGED commentVars
       \/ /\ endpoint = "comments" /\ CommentsNext
          /\ UNCHANGED <<versions, reasons, errata>>
       \/ /\ endpoint = "sa" /\ SaNext
          /\ UNCHANGED <<versions, reasons>> /\ UNCHANGED commentVars

ManagementSpec == ManagementInit /\ [][ManagementNext]_managementVars

ManagementTypeOK ==
    /\ endpoint = "vuln_status" => StatusTypeOK
    /\ endpoint = "default_reasons" => ReasonsTypeOK
    /\ endpoint = "comments" => CommentsTypeOK
    /\ endpoint = "sa" => SaTypeOK
=============================================================================
