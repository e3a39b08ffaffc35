----------------------------- MODULE MCSpecRegistry -----------------------------
(* The constants of the TLC runs of SpecRegistry. *)
EXTENDS SpecRegistry

CONSTANTS t1, t2, f1, x, y

\* The API and the command line onboard for tenants of their own.
MCApiDrafts == {d \in Draft : d.tenant = t1}
MCCliDrafts == {d \in Draft : d.tenant = t2}
=============================================================================
