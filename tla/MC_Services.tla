------------------------------ MODULE MC_Services ------------------------------
(* The services beside the course, community and session core, for TLC.     *)
(* They share no row with one another, so a run of all of them interleaved  *)
(* would show nothing that each alone does not: Init picks one, and the     *)
(* others rest.                                                             *)
EXTENDS Accounts, CacheAside, Files, Http, Jobs, LiveSession, Notifications,
        Ordering, Presence

VARIABLE part   \* the service that runs

Parts == {"accounts", "cache", "files", "http", "jobs", "live", "notifications",
          "ordering", "presence"}

servicesVars == <<accVars, caVars, flVars, httpVars, jobVars, lsVars, ntVars,
                  ordVars, preVars, part>>

ServicesInit ==
  /\ part \in Parts
  /\ AccInit /\ CaInit /\ FlInit /\ HttpInit /\ JobInit /\ LsInit /\ NtInit
  /\ OrdInit /\ PreInit

Runs(name, next) == part = name /\ next /\ UNCHANGED part

ServicesNext ==
  \/ Runs("accounts", AccNext)
       /\ UNCHANGED <<caVars, flVars, httpVars, jobVars, lsVars, ntVars, ordVars, preVars>>
  \/ Runs("cache", CaNext)
       /\ UNCHANGED <<accVars, flVars, httpVars, jobVars, lsVars, ntVars, ordVars, preVars>>
  \/ Runs("files", FlNext)
       /\ UNCHANGED <<accVars, caVars, httpVars, jobVars, lsVars, ntVars, ordVars, preVars>>
  \/ Runs("http", HttpNext)
       /\ UNCHANGED <<accVars, caVars, flVars, jobVars, lsVars, ntVars, ordVars, preVars>>
  \/ Runs("jobs", JobNext)
       /\ UNCHANGED <<accVars, caVars, flVars, httpVars, lsVars, ntVars, ordVars, preVars>>
  \/ Runs("live", LsNext)
       /\ UNCHANGED <<accVars, caVars, flVars, httpVars, jobVars, ntVars, ordVars, preVars>>
  \/ Runs("notifications", NtNext)
       /\ UNCHANGED <<accVars, caVars, flVars, httpVars, jobVars, lsVars, ordVars, preVars>>
  \/ Runs("ordering", OrdNext)
       /\ UNCHANGED <<accVars, caVars, flVars, httpVars, jobVars, lsVars, ntVars, preVars>>
  \/ Runs("presence", PreNext)
       /\ UNCHANGED <<accVars, caVars, flVars, httpVars, jobVars, lsVars, ntVars, ordVars>>

ServicesSpec ==
  ServicesInit /\ [][ServicesNext]_servicesVars /\ AccFair /\ JobFair

\* Every service keeps its types, its reference values among them.
ServicesTypeOK ==
  /\ AccTypeOK /\ CaTypeOK /\ FlTypeOK /\ HttpTypeOK /\ JobTypeOK /\ LsTypeOK
  /\ NtTypeOK /\ OrdTypeOK /\ PreTypeOK
================================================================================
