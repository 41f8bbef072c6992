---------------------------- MODULE DbtDiscovery ----------------------------
(***************************************************************************)
(* POST /publish-dbt-pii-discovery: DbtPiiDiscoveryPublisher collects the  *)
(* findings of the dbt package from every configured location and reports  *)
(* them by resource.                                                       *)
(***************************************************************************)
EXTENDS DiscoveryState

CONSTANT Configured  \* sequence of locations: DBT_PII_DISCOVERY_DATASETS

ASSUME PublishAssumption == Configured \in Seq(Locations)

VARIABLE publish           \* [Publications -> PublishState]

PublishState == [phase: {"idle", "reading", "done"},
                 at: 1..(Len(Configured) + 1),
                 byResource: SUBSET Finding,    \* by_resource
                 unread: SUBSET Locations]      \* history: the query failed

IdlePublish == [phase |-> "idle", at |-> 1, byResource |-> {}, unread |-> {}]

StartPublish(p) ==
    /\ p \in due /\ publish[p].phase = "idle"
    /\ publish' = [publish EXCEPT ![p].phase =
                                IF Configured = <<>> THEN "done" ELSE "reading"]
    /\ Begins(p)
    /\ UNCHANGED <<world, faults>>

\* What a location yields; a query that fails yields nothing, and the pass
\* goes on.
Collected(p, findings) ==
    publish' = [publish EXCEPT
        ![p].phase = IF publish[p].at = Len(Configured) THEN "done" ELSE "reading",
        ![p].at = @ + 1,
        ![p].byResource = @ \cup findings]

ReadLocation(p) ==
    /\ publish[p].phase = "reading"
    /\ Collected(p, Holds(Configured[publish[p].at]))
    /\ UNCHANGED <<world, faults, history>>

\* Mutant: a failing location ends the pass.
ReadLocationEnds(p) ==
    /\ publish[p].phase = "reading"
    /\ Fault
    /\ publish' = [publish EXCEPT
          ![p].phase = "done",
          ![p].unread = @ \cup {Configured[publish[p].at]}]
    /\ UNCHANGED <<world, history>>

ReadLocationFails(p) ==
    /\ publish[p].phase = "reading"
    /\ Fault
    /\ publish' = [publish EXCEPT
          ![p].phase = IF publish[p].at = Len(Configured) THEN "done" ELSE "reading",
          ![p].at = @ + 1,
          ![p].unread = @ \cup {Configured[publish[p].at]}]
    /\ UNCHANGED <<world, history>>

PublishNext(p) ==
    \/ StartPublish(p)
    \/ ReadLocation(p)
    \/ ReadLocationFails(p)
=============================================================================
