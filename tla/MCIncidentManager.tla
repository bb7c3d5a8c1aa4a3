------------------------- MODULE MCIncidentManager -------------------------
(* A small world of events for IncidentManager: a gateway g that sends       *)
(* traffic to a checkout service c, and c to a payment service p.            *)
EXTENDS IncidentManager, TLC

T == INSTANCE Topology

CONSTANTS g, c, p, t1, saturation, pressure, maintenance,
          stableIngress, normalDb, ingress, other

Hops ==
    [pair \in {g, c, p} \X {g, c, p} |->
        T!TrafficDistance({g, c, p}, {<<g, c>>, <<c, p>>}, pair[1], pair[2])]

World ==
    << \* 1: a configuration change: context only, no symptom family
       [entity |-> c, time |-> 0, trace |-> t1, families |-> << >>,
        anomalies |-> {[score |-> 90, opens |-> FALSE]}, rules |-> {},
        signal |-> other],
       \* 2: the symptom at the checkout
       [entity |-> c, time |-> 70, trace |-> NoTrace,
        families |-> <<saturation>>,
        anomalies |-> {[score |-> 80, opens |-> TRUE],
                       [score |-> 70, opens |-> TRUE]},
        rules |-> {stableIngress}, signal |-> ingress],
       \* 3: at the same time a symptom at the gateway, in the trace of 1
       [entity |-> g, time |-> 70, trace |-> t1, families |-> <<pressure>>,
        anomalies |-> {[score |-> 85, opens |-> TRUE]}, rules |-> {},
        signal |-> other],
       \* 4: a normal sample that is evidence
       [entity |-> c, time |-> 70, trace |-> NoTrace,
        families |-> <<saturation>>, anomalies |-> {},
        rules |-> {stableIngress}, signal |-> ingress],
       \* 5: a maintenance warning
       [entity |-> p, time |-> 120, trace |-> NoTrace,
        families |-> <<maintenance>>,
        anomalies |-> {[score |-> 60, opens |-> TRUE]}, rules |-> {},
        signal |-> other],
       \* 6: a symptom after the idle window of 2
       [entity |-> c, time |-> 400, trace |-> NoTrace,
        families |-> <<saturation, pressure>>,
        anomalies |-> {[score |-> 95, opens |-> TRUE]}, rules |-> {normalDb},
        signal |-> other] >>

WorldEvents == 1..Len(World)
WorldEntity == [e \in WorldEvents |-> World[e].entity]
WorldTime == [e \in WorldEvents |-> World[e].time]
WorldTrace == [e \in WorldEvents |-> World[e].trace]
WorldFamilies == [e \in WorldEvents |-> World[e].families]
WorldAnomalies == [e \in WorldEvents |-> World[e].anomalies]
WorldRules == [e \in WorldEvents |-> World[e].rules]
WorldSignal == [e \in WorldEvents |-> World[e].signal]
WorldFamilyOf == [r \in {stableIngress, normalDb} |-> saturation]
WorldIncompatible == {<<maintenance, saturation>>}
=============================================================================
