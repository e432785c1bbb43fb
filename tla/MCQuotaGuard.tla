---------------------------- MODULE MCQuotaGuard ----------------------------
(* Instances of QuotaGuard for TLC.                                        *)
EXTENDS QuotaGuard

\* A cluster whose vCPUs suffice for one lab, to the last; a Cinder whose limit is 0.
SmallCluster == [vcpus |-> 10, ram |-> 65536, disk |-> 1000]
OneLimit     == {[used |-> 0, total |-> 0]}

\* The estimate of resourceRequestFor, the five servers of topologyFor (a small, two start,
\* a medium and a large one), and a start server of somebody else.
Estimate    == [vcpus |-> 2, ram |-> 4096, disk |-> 20]
FiveServers == [vcpus |-> 9, ram |-> 16384, disk |-> 160]
OneServer   == [vcpus |-> 1, ram |-> 1024, disk |-> 10]
=============================================================================
