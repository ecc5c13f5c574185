----------------------------- MODULE MCModeLoop -----------------------------
EXTENDS ModeLoop

\* In the cluster the A/B test alone: there the other modes are but delays.
MCConfigured == [vm |-> {"iperf", "fortio", "exit", "relay"},
                 container |-> {"proxy-off", "proxy-on"}]
=============================================================================
