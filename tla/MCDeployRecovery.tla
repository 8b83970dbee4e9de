-------------------------- MODULE MCDeployRecovery --------------------------
(* Instances of DeployRecovery for TLC: the services and environments of each run. *)
EXTENDS DeployRecoveryProperties

CONSTANTS n1, n2

OneService == <<{n1, n2}>>
TwoServices == <<{n1}, {n2}>>

Calm == {{}}
Lossy == {{"answer"}}
Varied == {{"setup"}, {"setup", "jitter"}, {"crash", "setup"}, {"crash", "answer"},
           {"answer", "byip"}}
============================================================================
