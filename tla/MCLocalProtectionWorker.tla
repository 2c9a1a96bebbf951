----------------------- MODULE MCLocalProtectionWorker -----------------------
EXTENDS LocalProtectionWorker

Guard      == [normal |-> 3, safe |-> 1, trigger |-> 8, auto |-> TRUE]
MonitorCfg == [normal |-> 2, safe |-> 2, trigger |-> 8, auto |-> TRUE]

(* What a save of MonitorCfg over Guard leaves when it stops half way.      *)
HalfSaved  == [normal |-> 2, safe |-> 1, trigger |-> 8, auto |-> TRUE]

GuardOnly  == {Guard}
AllConfigs == {Guard, HalfSaved, MonitorCfg}
=============================================================================
