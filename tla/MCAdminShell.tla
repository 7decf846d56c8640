---------------------------- MODULE MCAdminShell ---------------------------
(* Two tenants with different plans, one of them with a single branch; an    *)
(* administrator, a supervisor, and a cashier with an assigned branch.       *)
EXTENDS AdminShell

MCTenants == {"a", "b"}
MCSucs == [a |-> {"a1", "a2"}, b |-> {"b1"}]
MCPlanDe == [a |-> "profesional", b |-> "basico"]
MCUsuarios ==
  {[tenant |-> "a", rol |-> "admin", suc |-> "todas"],
   [tenant |-> "a", rol |-> "cajero", suc |-> "a1"],
   [tenant |-> "b", rol |-> "supervisor", suc |-> "todas"]}
=============================================================================
