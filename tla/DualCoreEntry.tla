---------------------------- MODULE DualCoreEntry ----------------------------
(***************************************************************************)
(* scheduler/dual_core.py as Python executes it: importing the module runs *)
(* its def statements from top to bottom, each binding a global name and   *)
(* rebinding it if an earlier def has bound it; plan_dual_core_schedule    *)
(* then calls the helpers by name.  A call raises TypeError unless its     *)
(* keywords are keyword-only parameters of what the name is bound to, with *)
(* all of the required ones, and reading an unbound name raises NameError. *)
(***************************************************************************)
EXTENDS Naturals, Sequences

CONSTANT NodeCounts    \* how many bound nodes the NIGIR may have

Def(name, required, optional) == [name |-> name, required |-> required, optional |-> optional]

Sizes == {"macro_op", "stage", "resource_set", "duration_slots"}
Target == {"node", "candidate", "capabilities"}

(* The helpers that the calls below reach, in the order of the file. *)
Definitions == <<
  Def("_build_scheduled_node_plans", {"candidates_by_node", "allocations_by_node", "scenario"}, {}),
  Def("_build_transfer_plans", {"producer_by_tensor", "core_by_node", "allocations_by_node",
                                "capabilities"}, {}),
  Def("_build_pending_blocks", {"stage_names_by_node", "producer_by_tensor", "core_by_node",
                                "transfer_plans", "allocations_by_node", "capabilities"}, {}),
  Def("_input_dependency_block_ids", {"consumer_core_id", "producer_by_tensor",
                                "stage_names_by_node", "core_by_node", "transfer_plans"}, {}),
  Def("_earliest_issue_slot", {"core_id", "depends_on", "resource_reservations",
                                "reservations_by_resource", "block_end_slots"}, {}),
  Def("_reserve_resources", {"core_id", "issue_slot", "resource_reservations",
                                "reservations_by_resource"}, {}),
  Def("_resource_reservations", Sizes \cup {"core_id", "sync_cost_cycles"}, Target),
  Def("_lower_node_stages", {}, {}),
  Def("_build_pending_blocks", {"candidates_by_node", "allocations_by_node",
                                "producer_by_tensor", "capabilities", "scenario"}, {}),
  Def("_input_dependency_block_ids", {"producer_by_tensor", "stage_names_by_node"}, {}),
  Def("_earliest_issue_slot", {"depends_on", "resource_reservations",
                                "reservations_by_resource", "block_end_slots"}, {}),
  Def("_reserve_resources", {"issue_slot", "resource_reservations",
                                "reservations_by_resource"}, {}),
  Def("_resource_reservations", Sizes, Target) >>

Call(callee, keywords, reads, each) ==
  [callee |-> callee, keywords |-> keywords, reads |-> reads, each |-> each]

(* The calls in the order a schedule makes them first; "each": only when there
   is a bound node. *)
Calls == <<
  Call("_build_scheduled_node_plans",
       {"candidates_by_node", "allocations_by_node", "scenario"}, {}, FALSE),
  Call("_lower_node_stages", {}, {"_GEMM_COMPUTE_RESOURCES", "_STAGE_POLICIES"}, TRUE),
  Call("_build_transfer_plans",
       {"producer_by_tensor", "core_by_node", "allocations_by_node", "capabilities"}, {}, FALSE),
  Call("_build_pending_blocks",
       {"stage_names_by_node", "producer_by_tensor", "core_by_node", "transfer_plans",
        "allocations_by_node", "capabilities"}, {}, FALSE),
  Call("_input_dependency_block_ids",
       {"consumer_core_id", "producer_by_tensor", "stage_names_by_node", "core_by_node",
        "transfer_plans"}, {}, TRUE),
  Call("_resource_reservations",
       Sizes \cup Target \cup {"core_id", "sync_cost_cycles"}, {}, TRUE),
  Call("_earliest_issue_slot",
       {"core_id", "depends_on", "resource_reservations", "reservations_by_resource",
        "block_end_slots"}, {}, TRUE),
  Call("_reserve_resources",
       {"core_id", "issue_slot", "resource_reservations", "reservations_by_resource"}, {}, TRUE) >>

VARIABLES nodes,     \* bound nodes of the NIGIR
          loaded,    \* def statements executed
          globals,   \* what each name is bound to: the index of a def, 0 if unbound
          made,      \* calls made
          raised     \* the exception that ends the run
vars == <<nodes, loaded, globals, made, raised>>

Names == {Definitions[i].name : i \in DOMAIN Definitions}
           \cup UNION {Calls[i].reads : i \in DOMAIN Calls}

Init == /\ nodes \in NodeCounts
        /\ loaded = 0
        /\ globals = [n \in Names |-> 0]
        /\ made = 0
        /\ raised = "none"

(* Importing the module executes its next def statement. *)
ExecuteDef ==
  /\ loaded < Len(Definitions)
  /\ loaded' = loaded + 1
  /\ globals' = [globals EXCEPT ![Definitions[loaded'].name] = loaded']
  /\ UNCHANGED <<nodes, made, raised>>

Accepts(def, keywords) ==
  def.required \subseteq keywords /\ keywords \subseteq def.required \cup def.optional

(* plan_dual_core_schedule reaches its next call. *)
MakeCall ==
  /\ loaded = Len(Definitions) /\ made < Len(Calls) /\ raised = "none"
  /\ made' = made + 1
  /\ LET call == Calls[made'] IN
       raised' = IF call.each /\ nodes = 0 THEN "none"
                 ELSE IF ~ Accepts(Definitions[globals[call.callee]], call.keywords) THEN "TypeError"
                 ELSE IF \E r \in call.reads : globals[r] = 0 THEN "NameError"
                 ELSE "none"
  /\ UNCHANGED <<nodes, loaded, globals>>

Next == ExecuteDef \/ MakeCall
Spec == Init /\ [][Next]_vars

(* "Helper functions [...] were appended to planning/dual_core_scheduler.py to
   keep the dual-core scheduler implementation intact"
   (.planning/phases/01-cleanup-foundation/01-02b-SUMMARY.md): a schedule is
   made without a call failing. *)
ImplementationIntact == raised = "none"
=============================================================================
