# TLA+ models of llmSched

llmSched compiles a language model for a dual-core accelerator. An ONNX graph becomes a
Graph IR, canonical operators, a graph of macro operations (NIGIR), and from there
either a TaskDAG or, once bound to shapes and memory classes, a memory plan, a tile plan
and a dual-core schedule. The program is sequential Python; what is hard in it is not
interleaving but order: lists that need not be topological, slots computed early and
used late, maps that are read while they are being extended, and two halves of a file
that must agree about the same numbers.

All paths below are relative to `src/src/llm_sched/`.

## Inventory

| Component | Source | State it keeps | Operations | What makes it correct |
|---|---|---|---|---|
| list scheduler | `scheduler/dual_core.py` main loop, `scheduler/reservations.py` | ready heap, dependency counts, interval list per resource, end slots | pop, search a slot, push back, issue, wake dependents | no resource held twice; every block after its dependencies; no block lost; as early as possible; it ends |
| stage estimates | `scheduler/duration.py` | none | duration of a stage, windows of a stage | windows lie inside the duration, do not overlap, and hold the DMA for the transport |
| dual-core planning | `scheduler/dual_core.py` helpers | plans per node, transfers per pair | assign cores, lower to stages, plan transfers, derive dependencies | data is stored, and moved, before it is used; planning adds no cycle |
| dual-core module | `scheduler/dual_core.py` | the module's global names | import, call | a call finds the definition it was written for |
| TaskDAG builder | `frontend/task_dag_builder.py` | producer map, rewriting map, tasks | elide, resolve, wire | tasks wait for what is behind the layout nodes; it returns |
| TaskDAG validator | the same, `ir/task_dag.py` | Kahn's counts, reachable set | cycle check, orphan check | both checks are exact |
| NIG lowering | `frontend/nig_lowering.py` | producer map, consumer counts, skipped nodes | lower or fuse one node | dataflow is kept; each node is lowered once |
| canonicalization | `frontend/canonicalize.py` | maps of one pass | 18 passes | a tensor keeps its value; a whole pattern is taken whole; nodes stay in order |
| ONNX import | `frontend/onnx_importer.py` | ids seen | read inputs, initializers and nodes | ids are unique and tensors have one producer, whatever the names sanitize to |
| legality | `frontend/legality.py`, `arch.py` | none | collect issues | what it accepts can be lowered, bound and planned |
| binding | `frontend/binding.py`, `shape_binding.py` | none | bind one node | later stages read the bound values; open shapes are closed as legality closed them |
| memory planner | `scheduler/memory.py` | allocations, peaks by region and bucket, bindings by id | plan one node | peaks are those of the nodes named; ids are unique |
| tile planner | `scheduler/tile.py` | none | candidates, ranking | the first candidate stays within the tile that memory was planned for; the others take less |
| profiles, schemas | `config.py`, `models.py`, `ir/*` | none | validate | artifacts pass their validators: ids, references, order |
| files, command line | `ir/io.py`, `cli.py` | none | read, write | not modelled: input and output only |

Interaction: each stage is a function of the artifacts of the stages before it. Import,
canonicalization, lowering and the checks on them form one chain; legality sees the
canonical graph, and binding the NIGIR that lowering made of it, each with tables of its
own. The tile planner reads the memory plan. `plan_dual_core_schedule` calls the
planning helpers once, then the estimates for every block, and then runs the list
scheduler, which shares the reservation calendar with `reservations.py`.
`build_task_dag` runs the builder and then the validator on what it built. There are no
threads, callbacks, retries or persisted state, hence no hazards of crash recovery, lost
messages or timeouts.

## Modules

| Module | Models | Extends |
|---|---|---|
| `PendingJobs` | the input of the list scheduler, and what a placement means | |
| `ScheduleContract` | what a schedule of pending blocks promises (abstract) | `PendingJobs` |
| `ListScheduler` | the scheduling loop and the reservation calendar; `Implements` is the refinement | `PendingJobs` |
| `StageWindows` | `duration.py` from slot counts to durations and windows | |
| `SlotCounts` | `duration.py` from shapes, tiles and bandwidths to slot counts | `StageWindows` |
| `StageDuration` | the two estimates made of one block | `StageWindows` |
| `DualCorePlan` | from a bound NIGIR to pending blocks | `StageWindows` |
| `DualCoreSchedule` | the whole of `plan_dual_core_schedule` | `DualCorePlan`, `ListScheduler` |
| `DualCoreEntry` | the names that function is executed with | |
| `TaskDagValidation` | `validate_task_dag` | |
| `TaskDagBuilder` | `build_task_dag` | `TaskDagValidation` |
| `LinearCanonicalization` | the rewriting common to the passes; identities, products, additions | |
| `ActivationPatterns` | embeddings, decomposed norms, GeGLU | `LinearCanonicalization` |
| `AttentionPatterns` | rotary embedding and its tables, KV cache, attention, mask | `ActivationPatterns` |
| `Canonicalization` | `canonicalize_graph_ir`: the passes in their order | `AttentionPatterns` |
| `NigLowering` | `lower_graph_ir_to_nig` | `Canonicalization` |
| `OnnxImport` | `import_onnx_to_graph_ir` | `LinearCanonicalization` |
| `FrontendPipeline` | import, the passes, the lowering; what graphs mean | `NigLowering`, `OnnxImport` |
| `ShapeBinding` | `shape_binding.py`: open dimensions | |
| `FrontendLegality` | legality, then lowering, then binding of one graph | `NigLowering`, `ShapeBinding` |
| `NodeBinding` | the memory classes and attention payload that binding gives a node | |
| `MemoryPlan` | `plan_memory_artifact` | `NodeBinding` |
| `TilePlan` | `plan_tiling_artifact`, run on the memory plan | `MemoryPlan` |

Theorems are in `ListSchedulerProofs`, `StageWindowsProofs`, `StageDurationProofs`,
`DualCoreProofs`, `TaskDagProofs`, `FrontendPipelineProofs`, `FrontendLegalityProofs` and
`MemoryPlanProofs`. The `MC*` modules are the instances for
TLC: each extends the module in its name, except that `MCPatterns` holds the spelled-out
patterns for `MCFrontendPipeline`, and `MCMemoryPlan` the nodes and targets for
`MCTilePlan`.

**ListScheduler.** One step is one turn of the loop `while ready_heap` or of the loop in
`find_earliest_issue_slot`. `Pop` takes the heap's least entry and starts a search,
`Slip` is a turn of the search that found a conflict, and at its end the block is pushed
(`PushReady`, for a dependent that has just become ready), pushed back (`Requeue`, if
its slot has moved since it was pushed) or issued (`Emit`, with reservation, end slot
and the dependents' counts). `probe` is `issue_slot`, `popped` is
`scheduled_issue_slot`, and the interval lists are the set `reserved`: on one resource
the windows are disjoint (`CalendarOK`, proved), so their starts order them as `insort`
does. Before the loop the calendar is empty, so the searches of the initial blocks end
at slot 0 and are part of `Init`.

**StageWindows, SlotCounts, StageDuration.** `SlotCounts` derives the counts of a stage
as `duration.py` does, each `max(1, ceil(...))`: from the node's shapes, its tile
candidate, its allocations, and bandwidths, which are whole bytes per slot here.
`StageWindows` has every sum, clamp, rounding and split done with these counts. The
prefix or tail is computed twice in the code, by `_dma_stage_slot_breakdown` and again
by `estimate_stage_resource_reservations`: `DmaStageSlots` and `SplitDma` are those two,
kept apart so that their agreement can be checked. An attention node always has its
payload by then, binding having seen to it, so the code's fallback to its attributes is
not reached.

**DualCorePlan, DualCoreSchedule.** A node is named by its place in the list, a block by
node and stage, a transfer by the two nodes it joins. `dual_core.py` defines five
helpers twice; the model translates the first definitions, those the calls in the file
are written against, with `_STAGE_POLICIES` and `_GEMM_COMPUTE_RESOURCES`, which the
file does not define, as constants. Their values in the run follow the schedules
recorded in `tests/fixtures/diagnosis_baseline`. Each stage of a node has slot counts of
its own (`CostOf`). What happens when the file is executed as it stands is
`DualCoreEntry`.

**TaskDagBuilder, TaskDagValidation.** `NextNode`, `AskAlias`, `Follow` and `SetAlias`
are step B of `build_task_dag` with `_resolve_tensor_name` a turn of its loop at a time,
because that loop may not end. Steps D and E resolve each consumed tensor
(`AskConsumed`, `Follow`, `RecordConsumed`); the map no longer changes, so each is
resolved once here. `Assemble` is the rest, a function of what was resolved.
`_find_non_elided_producer` would search on behind layout nodes; `FinderNeverDescends`
shows that it never needs to, which is why `SourceTasks` has no search in it. The first
check of `validate_task_dag` (missing producers) cannot fail: the schema has made it
already.

**OnnxImport.** A model has inputs, initializers and nodes. An id is prefix, name and
suffix, a name what it sanitizes to: a word and the number at its end, because a node
without a name is called after its operator and its index, as another node may be by its
own name. `UniqueId` takes the first free suffix. An input with a default value is in
both lists, and is imported as a constant only.

**Canonicalization, NigLowering, FrontendPipeline.** A pass decides all its fusions with
the maps of the graph it was given and then rewrites it, so a pass is an operator and
one step (`Canonicalize`), and `Pass` has all eighteen in the order of
`canonicalize_graph_ir`. `Rewrite` is `_rewrite_graph_with_matches`; `FuseMatMulAdd` has
the same form in a loop of its own and another way to name what it drops
(`FirstOfPattern`). A matcher walks from the node it is called for towards the inputs:
along nodes with one reader each (`Down`), or whatever else reads them (`Along`), as the
code does for rotary tables. Shapes and values of constants that a matcher asks for are
the `kind` of a tensor. The lowering then scans a node per step: `Drop`, `LowerFused`,
`LowerAlone`, `Refuse`, and at the end `Conclude`.

What graphs mean is symbolic: `Meanings` evaluates each tensor to a term over inputs and
constants, in which a Linear is a product (and a sum), an `RMSNORM_GEMM` a Linear of a
norm, and a `GEGLU` what its tanh spelling computes. Not in the terms, because the code
does not keep them: the side of a product on which the weight stands, and whether a
constant is transposed (`weight_transposed`, which nothing reads). Constants that no
pass looks into are one setting.

**ShapeBinding, FrontendLegality.** `Check` is one turn of
`collect_frontend_legality_issues`; when it has passed the graph the lowering of
`NigLowering` runs on the same graph, and then binding on each node of the NIGIR. No
code makes binding wait for the verdict of legality, and neither does the model: the
properties speak of legal graphs (`Legal`). Graphs have unique node ids, as `GraphIR`
demands, and norms and KV accesses an input (`CasesAssumption`).

**NodeBinding, MemoryPlan, TilePlan.** `PlanNode` is one turn of the loop over the
nodes: tile, allocations, bindings, peaks, formulas, addresses, in the order of the
code. Sizes are computed as the code does, in half bytes where a dtype may have four
bits. An id is modelled by what it is put together from (`StorageId`), a name by the
words the code looks for in it (`Says`) and by what it sanitizes to. `Conclude` is the
artifact's validator; the region summaries it is given are `peak` beside `capacity`.
Address diagnostics and the allocation ids of a peak are sets: nothing reads their
order. `NigsAssumption` and `ScenariosAssumption` are what the schemas demand (positive
lengths, head dimensions and group sizes, unique node ids), and that a matrix product
and a lookup have one output, as ONNX has it of MatMul, Gemm, MatMulNBits and Gather.
Nodes come bound: the classes of their tensors are operators here, because binding has
no state, and a node binding was not asked for may lack one (`Refuse`). `RMSNORM` takes
its fallback class, since `binding.py` classifies the norm by its canonical name
`RMSNorm` only, which a bound node no longer has. After `Conclude`, each step of
`TilePlan` makes and ranks the candidates of one node; `candidates` keeps them node by
node. `tile.py` works out rows and bytes again that `memory.py` has worked out before:
it scales a list of the allocations (`Scaled`) by the quotient of two row counts, which
is exact here and a float there. The MXU of the target (`mxu`) is read by `tile.py` only:
`memory.py` plans for 128 rows and columns whatever the target has (`memory.py:523`).

## Runs

| Run | Instance | Shows |
|---|---|---|
| `list_scheduler` | all 512 dependency relations over three blocks (cycles included) with two shapes of windows, all 64 forward ones over four with 20 combinations of shapes | no double booking, dependencies first, issue slots in order, greedy, nothing lost, contract implemented, termination |
| `stage_duration` | every macro, slot counts 1 to 10, GEGLU up to 34 slots; counts derived from empty, zero and small shapes, with and without a tile | windows fit, do not collide, leave no gap, hold DMA for the transport |
| `dual_core` | all dataflows among three nodes in any list order with three assignments of macros, with and without a core link; four-node graphs with skipped nodes, two producers of a tensor, shared tensors, a node fed by itself | data ready, one holder, complete |
| `task_dag` | all NIGIRs of three nodes with eight input lists each, elided or not; special ones with two outputs, two producers, names that sanitize alike | wiring, exact checks, no dead task, the build returns |
| `frontend` | 5357 ONNX models: three computing nodes over an input and two constants (identities, transposes, both kinds of products, additions, norms), four around a norm, names that sanitize alike, and every pattern of `canonicalize.py` spelled out, whole, lacking a part, with one reader more, or with operands exchanged whose order matters | graphs stay in order, meaning (up to the operands `TakenEitherWay` names) and results kept by each pass and the lowering, whole patterns recognised, refusals exact, ids unique |
| `frontend_legality` | 9030 cases: one computing node, or a norm and a Linear, with open shapes, dtypes, groups and layouts; no target and four targets; no scenario, prefill, decode | what is legal is lowered and bound: shapes closed, opcodes enabled, quantisation complete, cache as on the target |
| `memory_plan` | all pairs of 19 nodes, one or two of each macro, and 32 triples; a decode, a prefill of 5 tokens and one of 64; the regions of `profiles/targets/riscv_npu_dual_core_v1.json`, tight ones, and a target without four of them; then the tile candidates of each, with an MXU of 128 by 128, 64 by 64, and 32 rows of 256 columns | peaks those of the nodes named, bindings describe what refers to them and the validator never fails, tiles fit, KV slices apart; the first candidate stays within the plan, with the planned rows if the columns are, and the others take less |
| `dual_core_entry` | two node counts | violated: `ImplementationIntact` |
| `task_dag_cycles` | two nodes that feed each other | violated: `CyclesRaise` |
| `task_dag_inputs` | a layout node and its consumer | violated: `InputsResolve` |
| `frontend_transposes` | a product with a transposed weight and a bias | violated: `NothingDangling` |
| `frontend_outputs` | an output that is the copy of a product, and a bias | violated: `OutputsKept` |

**Why the bounds are enough.** A conflict of the scheduler involves two placed blocks
and the one being placed, and a stale slot a fourth block issued in between: three
blocks with every dependency relation and four with the forward ones contain all of
these, with windows that start late, repeat a resource, are empty, or share a second
resource. Beyond that, safety of the scheduler is proved for any number of blocks. The
windows of a stage depend on at most two counts; every clamp compares a count with at
most the duration, and the divisors are 2, 4 and 8, so ten slots (34 for GEGLU) meet
each rounding several times; for larger ones the windows are proved. For the TaskDAG,
three nodes allow every cycle with or without an entry, a chain of two layout nodes
before or after their consumer, and a task beside a cycle. In the frontend, patterns
meet when one's output is another's operand or a node is read from outside: the
generated graphs have every wiring of the short patterns (transpose, product, addition,
norm), and the long ones are spelled out with each operand of a sum or product on either
side, with the operands of each other node that a matcher takes either way exchanged, and
with each counted node read once more. Legality, lowering and binding look at a node by itself,
and at two only to fuse a norm. In the memory plan nodes meet in two places only, the
peaks and the KV slices: a peak is lost or shared between two nodes, and a third shows
what is left of the first; shapes are on both sides of every clamp (tile heights and
widths, a row wider than its region), and the query is one token (a decode), fewer than
the sixteen rows attention is cut to, or more. The MXU is as wide as the memory planner
takes it to be, narrower and wider. No counter is capped: all instances are finite.

**Fairness.** `WF_vars(Next)` only: each function is one uninterrupted sequential loop,
which takes its next step if it has one. `Terminates` and `BuildReturns` need nothing
more. Deadlock is not checked where a function returns (the end of the program), and for
no other reason.

**Violations.** Each contradicts a line quoted beside the property. (1)
`plan_dual_core_schedule` raises `NameError` as soon as a node is bound, and `TypeError`
for the rebound helpers otherwise. (2) Two layout nodes on a cycle make
`_resolve_tensor_name` loop for ever. The trace ends in a state that repeats: the tensor
is rewritten to itself. (3) A layout node without inputs leaves its consumer's input
unwired in an accepted TaskDAG. (4) `_fuse_matmul_add` drops the first node its pattern
was traced to. If the weight is transposed that is the transpose: the product stays,
reads a tensor nothing produces, and the lowering refuses it. `frontend` starts from the
graphs without this combination (`Plain`), and holds on all of them. (5) A tensor that
is copied to an output counts as an intermediate once the copy is eliminated, and a
fusion absorbs it; `ResultsKept` of `frontend` is about the outputs that are no copies.

**What is modelled and disagrees with nothing written.** The code does these things and
no doc, comment or test says otherwise, so no property calls them wrong.

* `_kv_tensor_kind` looks for "value" in a name first, and `past_key_values.0.key`
  contains it: the past keys and the past values of a node are bound to one slice (the
  run `memory_plan` has such a node). Two nodes with different head dimensions compute
  different strides for one cache, and `SlicesDisjoint` compares equal strides only.
* The planner reserves space for dequantisation by the quantisation that lowering left,
  not by the bound one.
* Legality never asks a target for `RMSNORM_GEMM`, which the lowering makes of a norm
  and its Linear; `OpcodesEnabled` leaves it out. Nor does it hold attention that reads
  a past cache directly to the cache's dtype and layout.
* Legality and binding take `nf4` weights for quantised, the lowering does not: legality
  asks for `WDQ_GEMM` and the node becomes a `GEMM`. `OpcodesEnabled` and `QuantHonoured`
  name that case. The importer's `MatMulNBits` never has `nf4`.
* A group size of zero or less on a Linear that is not quantised passes legality, and
  the lowering's `QuantBinding` then refuses it with pydantic's own error; a
  `MatMulNBits` without `block_size` gets a group of 0 (`canonicalize.py:134`).
* Attention exported for one token is `SDPA_DECODE` also in a prefill, where `tile.py`
  plans it as a decode and `memory.py` does not. More generally `tile.py` takes as many
  rows for attention as the query has, `memory.py` as many as the shape has, batch
  included, each up to 16. `TopIsPlanned` compares the rows where the two agree
  (`SameRows`).
* `memory.py` plans products for an MXU of 128 by 128 (lines 523 and 524), `tile.py` takes
  the columns and the depth from the target (lines 87, 88, 127 and 128), and divides the
  accumulator's bytes by its own columns. On a narrower MXU the first candidate of a
  product therefore has more rows than planned, up to what the accumulator holds, and
  possibly more than the node has (128 rows for a node of 64 with 64 columns); in a decode
  its one row is only part of the plan (`PartOfPlan`). On a wider MXU it has fewer.
  `TopIsPlanned` demands the planned rows where the columns are the planned ones, and of
  every MXU that the accumulator suffices and no region is claimed beyond what was
  allocated. The depths of the two planners are compared nowhere: a candidate's depth tells
  whether quantisation groups are aligned to it, and enters the estimates of its stages.
* Matchers look for an operand on both sides and do not keep on which they found it, also
  where the order matters. `Concat(new, Slice(past))` becomes the `KVStore` that appends
  what is new, whichever half of a rotation is negated first it becomes a `ROPE`,
  `MatMul(V, Softmax)` becomes an `SDPA`, a rotary table may be made of positions times
  frequencies, and a norm of a root over a constant or of a constant to the power of its
  input. An exporter writes none of these, and no text says what the passes owe them,
  beyond the claim that (4) and (5) already contradict. `MeaningKept` names these nodes
  (`TakenEitherWay`): a model with such nodes must mean afterwards what it would have
  meant with some of them the other way round, and a model without them what it meant.
  The run has models of each kind whose meaning does change.
* Two rotations that share one table are matched in turn, and the first drops what the
  table is made from without counting readers; whole patterns that share it are fused
  both, and the instances have no other reader of it.
* Vector work of macros that are no matrix products, and of `SDPA_DECODE`, is counted on
  the whole tensor while their transport is that of one tile.

## Proofs

`ListSchedulerProofs` proves, for every set of well-formed jobs (`JobsAssumption`: what
`_build_pending_blocks` guarantees of its blocks, among it that the windows of one block
do not collide; `PlannedWell` below proves it):

* `TypeCorrect`: the variables keep their types; in particular no count goes below zero
  and no slot is negative.
* `NeverDoubleBooked`: `Exclusive`.
* `Refinement`: every behaviour is one of `ScheduleContract`.

The inductive invariant `IInv` adds to types and `Exclusive`: `CountsOK` (a count is the
number of dependencies not issued yet), `QueueOK` (what waits in the heap or among the
woken is unissued, with all dependencies issued), `SearchOK` (the probe is not before
the end of any dependency) and `CalendarOK` (the reserved windows are exactly those of
the issued blocks). Without `CalendarOK` the search says nothing about blocks; without
`Exclusive` itself the calendar is not orderly, and looking at two neighbours is not
enough. The argument is short: in an orderly calendar, if any interval meets a request,
then one of its two neighbours does (`NeighboursSuffice`), so a slot without a
conflicting neighbour is free (`ClearIsFree`), so the block that is issued there
collides with no issued block (`FoundFits`), and the calendar stays orderly. Each action
has a lemma of its own; `StepIsPlace` maps `Emit` to the contract's `Place` and every
other action to a stutter.

On top of `IInv` the module proves the rest of what the run
`list_scheduler` checks of safety:

* `IssuedAfterDependencies`: `DependenciesFirst`, with `Recorded` (the list of issued
  blocks and the slots tell of the same blocks).
* `NoneLost`: `NothingLost`, with `Accounted` (a ready block is in the heap, among the
  woken or in the search).
* `IssuedEarliest`: `Earliest`, with `SlotsTight` (each slot in the heap, and the one a
  search has reached, has only taken slots before it). A turn of the search jumps past
  an interval that covers the request's window at every slot jumped over
  (`SlipSkipsTaken`); issuing a block frees nothing (`EmitFreesNothing`).
* `IssuedInOrder`: `IssueOrder`, with `Forward` (no entry of the heap lies before the
  block issued last). A stale slot can only move later, because it was tight when it was
  found (`FoundAfterPop`), and a dependent comes after the end of the block that woke it
  (`FoundAfterWake`).

`StageWindowsProofs` and `StageDurationProofs` prove the five properties of the run
`stage_duration` for all slot counts. Each form of windows (`HoldAll`, `Phased`,
`SplitDma`) *divides* its slots: within, apart and covering (`Divides`). What has to be
shown is that the parts the second half of `duration.py` clamps and derives again add up
to what the first half estimated (`TransportLeft`, `SdpaPhasesAddUp`,
`GegluPhasesAddUp`). `CountsDerived` shows that whatever the shapes, tiles and
bandwidths, `SlotCounts` gives counts as the others assume them (`CostAssumption`):
zeros are clamped.

`DualCoreProofs` proves that what is planned for any bound NIGIR is a well-formed job
(`PlannedWell`): finitely many blocks, distinct ranks, windows that do not collide. So
`JobsAssumption` holds of the planner's jobs, and the scheduler's theorems are about
whole schedules: `InputsReady`, `HeldOnce` and `AllScheduled` are the properties of the
run `dual_core`. For the last, a missing block depends on a missing block (`NoneLost`);
follow that along the stages and transfers and a node waits for another, for ever, which
an acyclic dataflow excludes.

`TaskDagProofs` proves that both checks of `validate_task_dag` are exact for
every DAG that is built. `KahnInv`: tasks that wait for each other are never taken off
the queue (`Peeled`), a count is the number of sources not yet taken, and the queue
holds the tasks that have none left (`Queued`), so that what is left in the end waits
for itself (`CycleKnown`). `Spread`: what the search for orphans visits is in every set
that is closed under consumers and contains the sources. `NoneDead` follows the finite
acyclic DAG down. Its second half proves the wiring: `Rewritten` (outputs of
layout nodes that were passed are rewritten, and what a name was resolved to is not)
gives `FinderIdle`; `Chained` (the map leads along chains of layout nodes) with `OneEnd`
(a chain has one end) gives `WiredRight`.

`FrontendPipelineProofs` proves five properties of the run `frontend` for every model
that `IsModel` allows, which is what onnx.checker demands of one: each tensor is assigned
once and before it is read, `Mul` has two operands and `Sin` one, and an operator that is
none of `Several` has one output. The last leaves out the mean and the deviation that a
norm may put out for training. No hypothesis about graphs is left.

* `GraphsOrdered`: `GraphsWellOrdered`. The import gives an id of its own to every node
  (`FreshId`: one of the suffixes it tries is free), lists values before nodes and an
  initialized input once (`DraftsInOrder`, `ImportComplete`). A pass either renames what
  is read (`EliminateIdentitiesKeeps`), changes the class of nodes (`ReclassifyFollows`),
  or drops nodes and puts others in the places of nodes. The last is one lemma
  (`RewriteFollows`): if each replacement has the id and the outputs of the node it stands
  for and reads what was ready at that place (`Replaces`), the graph stays in order. It is
  then a matter of each of the eighteen passes what a matcher reaches by walking along
  chains of producers, towards the inputs (`PassKeeps`).
* `ResultsStay`: `ResultsKept`, for every model and every pass. What a pattern absorbs has
  to be found from a node that reads it: each matcher starts at the node it replaces and
  goes on to producers of inputs, so that all of its nodes put out what some node reads
  (`Spent`: a node passed on the way has one output, the one it was reached by). A pass
  that drops only such nodes, whose new nodes read nothing that was not read before,
  loses no tensor that is put out and not read (`Follows`, `Unread`). The sine that a
  rotary table absorbs is reached from a sibling and may be a result: the table puts it
  out. The first pass is the exception, which is why copies are left out. In the lowering
  `CoverInv` says that the outputs of each node passed are those of a lowered node, or are
  read, or the node is an input or a constant, or something was refused.
* `LoweredOnce`: `NeverDuplicate`. `ScanInv`: each skipped Linear lies ahead of the scan
  or has been passed, and goes with one norm only, which is before it because a node
  comes after what it reads.
* `ResidualRefused`: `RefusesResidual`. `TallyInv`: the unsupported nodes are the
  residual ones among those passed.
* `TypesKept`: `TypeOK`, in particular that each pass returns a sequence of nodes.

The order has one exception, and the code makes it. `_fuse_rope_table` puts the table,
which has the cosine and the sine for outputs, where the cosine was. A node between the
two reads neither of them in an exported model, but a reader of the sine may then come
before the table if the sine was computed first. `Orderly` leaves readers of a
`ROPETable` out, and the lowering does not depend on them: a table is not a norm. That
their values are right is `MeaningKept`, on the instances. And that every tensor which is read has a producer
(`Complete`) is claimed of the imported graph only: after `_fuse_matmul_add` of a
transposed weight, or with a table's Unsqueeze that others read, it is false
(`NothingDangling`).

The passes are recursive functions over the places of a graph. What such a function
computes takes an induction, which is made by hand: that it is defined
(`RecursionExists`), from its restrictions to shorter prefixes, and then that a fact of
the empty prefix that each place hands on is one of the whole (`UpTo`).

`FrontendLegalityProofs` proves the four properties of the run `frontend_legality` for
every graph, payload, target and scenario that `CasesAssumption` allows. The invariant
says where each part stands: `CheckInv` (the issues are those of the nodes passed, so a
legal graph has none on any node), `LoweringInv` (each node lowered comes from one node
of the graph, alone or, a Linear, with its norm, under its id, and the lowering stopped
only at a group of zero or less) and `BindingInv` (the bindings are those of the first
lowered nodes). Legality and binding compute from the same node and the same payload, so
what is left is to compare their tables, operator by operator: `BoundShape` under the
two names, the opcode asked for and the macro made, the two copies of the rule for
aligned groups.

`MemoryPlanProofs` proves the five properties of the memory planner and the two of the
tile planner for every NIGIR,
scenario and set of capacities. What a sum over a list is (`Total`, `Elements`) needs an
induction; it is made by hand, from the least length for which a statement about the
partial sums would fail (`LeastNatural`, `UpTo`), once for each fact: a sum is a natural
number, is 0 without members, is bounded by the one member, and adds up over a
concatenation. `StandsAt` says what stands at each place of a node's allocations (its
inputs, its outputs, its temporaries), with bucket, region, size and binding. The
invariant `MemInv` has three parts. `ListInv`: the allocations are those of the nodes
planned, and because node ids are unique, a sum of one node's allocations over the whole
list is the sum over its own. `StorageInv`: what is referred to is registered, and each
descriptor says what its id says (`Describes`), which is why it does not matter that the
first one stays. `PeakInv`: each peak is the greatest load of the nodes and buckets
looked at (`PeakOf`), kept one bucket at a time by the three branches of the loop
(`RaisedIs`). `TilesFit` is not about the loop but about division: a tile of more than one
row was cut to rows that fit (`RowsFit`, `BytesFit`), and a matrix product stages one
activation only, since its other inputs are of other classes (`GemmInputs`).

For the tile planner `TileInv` adds that memory is planned before the first node is
passed and that what each passed node was offered is what it would be offered now
(`CandidatesStay`), and `TilesAddNothing` carries the theorems of the memory planner over
to the specification the run checks. `TopIsPlanned` and `RanksShrink` then follow from three arguments.
Rounding: bytes scaled to the base they came from are what they were, and more rows never
round to fewer bytes, though a tie may go down (`RoundedWhole`, `RoundedMonotone`); so
candidates are ordered in all regions at once by their rows (`CandidateOrder`). Lists: the
template below the base, and the rows of attention, start at the base and only descend,
and sorting by the rank key keeps that, also where 8 is listed twice (`RankedAre`).
Accounting: the only allocation in the accumulator is the one for the planned tile, so
dividing its bytes by the columns of any MXU gives as many rows as there is room for, and
by the planned columns the tile's rows (`RoomIs`, `AccumulatedAre`). The first candidate
has the rows it scales by, and claims what was allocated, unless a decode takes one row
of several (`Tops`). Of the MXU only `MxusAssumption` is used: its rows and columns are
positive, as `config.py` demands.

Model-checked only: `MeaningKept` and `PatternsRecognised`, which compare graphs by terms
or as wholes, and liveness (`Terminates`, `BuildReturns`), which is out of the prover's
reach.

## Not modelled

* ONNX: reading the protobuf, the type and shape inference of the onnx library, the
  metadata read beside the model and the import report, which only counts. Types and
  shapes are inputs (`kind`, `payload`).
* What a pass computes for later stages without deciding anything by it (head counts,
  dtypes, shapes put into attributes): an input where those stages are modelled.
* `config.py` and `models.py`: declarations of profiles and their field checks. What the
  schemas of artifacts ask is stated where the artifact is made: unique ids
  (`GraphsWellOrdered`, `NeverDuplicate`), registered bindings and positive sizes
  (`BindingsDescribe`, `MemoryPlan!TypeOK`), dependencies on earlier blocks
  (`DependenciesFirst`).
* `validate_mapping_request` of `arch.py`, which nothing calls.
* IR files and the command line, which are input and output; wording of diagnostics,
  audit references, buffer bindings, barrier names, tile notes and rationale, the split
  of a peak by class and store, which no control flow reads.

## What could come next

A refinement of `MemoryPlan` by an abstract allocation; that a pass keeps meanings, for
every graph, from the order that `GraphsOrdered` gives; the shape inference, if it should
move into the repository.
