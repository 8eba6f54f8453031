------------------------------ MODULE BddBuild -------------------------------
(***************************************************************************)
(* create_bdd (pgbdd/bdd.c): from a Boolean expression over rvas to the    *)
(* node vector of its decision diagram.                                    *)
(*                                                                         *)
(* The recursion of bdd_build is modelled call by call.  Each call shares  *)
(* with every other the node vector and the stack of evaluation frames:    *)
(* one block of memory with a copy of the expression per depth, in which   *)
(* the rvas decided so far are overwritten by 0 or 1.  A call refills the  *)
(* frames below it before it descends, so what is stale, what is fresh and *)
(* what was never written is a matter of order, and that order is what the *)
(* actions keep.                                                           *)
(*                                                                         *)
(* The expression's text is abstracted to the order of its rvas            *)
(* (compute_rva_order sorts them and drops duplicates) and to the truth    *)
(* table the evaluator computes for it: the set of sets of true rvas that  *)
(* make it true.  A frame is abstracted to one value per rva, since        *)
(* bctx_orderi_set always writes every position of an rva at once.         *)
(***************************************************************************)
EXTENDS BddTree

CONSTANTS
  Inputs,     \* the expressions: records [order, sat]
  NodeiMax,   \* NODEI_MAX, the first index the node type cannot hold
  Unwritten   \* what a frame position holds before its first write

VARIABLES
  input,      \* the expression being built
  tree,       \* bdd_rt->core.tree
  frame,      \* bdd_rt->e_stack, one frame per depth
  stack,      \* the activation records of bdd_build, innermost last
  depth,      \* the argument of the call about to start
  ret,        \* the value returned by the call that ended last
  pc,         \* "start", "build", "return" or "done"
  bdd         \* what create_bdd returns: a serialised tree, or NoBdd

vars == <<input, tree, frame, stack, depth, ret, pc, bdd>>

NoBdd == <<>>                                 \* create_bdd returns NULL

IsRvaOrder(o) ==
  /\ o \in Seq(Rva)
  /\ \A p, q \in 1 .. Len(o) : p < q => RvaBefore(o[p], o[q])
RvasOf(o) == {o[p] : p \in 1 .. Len(o)}

ASSUME InputsAssumption ==
  \A in \in Inputs :
    in.order \in Seq(Rva) /\ IsRvaOrder(in.order) /\ in.sat \subseteq SUBSET RvasOf(in.order)

(* INT32_MAX in the code: at least the two leaves fit. *)
ASSUME NodeiMaxAssumption == NodeiMax \in Nat \ {0, 1}

ASSUME UnwrittenAssumption == Unwritten \notin {0, 1}

order == input.order
n == Len(order)                               \* bdd_rt->n
OrderRva(d) == order[d + 1]                   \* ORDER_RVA, depth is zero-based

(* The rvas a frame makes true, as bee_eval_raw reads them. *)
TrueRvas(f) == {order[p] : p \in {q \in 1 .. n : f[q] = 1}}

-----------------------------------------------------------------------------
(* _bctx_skip_samevar: the first depth after d at which another variable   *)
(* is tested.                                                              *)
NextVarDepth(d) ==
  CHOOSE e \in d + 1 .. n :
    /\ \A k \in d + 1 .. e - 1 : IsSameVar(OrderRva(k), OrderRva(d))
    /\ e < n => ~IsSameVar(OrderRva(e), OrderRva(d))

(* bctx_orderi_set(d, 0): frame d+1 becomes frame d with rva d false.      *)
SetLow(d) == [frame EXCEPT ![d + 1] = [frame[d] EXCEPT ![d + 1] = 0]]

(* Slip: the other values of the variable are skipped but not set false. *)
SetHighOnly(d) == [frame EXCEPT ![d + 1] = [frame[d] EXCEPT ![d + 1] = 1]]

(* bctx_orderi_set(d, 1) followed by _bctx_skip_samevar: rva d is true, and *)
(* each further value of the same variable is set false in turn, the frame  *)
(* of each depth copied from the one before it.                             *)
SetHigh(d) ==
  [k \in 0 .. n |->
     IF k \in d + 1 .. NextVarDepth(d)
     THEN [p \in 1 .. n |-> IF p = d + 1 THEN 1
                            ELSE IF p \in d + 2 .. k THEN 0 ELSE frame[d][p]]
     ELSE frame[k]]

(* Slip: the search starts one node too late. *)
MatchesLate(rva, low, high) ==
  {i \in Indices(tree) : /\ i > low + 1 /\ i > high + 1
                         /\ NodeAt(tree, i) = NodeRec(rva, low, high)}

(* lookup_bdd_node searches behind both children: the nodes it may find.    *)
Matches(rva, low, high) ==
  {i \in Indices(tree) : /\ i > low /\ i > high
                         /\ NodeAt(tree, i) = NodeRec(rva, low, high)}

-----------------------------------------------------------------------------
Init ==
  /\ input \in Inputs
  /\ tree = <<>>
  /\ frame = [d \in 0 .. n |-> [p \in 1 .. n |-> IF d = 0 THEN 1 ELSE Unwritten]]
  /\ stack = <<>>
  /\ depth = 0
  /\ ret = NoNode
  /\ pc = "start"
  /\ bdd = NoBdd

(* bdd_start_build up to the outermost call: the two leaves. *)
StartBuild ==
  /\ pc = "start"
  /\ tree' = <<LeafRec(0), LeafRec(1)>>
  /\ pc' = "build"
  /\ UNCHANGED <<input, frame, stack, depth, ret, bdd>>

(* bdd_build with every rva decided: bctx_eval_top reads the top frame. *)
Evaluate ==
  /\ pc = "build" /\ depth = n
  /\ ret' = IF TrueRvas(frame[depth]) \in input.sat THEN 1 ELSE 0
  /\ pc' = "return"
  /\ UNCHANGED <<input, tree, frame, stack, depth, bdd>>

(* bdd_build before its first recursive call. *)
Descend ==
  /\ pc = "build" /\ depth < n
  /\ frame' = SetLow(depth)
  /\ stack' = Append(stack, [depth |-> depth, at |-> "low", l |-> NoNode])
  /\ depth' = depth + 1
  /\ UNCHANGED <<input, tree, ret, pc, bdd>>

Top == stack[Len(stack)]
Pop == SubSeq(stack, 1, Len(stack) - 1)
Returning(at) == pc = "return" /\ stack # <<>> /\ Top.at = at

(* A recursive call returned NODEI_NONE: so does its caller. *)
Propagate ==
  /\ pc = "return" /\ stack # <<>> /\ ret = NoNode
  /\ stack' = Pop
  /\ UNCHANGED <<input, tree, frame, depth, ret, pc, bdd>>

(* Slip: the record does not remember that its first call is over. *)
LowReturnedAgain ==
  /\ Returning("low") /\ ret # NoNode
  /\ frame' = SetHigh(Top.depth)
  /\ depth' = NextVarDepth(Top.depth)
  /\ pc' = "build"
  /\ UNCHANGED <<input, tree, stack, ret, bdd>>

(* bdd_build between its two recursive calls. *)
LowReturned ==
  /\ Returning("low") /\ ret # NoNode
  /\ frame' = SetHigh(Top.depth)
  /\ stack' = Append(Pop, [Top EXCEPT !.at = "high", !.l = ret])
  /\ depth' = NextVarDepth(Top.depth)
  /\ pc' = "build"
  /\ UNCHANGED <<input, tree, ret, bdd>>

(* bdd_create_node.  The node is added before its index is compared with    *)
(* the limit, so a failure leaves it behind in the vector.                  *)
Create(rva, low, high) ==
  /\ tree' = Append(tree, NodeRec(rva, low, high))
  /\ ret' = IF Len(tree) >= NodeiMax THEN NoNode ELSE Len(tree)

(* Slips of bdd_mk: the index after the new node's is returned; the node is *)
(* added before it is known to be needed; the children change places; the  *)
(* test for equal children is missing; the limit is one too low.           *)
MkNextIndex(rva, low, high) ==
  IF low = high THEN ret' = high /\ UNCHANGED tree
  ELSE /\ tree' = Append(tree, NodeRec(rva, low, high))
       /\ ret' = IF Len(tree) >= NodeiMax THEN NoNode ELSE Len(tree) + 1

MkAddsFirst(rva, low, high) ==
  IF low = high
  THEN ret' = high /\ tree' = Append(tree, NodeRec(rva, low, high))
  ELSE Create(rva, low, high)

MkSwapped(rva, low, high) ==
  IF low = high THEN ret' = high /\ UNCHANGED tree ELSE Create(rva, high, low)

MkUntested(rva, low, high) == Create(rva, low, high)

MkShortLimit(rva, low, high) ==
  IF low = high THEN ret' = high /\ UNCHANGED tree
  ELSE IF Len(tree) + 1 >= NodeiMax THEN ret' = NoNode /\ UNCHANGED tree
  ELSE Create(rva, low, high)

(* bdd_mk. *)
Mk(rva, low, high) ==
  IF low = high THEN ret' = high /\ UNCHANGED tree
  ELSE IF Matches(rva, low, high) # {}
       THEN /\ ret' = CHOOSE i \in Matches(rva, low, high) :
                        \A j \in Matches(rva, low, high) : i <= j
            /\ UNCHANGED tree
  ELSE Create(rva, low, high)

(* bdd_build after its second recursive call. *)
HighReturned ==
  /\ Returning("high") /\ ret # NoNode
  /\ Mk(OrderRva(Top.depth), Top.l, ret)
  /\ stack' = Pop
  /\ UNCHANGED <<input, frame, depth, pc, bdd>>

(* Slip: a diagram of one inner node is taken for a constant, too. *)
FinishShort ==
  /\ pc = "return" /\ stack = <<>>
  /\ tree' = IF ret # NoNode /\ Len(tree) <= 3 THEN <<LeafRec(ret)>> ELSE tree
  /\ bdd' = IF ret = NoNode THEN NoBdd ELSE tree'
  /\ pc' = "done"
  /\ UNCHANGED <<input, frame, stack, depth, ret>>

(* bdd_start_build and create_bdd after the outermost call: a constant     *)
(* expression keeps a single leaf, an error returns NULL.                  *)
Finish ==
  /\ pc = "return" /\ stack = <<>>
  /\ tree' = IF ret # NoNode /\ Len(tree) = 2 THEN <<LeafRec(ret)>> ELSE tree
  /\ bdd' = IF ret = NoNode THEN NoBdd ELSE tree'
  /\ pc' = "done"
  /\ UNCHANGED <<input, frame, stack, depth, ret>>

Next ==
  \/ StartBuild
  \/ Evaluate
  \/ Descend
  \/ Propagate
  \/ LowReturned
  \/ HighReturned
  \/ Finish

Spec == Init /\ [][Next]_vars

(* create_bdd is one C call: nothing can stop it between two statements.   *)
FairSpec == Spec /\ WF_vars(Next)

-----------------------------------------------------------------------------
Frame == [1 .. n -> {0, 1, Unwritten}]
Record == [depth: 0 .. n - 1, at: {"low", "high"}, l: {NoNode} \cup Indices(tree)]

(* Every variable of the recursion holds a value of its C type, and every   *)
(* node index that is still to be used names a node.                        *)
TypeOK ==
  /\ IsRvaOrder(order) /\ input.sat \subseteq SUBSET RvasOf(order)
  /\ tree \in Seq(BddNode)
  /\ frame \in [0 .. n -> Frame]
  /\ stack \in Seq(Record)
  /\ depth \in 0 .. n
  /\ ret \in {NoNode} \cup Nat
  /\ pc = "return" /\ ret # NoNode => ret \in Indices(tree)
  /\ pc \in {"start", "build", "return", "done"}
  /\ bdd \in {NoBdd, tree}

(* The rvas the first k activation records have decided, as a frame: 1 for  *)
(* a record past its first call, 0 for the others and for the values that   *)
(* _bctx_skip_samevar passed over, the initial 1 from depth d on.           *)
PathFrame(k, d) ==
  [p \in 1 .. n |->
     IF p > d \/ \E j \in 1 .. k : stack[j].depth + 1 = p /\ stack[j].at = "high"
     THEN 1 ELSE 0]

(* The depth of the call that is being made, or that has just returned. *)
ChildDepth(rec) == IF rec.at = "low" THEN rec.depth + 1 ELSE NextVarDepth(rec.depth)
CallDepth == IF stack = <<>> THEN 0 ELSE ChildDepth(Top)

(* A call of bdd_build finds in its frame exactly what its callers decided, *)
(* and finds it again after its first recursive call has overwritten every  *)
(* frame below: no frame is read before it is written, or read stale.       *)
FramesIntact ==
  /\ \A k \in 1 .. Len(stack) : frame[stack[k].depth] = PathFrame(k - 1, stack[k].depth)
  /\ pc = "build" => depth = CallDepth
  /\ pc \in {"build", "return"} => frame[CallDepth] = PathFrame(Len(stack), CallDepth)

(* bdd_build has failed once a node index passed the limit of nodei. *)
Failed == pc \in {"return", "done"} /\ ret = NoNode

(* At every moment of the construction the vector is reduced and ordered,  *)
(* as the mk of the BASE algorithm must keep it for lookups to be complete. *)
AlwaysReduced == ChildrenEarlier(tree) /\ IsReduced(tree) /\ IsOrdered(tree)

(* Every node created is in use: another node points to it, or it is the   *)
(* value being returned, or a caller holds it as its low child.  Hence no   *)
(* garbage is stored and the root is the last node, which BDD_ROOT assumes. *)
NoOrphan ==
  ~Failed =>
    \A i \in Inner(tree) :
      \/ \E j \in Inner(tree) : Points(tree, j, i)
      \/ pc \in {"return", "done"} /\ ret = i
      \/ \E k \in 1 .. Len(stack) : stack[k].at = "high" /\ stack[k].l = i

(* The worlds a call at depth d has to decide, when f is its frame. *)
WorldsBelow(f, d) ==
  {w \in WorldsOver(RvasOf(order)) : \A p \in 1 .. d : f[p] = 1 <=> order[p] \in w}

Decides(i, w) == NodeValues(tree, w)[i] = IF w \in input.sat THEN 1 ELSE 0

(* The contract of bdd_build: the node a call returns has the value of the  *)
(* expression in every world that agrees with the call's frame; and the low *)
(* child a caller holds keeps that meaning while the high child is built.   *)
CallContract ==
  /\ pc = "return" /\ ret # NoNode =>
       \A w \in WorldsBelow(frame[CallDepth], CallDepth) : Decides(ret, w)
  /\ \A k \in 1 .. Len(stack) : stack[k].at = "high" =>
       \A w \in WorldsBelow(frame[stack[k].depth], stack[k].depth) :
         OrderRva(stack[k].depth) \notin w => Decides(stack[k].l, w)

(* The stored diagram ends in its root: every other node has a parent, and  *)
(* what BDD_ROOT finds is the node bdd_build returned.                      *)
RootIsLast ==
  bdd # NoBdd =>
    /\ Len(bdd) > 1 => BddRoot(bdd) = ret
    /\ \A i \in Indices(bdd) : i # BddRoot(bdd) => \E j \in Inner(bdd) : Points(bdd, j, i)

(* Two nodes of a stored diagram never denote the same Boolean function of  *)
(* the rvas (taken as independent of each other).                           *)
Canonical ==
  bdd # NoBdd =>
    \A i, j \in Indices(bdd) :
      (\A w \in SUBSET RvasOf(order) : NodeValues(bdd, w)[i] = NodeValues(bdd, w)[j]) => i = j

(* create_bdd gives up on a well-formed expression only because its diagram *)
(* has more nodes than nodei can number, and never stores one that has.     *)
FailsOnlyWhenFull ==
  pc = "done" => (bdd = NoBdd <=> Len(tree) > NodeiMax)

(* The recursion stores the vector that BddValue computes in one go, node   *)
(* for node: modules that use CreateBdd use what create_bdd returns.        *)
AtOnce == INSTANCE BddValue
AgreesWithCreateBdd == pc = "done" /\ bdd # NoBdd => bdd = AtOnce!CreateBdd(input)

(* Every construction ends. *)
Termination == <>(pc = "done")

-----------------------------------------------------------------------------
(* What create_bdd promises, without the how: BddSpec.                      *)
Answer ==
  IF pc # "done" THEN "pending"
  ELSE IF bdd = NoBdd THEN "none" ELSE "stored"

Promise == INSTANCE BddSpec WITH
             order <- order, sat <- input.sat, status <- Answer,
             meaning <- IF Answer = "stored" THEN TrueWorlds(bdd, RvasOf(order)) ELSE {}

(* create_bdd stores a diagram of the expression in one step, or none.      *)
ImplementsBddSpec == Promise!Spec
=============================================================================
