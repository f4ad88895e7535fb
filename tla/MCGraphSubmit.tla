---------------------------- MODULE MCGraphSubmit ----------------------------
(* Bounded instances of GraphSubmit: the plans ExecutionPlan arrives at for up
   to four batches that differ in how failures and the join can go. *)
EXTENDS GraphSubmit

Plan(preds, join) == [preds |-> preds, join |-> join]

Single == Plan(<<{}>>, FALSE)
Chain == Plan(<<{}, {1}>>, FALSE)
Joining == Plan(<<{}, {}, {1, 2}>>, TRUE)
Diamond == Plan(<<{}, {1}, {1}, {2, 3}>>, FALSE)
Branches == Plan(<<{}, {1}, {1}, {2, 3}>>, TRUE)

\* As Joining, with a step of the graph as the last batch.
Fan == Plan(<<{}, {}, {1, 2}>>, FALSE)

AllPlans == {Single, Chain, Joining, Diamond, Branches, Fan}
ParallelPlans == {Chain, Joining, Fan}
Both == BOOLEAN
=============================================================================
