----------------------------- MODULE BatchLoop -----------------------------
(***************************************************************************)
(* SplitIntoBatches run step by step: one action per loop iteration, so    *)
(* that what each iteration keeps, the sizes of the batches included, can  *)
(* be stated as an invariant; in the end the loops agree with the function.*)
(***************************************************************************)
EXTENDS UploadTests

CONSTANTS
    Inputs,     \* the lists of test sizes SplitIntoBatches is called with
    BatchSize   \* TTabascoServerConfig.batch_size

ASSUME InputsAssumption == Inputs \subseteq Seq(Nat)
ASSUME BatchSizeAssumption == BatchSize \in Nat

VARIABLES
    size,       \* size[k]: bytes of the input and the output of test k
    batchSize,  \* the parameter, raised by the first loop
    accumSize,  \* bytes in the batch being filled
    batches,
    i,          \* finished iterations of the loop pc names
    pc,         \* "raise", "split", "done"
    total       \* history: total[k + 1] is the size of tests 1..k, placed ones only

vars == <<size, batchSize, accumSize, batches, i, pc, total>>

Init ==
    /\ size \in Inputs
    /\ batchSize = BatchSize
    /\ accumSize = 0
    /\ batches = <<>>
    /\ i = 0
    /\ pc = "raise"
    /\ total = <<0>>

(* mutant: a test larger than batch_size does not raise the limit *)
RaiseNothing ==
    /\ pc = "raise" /\ i < Len(size)
    /\ i' = i + 1
    /\ UNCHANGED <<size, batchSize, accumSize, batches, pc, total>>

(* One iteration of the loop over std::max(batchSize, ...). *)
RaiseBatchSize ==
    /\ pc = "raise" /\ i < Len(size)
    /\ batchSize' = Larger(batchSize, size[i + 1])
    /\ i' = i + 1
    /\ UNCHANGED <<size, accumSize, batches, pc, total>>

(* mutant: the second loop starts with the second test *)
StartSplitFromOne ==
    /\ pc = "raise" /\ i = Len(size)
    /\ accumSize' = 0
    /\ batches' = << <<>> >>
    /\ i' = 1
    /\ pc' = "split"
    /\ UNCHANGED <<size, batchSize, total>>

StartSplit ==
    /\ pc = "raise" /\ i = Len(size)
    /\ accumSize' = 0
    /\ batches' = << <<>> >>
    /\ i' = 0
    /\ pc' = "split"
    /\ UNCHANGED <<size, batchSize, total>>

PlaceTest ==
    /\ pc = "split" /\ i < Len(size)
    /\ accumSize' = Accum(accumSize, size[i + 1], batchSize)
    /\ batches' = PutTest(batches, i + 1, Fits(accumSize, size[i + 1], batchSize))
    /\ i' = i + 1
    /\ total' = Append(total, total[i + 1] + size[i + 1])
    /\ UNCHANGED <<size, batchSize, pc>>

Return ==
    /\ pc = "split" /\ i = Len(size)
    /\ pc' = "done"
    /\ UNCHANGED <<size, batchSize, accumSize, batches, i, total>>

Next == RaiseBatchSize \/ StartSplit \/ PlaceTest \/ Return

Spec == Init /\ [][Next]_vars

----------------------------------------------------------------------------
(* Type correctness of the two loops' variables. *)
TypeOK ==
    /\ size \in Seq(Nat)
    /\ batchSize \in Nat
    /\ accumSize \in Nat
    /\ batches \in Seq(Seq(Nat))
    /\ i \in 0..Len(size)
    /\ pc \in {"raise", "split", "done"}
    /\ total \in Seq(Nat)

(* The size of a batch, from the totals up to its front() and its back(). *)
Weight(tot, batch) == tot[BackId(batch) + 1] - tot[FrontId(batch)]

(***************************************************************************)
(* After every iteration the batches hold the tests placed so far in order *)
(* and without a gap, and none of them is empty: GetTaskBatch takes        *)
(* front() and back() of a batch without looking whether it has any test.  *)
(***************************************************************************)
BatchesPartitionTests == pc # "raise" => CoversInOrder(batches, i)

(***************************************************************************)
(* No batch is larger than the raised batchSize, which is the configured   *)
(* one unless a single test is larger than that.                           *)
(***************************************************************************)
BatchesFit ==
    pc # "raise" /\ i > 0 =>
        /\ \A b \in 1..Len(batches) : Weight(total, batches[b]) <= batchSize
        /\ \/ batchSize = BatchSize
           \/ \E k \in 1..Len(size) : batchSize = size[k]

(***************************************************************************)
(* A batch is closed only by a test that no longer fits: each GetBatch     *)
(* round trip of a testing processor carries as much as the limit allows.  *)
(***************************************************************************)
BatchesMaximal ==
    pc # "raise" /\ i > 0 =>
        \A b \in 1..Len(batches) - 1 :
            Weight(total, batches[b]) + size[FrontId(batches[b + 1])] > batchSize

(***************************************************************************)
(* The loops compute SplitIntoBatches, the function the storage model      *)
(* takes its batches from.                                                 *)
(***************************************************************************)
LoopIsSplit == pc = "done" => batches = SplitIntoBatches(size, BatchSize)
=============================================================================
