---------------------------- MODULE ModelManager ----------------------------
(***************************************************************************)
(* modules/ml/ml-model-manager.mjs: models are registered or loaded, given *)
(* training data, trained and asked.  Weights, statistics of the data,     *)
(* latencies, the simulated losses and accuracies are left out, except that*)
(* a loss over no batch at all is not a number.                            *)
(***************************************************************************)
EXTENDS Integers, Sequences, FiniteSets, SequencesExt

CONSTANTS ModelIds, maxModels,
          Samples, TestPercents,   \* sizes of a data set, values of testSplit
          MaxInferences            \* bound

Assumption == maxModels \in Nat

VARIABLES models, trainingData, inferenceStats,
          answers,    \* history: answers of each model since it was installed
          batches     \* history: what the last batch reported, and what was counted meanwhile

vars == <<models, trainingData, inferenceStats, answers, batches>>

NoStats == [total |-> 0, successful |-> 0, failed |-> 0]
NoBatch == [successful |-> 0, failed |-> 0, counted |-> 0]

Model(status, type) == [status |-> status, type |-> type, inferenceCount |-> 0, loss |-> "none"]
Absent == Model("ABSENT", "OWN")

Init ==
  /\ models = [id \in ModelIds |-> Absent] /\ trainingData = [id \in ModelIds |-> -1]
  /\ inferenceStats = [id \in ModelIds |-> NoStats]
  /\ answers = [id \in ModelIds |-> 0] /\ batches = NoBatch

Has(id) == models[id] # Absent
Registered == {id \in ModelIds : Has(id)}

Install(id, model) ==
  /\ models' = [models EXCEPT ![id] = model]
  /\ inferenceStats' = [inferenceStats EXCEPT ![id] = NoStats]
  /\ answers' = [answers EXCEPT ![id] = 0]
  /\ UNCHANGED <<trainingData, batches>>

\* A model registered again replaces the older one, when the manager is not full.
RegisterModel(id) ==
  /\ Cardinality(Registered) < maxModels
  /\ Install(id, Model("READY", "OWN"))

\* No bound is asked for; the weights are none and every answer is 0.
LoadModel(id) == Install(id, Model("READY", "LOADED"))

LoadTrainingData(id, n, testPercent) ==
  /\ Has(id)
  /\ trainingData' = [trainingData EXCEPT ![id] = (n * (100 - testPercent)) \div 100]
  /\ UNCHANGED <<models, inferenceStats, answers, batches>>

\* Mutant of the next action: training does without data.
TrainModelBlind(id) ==
  /\ Has(id)
  /\ models' = [models EXCEPT ![id].status = "TRAINED", ![id].loss = "number"]
  /\ UNCHANGED <<trainingData, inferenceStats, answers, batches>>

\* An empty part for training makes 0 / 0 of the loss, and the model is trained all the same.
TrainModel(id) ==
  /\ Has(id) /\ trainingData[id] # -1
  /\ models' = [models EXCEPT ![id].status = "TRAINED",
                              ![id].loss = IF trainingData[id] = 0 THEN "NaN" ELSE "number"]
  /\ UNCHANGED <<trainingData, inferenceStats, answers, batches>>

\* Mutant of the next operator: a failure is an inference too, and counted with them.
CountedAll(stats, valid) ==
  IF valid THEN [stats EXCEPT !.total = @ + 1, !.successful = @ + 1]
           ELSE [stats EXCEPT !.total = @ + 1, !.failed = @ + 1]

\* total counts answers only: a failed inference leaves it as it was.
Counted(stats, valid) ==
  IF valid THEN [stats EXCEPT !.total = @ + 1, !.successful = @ + 1]
           ELSE [stats EXCEPT !.failed = @ + 1]

Room(id, n) == inferenceStats[id].successful + inferenceStats[id].failed + n <= MaxInferences
Valid(inputs) == Cardinality({i \in DOMAIN inputs : inputs[i]})

\* inference() for each of the inputs; one is valid if it is an array.
Infer(id, inputs) ==
  /\ Has(id) /\ Room(id, Len(inputs))
  /\ inferenceStats' = [inferenceStats EXCEPT ![id] = FoldLeft(Counted, @, inputs)]
  /\ models' = [models EXCEPT ![id].inferenceCount = @ + Valid(inputs)]
  /\ answers' = [answers EXCEPT ![id] = @ + Valid(inputs)]

Inference(id, valid) == Infer(id, <<valid>>) /\ UNCHANGED <<trainingData, batches>>

\* Every item of a batch for a model that is not there fails, and nobody counts it.
BatchInference(id, inputs) ==
  \/ /\ Infer(id, inputs)
     /\ batches' = [successful |-> Valid(inputs), failed |-> Len(inputs) - Valid(inputs),
                    counted |-> Len(inputs)]
     /\ UNCHANGED trainingData
  \/ /\ ~Has(id) /\ batches' = [successful |-> 0, failed |-> Len(inputs), counted |-> 0]
     /\ UNCHANGED <<models, trainingData, inferenceStats, answers>>

Next ==
  \E id \in ModelIds :
    \/ RegisterModel(id) \/ LoadModel(id) \/ TrainModel(id)
    \/ \E n \in Samples, testPercent \in TestPercents : LoadTrainingData(id, n, testPercent)
    \/ \E valid \in BOOLEAN : Inference(id, valid)
    \/ \E first, second \in BOOLEAN : BatchInference(id, <<first, second>>)

Spec == Init /\ [][Next]_vars

\* What is told of a model, and of all of them.  Failures are outside of the total that
\* the rate is a percentage of.
SuccessRate(stats) == IF stats.total > 0 THEN (100 * stats.successful) \div stats.total ELSE 0
GetModelMetrics(id) ==
  [status |-> models[id].status, totalInferences |-> models[id].inferenceCount,
   inferenceStats |-> inferenceStats[id], successRate |-> SuccessRate(inferenceStats[id])]
ListModels == [id \in Registered |-> [type |-> models[id].type, status |-> models[id].status]]
SaveModel(id) == [id |-> id, model |-> models[id]]

\* The weighted sum of an input of ones: of as many random weights as there are layers,
\* or of none.
InitializeWeights(id) == IF models[id].type = "LOADED" THEN 0 ELSE 10
ComputeInference(id) == IF InitializeWeights(id) = 0 THEN "zero" ELSE "a sum"

SumOver(field) == FoldFunction(+, 0, [id \in ModelIds |-> inferenceStats[id][field]])
Statistics ==
  LET all == [total |-> SumOver("total"), successful |-> SumOver("successful"),
              failed |-> SumOver("failed")]
  IN [totalModels |-> Cardinality(DOMAIN ListModels), inferences |-> all, successRate |-> SuccessRate(all),
      trainedModels |-> Cardinality({id \in Registered : models[id].status = "TRAINED"})]

----------------------------------------------------------------------------
TypeOK ==
  /\ models \in [ModelIds ->
       [status : {"ABSENT", "READY", "TRAINED"}, type : {"OWN", "LOADED"},
        inferenceCount : 0..MaxInferences, loss : {"none", "NaN", "number"}]]
  /\ trainingData \in [ModelIds -> Nat \cup {-1}]
  /\ inferenceStats \in [ModelIds -> [total : Nat, successful : Nat, failed : Nat]]

\* Whatever is registered over, loaded over or refused in between: the statistics of a
\* model are those of its present installation and agree with its own count, failures
\* are outside the total, so that a success rate is 0 or 100 whatever fails; a trained
\* model has data, a loaded one answers 0, and the bound counts every model not loaded.
ModelsAreAccounted ==
  /\ \A id \in Registered :
       /\ inferenceStats[id].total = answers[id]
       /\ inferenceStats[id].successful = models[id].inferenceCount
       /\ models[id].inferenceCount = answers[id]
       /\ models[id].status = "TRAINED" => trainingData[id] # -1 /\ models[id].loss # "none"
  /\ Cardinality({id \in Registered : models[id].type = "OWN"}) <= maxModels
  /\ \A id \in Registered :
       LET told == GetModelMetrics(id)
       IN /\ told.successRate = (IF told.totalInferences > 0 THEN 100 ELSE 0)
          /\ SaveModel(id).model.inferenceCount = told.totalInferences
          /\ ListModels[id].type = "LOADED" <=> ComputeInference(id) = "zero"
  /\ Statistics.inferences.total = SumOver("successful")
  /\ Statistics.successRate \in {0, 100} /\ Statistics.trainedModels <= Statistics.totalModels
  /\ batches.counted \in {0, batches.successful + batches.failed}
=============================================================================
