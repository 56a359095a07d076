--------------------------- MODULE MC_FeatureSweep ---------------------------
(***************************************************************************)
(* Two entries, one of each task, over three price histories: one both     *)
(* entries can be compared on, one whose regression predicts nothing on a  *)
(* known outcome, and one whose classifications disagree on a label.       *)
(* Warm-ups differ (the second feature set starts a date later) and the    *)
(* outcome of the last date is not known yet.                              *)
(***************************************************************************)
EXTENDS FeatureSweep

Over(from, truth, prediction) ==
  [t \in from .. 7 |-> [truth |-> truth[t], prediction |-> prediction[t]]]

Rises == <<1, 0, 1, 1, 0, 1, Undetermined>>
Moves == <<2, -3, 4, 1, -5, 3, Undetermined>>

\* B is right on four of the five dates A is wrong on, and never the other way round.
Classifying(truthOfB) ==
  [levels |-> Over(1, Rises, <<1, 1, 0, 0, 0, 0, 1>>),
   scale_free |-> Over(2, truthOfB, <<0, 0, 1, 1, 0, 1, 0>>)]

Regressing(predictedByB) ==
  [levels |-> Over(1, Moves, <<0, 0, 0, 0, 0, 0, 0>>),
   scale_free |-> Over(2, Moves, predictedByB)]

MCDatasets ==
  [good |-> [classification |-> Classifying(Rises),
             regression |-> Regressing(<<0, -2, 3, 3, -5, 1, Missing>>)],
   gap |-> [classification |-> Classifying(Rises),
            regression |-> Regressing(<<0, -2, Missing, 1, -5, 1, 0>>)],
   torn |-> [classification |-> Classifying(<<1, 0, 1, 0, 0, 1, Undetermined>>),
             regression |-> Regressing(<<0, -2, 3, 3, -5, 1, 0>>)]]

MCEntries == <<[name |-> "elastic_net", task |-> "regression"],
               [name |-> "gradient_boosting", task |-> "classification"]>>
=============================================================================
