------------------------------- MODULE MCServices -------------------------------
(***************************************************************************)
(* Verification codes, the model registry, retraining, the training data,  *)
(* the members of a workspace and the reputation of a sender, which share  *)
(* no data, in one state graph: a behaviour is one part's while the others *)
(* rest.                                                                   *)
(*                                                                         *)
(* They are symmetric in their actors and in their rows; these are given   *)
(* the same model values, so that few permutations serve all.              *)
(***************************************************************************)
EXTENDS OtpChallenge, ModelRegistry, Retraining, Datasets, Workspace,
        SenderReputation, TLC

CONSTANTS
    Parts,        \* the parts that are checked
    Actors, Rows  \* what the symmetry permutes

VARIABLE part \* whose behaviour it is

servicesVars ==
    <<otpVars, modelVars, retrainVars, datasetVars, workspaceVars, reputationVars, part>>

ServicesInit ==
    /\ part \in Parts
    /\ OtpInit /\ ModelInit /\ RetrainInit /\ DatasetInit /\ WorkspaceInit
    /\ ReputationInit
    /\ part # "workspace" => claimed = FALSE

ServicesNext ==
    /\ UNCHANGED part
    /\ IF part = "codes" THEN OtpNext ELSE UNCHANGED otpVars
    /\ IF part = "models" THEN ModelNext ELSE UNCHANGED modelVars
    /\ IF part = "retraining" THEN RetrainNext ELSE UNCHANGED retrainVars
    /\ IF part = "datasets" THEN DatasetNext ELSE UNCHANGED datasetVars
    /\ IF part = "workspace" THEN WorkspaceNext ELSE UNCHANGED workspaceVars
    /\ IF part = "reputation" THEN ReputationNext ELSE UNCHANGED reputationVars

ServicesSpec == ServicesInit /\ [][ServicesNext]_servicesVars

Symmetry == Permutations(Actors) \cup Permutations(Rows)
=================================================================================
