--------------------------- MODULE ControlPlaneMC ---------------------------
(* Small instances of ControlPlane for TLC. *)
EXTENDS ControlPlane, TLC

\* The routes of a study and the steps before it has one, shortened to those
\* that differ in what they do.
Intake == <<"create_project", "import_materials">>
UnclassifiedSteps == Intake \o <<"evidence_normalization", "reviewer_final_confirmation">>
ChatRoute ==
  Intake \o <<"research_question_design", "research_design", "writing",
              "manuscript_citation_verification", "reviewer_final_confirmation">>
RaceRoute ==
  Intake \o <<"research_question_design", "qualitative_design", "raw_data_import",
              "reviewer_final_confirmation">>

\* The routes of the code as they are: quantitative, qualitative, computational.
Common == Intake \o <<"evidence_normalization", "hybrid_retrieval", "rrf_fusion",
  "cross_encoder_rerank", "claim_evidence_support", "research_question_design">>
Ending == <<"writing", "manuscript_citation_verification", "reviewer_final_confirmation">>
FullQuantitativeRoute == Common \o <<"research_design", "causal_DAG", "power_analysis",
  "preregistration_freeze", "raw_data_import", "data_audit", "data_processing_approval",
  "dataset_freeze_hash", "analysis_code_generation", "physics_code_validation", "code_review",
  "manual_execution_approval", "sandbox_analysis_execution", "statistical_result_validation",
  "bootstrap_robustness", "permutation_test", "result_direction_consistency",
  "uncertainty_gate", "statistical_result_card">> \o Ending
QualitativeStart == Common \o <<"qualitative_design", "raw_data_import", "data_audit",
  "data_processing_approval", "dataset_freeze_hash">>
QualitativeEnding == <<"thematic_analysis", "qualitative_validation">> \o Ending
FullQualitativeRoute == QualitativeStart \o QualitativeEnding
ComputationalRoute == QualitativeStart \o <<"analysis_code_generation", "code_review",
  "manual_execution_approval", "sandbox_analysis_execution", "pattern_code_generation",
  "pattern_smoke_execution", "pattern_stability_execution", "pattern_discovery_review",
  "codebook_review", "manual_theme_revision", "supervised_confirmation",
  "student_level_robustness", "group_comparison", "result_card_review">> \o QualitativeEnding

\* What the proofs assume of a route is true of every route of the code.
ASSUME RoutesOfTheCode ==
  \A route \in {FullQuantitativeRoute, FullQualitativeRoute, ComputationalRoute} : RouteOrder(route)

\* Threads of a kind differ in nothing but their names.
ThreadsSymmetry == Permutations(Workers) \cup Permutations(Others)
=============================================================================
