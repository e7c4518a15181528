----------------------------- MODULE MCEvaluation -----------------------------
EXTENDS EvaluationJobs, TLC
===============================================================================
