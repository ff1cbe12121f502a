------------------------------- MODULE MCHarness -------------------------------
(* A metric and a report in scope; one thread serves questions, both serve *)
(* the continuations of their tokens.                                      *)
EXTENDS Harness

CONSTANTS metric, report

MCExecuteTool == [x \in {metric, report} |->
                    IF x = metric THEN "execute_metric" ELSE "execute_report"]
MCModelTools == {"search_assets", "execute_metric", "explore_fields", "save_personal_asset"}
================================================================================
