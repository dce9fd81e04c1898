---------------------------- MODULE MCOrchestrator ----------------------------
EXTENDS Orchestrator, TLC

CONSTANTS cite, number, mechanism, fabricated

TwoTypes == (cite :> "citation") @@ (number :> "number")
MCType == (cite :> "citation") @@ (number :> "number") @@ (mechanism :> "mechanism")
=============================================================================
