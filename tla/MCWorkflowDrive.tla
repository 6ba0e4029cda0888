-------------------------- MODULE MCWorkflowDrive --------------------------
EXTENDS WorkflowDrive
=============================================================================
