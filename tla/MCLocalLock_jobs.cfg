\* Two jobs that start whenever they like, and may be killed.
SPECIFICATION Spec
CONSTANT Processes <- MCProcesses
INVARIANT MutualExclusion
\* All jobs may be over.
CHECK_DEADLOCK FALSE
