\* A short run: two generations are enough for a rollback to meet a run.
SPECIFICATION Spec
CONSTANTS
    MaxRuns = 2
PROPERTY ServingIsReadOnly
