SPECIFICATION TrialSpec
INVARIANTS AppliedOnce ReportTrue TargetStopped
PROPERTIES Ends
