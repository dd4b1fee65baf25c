SPECIFICATION Spec
PROPERTIES SplicesExact LoadAccounts IndexesSettle FixesHold BrokenIffLost InitAgrees ScaffoldClean OverlayIsSaved QueriesAgree StampsSettle
CHECK_DEADLOCK FALSE
