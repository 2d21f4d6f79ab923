----------------------------- MODULE MCStoreLocks -----------------------------
EXTENDS StoreLocks

CONSTANTS t1, t2, t3

ThreeThreads == {t1, t2, t3}

\* One call for every way in which two locks are nested; the writers of mu
\* and of complianceMu, and readers that overlap.
Nestings == {RetrieveEntry, AdmitV2, WriteUnderMu, SetComplianceRetention}
=============================================================================
