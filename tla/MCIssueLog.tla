----------------------------- MODULE MCIssueLog -----------------------------
EXTENDS IssueLog
CONSTANTS i1, i2, i3
=============================================================================
