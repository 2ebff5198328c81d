--------------------------- MODULE MCAwsLifecycle ---------------------------
\* One call fails or is killed; the drain looks twice at a task that may take its
\* time to stop; users change one row of a database.
EXTENDS AwsLifecycle
============================================================================
