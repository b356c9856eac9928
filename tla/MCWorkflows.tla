---- MODULE MCWorkflows ----
\* Requests on the workflows of two categories.
EXTENDS Workflows
TwoCategories == <<"orders", "returns">>
====
