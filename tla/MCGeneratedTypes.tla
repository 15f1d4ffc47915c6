---------------------------- MODULE MCGeneratedTypes ----------------------------
\* The generated packages have no parameters: the instance is the code.
EXTENDS GeneratedTypes
=============================================================================
