---------------------------- MODULE MCDeployment ----------------------------
EXTENDS Deployment, TLC
CONSTANTS a, b
TwoRoutes == <<a, b>>
=============================================================================
