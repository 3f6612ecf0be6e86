------------------------------ MODULE MCPurvs ------------------------------
\* purvs on every small image.
EXTENDS Purvs, SmallImages
=============================================================================
