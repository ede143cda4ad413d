---------------------------- MODULE MCAzureRelay ----------------------------
\* The instances of AzureRelay that TLC checks, with every kind of request.
EXTENDS AzureRelay

MCAllRequests == RequestKinds
=============================================================================
