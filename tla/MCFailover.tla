------------------------------ MODULE MCFailover ------------------------------
EXTENDS Failover

\* The primary speaks gRPC, the fallback HTTP.
TwoTiers == <<0, 1>>
TwoProtocols == <<"grpc", "http">>
=============================================================================
