--------------------------- MODULE MCGatewayClient ---------------------------
\* Three sandboxes, and the identifiers that are also segments of routes.
EXTENDS GatewayClient

NamesInOrder == <<"s1", "s2", "s3">>
=============================================================================
