------------------------------ MODULE MCGateway ------------------------------
EXTENDS GatewayService, TLC

AllResults == {"answer", "badusage", "transient", "permanent", "timeout"}
GoodProviders == {"answer", "transient", "permanent", "timeout"}
==============================================================================
