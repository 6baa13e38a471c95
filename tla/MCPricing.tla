----------------------------- MODULE MCPricing ------------------------------
EXTENDS Pricing
=============================================================================
