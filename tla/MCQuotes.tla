------------------------------- MODULE MCQuotes -------------------------------
EXTENDS Quotes
=============================================================================
