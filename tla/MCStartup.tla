----------------------------- MODULE MCStartup ------------------------------
EXTENDS Startup
CONSTANTS api, smtp, worker
=============================================================================
